--------------------------- MODULE WriteEnforcement --------------------------
(***************************************************************************)
(* runtime/src/write_enforcement.rs, solver_validation.rs and              *)
(* explain_rejection.rs: the constraint check around the runtime's writes. *)
(* The operation has run on a copy; the facts of the resulting snapshot    *)
(* are replayed on a fresh solver session, and a refusal throws the copy   *)
(* away.                                                                   *)
(*                                                                         *)
(* A snapshot has ccm_ref, model (the package it was compiled from),       *)
(* handles (path to bound facet or None), choices, baseline, and the two   *)
(* overlays, functions on the paths they hold.  disk is what ccm_ref names *)
(* now: "model", "unloadable", or "missing", which loads as the stub of no *)
(* parts.  Values that are not strings, and paths of several scope roots,  *)
(* are left out.                                                           *)
(***************************************************************************)
EXTENDS UnsatAttribution, SolverExplain

Empty == <<>>
Stub == [parts |-> <<>>]
load_ccm(s, disk) == IF disk = "missing" THEN Stub ELSE s.ccm_ref

\* The symbol table is there for a model of one cluster only.
has_symbols(ccm) == Len(ccm.parts) = 1 /\ ~ccm.parts[1].bridge
facet_present(ccm, facet) == has_symbols(ccm) /\ has_facet(ccm.parts[1], facet)
ccm_usable_for_open(ccm) == has_symbols(ccm)
ccm_bound_to_model(ccm, model) == ccm.package = model
unknown_facet_domain_symbol(domains, ccm) ==
    {<<f, v>> \in (DOMAIN domains) \X UNION {domains[g] : g \in DOMAIN domains} :
        v \in domains[f] /\ <<f, v>> \notin ToSet(ccm.parts[1].order)}

-----------------------------------------------------------------------------
(* ---------------------- The session's assignment ----------------------- *)

bound_facet(s, p) == s.handles[p]

bound_paths(s, values) == {p \in DOMAIN values : bound_facet(s, p) # None}
tier_from_pairs(s, values) ==
    [f \in {bound_facet(s, p) : p \in bound_paths(s, values)} |->
        values[CHOOSE p \in DOMAIN values : bound_facet(s, p) = f]]
\* Two handles of one facet that disagree within a tier.
divergent(s, values) ==
    \E p, q \in bound_paths(s, values) : bound_facet(s, p) = bound_facet(s, q) /\ values[p] # values[q]
DivergentBinding(s) ==
    \E values \in {s.dirty_overlay, s.committed_overlay, s.baseline} : divergent(s, values)

\* The first tier that knows a facet decides it; facets the model does not
\* carry are dropped.
session_assignment(s, ccm) ==
    LET all == tier_from_pairs(s, s.dirty_overlay) @@ tier_from_pairs(s, s.committed_overlay)
               @@ s.choices @@ tier_from_pairs(s, s.baseline)
    IN  [f \in {g \in DOMAIN all : facet_present(ccm, g)} |-> all[f]]

-----------------------------------------------------------------------------
(* ------------------------------ The check ------------------------------ *)

Accepted == "accepted"

facet_order(facets) == SetToSortSeq(facets, LAMBDA f, g : rank(f) < rank(g))

\* The replay of what the operation did not write.  A fact the model lacks is
\* passed over; a conflict ends the replay: the state itself is contradictory.
replay_others_past_conflict(session, assignment, facets) ==
    LET step(acc, f) == [acc EXCEPT !.session = apply(acc.session, <<f, assignment[f]>>).session]
    IN  FoldLeft(step, [verdict |-> Accepted, session |-> session, at |-> None], facet_order(facets))
replay_others(session, assignment, facets) ==
    LET step(acc, f) ==
            LET r == apply(acc.session, <<f, assignment[f]>>)
            IN  CASE acc.verdict # Accepted -> acc
                  [] r.status = "Ok" -> [acc EXCEPT !.session = r.session]
                  [] r.status \in {"UnknownFacet", "UnknownOption"} -> acc
                  [] r.status = "Conflict" -> [acc EXCEPT !.verdict = "pre_existing_conflict", !.at = f]
                  [] OTHER -> [acc EXCEPT !.verdict = "solver_fault", !.at = f]
    IN  FoldLeft(step, [verdict |-> Accepted, session |-> session, at |-> None], facet_order(facets))

\* The operation's own facets, in path order.
replay_written(start, assignment, facets) ==
    LET step(acc, f) ==
            LET r == apply(acc.session, <<f, assignment[f]>>)
                refuse(why) == [acc EXCEPT !.verdict = why, !.at = f]
            IN  CASE acc.verdict # Accepted -> acc
                  [] r.status = "Conflict" -> refuse("write_conflict")
                  [] r.status = "UnknownOption" -> refuse("E_SELECTION_INVALID_OPTION")
                  [] r.status = "UnknownFacet" -> refuse("E_SELECTION_UNKNOWN_FACET")
                  [] r.status # "Ok" -> refuse("solver_fault")
                  [] valid_options(r.session, f).options = <<>> -> refuse("E_SELECTION_UNSATISFIABLE")
                  [] OTHER -> [acc EXCEPT !.session = r.session]
    IN  FoldLeft(step, start, facets)

enforce_write_constraints(s, written_paths, disk) ==
    LET written == SetToSortSeq({p \in written_paths : bound_facet(s, p) # None}, LAMBDA p, q : p < q)
        ccm == load_ccm(s, disk)
        mine == SelectSeq([i \in DOMAIN written |-> bound_facet(s, written[i])],
                          LAMBDA f : facet_present(ccm, f))
        assignment == session_assignment(s, ccm)
        others == replay_others(NewSession(ccm), assignment, DOMAIN assignment \ ToSet(mine))
        verdict(why) == [verdict |-> why, session |-> NewSession(ccm), at |-> None]
    IN  CASE disk = "unloadable" -> verdict(IF written = <<>> THEN Accepted ELSE "solver_fault")
          [] written_paths # {} /\ mine = <<>> -> verdict(Accepted)
          [] DivergentBinding(s) -> verdict("divergent_binding")
          [] assignment = Empty -> verdict(Accepted)
          [] OTHER -> replay_written(others, assignment, mine)

-----------------------------------------------------------------------------
(* --------------------------- What is reported -------------------------- *)

labeled_core_to_unsat_core(s, ccm, at, core) ==
    attribute_core_clauses(core, at, ccm.package.constraints, s.closed_facet_domains)

\* The core of a refusal; a solver that has none leaves the refusal standing.
explain_core(s, session, at) ==
    LET r == explain_rejection(session, at)
    IN  IF r.status = "Ok" /\ r.would_reject
        THEN labeled_core_to_unsat_core(s, session.ccm, at, r.core) ELSE {}
named_constraint(core) == {c.constraint_id : c \in core} \ {None}
core_facets(at, core) == {at[1]} \cup {x[1] : x \in UNION {c.facets : c \in core}}

ConstraintRejection(s, v) ==
    LET at == <<v.at, session_assignment(s, v.session.ccm)[v.at]>>
        core == explain_core(s, v.session, at)
    IN  IF v.verdict \in {"write_conflict", "pre_existing_conflict"}
        THEN [rejected |-> at, constraints |-> named_constraint(core), core_facets |-> core_facets(at, core)]
        ELSE [rejected |-> None, constraints |-> {}, core_facets |-> {}]

\* The paths of a batch whose facets the core names, or all of them.
rejected_paths(s, paths, rejection) ==
    LET participating == {p \in paths : bound_facet(s, p) \in rejection.core_facets}
    IN  IF participating = {} THEN paths ELSE participating

\* explain_rejection_via_solver: the same facts, the refused ones passed over.
explain_rejection_of_choices(s, p, value, disk) ==
    LET others == {f \in DOMAIN s.choices : facet_present(s.ccm_ref, f) /\ f # bound_facet(s, p)}
        step(session, f) == apply(session, <<f, s.choices[f]>>).session
    IN  explain_rejection(FoldLeft(step, NewSession(s.ccm_ref), facet_order(others)),
                          <<bound_facet(s, p), value>>)
explain_rejection_via_solver(s, p, value, disk) ==
    LET facet == bound_facet(s, p)
        ccm == load_ccm(s, disk)
        assignment == session_assignment(s, ccm)
        step(session, f) == apply(session, <<f, assignment[f]>>).session
        known == FoldLeft(step, NewSession(ccm), facet_order(DOMAIN assignment \ {facet}))
    IN  CASE facet = None -> [status |-> "UnknownFacet"]
          [] disk = "unloadable" -> [status |-> "Divergence"]
          [] ~facet_present(ccm, facet) -> [status |-> "UnknownFacet"]
          [] DivergentBinding(s) -> [status |-> "Divergence"]
          [] OTHER -> explain_rejection(known, <<facet, value>>)
=============================================================================
