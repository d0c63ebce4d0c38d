--------------------------- MODULE SessionCompose ---------------------------
(***************************************************************************)
(* session_compose/src/lib.rs: each selection operation as the loader's    *)
(* engine and the solver together answer it.  The loader screens and words *)
(* the answer, the solver decides; a model the solver cannot use makes the *)
(* operation fail instead of falling back.                                 *)
(*                                                                         *)
(* handle.ccm is [kind]: "none", "unloadable", or "loaded" with the model  *)
(* in ccm.                                                                 *)
(***************************************************************************)
EXTENDS LoaderSelection, UnsatAttribution, SolverExplain

\* The symbol table is there for a model of one cluster only.
has_symbols(ccm) == Len(ccm.parts) = 1 /\ ~ccm.parts[1].bridge
facet_present(s, facet) == has_symbols(s.ccm) /\ has_facet(s.ccm.parts[1], facet)

\* The assignments in replay order: tags, then choices, each by facet name.
in_map_order(f) ==
    LET ns == SetToSortSeq(DOMAIN f, LAMBDA a, b : rank(a) < rank(b))
    IN  [i \in DOMAIN ns |-> <<ns[i], f[ns[i]]>>]

replay_choices_only(st) == in_map_order(st.choices)
replay_order(st) == in_map_order(st.context_tags) \o in_map_order(st.choices)

\* apply_environment: the first refused assignment is remembered and the
\* replay goes on; a value the model lacks is skew on a closed facet and
\* passed over on an open one.  An Invariant error is a fault.
replayed(acc, x, r, closed) ==
    CASE r.status = "Ok" -> [acc EXCEPT !.session = r.session]
      [] r.status = "Conflict" ->
            IF acc.outcome = "Accepted" THEN [acc EXCEPT !.outcome = "Rejected", !.at = x] ELSE acc
      [] r.status = "UnknownOption" ->
            IF x[1] \in DOMAIN closed THEN [acc EXCEPT !.outcome = "Skew", !.at = x] ELSE acc
      [] r.status = "UnknownFacet" -> [acc EXCEPT !.outcome = "Skew", !.at = x]
      [] OTHER -> [acc EXCEPT !.outcome = "Fault", !.at = x]
apply_environment(s, st, closed) ==
    LET step(acc, x) ==
            IF acc.outcome \in {"Skew", "Fault"} \/ ~facet_present(s, x[1]) THEN acc
            ELSE replayed(acc, x, apply(acc.session, x), closed)
    IN  FoldLeft(step, [session |-> s, outcome |-> "Accepted", at |-> <<None, None>>],
                 replay_order(st))

\* session_from_handle and model_from_replay: replay.outcome is Accepted or
\* Rejected (usable), Skew, or Unavailable.
Unavailable == [outcome |-> "Unavailable"]
model_from_replay(replay) == IF replay.outcome = "Fault" THEN Unavailable ELSE replay
session_from_handle(h, st, closed) ==
    IF h.ccm.kind # "loaded" \/ ~has_symbols(h.ccm.ccm) THEN Unavailable
    ELSE model_from_replay(apply_environment(NewSession(h.ccm.ccm), st, closed))

\* The requests the loader answers alone.
screened_out(rq) ==
    \/ rq.schema # PRODUCT_SCHEMA_VERSION
    \/ ~selection_state_is_valid(rq.handle, rq.scope, rq.state)
    \/ ~selection_state_is_admissible(rq.handle, rq.state)

\* The loader's own refusal where it has one, else the solver's conflict.
legacy_or_conflict(legacy) == IF legacy.status = "Error" THEN legacy ELSE refused("E_SELECTION_CONFLICT")

-----------------------------------------------------------------------------
(* ------------------------------ Operations ----------------------------- *)

options_of_loader(rq, facet) == get_selection_options(rq, facet)
solved_options(legacy, solved) ==
    CASE solved.status # "Ok" -> refused("E_SELECTION_ENGINE_DIVERGENCE")
      [] legacy.status = "Error" -> legacy
      [] OTHER -> Ok([valid_options |-> ToSet(solved.options),
                      pruned_options |-> legacy.pruned_options \ ToSet(solved.options)])
compose_options(legacy, alone, replay, facet) ==
    CASE alone -> legacy
      [] replay.outcome = "Unavailable" -> refused("E_SELECTION_SOLVER_MODEL_UNAVAILABLE")
      [] replay.outcome = "Skew" -> refused("E_SELECTION_ENGINE_DIVERGENCE")
      [] replay.outcome = "Rejected" -> legacy_or_conflict(legacy)
      [] ~facet_present(replay.session, facet) -> legacy
      [] OTHER -> solved_options(legacy, valid_options(replay.session, facet))
options(rq, facet) ==
    compose_options(get_selection_options(rq, facet), screened_out(rq) \/ facet = Blank,
                    session_from_handle(rq.handle, rq.state, closed_facet_domains(rq.handle)), facet)

\* apply on a facet that is already a tag or a choice is the loader's alone.
solved_delta(st, x, legacy, solved) ==
    CASE solved.status = "Ok" ->
            Ok([selection_state |-> canonical_selection_state(st.model_hash, st.scope, st.context_tags,
                                                              insert(st.choices, x[1], x[2]))])
      [] solved.status \in {"Conflict", "UnknownOption", "UnknownFacet"} -> legacy_or_conflict(legacy)
      [] OTHER -> refused("E_SELECTION_ENGINE_DIVERGENCE")
compose_delta(st, x, legacy, alone, replay) ==
    CASE alone -> legacy
      [] replay.outcome = "Unavailable" -> refused("E_SELECTION_SOLVER_MODEL_UNAVAILABLE")
      [] replay.outcome = "Skew" -> refused("E_SELECTION_ENGINE_DIVERGENCE")
      [] replay.outcome = "Rejected" -> legacy_or_conflict(legacy)
      [] ~facet_present(replay.session, x[1]) -> legacy
      [] OTHER -> solved_delta(st, x, legacy, apply(replay.session, x))
apply_delta(rq, facet, option) ==
    compose_delta(rq.state, <<facet, option>>, apply_selection(rq, facet, option),
                  \/ screened_out(rq) \/ facet = Blank \/ option = Blank
                  \/ facet \in DOMAIN rq.state.context_tags \cup DOMAIN rq.state.choices,
                  session_from_handle(rq.handle, rq.state, closed_facet_domains(rq.handle)))

\* A facet with one option left, which is a declared one, is forced to it.
first_left(live, domain) == live[1] \in domain
only_left(live, domain) == Len(live) = 1 /\ live[1] \in domain

\* One pass over the closed facets in name order, binding each facet that has
\* one declared option left.
bind_forced(a, x, next) ==
    IF next.status # "Ok" THEN [a EXCEPT !.gave_up = TRUE]
    ELSE [session |-> next.session, gave_up |-> FALSE, implied |-> insert(a.implied, x[1], x[2])]
try_facet(a, facet, live, domain) ==
    CASE live.status # "Ok" \/ live.options = <<>> -> [a EXCEPT !.gave_up = TRUE]
      [] ~only_left(live.options, domain) -> a
      [] OTHER -> bind_forced(a, <<facet, live.options[1]>>, apply(a.session, <<facet, live.options[1]>>))
infer_round(acc, roster, closed, assigned) ==
    LET step(a, facet) ==
            IF a.gave_up \/ facet \in assigned \cup DOMAIN a.implied THEN a
            ELSE try_facet(a, facet, valid_options(a.session, facet), closed[facet])
    IN  FoldLeft(step, acc, roster)

\* Passes until one adds nothing: next is the pass after acc.
RECURSIVE infer_rounds(_, _, _, _, _)
infer_rounds(acc, next, roster, closed, assigned) ==
    CASE next.gave_up -> <<>>
      [] next.implied = acc.implied -> acc.implied
      [] OTHER -> infer_rounds(next, infer_round(next, roster, closed, assigned), roster, closed, assigned)

\* The choices that the selection forces, in the order roster names facets;
\* none when the replay or a solver call fails.
infer_from(acc, roster, closed, assigned) ==
    infer_rounds(acc, infer_round(acc, roster, closed, assigned), roster, closed, assigned)
infer_after(replay, roster, closed, assigned) ==
    IF replay.outcome # "Accepted" THEN <<>>
    ELSE infer_from([session |-> replay.session, gave_up |-> FALSE, implied |-> <<>>],
                    SelectSeq(roster, LAMBDA n : facet_present(replay.session, n)), closed, assigned)
infer_in_order(h, st, closed, roster) ==
    IF DOMAIN closed = {} \/ ~has_symbols(h.ccm.ccm) THEN <<>>
    ELSE infer_after(apply_environment(NewSession(h.ccm.ccm), st, closed), roster, closed,
                     DOMAIN st.context_tags \cup DOMAIN st.choices)
infer_forced_bindings(h, st, closed) ==
    infer_in_order(h, st, closed, SetToSortSeq(DOMAIN closed, LAMBDA a, b : rank(a) < rank(b)))

\* assert_unsatisfiable: an unbound facet is reworded as the conflict.
assert_unsatisfiable(r) ==
    IF r.status = "Ok" THEN refused("E_SELECTION_CONFLICT")
    ELSE Error({IF c = "E_RESOLVE_FACET_UNBOUND" THEN "E_SELECTION_CONFLICT" ELSE c : c \in r.codes})

compose_resolve(gate, composed) ==
    CASE gate.outcome \in {"Unavailable", "Skew"} -> refused("E_RESOLVE_SOLVER_MODEL_UNAVAILABLE")
      [] gate.outcome = "Accepted" -> composed
      [] OTHER -> assert_unsatisfiable(composed)
resolve_gated(rq, closed) ==
    compose_resolve(session_from_handle(rq.handle, rq.state, closed),
                    resolve_from_selection(rq, infer_forced_bindings(rq.handle, rq.state, closed)))
resolve_request(rq) ==
    IF screened_out(rq) THEN resolve_from_selection(rq, <<>>)
    ELSE resolve_gated(rq, closed_facet_domains(rq.handle))

\* The session explain asks: the selection replayed.
explained_unreplayed(rq, closed) ==
    session_from_handle(rq.handle, [rq.state EXCEPT !.context_tags = <<>>, !.choices = <<>>], closed)
explained_session(rq, closed) == session_from_handle(rq.handle, rq.state, closed)

\* explain answers Ok with a reason: a core when the solver refuses the
\* option, the loader's own reading otherwise.
explained(rq, x, legacy, closed, verdict) ==
    CASE verdict.status = "Ok" /\ verdict.would_reject ->
            Ok([would_reject |-> TRUE, clauses |-> verdict.core,
                unsat_core |-> attribute_core_clauses(verdict.core, x, rq.handle.ccm.ccm.roster, closed)])
      [] verdict.status \in {"Ok", "UnknownOption", "UnknownFacet"} ->
            Ok([would_reject |-> FALSE, reason |-> legacy.codes])
      [] OTHER -> refused("E_SELECTION_ENGINE_DIVERGENCE")
compose_explain(rq, x, legacy, closed, replay) ==
    CASE replay.outcome = "Unavailable" -> refused("E_SELECTION_SOLVER_MODEL_UNAVAILABLE")
      [] replay.outcome = "Skew" -> refused("E_SELECTION_ENGINE_DIVERGENCE")
      [] replay.outcome = "Rejected" -> refused("E_SELECTION_CONFLICT")
      [] OTHER -> explained(rq, x, legacy, closed, explain_rejection(replay.session, x))
explain_screened(rq, x, legacy, closed) ==
    compose_explain(rq, x, legacy, closed, explained_session(rq, closed))
explain(rq, facet, option) ==
    IF screened_out(rq) THEN explain_selection(rq, facet, option)
    ELSE explain_screened(rq, <<facet, option>>, explain_selection(rq, facet, option),
                          closed_facet_domains(rq.handle))
=============================================================================
