----------------------------- MODULE SolverCore -----------------------------
(***************************************************************************)
(* The operations of a solver session over a loaded constraint model       *)
(* (solver/src/session.rs, partition_session.rs, resolve.rs): one current  *)
(* formula per partition, an undo stack shared by the partitions, and the  *)
(* committed selections that explain.rs pins.  A formula is the set of its *)
(* satisfying assignments (the sets of their true <<facet, value>>         *)
(* variables), which is what a reduced diagram denotes.                    *)
(*                                                                         *)
(* A model ccm has parts, a sequence of [bridge, order, root]: clusters in *)
(* emission order, then the bridge if there is one.  No parts at all is    *)
(* the empty stub that load_from_cmp returns for a path that does not      *)
(* exist.                                                                  *)
(***************************************************************************)
EXTENDS Naturals, Sequences, FiniteSets, SequencesExt

is_empty_ccm(ccm) == ccm.parts = <<>>

\* from_partition seeds each formula with the partition's root; the empty
\* stub gets one trivial partition that holds the constant true.
NewSession(ccm) ==
    [ccm |-> ccm,
     current |-> IF is_empty_ccm(ccm) THEN <<{{}}>> ELSE [i \in DOMAIN ccm.parts |-> ccm.parts[i].root],
     undo |-> <<>>,
     committed |-> <<>>]

\* is_var_sat_under and apply_and: the assignments of f that set x.
apply_and(f, x) == {a \in f : x \in a}
is_false(f) == f = {}

owns(part, x) == x \in ToSet(part.order)
has_facet(part, facet) == \E x \in ToSet(part.order) : x[1] = facet

\* The surviving values of a facet in one partition, in symbol-table order.
valid_options_for(part, f, facet) ==
    LET live == SelectSeq(part.order, LAMBDA x : x[1] = facet /\ ~is_false(apply_and(f, x)))
    IN  [i \in DOMAIN live |-> live[i][2]]

intersect_preserving_order(first, next) == SelectSeq(first, LAMBDA v : v \in ToSet(next))

\* The intersection over the partitions that know the facet.
valid_options(s, facet) ==
    LET parts == s.ccm.parts
        having == SelectSeq([i \in DOMAIN parts |-> i], LAMBDA i : has_facet(parts[i], facet))
        contrib(i) == valid_options_for(parts[i], s.current[i], facet)
    IN  CASE is_empty_ccm(s.ccm) -> [status |-> "Ok", options |-> <<>>]
          [] having = <<>> -> [status |-> "UnknownFacet"]
          [] OTHER -> [status |-> "Ok",
                       options |-> FoldLeft(LAMBDA acc, i : intersect_preserving_order(acc, contrib(i)),
                                            contrib(having[1]), Tail(having))]

\* The partitions that own a symbol, in partition order.
touched(ccm, x) ==
    SelectSeq([i \in DOMAIN ccm.parts |-> i], LAMBDA i : owns(ccm.parts[i], x))
cluster_owners(ccm, x) ==
    {i \in DOMAIN ccm.parts : owns(ccm.parts[i], x) /\ ~ccm.parts[i].bridge}

\* Every touched partition is staged before any is committed: one that
\* becomes false leaves the session as it was.
has_conflict_in_bridge(staged, ccm) == \E i \in DOMAIN staged : ccm.parts[i].bridge /\ is_false(staged[i])
has_conflict(staged, ccm) == \E i \in DOMAIN staged : is_false(staged[i])

apply(s, x) ==
    LET on == touched(s.ccm, x)
        staged == [i \in ToSet(on) |-> apply_and(s.current[i], x)]
        refused(why) == [status |-> why, session |-> s]
    IN  CASE is_empty_ccm(s.ccm) -> refused("Ok")
          [] on = <<>> -> refused("UnknownOption")
          [] Cardinality(cluster_owners(s.ccm, x)) > 1 -> refused("Invariant")
          [] has_conflict(staged, s.ccm) -> refused("Conflict")
          [] OTHER ->
               [status |-> "Ok",
                session |->
                  [ccm |-> s.ccm,
                   current |-> [i \in DOMAIN s.current |->
                                   IF i \in ToSet(on) THEN staged[i] ELSE s.current[i]],
                   undo |-> s.undo \o [k \in DOMAIN on |-> [part |-> on[k], prior |-> s.current[on[k]]]],
                   committed |-> Append(s.committed, [compound |-> x, undo_entries |-> Len(on)])]]

retract_to_root(s) ==
    IF s.undo = <<>> THEN s
    ELSE LET entry == Last(s.undo)
         IN  [s EXCEPT !.current[entry.part] = s.ccm.parts[entry.part].root, !.undo = Front(@),
                       !.committed = Front(@)]

\* One undo entry is popped: one partition is restored, and the last
\* selection is dropped when its last partition is.
retract(s) ==
    IF s.undo = <<>> THEN s
    ELSE LET entry == Last(s.undo)
             top == Last(s.committed)
         IN  [ccm |-> s.ccm,
              current |-> [s.current EXCEPT ![entry.part] = entry.prior],
              undo |-> Front(s.undo),
              committed |-> IF s.committed = <<>> THEN <<>>
                            ELSE IF top.undo_entries <= 1 THEN Front(s.committed)
                            ELSE Append(Front(s.committed),
                                        [compound |-> top.compound, undo_entries |-> top.undo_entries - 1])]

pinned_symbols(s) == {s.committed[i].compound : i \in DOMAIN s.committed}

\* state_hash digests the model and the number of undo entries per partition.
state_hash(s) == [i \in DOMAIN s.ccm.parts |->
                     Cardinality({k \in DOMAIN s.undo : s.undo[k].part = i})]

\* resolve: each facet takes its first valid option, on its own.
resolve(s) ==
    LET facets == {x[1] : x \in UNION {ToSet(p.order) : p \in ToSet(s.ccm.parts)}}
        live(f) == valid_options(s, f).options
    IN  IF \E i \in DOMAIN s.current : is_false(s.current[i])
        THEN [satisfiable |-> FALSE, resolved_output |-> <<>>]
        ELSE [satisfiable |-> TRUE,
              resolved_output |-> [f \in {g \in facets : live(g) # <<>>} |-> Head(live(f))]]
=============================================================================
