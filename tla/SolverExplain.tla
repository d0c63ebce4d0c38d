---------------------------- MODULE SolverExplain ----------------------------
(***************************************************************************)
(* Session::explain_rejection (solver/src/explain.rs): the composite       *)
(* formula as clauses, one per path of each partition's diagram to false,  *)
(* plus a unit clause per committed selection; a minimal unsatisfiable     *)
(* subset by deletion; and the labelled core.                              *)
(***************************************************************************)
EXTENDS SolverCore, FiniteSetsExt

\* A literal is <<symbol, positive>>, a clause a set of literals.
\* walk_node on the reduced diagram of f over order: a variable on which f
\* does not depend has no node.  Each path to false becomes the clause that
\* forbids it, the false branch first.
MAX_FALSIFYING_PATHS_PER_PARTITION == 100000

RECURSIVE walk_node(_, _, _)
walk_node(f, order, path) ==
    IF is_false(f) THEN <<path>>
    ELSE IF order = <<>> \/ f = SUBSET ToSet(order) THEN <<>>
    ELSE LET v == Head(order)
             low == {a \in f : v \notin a}
             high == {a \ {v} : a \in {b \in f : v \in b}}
         IN  IF low = high THEN walk_node(low, Tail(order), path)
             ELSE walk_node(low, Tail(order), path \cup {<<v, TRUE>>})
                  \o walk_node(high, Tail(order), path \cup {<<v, FALSE>>})

enumerate_falsifying_clauses(part) == walk_node(part.root, part.order, {})

\* serialize_composite_cnf: the roots as loaded, and the pins.
symbols_of(ccm) == UNION {ToSet(p.order) : p \in ToSet(ccm.parts)}
serialize_composite_cnf(s) ==
    FlattenSeq([i \in DOMAIN s.ccm.parts |-> enumerate_falsifying_clauses(s.ccm.parts[i])])
    \o FoldSet(LAMBDA x, units : Append(units, {<<x, TRUE>>}), <<>>, pinned_symbols(s))

clause_holds(c, a) == \E l \in c : (l[1] \in a) = l[2]
solve_with_assumptions(clauses, x, symbols) ==
    \E a \in SUBSET symbols : x \in a /\ \A c \in clauses : clause_holds(c, a)

\* Deletion from the front: drop the i-th clause when the rest is still
\* unsatisfiable and look at the one that slid into its place.
RECURSIVE shrink_skipping(_, _, _, _)
shrink_skipping(kept, i, x, symbols) ==
    IF i > Len(kept) THEN kept
    ELSE IF solve_with_assumptions(ToSet(RemoveAt(kept, i)), x, symbols)
         THEN shrink_skipping(kept, i + 1, x, symbols)
         ELSE shrink_skipping(RemoveAt(kept, i), i + 1, x, symbols)

RECURSIVE shrink(_, _, _, _)
shrink(kept, i, x, symbols) ==
    IF i > Len(kept) THEN kept
    ELSE IF solve_with_assumptions(ToSet(RemoveAt(kept, i)), x, symbols)
         THEN shrink(kept, i + 1, x, symbols)
         ELSE shrink(RemoveAt(kept, i), i, x, symbols)

extract_indexed_mus(clauses, x, symbols) ==
    IF solve_with_assumptions(ToSet(clauses), x, symbols) THEN [sat |-> TRUE]
    ELSE [sat |-> FALSE, core |-> shrink(clauses, 1, x, symbols)]

\* A one-atom clause about a pinned symbol is a prior selection.
label_indexed_core(s, core) ==
    {LET atoms == {l[1] : l \in core[i]}
     IN  [kind |-> IF Cardinality(atoms) = 1 /\ atoms \subseteq pinned_symbols(s)
                   THEN "Selection" ELSE "ModelRule",
          forbidden |-> {<<l[1], ~l[2]>> : l \in core[i]}] : i \in DOMAIN core}

explain_rejection(s, x) ==
    LET symbols == symbols_of(s.ccm)
        clauses == serialize_composite_cnf(s)
        mus == extract_indexed_mus(clauses, x, symbols)
        capped == \E p \in ToSet(s.ccm.parts) :
                     Len(enumerate_falsifying_clauses(p)) > MAX_FALSIFYING_PATHS_PER_PARTITION
    IN  CASE is_empty_ccm(s.ccm) -> [status |-> "UnknownOption"]
          [] x \notin symbols ->
                [status |-> IF \E y \in symbols : y[1] = x[1] THEN "UnknownOption" ELSE "UnknownFacet"]
          [] capped -> [status |-> "Backend"]
          [] mus.sat -> [status |-> "Ok", would_reject |-> FALSE]
          [] OTHER -> [status |-> "Ok", would_reject |-> TRUE,
                       core |-> label_indexed_core(s, mus.core)]
=============================================================================
