-------------------------- MODULE UnsatAttribution --------------------------
(***************************************************************************)
(* compiler/src/loader_api/unsat_attribution.rs: the clauses of a core,    *)
(* which forbid variable assignments, named by the declared constraints    *)
(* they come from.  A clause is [kind, forbidden]: a set of literals       *)
(* <<symbol, asserted>>, as label_indexed_core gives it.                   *)
(***************************************************************************)
EXTENDS CcmEmitter

\* pinned_to: the only value a facet can still have.
pins(open, facet, value) == facet \in DOMAIN open /\ open[facet] = {value}
pinned_assignment(open) ==
    [n \in {f \in DOMAIN open : Cardinality(open[f]) = 1} |-> CHOOSE v \in open[n] : TRUE]

\* The values the forbidden assignment leaves each facet: an asserted literal
\* pins its facet, negated ones are taken from the declared values of a closed
\* facet.  Two asserted values of one facet are no assignment at all.
forbidden_candidates(literals, domains) ==
    LET asserted == {l[1] : l \in {x \in literals : x[2]}}
        negated == {l[1] : l \in {x \in literals : ~x[2]}}
        pinned == {s[1] : s \in asserted}
        remaining(n) == domains[n] \ {s[2] : s \in {x \in negated : x[1] = n}}
        narrowed == {n \in {s[1] : s \in negated} \ pinned : n \in DOMAIN domains /\ remaining(n) # {}}
    IN  IF \E s, t \in asserted : s[1] = t[1] /\ s # t THEN [ok |-> FALSE]
        ELSE [ok |-> TRUE,
              open |-> [n \in pinned \cup narrowed |->
                           IF n \in pinned THEN {s[2] : s \in {x \in asserted : x[1] = n}}
                           ELSE remaining(n)]]

is_violated(declaration, open) ==
    parses(declaration.condition) /\ is_contradicted(declaration.condition, Restricted(open))
violated_declarations(roster, open) == {d \in ToSet(roster) : is_violated(d, open)}

\* record_hit: the facets of a named constraint that the assignment pins.
record_hit(declaration, assignment) ==
    {<<n, assignment[n]>> : n \in condition_identifiers(declaration.condition) \cap DOMAIN assignment}

\* A constraint that stops being violated without the rejected option is
\* named before the others; with none named at all, one entry says that the
\* model is over-constrained.
Over_constrained(facets) == [kind |-> "ModelRule", constraint_id |-> None, facets |-> facets]
attribute_core_clauses(clauses, rejected, roster, domains) ==
    LET selections == {c \in clauses : c.kind = "Selection"}
        rules == clauses \ selections
        world(c) == forbidden_candidates(c.forbidden, domains)
        hits(c) == IF world(c).ok THEN violated_declarations(roster, world(c).open) ELSE {}
        without(c) == LET open == world(c).open
                      IN  IF pins(open, rejected[1], rejected[2])
                          THEN [n \in DOMAIN open \ {rejected[1]} |-> open[n]] ELSE open
        all_violated == {<<c, d>> \in rules \X ToSet(roster) : d \in hits(c)}
        candidate_relevant == {x \in all_violated : ~is_violated(x[2], without(x[1]))}
        named == IF candidate_relevant # {} THEN candidate_relevant ELSE all_violated
        entry(d) == [kind |-> "ModelRule", constraint_id |-> d.id,
                     facets |-> UNION {record_hit(d, pinned_assignment(world(x[1]).open)) :
                                          x \in {y \in named : y[2] = d}}]
        unattributed == {l[1] : l \in UNION {c.forbidden : c \in {r \in rules : hits(r) = {}}}}
    IN  {[kind |-> "Selection", constraint_id |-> None, facets |-> {l[1] : l \in c.forbidden}] : c \in selections}
        \cup (CASE named # {} -> {entry(x[2]) : x \in named}
                [] rules # {} -> {Over_constrained(unattributed)}
                [] OTHER -> {})
=============================================================================
