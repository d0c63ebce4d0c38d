--------------------------- MODULE BuildDecisions ---------------------------
(***************************************************************************)
(* The builds of Build with the decisions of the compiler that ObjectLink  *)
(* models: what Decisions is for them, and how the refusals of             *)
(* compile-object relate to the one-shot compile.                          *)
(***************************************************************************)
EXTENDS ObjectLink, Build

CONSTANT ClusterNames   \* the directory names of the cluster partitions, in order

\* The partitions of an emission are those of the partitioner, the bridge last.
partition_names(e) ==
    LET plan == partition(parse_condition_model(repository(e.model)), e.cluster)
    IN  [i \in DOMAIN plan |-> IF plan[i].bridge THEN "bridge" ELSE ClusterNames[i]]

-----------------------------------------------------------------------------
(* What the interfaces of S do not tell the unit of chunk c: the entries   *)
(* of a catalogue behind a binding it sees, that a facet is open, a facet  *)
(* of a unit it was not given.                                             *)

UnseenEntries(c, S) ==
    LET s == visible_summary({c}, in_memory_headers(S))
    IN  \E r \in ToSet(s.requirements) :
            r.listed /\ r.binding \in DOMAIN s.binding_links /\ entries_of(s, r.binding) = <<>>
OpenElsewhere(c, S) ==
    LET open == {f.name : f \in {g \in UNION {ToSet(ConfigOf[d].facets) : d \in S} : g.open}}
        m == ConfigOf[c]
        conditions == ToSet(selectors(m)) \cup {k.condition : k \in ToSet(m.constraints)}
    IN  \E e \in {x \in conditions : parses(x)} : \E s \in for_each_predicate_symbol(e) : s[1] \in open
UnseenHandle(c, S) ==
    \E k \in ToSet(ConfigOf[c].components) : \E p \in Range(k.params) :
        p.facet # None /\ p.facet \notin facet_names(visible_facets({c}, in_memory_headers(S)))
Blind(c, S) == UnseenEntries(c, S) \/ OpenElsewhere(c, S) \/ UnseenHandle(c, S)

-----------------------------------------------------------------------------
\* blind is for the property: where the interfaces leave something out.
compiler_decisions ==
    LET compilable == {C \in Unions : compiles(C)}
        staged == {C \in Unions : link_stage_headers(ToSet(in_memory_headers(C)))}
        verified == {C \in Unions : verify_complete_model(C)}
    IN  [objects |-> {x \in Chunks \X (Unions \cup {{}}) :
                        /\ \A d \in x[2] : UnitOf[d] \in Uses[UnitOf[x[1]]]
                        /\ object_compiles({x[1]}, in_memory_headers(x[2]))},
         staged |-> staged,
         verified |-> verified,
         compilable |-> compilable,
         blind |-> {x \in Chunks \X (Unions \cup {{}}) : Blind(x[1], x[2])},
         partitions |-> [e \in {x \in Emissions : x.model \in compilable \cup (staged \cap verified)} |->
                            partition_names(e)]]

ReadableUnits == {u \in {UnitOf[c] : c \in Chunks} : readable(disk, HeaderFile(u))}

\* compile-object refuses a unit that the one-shot compile takes, in its
\* linked set, only for what an interface does not tell it: the entries of a
\* catalogue it cannot see (an accepts list on a binding it can), that a facet
\* of another unit is open, and a facet of a unit it was not given that one of
\* its parameters is the handle of.
UnitRefusalsExplained ==
    \A c \in Chunks : \A used \in SUBSET (ReadableUnits \cap Uses[UnitOf[c]]) :
        \A S \in {all_chunks(headers_of(used))} :
            (\E C \in decided.compilable : {c} \cup S \subseteq C) => <<c, S>> \in decided.objects \cup decided.blind
=============================================================================
