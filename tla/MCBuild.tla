------------------------------- MODULE MCBuild -------------------------------
(***************************************************************************)
(* Three units.  The plant declares a closed and an open facet and the     *)
(* parts; its second version takes a value away.  The line uses them, with *)
(* a binding and an accepts list of its own or with a handle on a facet    *)
(* and a condition on the open one.  The cell depends on a component of    *)
(* the line and declares a constraint id that one version of it has.       *)
(***************************************************************************)
EXTENDS BuildDecisions

MCNames == <<"acc", "arm", "cell", "core", "gpu", "k1", "line", "north", "off", "on", "other", "p", "part", "parts",
             "plant", "site", "south", "x86", "a1", "a2", "b1", "b2", "c1">>

Empty == [facets |-> <<>>, catalogues |-> <<>>, bindings |-> <<>>, definitions |-> <<>>, artifacts |-> {},
          components |-> <<>>, constraints |-> <<>>, charset |-> TRUE, ill_typed |-> {}]
Facet(n, vs, o) == [name |-> n, values |-> vs, default |-> None, open |-> o]
Handle(f) == [inherits |-> None, type |-> "string", unit |-> None, value |-> None, facet |-> f,
              meta |-> <<>>, overrides |-> <<>>]
Component(id, cond, deps, reqs, params) ==
    [id |-> id, type |-> "node", condition |-> cond, depends_on |-> deps, requires |-> reqs, params |-> params]
Requires == <<[slot |-> "s", binding |-> "part", listed |-> TRUE, accepts |-> <<"x86">>]>>
Part == [id |-> "part", catalogue |-> "parts", default |-> "arm", source |-> None, pairs |-> <<>>, source_count |-> 0]

Plant(values) == [Empty EXCEPT !.facets = <<Facet("gpu", values, FALSE), Facet("site", <<"north", "south">>, TRUE)>>,
                               !.catalogues = [parts |-> <<"arm", "x86">>]]
Line == [Empty EXCEPT !.bindings = <<Part>>,
                      !.components = <<Component("acc", Eq("gpu", "off"), <<>>, Requires, <<>>)>>,
                      !.constraints = <<[id |-> "k1", condition |-> Or(Eq("part", "arm"), NotEq("gpu", "on"))]>>]
HandledLine == [Empty EXCEPT !.components = <<Component("acc", Eq("site", "other"), <<>>, <<>>, [p |-> Handle("gpu")])>>]
Cell == [Empty EXCEPT !.components = <<Component("core", Eq("site", "other"), <<"acc">>, <<>>, <<>>)>>,
                      !.constraints = <<[id |-> "k1", condition |-> NotEq("gpu", "on")]>>]

MCChunks == {"a1", "a2", "b1", "b2", "c1"}
MCUnitOf == [c \in MCChunks |-> CASE c \in {"a1", "a2"} -> "plant" [] c \in {"b1", "b2"} -> "line" [] OTHER -> "cell"]
MCConfigOf == [a1 |-> Plant(<<"off", "on">>), a2 |-> Plant(<<"off">>), b1 |-> Line, b2 |-> HandledLine,
               c1 |-> Cell]
MCClusterNames == <<"p0", "p1", "p2", "p3", "p4", "p5">>
MCPartitionNames == Range(MCClusterNames) \cup {"bridge"}
hash_order(C) == SetToSortSeq(C, LAMBDA a, b : rank(a) < rank(b))
MCUses == [plant |-> {}, line |-> {"plant"}, cell |-> {"plant"}]
MCUnions == {C \in SUBSET MCChunks : C # {} /\ \A c, d \in C : MCUnitOf[c] = MCUnitOf[d] => c = d}

MCOneShots == {Emission({"a1", "b1"}, 4)}
Request(units, lock, extra, write, force_lock, cluster) ==
    [units |-> units, lock |-> lock, allow_extra |-> extra, write_lock |-> write, force_lock |-> force_lock,
     cluster |-> cluster]
MCLinks == {Request({"plant", "line"}, TRUE, FALSE, TRUE, FALSE, 99),
            Request({"plant"}, TRUE, TRUE, TRUE, TRUE, 99),
            Request({"plant", "line"}, FALSE, FALSE, FALSE, FALSE, 99)}

\* What is on disk at first: objects that compiled, together or not, the output
\* of an earlier build and a lock.
after(writes) == FoldLeft(LAMBDA acc, w : written(acc, w.path, w.content), <<>>, writes)
Written(hs) == FlattenSeq([i \in DOMAIN hs |-> write_object(hs[i].unit, hs[i])])
Earlier == Emission({"a1", "b1"}, 99)
MCEarlierBuilds ==
    LET old == object_of({"a1"}, {})
        new == object_of({"a2"}, {})
        line == object_of({"b1"}, {old})
        locked == <<Write(LockPath, [kind |-> "lock", pins |-> lock_of({old, line})])>>
    IN  {after(w) : w \in {Written(<<old, line>>) \o locked
                               \o write_package(Out, Earlier.model)
                               \o emit_ccm_dir(Out, Earlier, partition_names(Earlier)),
                           Written(<<new, line, object_of({"c1"}, {})>>)}}
Symmetry == Permutations(Processes)
=============================================================================
