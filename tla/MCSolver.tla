------------------------------ MODULE MCSolver ------------------------------
(***************************************************************************)
(* Three small packages: an excluded pair next to an implication, a        *)
(* binding derived from a facet and required by a conditional component,   *)
(* and an over-constrained comparison.                                     *)
(***************************************************************************)
EXTENDS EnforcedRuntime

MCNames == <<"arm", "eco", "fast", "gpu", "mode", "north", "off", "on", "part", "site", "south", "x86">>

Facet(n, vs, d, o) == [name |-> n, values |-> vs, default |-> d, open |-> o]
Param(conds) == [overrides |-> [i \in DOMAIN conds |-> [condition |-> conds[i], payload |-> [overrides |-> <<>>]]]]
Component(id, cond, reqs, ovr) ==
    [id |-> id, condition |-> cond, requires |-> reqs, params |-> [mode |-> Param(ovr)]]
Mode == Facet("mode", <<"eco", "fast">>, "eco", FALSE)
Gpu == Facet("gpu", <<"off", "on">>, None, FALSE)

Excluding == [facets |-> <<Gpu, Mode, Facet("site", <<"north", "south">>, None, TRUE)>>,
              definitions |-> <<>>, catalogues |-> <<>>, bindings |-> <<>>,
              components |-> <<Component("c", Eq("site", "south"), <<>>, <<And(Eq("gpu", "on"), Eq("mode", "eco"))>>)>>,
              constraints |-> <<[id |-> "k1", condition |-> Or(NotEq("mode", "fast"), Eq("gpu", "on"))],
                                [id |-> "k2", condition |-> Not(And(Eq("gpu", "on"), Eq("site", "north")))]>>]

Deriving == [facets |-> <<Mode, Facet("site", <<"north", "south">>, None, FALSE)>>,
             definitions |-> <<>>, catalogues |-> [parts |-> <<"arm", "x86">>],
             bindings |-> <<[id |-> "part", catalogue |-> "parts", default |-> None, source |-> "site",
                             pairs |-> <<<<"north", "arm">>, <<"south", "x86">>>>]>>,
             components |-> <<Component("c", Eq("mode", "fast"),
                                        <<[slot |-> "s", binding |-> "part", listed |-> TRUE, accepts |-> <<"x86">>]>>, <<>>)>>,
             constraints |-> <<>>]

Comparing == [facets |-> <<Facet("gpu", <<"off", "on">>, None, FALSE), Facet("mode", <<"on", "eco">>, None, FALSE)>>,
              definitions |-> <<>>, catalogues |-> <<>>, bindings |-> <<>>, components |-> <<>>,
              constraints |-> <<[id |-> "k1", condition |-> Same("gpu", "mode")],
                                [id |-> "k2", condition |-> ExactlyOneOf(<<Eq("gpu", "off"), Eq("mode", "eco"), Bool(TRUE)>>)]>>]

MCPackages == {Excluding, Deriving, Comparing}
MCHeuristics == {"facet-name-ascending", "clause-grouped-dfs", "force"}
MCCcms == Emitted \cup {[parts |-> <<>>]}
\* The runtime opens what the default order emits in one partition.
MCOpenedCcms == {emit_multi_part(m, "facet-name-ascending", 99) @@ [package |-> m] : m \in MCPackages}
MCHandles == [m \in MCPackages |-> CASE m = Excluding -> <<"gpu", "mode">>
                                      [] m = Deriving -> <<"site", "mode">>
                                      [] m = Comparing -> <<"gpu", None>>]
MCFacets == {"gpu", "mode", "site", "part"}
MCValues == {"arm", "eco", "fast", "north", "off", "on", "south", "x86"}
=============================================================================
