---------------------------- MODULE MCSelection ----------------------------
(***************************************************************************)
(* Small packages for the selection surfaces: an excluded pair with an     *)
(* open facet and a default, a binding derived from a facet, and a model   *)
(* whose defaults contradict its constraints.                              *)
(***************************************************************************)
EXTENDS Selection

MCNames == <<"acc", "arm", "base", "core", "eco", "fast", "gpu", "k1", "k2", "mode", "north", "off", "on",
             "other", "p", "part", "site", "south", "x86">>

NoMeta == [f \in Metadata |-> None]
Param(v, ovr) == [inherits |-> None, type |-> "string", unit |-> None, value |-> v, facet |-> None,
                  meta |-> NoMeta, overrides |-> ovr]
Handle_of(facet) == [Param(None, <<>>) EXCEPT !.facet = facet]
Facet(n, vs, d, o) == [name |-> n, values |-> vs, default |-> d, open |-> o]
Component(id, cond, deps, reqs, params) ==
    [id |-> id, type |-> "node", condition |-> cond, depends_on |-> deps, requires |-> reqs, params |-> params]

Gpu == Facet("gpu", <<"off", "on">>, None, FALSE)
Mode == Facet("mode", <<"eco", "fast">>, "eco", FALSE)

Excluding ==
    [facets |-> <<Gpu, Mode, Facet("site", <<"north", "south">>, None, TRUE)>>,
     catalogues |-> <<>>, bindings |-> <<>>, definitions |-> <<>>, artifacts |-> {}, charset |-> TRUE,
     components |-> <<Component("acc", And(Eq("gpu", "on"), Eq("mode", "fast")), <<"core">>, <<>>,
                                [p |-> Param("v", <<[condition |-> Eq("mode", "fast"), payload |-> Param("w", <<>>)]>>)]),
                      Component("base", NoCondition, <<>>, <<>>, [p |-> Handle_of("mode")]),
                      Component("core", Not(Eq("gpu", "off")), <<"base">>, <<>>, <<>>)>>,
     constraints |-> <<[id |-> "k1", condition |-> Or(NotEq("mode", "fast"), Eq("gpu", "on"))],
                       [id |-> "k2", condition |-> Not(And(Eq("gpu", "on"), Eq("site", "north")))]>>]

Deriving ==
    [facets |-> <<Mode, Facet("site", <<"north", "south">>, None, FALSE)>>,
     catalogues |-> [parts |-> <<"arm", "x86">>],
     bindings |-> <<[id |-> "part", catalogue |-> "parts", default |-> None, source |-> "site",
                     pairs |-> <<<<"north", "arm">>, <<"south", "x86">>>>]>>,
     definitions |-> <<>>, artifacts |-> {}, charset |-> TRUE,
     components |-> <<Component("acc", Eq("mode", "fast"), <<"core">>,
                                <<[slot |-> "s", binding |-> "part", listed |-> TRUE, accepts |-> <<"x86">>]>>, <<>>),
                      Component("core", Or(Eq("mode", "fast"), Eq("site", "south")), <<>>, <<>>, <<>>)>>,
     constraints |-> <<>>]

Comparing ==
    [facets |-> <<Facet("gpu", <<"off", "on">>, "off", FALSE), Facet("mode", <<"on", "eco">>, "on", FALSE)>>,
     catalogues |-> <<>>, bindings |-> <<>>, definitions |-> <<>>, artifacts |-> {}, charset |-> TRUE,
     components |-> <<Component("acc", Eq("gpu", "off"), <<>>, <<>>, <<>>),
                      Component("core", ExactlyOneOf(<<Eq("gpu", "on"), Eq("gpu", "off")>>), <<>>, <<>>, <<>>)>>,
     constraints |-> <<[id |-> "k1", condition |-> Or(Same("gpu", "mode"), Eq("mode", "eco"))],
                       [id |-> "k2", condition |-> AnyOf(<<Eq("gpu", "on"), Eq("mode", "eco")>>)]>>]

\* Every component of the unfinished package comes from a recompile that lost a value.
Earlier == [Excluding EXCEPT !.facets = <<Facet("gpu", <<"off">>, None, FALSE), Mode>>,
                             !.constraints = <<>>]

Loaded(m, cluster, hash) ==
    [kind |-> "loaded", ccm |-> emit_multi_part(m, "facet-name-ascending", cluster), bound |-> hash]
Handle(hash, m, ccm) == [model_hash |-> hash, package |-> m, readable |-> TRUE, ccm |-> ccm]
MCHandles == {Handle("h1", Excluding, Loaded(Excluding, 99, "h1")),
              Handle("h2", Deriving, Loaded(Deriving, 99, "h2")),
              Handle("h3", Comparing, Loaded(Comparing, 99, "h3")),
              Handle("h1", Excluding, Loaded(Excluding, 2, "h1")),
              Handle("h1", Excluding, Loaded(Earlier, 99, "h0")),
              Handle("h2", Deriving, [kind |-> "unloadable", bound |-> None]),
              [Handle("h3", Comparing, Loaded(Comparing, 99, "h3")) EXCEPT !.readable = FALSE]}
Everything == <<[sel |-> "all", id |-> None]>>
MCScopes == {Everything, <<[sel |-> "component", id |-> "acc"]>>}
MCTags == {<<>>, [site |-> "north"], [gpu |-> "on"], [site |-> "other"], [mode |-> "other"]}
MCChoices == {<<>>, [mode |-> "fast"], [mode |-> "fast", gpu |-> "off"], [part |-> "arm"], [gpu |-> "on", site |-> "north"]}
=============================================================================
