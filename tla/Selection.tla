----------------------------- MODULE Selection ------------------------------
(***************************************************************************)
(* A caller that configures one product: it opens a package, holds the     *)
(* selection state, and calls the composed operations on it.  The package  *)
(* may be recompiled while the caller keeps its state, and the caller may  *)
(* hand back a state it changed without sealing it again.                  *)
(***************************************************************************)
EXTENDS SessionCompose

CONSTANTS Handles,   \* what open_model can return: one record per compiled package
          Scopes,    \* the scopes asked for
          TagMaps,      \* the context tags callers bring
          ChoiceMaps    \* the choices callers seal or edit in directly

ASSUME DepthAssumption == MAX_CHAIN_DEPTH \in Nat

\* The facets and values a caller may name: those of the package, and one more.
symbols_of_package(m) ==
    LET domains == collect_facet_domains(m)
    IN  UNION {{<<n, v>> : v \in ToSet(domains[n])} : n \in DOMAIN domains}
        \cup UNION {for_each_eq_predicate(e) : e \in {x \in ToSet(selectors(m)) : parses(x)}}
        \cup {<<"other", "other">>}

VARIABLES compiled,  \* the handles there are, which never change
          handle,    \* the opened package
          state      \* the caller's selection state

vars == <<compiled, handle, state>>

Rq == Request(PRODUCT_SCHEMA_VERSION, handle, state.scope, state)

Init == /\ compiled = Handles
        /\ handle \in compiled
        /\ \E s \in Scopes : state = canonical_selection_state(handle.model_hash, s, <<>>, <<>>)

Initialize ==
    /\ \E s \in Scopes, t \in TagMaps :
          \E r \in {initialize_selection_state(handle, PRODUCT_SCHEMA_VERSION, s, t)} :
             r.status = "Ok" /\ state' = r.selection_state
    /\ UNCHANGED <<compiled, handle>>

\* canonical_selection_state is public: a caller may seal choices of its own.
Seal ==
    /\ \E c \in ChoiceMaps :
          state' = canonical_selection_state(handle.model_hash, state.scope, state.context_tags, c)
    /\ UNCHANGED <<compiled, handle>>

Apply ==
    /\ \E x \in symbols_of_package(handle.package) :
          \E r \in {apply_delta(Rq, x[1], x[2])} : r.status = "Ok" /\ state' = r.selection_state
    /\ UNCHANGED <<compiled, handle>>

EditUnsealed ==
    /\ \E c \in ChoiceMaps : state' = [state EXCEPT !.choices = c]
    /\ UNCHANGED <<compiled, handle>>

Reopen == handle' \in compiled /\ UNCHANGED <<compiled, state>>

Next == Initialize \/ Seal \/ Apply \/ EditUnsealed \/ Reopen
Spec == Init /\ [][Next]_vars

-----------------------------------------------------------------------------
(* ------------------------------ Properties ----------------------------- *)

\* The configurations of a package: one value for every declared facet, every
\* constraint true.  An open facet may also have a value nobody declared.
configurations(m) ==
    LET domains == collect_facet_domains(m)
        open == {f.name : f \in {g \in ToSet(m.facets) : g.open}}
        values(n) == ToSet(domains[n]) \cup (IF n \in open THEN {"other"} ELSE {})
        all == {a \in [DOMAIN domains -> UNION {values(n) : n \in DOMAIN domains}] :
                   \A n \in DOMAIN domains : a[n] \in values(n)}
    IN  {a \in all : \A c \in ToSet(ccm_constraints(m)) : eval_total(c.condition, a)}
extends(a, f) == \A n \in DOMAIN a \cap DOMAIN f : a[n] = f[n]
possible(m, f) == \E a \in configurations(m) : extends(a, f)

usable == handle.ccm.kind = "loaded" /\ handle.ccm.bound = handle.model_hash
unbound(facet) == facet \notin DOMAIN state.context_tags \cup DOMAIN state.choices

\* options and apply answer as one: on a facet that is still free, the valid
\* options are exactly the deltas apply takes, and apply takes none where
\* options fails (session_compose::options, session_compose::apply).
OptionsMatchApply ==
    \A x \in symbols_of_package(handle.package) :
        unbound(x[1]) =>
            LET o == options(Rq, x[1])
            IN  (apply_delta(Rq, x[1], x[2]).status = "Ok")
                <=> (o.status = "Ok" /\ x[2] \in o.valid_options)

\* A delta that apply accepts leaves a configuration that satisfies every
\* declared constraint, whatever the earlier choices were: no accepted choice
\* leads into a dead end (the solver's verdict in session_compose::apply).
AppliedIsPossible ==
    \A x \in symbols_of_package(handle.package) :
        LET r == apply_delta(Rq, x[1], x[2])
        IN  r.status = "Ok" /\ usable /\ unbound(x[1])
            => possible(handle.package, merge_assignments(r.selection_state))

\* explain says that an option would be rejected exactly where apply rejects
\* it, for the values of a free facet that the model carries.
ExplainAgreesWithApply ==
    \A x \in symbols_of_package(handle.package) :
        LET e == explain(Rq, x[1], x[2])
        IN  /\ e.status = "Ok" /\ unbound(x[1])
            /\ has_facet(handle.ccm.ccm.parts[1], x[1]) /\ owns(handle.ccm.ccm.parts[1], x)
            => (e.would_reject <=> apply_delta(Rq, x[1], x[2]).status = "Error")

\* The choices inference adds are the ones every configuration over the
\* selection has, and the order in which the facets are tried does not matter
\* (infer_forced_bindings: "forced-literal propagation is confluent").
ImpliedIsEntailed ==
    usable /\ ~screened_out(Rq) =>
        LET closed == closed_facet_domains(handle)
            implied == infer_forced_bindings(handle, state, closed)
            held == merge_assignments(state)
        IN  /\ \A a \in configurations(handle.package) : extends(a, held) => extends(a, implied)
            /\ \A roster \in SetToSeqs(DOMAIN closed) :
                  infer_in_order(handle, state, closed, roster) = implied

\* A resolved product has no active component without the components it
\* depends on, given what the linker checked of each edge: that the condition
\* of a component implies the condition of what it depends on (resolver.rs
\* evaluates each condition on its own).
DependenciesActive ==
    LET m == handle.package
        linked == \A c \in ToSet(m.components) : \A d \in ToSet(c.depends_on) :
                     condition_implies_typed(c.condition, component(m, d).condition) = "True"
        r == resolve_request(Rq)
    IN  linked /\ r.status = "Ok" =>
            \A root \in DOMAIN r.resolved_output :
                \A id \in DOMAIN r.resolved_output[root] :
                    ToSet(component(m, id).depends_on) \subseteq DOMAIN r.resolved_output[root]

\* resolve answers Ok only when the selection has a configuration at all, and
\* when every facet ends up bound, the output is one of the configurations.
ResolvedIsPossible ==
    LET r == resolve_request(Rq)
        m == handle.package
    IN  usable /\ r.status = "Ok" =>
            /\ possible(m, merge_assignments(state))
            /\ DOMAIN collect_facet_domains(m) \subseteq DOMAIN r.effective =>
                  \E a \in configurations(m) : extends(a, r.effective)
=============================================================================
