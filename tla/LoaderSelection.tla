--------------------------- MODULE LoaderSelection ---------------------------
(***************************************************************************)
(* The selection operations of compiler/src/loader_api: validation and     *)
(* screening of a caller's selection state, options, apply, explain and    *)
(* resolve over an opened package.  Every operation is a function of its   *)
(* request; the selection state travels with the caller.                   *)
(*                                                                         *)
(* A handle is [model_hash, package, readable, ccm]: readable is FALSE     *)
(* when the index or a chunk fails its integrity check.  A selection state *)
(* carries the digest of its own fields, taken to be injective.            *)
(***************************************************************************)
EXTENDS Resolver

CONSTANT PRODUCT_SCHEMA_VERSION

\* A facet or an option that is empty after trimming; the empty scope is <<>>.
Blank == "blank"

\* What every request carries.
Request(schema, h, scope, st) == [schema |-> schema, handle |-> h, scope |-> scope, state |-> st]

compute_selection_state_hash(st) ==
    <<st.schema_version, st.model_hash, st.scope, st.context_tags, st.choices>>
canonical_selection_state(model_hash, scope, tags, choices) ==
    LET st == [schema_version |-> PRODUCT_SCHEMA_VERSION, model_hash |-> model_hash, scope |-> scope,
               context_tags |-> tags, choices |-> choices]
    IN  st @@ [selection_state_hash |-> compute_selection_state_hash(st)]

\* A function with one more binding.
insert(f, k, v) == [x \in DOMAIN f \cup {k} |-> IF x = k THEN v ELSE f[x]]

Ok(body) == [status |-> "Ok"] @@ body
Error(codes) == [status |-> "Error", codes |-> codes]
refused(code) == Error({code})

-----------------------------------------------------------------------------
(* ---------------------- The models built from a package ---------------- *)

is_injective(ids) == \A i, j \in DOMAIN ids : ids[i] = ids[j] => i = j
ids_of(s) == [i \in DOMAIN s |-> s[i].id]

\* load_selection_constraint_model: the declared domains widened by the
\* equalities of the selectors, and the constraints with the lowered ones
\* behind them.  A selector that does not parse is passed over.
widened_domains(declared, named) ==
    [n \in DOMAIN declared \cup {p[1] : p \in named} |->
        (IF n \in DOMAIN declared THEN ToSet(declared[n]) ELSE {}) \cup {p[2] : p \in {q \in named : q[1] = n}}]
constraint_model_of(declared, conditions, facets, constraints) ==
    LET facet(n) == CHOOSE f \in facets : f.name = n
    IN  [facet_domains |-> widened_domains(declared, UNION {for_each_eq_predicate(e) : e \in conditions}),
         declared_values |-> [n \in DOMAIN declared |-> ToSet(declared[n])],
         facet_defaults |-> [n \in {x \in DOMAIN declared : facet(x).default # None} |-> facet(n).default],
         facet_open |-> [n \in DOMAIN declared |-> facet(n).open],
         conditions |-> conditions,
         constraints |-> constraints]
constraint_model(m) ==
    constraint_model_of(collect_facet_domains(m), {e \in ToSet(selectors(m)) : parses(e)},
                        ToSet(declared_facets(m)), ccm_constraints(m))

load_selection_constraint_model(h) ==
    IF ~h.readable \/ ~h.package.charset
       \/ ~is_injective(ids_of(h.package.constraints))
       \/ \E c \in ToSet(ccm_constraints(h.package)) : ~parses(c.condition)
    THEN [ok |-> FALSE]
    ELSE [ok |-> TRUE, model |-> constraint_model(h.package)]

\* load_resolve_model_from: an entity declared by two chunks is an error; a
\* condition that does not parse is not.
resolve_model_loads(m) ==
    /\ m.charset
    /\ is_injective([i \in DOMAIN m.facets |-> m.facets[i].name])
    /\ is_injective(ids_of(m.constraints))
    /\ is_injective(ids_of(m.bindings))
    /\ is_injective(ids_of(m.components))

\* The closed facets and their declared values.
closed_domains_of(loaded) ==
    IF ~loaded.ok THEN <<>>
    ELSE [n \in {f \in DOMAIN loaded.model.facet_open : ~loaded.model.facet_open[f]} |->
             loaded.model.declared_values[n]]
closed_facet_domains(h) == closed_domains_of(load_selection_constraint_model(h))

-----------------------------------------------------------------------------
(* ------------------------- Screening a request ------------------------- *)

\* merge_assignments fails when a choice contradicts a tag.
merge_assignments(st) ==
    [n \in DOMAIN st.context_tags \cup DOMAIN st.choices |->
        IF n \in DOMAIN st.choices THEN st.choices[n] ELSE st.context_tags[n]]
selection_state_is_valid(h, scope, st) ==
    /\ st.schema_version = PRODUCT_SCHEMA_VERSION
    /\ scope # <<>>
    /\ st.model_hash = h.model_hash
    /\ st.scope = scope
    /\ st.selection_state_hash = compute_selection_state_hash(st)
    /\ \A n \in DOMAIN st.context_tags \cap DOMAIN st.choices : st.choices[n] = st.context_tags[n]

\* The codes of screen_selection_assignments: a choice must name a known facet
\* and one of its values, a tag of a closed facet one of the declared values.
screen_selection_assignments(m, st) ==
    {IF n \in DOMAIN m.facet_domains THEN "E_SELECTION_INVALID_OPTION" ELSE "E_SELECTION_UNKNOWN_FACET" :
        n \in {c \in DOMAIN st.choices :
                  c \in DOMAIN m.facet_domains => st.choices[c] \notin m.facet_domains[c]}}
    \cup {"E_SELECTION_INVALID_OPTION" :
        n \in {t \in DOMAIN st.context_tags :
                  /\ t \in DOMAIN m.facet_open
                  /\ ~m.facet_open[t]
                  /\ st.context_tags[t] \notin m.declared_values[t]}}

admits(loaded, st) == loaded.ok /\ screen_selection_assignments(loaded.model, st) = {}
selection_state_is_admissible(h, st) == admits(load_selection_constraint_model(h), st)

\* resolve screens with the selection model; when only that one fails to load
\* the state is refused, when both fail the resolve model reports it.
screen_selection_state(loaded, m, st) ==
    CASE loaded.ok -> screen_selection_assignments(loaded.model, st)
      [] resolve_model_loads(m) -> {"E_RESOLVE_MODEL_INVALID"}
      [] OTHER -> {}
screen_selection_state_from(h, st) == screen_selection_state(load_selection_constraint_model(h), h.package, st)

-----------------------------------------------------------------------------
(* --------------------- Options, apply and explain ---------------------- *)

initialize_selection_state(h, schema, scope, tags) ==
    CASE schema # PRODUCT_SCHEMA_VERSION -> refused("E_LOADER_UNSUPPORTED_SCHEMA_VERSION")
      [] scope = <<>> -> refused("E_SELECTION_STATE_INVALID")
      [] ~load_selection_constraint_model(h).ok -> refused("E_LOADER_INDEX_INVALID")
      [] OTHER -> Ok([selection_state |-> canonical_selection_state(h.model_hash, scope, tags, <<>>)])

no_constraint_ids(constraints, assignment) == <<>>
violated_constraint_ids(constraints, assignment) ==
    SelectSeq(constraints, LAMBDA c : ~not_contradicted(c.condition, assignment))

facet_domain(m, assignments, facet) ==
    (IF facet \in DOMAIN m.facet_domains THEN m.facet_domains[facet] ELSE {})
    \cup (IF facet \in DOMAIN assignments THEN {assignments[facet]} ELSE {})

\* An option survives the constraints, and is either the subject of a
\* conjunctive selector that may still hold or a declared value that no other
\* value displaces.
option_is_valid(m, assignments, facet, option) ==
    LET candidate == insert(assignments, facet, option)
    IN  /\ violated_constraint_ids(m.constraints, candidate) = <<>>
        /\ \/ \E e \in m.conditions : /\ is_pure_conjunction(e)
                                      /\ mentions_eq(e, facet, option)
                                      /\ not_contradicted(e, candidate)
           \/ /\ facet \in DOMAIN m.declared_values
              /\ option \in m.declared_values[facet]
              /\ facet \in DOMAIN assignments => assignments[facet] = option

valid_options_for_facet(m, assignments, facet, domain) ==
    IF facet \notin DOMAIN m.facet_domains THEN domain
    ELSE {o \in domain : option_is_valid(m, assignments, facet, o)}

offered(domain, valid) == Ok([valid_options |-> valid, pruned_options |-> domain \ valid])
facet_options(m, assignments, facet, domain) ==
    IF facet \notin DOMAIN m.facet_domains \cup DOMAIN assignments THEN refused("E_SELECTION_UNKNOWN_FACET")
    ELSE offered(domain, valid_options_for_facet(m, assignments, facet, domain))
options_from(loaded, st, facet) ==
    CASE ~loaded.ok -> refused("E_LOADER_INDEX_INVALID")
      [] ~admits(loaded, st) -> Error(screen_selection_assignments(loaded.model, st))
      [] OTHER -> facet_options(loaded.model, merge_assignments(st), facet,
                                facet_domain(loaded.model, merge_assignments(st), facet))
get_selection_options(rq, facet) ==
    CASE rq.schema # PRODUCT_SCHEMA_VERSION -> refused("E_LOADER_UNSUPPORTED_SCHEMA_VERSION")
      [] ~selection_state_is_valid(rq.handle, rq.scope, rq.state) -> refused("E_SELECTION_STATE_INVALID")
      [] facet = Blank -> refused("E_SELECTION_UNKNOWN_FACET")
      [] OTHER -> options_from(load_selection_constraint_model(rq.handle), rq.state, facet)

\* The delta against a state that passed the screen: a tag is immutable, a
\* choice is made once; the same choice again changes nothing.  A delta that
\* repeats a tag is judged like any other.
decide_delta(m, st, facet, option) ==
    LET assignments == merge_assignments(st)
        next == canonical_selection_state(st.model_hash, st.scope, st.context_tags,
                                          insert(st.choices, facet, option))
    IN  CASE facet \in DOMAIN st.context_tags /\ st.context_tags[facet] # option -> refused("E_SELECTION_CONFLICT")
          [] facet \in DOMAIN st.choices ->
                IF st.choices[facet] = option THEN Ok([selection_state |-> st])
                ELSE refused("E_SELECTION_CONFLICT")
          [] facet \notin DOMAIN m.facet_domains -> refused("E_SELECTION_UNKNOWN_FACET")
          [] option \notin m.facet_domains[facet] -> refused("E_SELECTION_INVALID_OPTION")
          [] violated_constraint_ids(m.constraints, insert(assignments, facet, option)) # <<>> ->
                refused("E_SELECTION_CONFLICT")
          [] ~option_is_valid(m, assignments, facet, option) -> refused("E_SELECTION_UNSATISFIABLE")
          [] OTHER -> Ok([selection_state |-> next])
apply_from(loaded, st, facet, option) ==
    CASE ~loaded.ok -> refused("E_LOADER_INDEX_INVALID")
      [] ~admits(loaded, st) -> Error(screen_selection_assignments(loaded.model, st))
      [] OTHER -> decide_delta(loaded.model, st, facet, option)
apply_selection(rq, facet, option) ==
    CASE rq.schema # PRODUCT_SCHEMA_VERSION -> refused("E_LOADER_UNSUPPORTED_SCHEMA_VERSION")
      [] facet = Blank -> refused("E_SELECTION_UNKNOWN_FACET")
      [] option = Blank -> refused("E_SELECTION_INVALID_OPTION")
      [] ~selection_state_is_valid(rq.handle, rq.scope, rq.state) -> refused("E_SELECTION_STATE_INVALID")
      [] OTHER -> apply_from(load_selection_constraint_model(rq.handle), rq.state, facet, option)

\* classify_rejection_reason: why an option would be refused; CURRENTLY_VALID
\* is the conflict that says the option should not have been.
classify_rejection_reason(m, st, facet, option) ==
    LET assignments == merge_assignments(st)
        bound_elsewhere(f) == facet \in DOMAIN f /\ f[facet] # option
    IN  CASE facet = Blank -> "E_SELECTION_UNKNOWN_FACET"
          [] option = Blank -> "E_SELECTION_INVALID_OPTION"
          [] bound_elsewhere(st.context_tags) -> "E_SELECTION_CONFLICT"
          [] bound_elsewhere(st.choices) -> "E_SELECTION_CONFLICT"
          [] facet \notin DOMAIN m.facet_domains -> "E_SELECTION_UNKNOWN_FACET"
          [] option \notin m.facet_domains[facet] -> "E_SELECTION_INVALID_OPTION"
          [] option_is_valid(m, assignments, facet, option) -> "CURRENTLY_VALID"
          [] OTHER -> "E_SELECTION_UNSATISFIABLE"

explain_from(loaded, st, facet, option) ==
    CASE ~loaded.ok -> refused("E_LOADER_INDEX_INVALID")
      [] ~admits(loaded, st) -> Error(screen_selection_assignments(loaded.model, st))
      [] OTHER -> refused(classify_rejection_reason(loaded.model, st, facet, option))
explain_selection(rq, facet, option) ==
    CASE rq.schema # PRODUCT_SCHEMA_VERSION -> refused("E_LOADER_UNSUPPORTED_SCHEMA_VERSION")
      [] ~selection_state_is_valid(rq.handle, rq.scope, rq.state) -> refused("E_SELECTION_STATE_INVALID")
      [] OTHER -> explain_from(load_selection_constraint_model(rq.handle), rq.state, facet, option)

-----------------------------------------------------------------------------
(* ------------------------------- Resolve ------------------------------- *)

screen_implied_choices(m, implied) ==
    LET declared == collect_facet_domains(m)
    IN  {IF n \in DOMAIN declared THEN "E_SELECTION_INVALID_OPTION" ELSE "E_SELECTION_UNKNOWN_FACET" :
            n \in {i \in DOMAIN implied :
                      i \in DOMAIN declared => implied[i] \notin ToSet(declared[i])}}

\* The declared defaults, under the implied choices, under what was selected.
facet_default(m, n) == (CHOOSE f \in ToSet(declared_facets(m)) : f.name = n).default
with_default(m) == {f.name : f \in {g \in ToSet(declared_facets(m)) : g.default # None}}
effective_assignment(m, implied, assignments) ==
    [n \in with_default(m) \cup DOMAIN implied \cup DOMAIN assignments |->
        CASE n \in DOMAIN assignments -> assignments[n]
          [] n \in DOMAIN implied -> implied[n]
          [] OTHER -> facet_default(m, n)]
defaulted_choices(m, implied, assignments) ==
    [n \in with_default(m) \ (DOMAIN implied \cup DOMAIN assignments) |-> facet_default(m, n)]

\* map_resolve_error_with_facets: which code an error of the resolver gets.
map_resolve_error_with_facets(m, err) ==
    CASE err.kind = "unbound" -> "E_RESOLVE_FACET_UNBOUND"
      [] err.kind = "condition" ->
            IF err.tag \in DOMAIN collect_facet_domains(m) /\ facet_default(m, err.tag) = None
            THEN "E_RESOLVE_FACET_UNBOUND" ELSE "E_RESOLVE_CONTEXT_UNSATISFIED"
      [] err.kind = "scope" -> "E_RESOLVE_SCOPE_INVALID"
      [] OTHER -> "E_RESOLVE_FAILED"

\* A total assignment: the constraints, then the resolver.
resolved_answer(m, scoped, effective, defaulted, implied) ==
    IF ~scoped.ok THEN Error({map_resolve_error_with_facets(m, e) : e \in scoped.errors})
    ELSE Ok([defaulted_choices |-> defaulted, implied_choices |-> implied, effective |-> effective,
             resolved_output |-> scoped.out,
             dependencies |-> extract_resolved_component_dependencies(m, scoped.out)])
resolve_effective(m, constraints, scope, effective, defaulted, implied) ==
    CASE \E c \in ToSet(constraints) : ~parses(c.condition) -> refused("E_RESOLVE_MODEL_INVALID")
      [] violated_constraint_ids(constraints, effective) # <<>> -> refused("E_SELECTION_CONFLICT")
      [] OTHER -> resolved_answer(m, resolve_scoped(m, effective, scope), effective, defaulted, implied)
resolve_assignment(m, scope, implied, assignments) ==
    resolve_effective(m, ccm_constraints(m), scope, effective_assignment(m, implied, assignments),
                      defaulted_choices(m, implied, assignments), implied)
resolve_screened(rq, m, rejections, implied) ==
    CASE rejections # {} -> Error(rejections)
      [] ~resolve_model_loads(m) -> refused("E_RESOLVE_MODEL_INVALID")
      [] screen_implied_choices(m, implied) # {} -> Error(screen_implied_choices(m, implied))
      [] OTHER -> resolve_assignment(m, rq.scope, implied, merge_assignments(rq.state))
resolve_from_selection(rq, implied) ==
    CASE rq.schema # PRODUCT_SCHEMA_VERSION -> refused("E_LOADER_UNSUPPORTED_SCHEMA_VERSION")
      [] ~selection_state_is_valid(rq.handle, rq.scope, rq.state) -> refused("E_SELECTION_STATE_INVALID")
      [] ~rq.handle.readable -> refused("E_RESOLVE_MODEL_INVALID")
      [] OTHER -> resolve_screened(rq, rq.handle.package, screen_selection_state_from(rq.handle, rq.state), implied)
=============================================================================
