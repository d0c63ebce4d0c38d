------------------------------ MODULE Resolver ------------------------------
(***************************************************************************)
(* compiler/src/resolver.rs: a configuration and a set of tags to the      *)
(* components that are active, their parameters and their requirements.    *)
(*                                                                         *)
(* A configuration is the package record of CcmEmitter; a component also   *)
(* has type, depends_on and params (a function to parameters).  A          *)
(* parameter has inherits, type, unit, value, facet, meta (safety,         *)
(* lifecycle and access) and overrides, a sequence of [condition,          *)
(* payload]; None is an absent field.                                      *)
(*                                                                         *)
(* Components and parameters sit in hash maps, so the first error is one   *)
(* of several: a result carries the set of the errors the run may report.  *)
(***************************************************************************)
EXTENDS CcmEmitter

CONSTANT MAX_CHAIN_DEPTH

Resolved(out) == [ok |-> TRUE, out |-> out]
Failure(kind, tag) == [kind |-> kind, tag |-> tag]
Failed(errors) == [ok |-> FALSE, errors |-> errors]
failures(S) == UNION {r.errors : r \in {q \in S : ~q.ok}}

Metadata == {"safety", "lifecycle", "access"}
unwrap_or(v, default) == IF v = None THEN default ELSE v
metadata_default == [safety |-> "QM", lifecycle |-> "Runtime", access |-> "Technician"]

-----------------------------------------------------------------------------
(* ------------------------------- Scopes -------------------------------- *)

\* A scope is the sequence of its comma-separated tokens [sel, id].  An
\* identifier that is not snake_case is an error that does not name the scope.
parse_scope_selectors(scope) ==
    LET tokens == SelectSeq(scope, LAMBDA t : t.sel # "blank")
        bad == SelectSeq(tokens, LAMBDA t : t.sel \in {"unrecognized", "bad_ident"})
    IN  CASE bad # <<>> -> Failed({Failure(IF bad[1].sel = "unrecognized" THEN "scope" ELSE "failed", None)})
          [] tokens = <<>> -> Failed({Failure("scope", None)})
          [] Len(tokens) > 1 /\ \E t \in ToSet(tokens) : t.sel = "all" -> Failed({Failure("scope", None)})
          [] OTHER -> Resolved(tokens)

component(m, id) == CHOOSE c \in ToSet(m.components) : c.id = id
component_ids(m) == {c.id : c \in ToSet(m.components)}

direct_dependencies(m, seen) ==
    seen \cup UNION {ToSet(component(m, id).depends_on) : id \in seen \cap component_ids(m)}

RECURSIVE dependency_closure(_, _)
dependency_closure(m, seen) ==
    LET next == direct_dependencies(m, seen)
    IN  IF next = seen THEN seen ELSE dependency_closure(m, next)

-----------------------------------------------------------------------------
(* ----------------------------- Parameters ------------------------------ *)

\* The tag a strict evaluation stopped at, None for any other error.
RECURSIVE missing_tag(_, _)
missing_tag(e, tags) ==
    CASE ~parses(e) \/ mentions_cardinality(e) -> None
      [] e.k = "pred" -> e.tag
      [] e.k = "cmp" -> IF e.left \notin DOMAIN tags THEN e.left ELSE e.right
      [] e.k = "not" -> missing_tag(e.arg, tags)
      [] OTHER -> missing_tag(IF strict_eval(e.lhs, tags) = "Err" THEN e.lhs ELSE e.rhs, tags)

eval(condition, tags) ==
    LET v == eval_condition(condition, tags)
    IN  IF v = "Err" THEN Failed({Failure("condition", missing_tag(condition, tags))})
        ELSE Resolved(v = "True")

\* Each field of the patch that is present replaces the base's.  A different
\* unit, type or parent is a conflict.  The payload's facet is not merged.
conflicting(a, b) == a # None /\ b # None /\ a # b
merge_params(base, patch) ==
    IF \/ conflicting(base.unit, patch.unit)
       \/ conflicting(base.type, patch.type)
       \/ conflicting(base.inherits, patch.inherits)
    THEN Failed({Failure("failed", None)})
    ELSE Resolved([base EXCEPT !.inherits = unwrap_or(patch.inherits, @),
                               !.value = unwrap_or(patch.value, @),
                               !.type = unwrap_or(patch.type, @),
                               !.unit = unwrap_or(patch.unit, @),
                               !.meta = [f \in Metadata |-> unwrap_or(patch.meta[f], @[f])],
                               !.overrides = @ \o patch.overrides])

\* The overrides in order, each active payload's own overrides first.
RECURSIVE apply_overrides_recursive(_, _, _)
apply_overrides_recursive(param, tags, depth) ==
    LET step(acc, block) ==
            IF ~acc.ok THEN acc
            ELSE LET active == eval(block.condition, tags)
                     payload == apply_overrides_recursive(block.payload, tags, depth + 1)
                 IN  CASE ~active.ok -> active
                       [] ~active.out -> acc
                       [] ~payload.ok -> payload
                       [] OTHER -> merge_params(acc.out, payload.out)
    IN  IF depth > MAX_CHAIN_DEPTH THEN Failed({Failure("failed", None)})
        ELSE FoldLeft(step, Resolved([param EXCEPT !.overrides = <<>>]), param.overrides)

\* The metadata some definition of the inheritance chain declares; a cycle or
\* a dangling link ends the walk.
RECURSIVE collect_chain_declared_metadata(_, _, _)
collect_chain_declared_metadata(m, id, visited) ==
    IF id = None \/ id \in visited \/ id \notin DOMAIN m.definitions THEN {}
    ELSE {f \in Metadata : m.definitions[id].meta[f] # None}
         \cup collect_chain_declared_metadata(m, m.definitions[id].inherits, visited \cup {id})

resolve_safety_metadata(m, param) ==
    LET declared == collect_chain_declared_metadata(m, param.inherits, {})
    IN  IF \E f \in declared : param.meta[f] = None
        THEN Failed({Failure("failed", None)})
        ELSE Resolved([f \in Metadata |-> unwrap_or(param.meta[f], metadata_default[f])])

\* The parent named before the overrides must exist; one an override brings
\* in is only walked for its metadata.
effective_value(q, tags) ==
    CASE q.facet = None -> q.value
      [] q.facet \in DOMAIN tags -> tags[q.facet]
      [] OTHER -> None
finish_parameter(m, q, value, meta) ==
    IF \/ value = None \/ q.type = None
       \/ q.type = "artifact" /\ value \notin m.artifacts
    THEN Failed({Failure("failed", None)})
    ELSE IF ~meta.ok THEN meta
    ELSE Resolved([value |-> value, type |-> q.type, facet |-> q.facet, meta |-> meta.out])
after_overrides(m, tags, merged) ==
    IF ~merged.ok THEN merged
    ELSE finish_parameter(m, merged.out, effective_value(merged.out, tags), resolve_safety_metadata(m, merged.out))
resolve_parameter(m, p, tags) ==
    IF p.inherits # None /\ p.inherits \notin DOMAIN m.definitions
    THEN Failed({Failure("failed", None)})
    ELSE after_overrides(m, tags, apply_overrides_recursive(p, tags, 0))

-----------------------------------------------------------------------------
(* ----------------------------- Components ------------------------------ *)

binding_of(m, id) == CHOOSE b \in ToSet(m.bindings) : b.id = id

\* The entries the bound requirements take; an unbound one is noted and
\* reported once every component has been seen.
resolve_requirements(m, c, tags) ==
    LET undeclared(r) == r.binding \notin {b.id : b \in ToSet(m.bindings)}
        bound == {r \in ToSet(c.requires) : ~undeclared(r) /\ r.binding \in DOMAIN tags}
        foreign(r) == \/ binding_of(m, r.binding).catalogue \notin DOMAIN m.catalogues
                      \/ tags[r.binding] \notin ToSet(m.catalogues[binding_of(m, r.binding).catalogue])
    IN  IF \/ \E r \in ToSet(c.requires) : undeclared(r)
           \/ \E r \in bound : foreign(r)
        THEN Failed({Failure("failed", None)})
        ELSE [ok |-> TRUE,
              out |-> [s \in {r.slot : r \in bound} |->
                          LET r == CHOOSE q \in bound : q.slot = s
                          IN  [binding |-> r.binding, entry |-> tags[r.binding]]],
              unbound |-> {r.binding : r \in ToSet(c.requires) \ bound}]

\* A component whose condition is false is skipped whole.
assemble_component(c, active, requires, params) ==
    LET wrong == {params[p] : p \in {q \in DOMAIN params : ~params[q].ok}}
    IN  CASE ~active.ok -> active
          [] ~active.out -> [ok |-> TRUE, active |-> FALSE, unbound |-> {}]
          [] c.type = None -> Failed({Failure("failed", None)})
          [] ~requires.ok -> requires
          [] wrong # {} -> Failed(failures(wrong))
          [] OTHER -> [ok |-> TRUE, active |-> TRUE, unbound |-> requires.unbound,
                       out |-> [type |-> c.type, requires |-> requires.out,
                                params |-> [p \in DOMAIN params |-> params[p].out]]]
resolve_component(m, c, tags) ==
    assemble_component(c,
                       IF c.condition = NoCondition THEN Resolved(TRUE) ELSE eval(c.condition, tags),
                       resolve_requirements(m, c, tags),
                       [p \in DOMAIN c.params |-> resolve_parameter(m, c.params[p], tags)])

\* resolve over the components in ids: the least unbound binding is the one
\* that is reported.
assemble_config(result) ==
    LET wrong == {result[id] : id \in {i \in DOMAIN result : ~result[i].ok}}
        unbound == UNION {result[id].unbound : id \in DOMAIN result}
        active == {id \in DOMAIN result : result[id].active}
    IN  CASE wrong # {} -> Failed(failures(wrong))
          [] unbound # {} ->
                Failed({Failure("unbound", CHOOSE b \in unbound : \A o \in unbound : rank(b) <= rank(o))})
          [] OTHER -> Resolved([id \in active |-> result[id].out])
resolve_config(m, ids, tags) ==
    assemble_config([id \in ids |-> resolve_component(m, component(m, id), tags)])

\* resolve_scoped: each root with the components it depends on, the first
\* root that fails ending the run.
platforms(m) == {c.id : c \in {d \in ToSet(m.components) : d.type = "platform"}}
selector_error(m, t) ==
    CASE t.sel = "component" -> t.id \notin component_ids(m)
      [] t.sel = "platform" -> t.id \notin platforms(m)
      [] t.sel = "platform_all" -> platforms(m) = {}
      [] OTHER -> FALSE
roots_of(m, tokens) ==
    UNION {IF t.sel = "platform_all" THEN platforms(m) ELSE {t.id} : t \in ToSet(tokens)}

\* The result r of one root, put beside those of the roots before it.
with_root(acc, root, r) ==
    IF ~r.ok THEN r
    ELSE Resolved([s \in DOMAIN acc.out \cup {root} |-> IF s = root THEN r.out ELSE acc.out[s]])
resolve_closure(m, closure, tags) ==
    IF closure \subseteq component_ids(m) THEN resolve_config(m, closure, tags)
    ELSE Failed({Failure("failed", None)})
resolve_selectors(m, tags, parsed) ==
    LET roots == SetToSortSeq(roots_of(m, parsed.out), LAMBDA a, b : rank(a) < rank(b))
        step(acc, root) ==
            IF ~acc.ok THEN acc
            ELSE with_root(acc, root, resolve_closure(m, dependency_closure(m, {root}), tags))
    IN  CASE ~parsed.ok -> parsed
          [] parsed.out[1].sel = "all" ->
                with_root(Resolved(<<>>), "all", resolve_config(m, component_ids(m), tags))
          [] \E t \in ToSet(parsed.out) : selector_error(m, t) -> Failed({Failure("scope", None)})
          [] OTHER -> FoldLeft(step, Resolved(<<>>), roots)
resolve_scoped(m, tags, scope) == resolve_selectors(m, tags, parse_scope_selectors(scope))

\* extract_resolved_component_dependencies: the edges between active components.
extract_resolved_component_dependencies(m, scoped) ==
    [root \in DOMAIN scoped |->
        [id \in DOMAIN scoped[root] |->
            ToSet(component(m, id).depends_on) \cap DOMAIN scoped[root]]]
=============================================================================
