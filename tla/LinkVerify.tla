----------------------------- MODULE LinkVerify -----------------------------
(***************************************************************************)
(* The link-time checks of compiler/src/link_verify.rs, as predicates on a *)
(* package or on the merged interface summary of the units it comes from.  *)
(* Each takes the Scope: "Complete" for the whole model, "UnitLocal" for   *)
(* one unit on its own, where a name that does not resolve is left for the *)
(* link.                                                                   *)
(*                                                                         *)
(* Beside the fields of CcmEmitter a package has charset (every id and     *)
(* value is a symbol token), ill_typed (the catalogues with an entry that  *)
(* does not match the declared fields) and a source_count in each binding. *)
(* A parameter value that is not a finite number is NonFinite.             *)
(***************************************************************************)
EXTENDS Resolver

NonFinite == "NaN"
defers_nothing(scope) == FALSE
defers_unresolved(scope) == scope = "UnitLocal"
no_duplicates(s) == Cardinality(ToSet(s)) = Len(s)

-----------------------------------------------------------------------------
(* ------------------ Definitions, components, catalogues ---------------- *)

\* Depth first over edges: a node on the stack again is a cycle, and a stack
\* past the depth limit is refused.  A node that is done is not walked again,
\* so the limit counts only the part of a chain that is new.
RECURSIVE detect_cycle(_, _, _, _)
detect_cycle(edges, node, stack, acc) ==
    CASE ~acc.ok \/ node \in acc.done -> acc
      [] node \in ToSet(stack) \/ Len(stack) >= MAX_CHAIN_DEPTH -> [acc EXCEPT !.ok = FALSE]
      [] OTHER ->
           LET next == IF node \in DOMAIN edges THEN edges[node] ELSE <<>>
               r == FoldLeft(LAMBDA a, d : detect_cycle(edges, d, Append(stack, node), a), acc, next)
           IN  [r EXCEPT !.done = @ \cup {node}]
acyclic(edges) ==
    FoldLeft(LAMBDA a, n : detect_cycle(edges, n, <<>>, a), [ok |-> TRUE, done |-> {}], key_order(edges)).ok

validate_definition_inheritance(definitions, scope) ==
    LET parent(id) == definitions[id].inherits
        known(id) == parent(id) \in DOMAIN definitions
    IN  /\ \A id \in DOMAIN definitions : parent(id) = None \/ known(id) \/ defers_unresolved(scope)
        /\ acyclic([id \in DOMAIN definitions |-> IF known(id) THEN <<parent(id)>> ELSE <<>>])

validate_component_dependencies(m, scope) ==
    LET ids == component_ids(m)
    IN  /\ \A c \in ToSet(m.components) : \A d \in ToSet(c.depends_on) :
              /\ d # c.id
              /\ IF d \in ids
                 THEN condition_implies_typed(c.condition, component(m, d).condition) = "True"
                 ELSE defers_unresolved(scope)
        /\ acyclic([id \in ids |-> first_sight(component(m, id).depends_on)])

validate_catalogues(m) ==
    /\ m.charset
    /\ m.ill_typed = {}
    /\ \A c \in DOMAIN m.catalogues : m.catalogues[c] # <<>>

\* A walk of a parameter and its override payloads, with the depth check.
RECURSIVE payloads(_)
payloads(p) == <<p>> \o FlattenSeq([i \in DOMAIN p.overrides |-> payloads(p.overrides[i].payload)])
RECURSIVE override_depth(_)
override_depth(p) ==
    IF p.overrides = <<>> THEN 0
    ELSE 1 + Max({override_depth(b.payload) : b \in ToSet(p.overrides)})
ensure_override_depth(p) == override_depth(p) <= MAX_CHAIN_DEPTH

parameters(m) == Range(m.definitions) \cup UNION {Range(c.params) : c \in ToSet(m.components)}
validate_parameter_values(m) ==
    \A p \in parameters(m) :
        ensure_override_depth(p) /\ \A q \in ToSet(payloads(p)) : q.value # NonFinite

-----------------------------------------------------------------------------
(* -------------------- The merged interface summary --------------------- *)

\* A summary s has exports (a function from a namespace to the sequence of
\* ids declared, one entry per declaration), facet_domains, open_facets,
\* catalogue_entries, binding_links and requirements.
Namespaces == {"definitions", "components", "artifacts", "facets", "bindings", "catalogues", "constraints"}

validate_unique_exports(s) ==
    /\ \A n \in Namespaces \ {"constraints"} : no_duplicates(s.exports[n])
    /\ ToSet(s.exports["bindings"]) \cap ToSet(s.exports["facets"]) = {}

declared_domain(s, name) ==
    IF name \in DOMAIN s.facet_domains THEN s.facet_domains[name]
    ELSE s.catalogue_entries[s.binding_links[name].catalogue]
has_domain(s, name) ==
    \/ name \in DOMAIN s.facet_domains
    \/ name \in DOMAIN s.binding_links /\ s.binding_links[name].catalogue \in DOMAIN s.catalogue_entries

validate_binding_link(s, b, scope) ==
    /\ ~(b.default # None /\ b.source_count > 0)
    /\ IF b.catalogue \notin DOMAIN s.catalogue_entries THEN defers_unresolved(scope)
       ELSE LET entries == ToSet(s.catalogue_entries[b.catalogue]) IN
            /\ b.default # None => b.default \in entries
            /\ b.source_count <= 1
            /\ b.source # None =>
                 IF ~has_domain(s, b.source) THEN defers_unresolved(scope)
                 ELSE \A p \in ToSet(b.pairs) :
                        p[1] \in ToSet(declared_domain(s, b.source)) /\ p[2] \in entries
validate_binding_links(s, scope) ==
    \A id \in DOMAIN s.binding_links : validate_binding_link(s, s.binding_links[id], scope)

\* A requirement's accepts list is held against the entries of its binding's
\* catalogue; a catalogue that is not there has no entries, in either scope.
entries_of(s, binding) ==
    LET c == s.binding_links[binding].catalogue
    IN  IF c \in DOMAIN s.catalogue_entries THEN s.catalogue_entries[c] ELSE <<>>
validate_requirement(s, r, scope) ==
    IF r.binding \notin DOMAIN s.binding_links THEN defers_unresolved(scope)
    ELSE r.listed =>
           /\ r.accepts # <<>>
           /\ no_duplicates(r.accepts)
           /\ ToSet(r.accepts) \subseteq ToSet(entries_of(s, r.binding))
           /\ r.condition # NoCondition => parses(r.condition)

\* Whatever their conditions, the requirements on a binding must leave an entry.
validate_accepts_intersection(s) ==
    LET narrowing(b) == {r \in ToSet(s.requirements) : r.listed /\ r.binding = b}
    IN  \A b \in DOMAIN s.binding_links :
            narrowing(b) # {} =>
                \E e \in ToSet(entries_of(s, b)) : \A r \in narrowing(b) : e \in ToSet(r.accepts)

validate_requirements(s, scope) ==
    /\ \A r \in ToSet(s.requirements) : validate_requirement(s, r, scope)
    /\ validate_accepts_intersection(s)

validate_merged_summary(s, scope) ==
    validate_unique_exports(s) /\ validate_binding_links(s, scope) /\ validate_requirements(s, scope)

-----------------------------------------------------------------------------
(* ----------------- Facets, constraints, facet handles ------------------ *)

facet_named(facets, n) == CHOOSE f \in ToSet(facets) : f.name = n
facet_names(facets) == {f.name : f \in ToSet(facets)}
outside(facets, n, v) == LET f == facet_named(facets, n) IN ~f.open /\ v \notin ToSet(f.values)

\* A selector may name a value of a closed facet only if it is declared; one
\* that does not parse is passed over.
validate_facets(m, facets) ==
    /\ m.charset
    /\ \A f \in ToSet(facets) : /\ f.values # <<>>
                                /\ no_duplicates(f.values)
                                /\ f.default # None => f.default \in ToSet(f.values)
    /\ (\A f \in ToSet(facets) : f.open) \/ \A p \in parameters(m) : ensure_override_depth(p)
    /\ \A e \in ToSet(SelectSeq(selectors(m), parses)) : \A x \in for_each_eq_predicate(e) :
          x[1] \in facet_names(facets) => ~outside(facets, x[1], x[2])

RECURSIVE for_each_condition_operand(_)
for_each_condition_operand(e) ==
    CASE e.k = "pred" -> <<[operand |-> "Symbol", tag |-> e.tag, value |-> e.value]>>
      [] e.k = "cmp" -> <<[operand |-> "ComparisonLeft", tag |-> e.left, value |-> None],
                          [operand |-> "ComparisonRight", tag |-> e.right, value |-> None]>>
      [] e.k = "not" -> for_each_condition_operand(e.arg)
      [] e.k \in {"and", "or"} -> for_each_condition_operand(e.lhs) \o for_each_condition_operand(e.rhs)
      [] e.k \in Cardinality_ops ->
            FlattenSeq([i \in DOMAIN e.args |-> for_each_condition_operand(e.args[i])])
      [] OTHER -> <<>>

\* Only the first operand that is wrong counts: in a unit, an undeclared name
\* there defers the whole constraint.
validate_constraints(constraints, facets, scope) ==
    LET undeclared(o) == o.tag \notin facet_names(facets)
        wrong(o) == undeclared(o) \/ (o.operand = "Symbol" /\ outside(facets, o.tag, o.value))
        violations(e) == SelectSeq(for_each_condition_operand(e), wrong)
    IN  \A c \in ToSet(constraints) :
            /\ parses(c.condition)
            /\ LET v == violations(c.condition)
               IN  v = <<>> \/ (defers_unresolved(scope) /\ undeclared(Head(v)))

\* The parameters that are a facet's handle: string in every branch, no value
\* of their own, and one per facet in the whole model.  The facet must be
\* declared, in a unit as well.
validate_facet_bindings(m, facets, scope) ==
    LET handles == UNION {{<<c.id, k>> : k \in {j \in DOMAIN c.params : c.params[j].facet # None}} :
                             c \in ToSet(m.components)}
        param(h) == component(m, h[1]).params[h[2]]
    IN  /\ \A h \in handles :
             LET p == param(h)
                 types == {q.type : q \in ToSet(payloads(p))} \ {None}
             IN  /\ p.facet \in facet_names(facets)
                 /\ ensure_override_depth(p)
                 /\ types = {"string"}
                 /\ p.value = None
                 /\ \A q \in ToSet(Tail(payloads(p))) : q.value = None /\ q.facet = None
        /\ defers_unresolved(scope) \/
             \A g, h \in handles : param(g).facet = param(h).facet => g = h
=============================================================================
