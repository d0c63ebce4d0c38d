----------------------------- MODULE CcmEmitter -----------------------------
(***************************************************************************)
(* From a linked package to its constraint model (the .ccm): which clauses *)
(* compiler_core puts into it, how lowering.rs turns derive tables and     *)
(* accepts lists into root conjuncts, how the partitioner splits the       *)
(* clauses into clusters and a bridge, in which order the variables of a   *)
(* partition come, and the Boolean function each partition holds.          *)
(*                                                                         *)
(* A package m is a record:                                                *)
(*   facets     sequence of [name, values, default, open], names ascending *)
(*   catalogues function from a catalogue to its sequence of entries       *)
(*   bindings   sequence of [id, catalogue, default, source, pairs]        *)
(*   definitions function from a definition to its parameter               *)
(*   components sequence of [id, condition, requires, params, ...]         *)
(*   constraints sequence of [id, condition], ids ascending                *)
(* A formula over variables is the set of its satisfying assignments, an   *)
(* assignment being the set of its true <<facet, value>> variables.        *)
(***************************************************************************)
EXTENDS Conditions, FiniteSetsExt

\* Every name of the packages in ascending order: what a BTreeMap sorts by.
CONSTANT Names

None == "none"
rank(n) == CHOOSE i \in DOMAIN Names : Names[i] = n
symbol_before(s, t) == \/ rank(s[1]) < rank(t[1])
                       \/ s[1] = t[1] /\ rank(s[2]) < rank(t[2])
sorted_symbols(S) == SetToSortSeq(S, symbol_before)
first_sight(s) == FoldLeft(LAMBDA acc, x : IF x \in ToSet(acc) THEN acc ELSE Append(acc, x), <<>>, s)

-----------------------------------------------------------------------------
(* -------------------- The condition model of a package ----------------- *)

\* The declared facets, and the closed facet every binding is.
binding_facet(m, b) == [name |-> b.id, values |-> m.catalogues[b.catalogue],
                        default |-> b.default, open |-> FALSE]
declared_facets(m) ==
    SetToSortSeq(ToSet(m.facets) \cup {binding_facet(m, b) : b \in ToSet(m.bindings)},
                 LAMBDA f, g : rank(f.name) < rank(g.name))
collect_facet_domains(m) ==
    LET fs == declared_facets(m)
    IN  [n \in {f.name : f \in ToSet(fs)} |-> (CHOOSE f \in ToSet(fs) : f.name = n).values]

\* lowering.rs: `source != k || binding == e` for each derive pair, then the
\* accepts list of each requirement, guarded by its component's condition.
derive_conjuncts(m) ==
    FlattenSeq([i \in DOMAIN m.bindings |->
        LET b == m.bindings[i] IN
        [j \in DOMAIN b.pairs |->
            [id |-> <<"derive", b.id, b.source, b.pairs[j][1]>>,
             condition |-> Or(NotEq(b.source, b.pairs[j][1]), Eq(b.id, b.pairs[j][2]))]]])

accepts_disjunction(binding, accepts) ==
    LET eqs == [i \in DOMAIN accepts |-> Eq(binding, accepts[i])]
    IN  IF Len(eqs) = 1 THEN eqs[1] ELSE AnyOf(eqs)

guarded(condition, conjunct) ==
    IF condition = NoCondition THEN conjunct ELSE Or(Not(condition), conjunct)

accepts_conjuncts(m) ==
    FlattenSeq([i \in DOMAIN m.components |->
        LET c == m.components[i]
            listed == SelectSeq(c.requires, LAMBDA r : r.listed)
        IN  [j \in DOMAIN listed |->
                [id |-> <<"accepts", c.id, listed[j].slot>>,
                 condition |-> guarded(c.condition,
                                       accepts_disjunction(listed[j].binding, listed[j].accepts))]]])

lowered_root_conjuncts(m) == derive_conjuncts(m) \o accepts_conjuncts(m)
ccm_constraints(m) == m.constraints \o lowered_root_conjuncts(m)

\* Selectors introduce their symbols and assert nothing.
RECURSIVE collect_predicates_dfs(_)
collect_predicates_dfs(e) ==
    CASE e.k = "pred" -> <<<<e.tag, e.value>>>>
      [] e.k = "not" -> collect_predicates_dfs(e.arg)
      [] e.k \in {"and", "or"} -> collect_predicates_dfs(e.lhs) \o collect_predicates_dfs(e.rhs)
      [] e.k \in Cardinality_ops ->
            FlattenSeq([i \in DOMAIN e.args |-> collect_predicates_dfs(e.args[i])])
      [] OTHER -> <<>>

synthesize_symbol_introduction(f, v) == Or(Eq(f, v), NotEq(f, v))
synthesize_selector_symbols(e) ==
    LET ss == first_sight(collect_predicates_dfs(e))
    IN  [i \in DOMAIN ss |-> synthesize_symbol_introduction(ss[i][1], ss[i][2])]

synthesize_facet_clauses(m) ==
    LET fs == declared_facets(m)
    IN  FlattenSeq([i \in DOMAIN fs |->
            [j \in DOMAIN fs[i].values |->
                synthesize_symbol_introduction(fs[i].name, fs[i].values[j])]])

\* The inclusion selectors: the override conditions of the definitions, then
\* each component's condition and the override conditions of its parameters.
key_order(f) == SetToSortSeq(DOMAIN f, LAMBDA a, b : rank(a) < rank(b))
RECURSIVE collect_parameter_conditions(_)
collect_parameter_conditions(p) ==
    FlattenSeq([i \in DOMAIN p.overrides |->
        <<p.overrides[i].condition>> \o collect_parameter_conditions(p.overrides[i].payload)])
parameter_conditions(params) ==
    LET keys == key_order(params)
    IN  FlattenSeq([i \in DOMAIN keys |-> collect_parameter_conditions(params[keys[i]])])
selectors(m) ==
    SelectSeq(parameter_conditions(m.definitions) \o
              FlattenSeq([i \in DOMAIN m.components |->
                  <<m.components[i].condition>> \o parameter_conditions(m.components[i].params)]),
              LAMBDA e : e # NoCondition)

ccm_clauses(m) ==
    LET parseable == SelectSeq(selectors(m), parses)
    IN  first_sight(FlattenSeq([i \in DOMAIN parseable |-> synthesize_selector_symbols(parseable[i])]))
        \o synthesize_facet_clauses(m)

\* Exactly one value of a closed facet, at most one of an open one.
synthesize_facet_cardinality(m) ==
    LET fs == declared_facets(m)
        eq(f, i) == Eq(f.name, f.values[i])
        pairs(f) == FlattenSeq([i \in DOMAIN f.values |->
                        [d \in 1..(Len(f.values) - i) |->
                            Or(NotEq(f.name, f.values[i]), NotEq(f.name, f.values[i + d]))]])
        of(f) == CASE f.open -> pairs(f)
                   [] Len(f.values) = 1 -> <<eq(f, 1)>>
                   [] Len(f.values) >= 2 -> <<ExactlyOneOf([i \in DOMAIN f.values |-> eq(f, i)])>>
                   [] OTHER -> <<>>
    IN  FlattenSeq([i \in DOMAIN fs |-> of(fs[i])])

\* parse_condition_model: the fold order of the root, comparisons expanded.
conditions_of(constraints) == [i \in DOMAIN constraints |-> constraints[i].condition]
expand_all(clauses, domains) == [i \in DOMAIN clauses |-> expand_facet_comparisons(clauses[i], domains)]
parse_condition_model(m) ==
    expand_all(ccm_clauses(m) \o conditions_of(ccm_constraints(m)) \o synthesize_facet_cardinality(m),
               collect_facet_domains(m))

-----------------------------------------------------------------------------
(* ------------------------------ Partitioner ---------------------------- *)

collect_variables(e) == for_each_predicate_symbol(e)

\* The union-find as the function from a variable to its root.
size(root, r) == Cardinality({v \in DOMAIN root : root[v] = r})

merge_roots(root, ra, rb) ==
    LET keep == CASE size(root, ra) > size(root, rb) -> ra
                  [] size(root, ra) < size(root, rb) -> rb
                  [] OTHER -> IF symbol_before(ra, rb) THEN ra ELSE rb
    IN  [v \in DOMAIN root |-> IF root[v] \in {ra, rb} THEN keep ELSE root[v]]

force_union(root, a, b) == IF root[a] = root[b] THEN root ELSE merge_roots(root, root[a], root[b])

\* A union past the cap is refused while both sides are within it.
try_union(root, a, b, cap) ==
    LET na == size(root, root[a])
        nb == size(root, root[b])
    IN  IF na + nb > cap /\ na <= cap /\ nb <= cap THEN root ELSE force_union(root, a, b)

union_clause(root, e, cap) ==
    LET vs == sorted_symbols(collect_variables(e))
        join(r, v) == IF Len(vs) > cap THEN force_union(r, vs[1], v) ELSE try_union(r, vs[1], v, cap)
    IN  IF vs = <<>> THEN root ELSE FoldLeft(join, root, Tail(vs))

\* The clauses that span clusters, if any, form the bridge.
bridge_lost(spanning) == <<>>
bridge_of(spanning) == IF spanning = <<>> THEN <<>> ELSE <<[bridge |-> TRUE, clauses |-> spanning]>>

\* A part of the plan: whether it is the bridge, and its clauses in order.
clusters_of(clauses, root, heads) ==
    LET touched(e) == {root[v] : v \in collect_variables(e)}
        in_cluster(i, e) == touched(e) = {root[heads[i]]} \/ (touched(e) = {} /\ i = 1)
    IN  [i \in DOMAIN heads |->
            [bridge |-> FALSE, clauses |-> SelectSeq(clauses, LAMBDA e : in_cluster(i, e))]]
        \o bridge_of(SelectSeq(clauses, LAMBDA e : Cardinality(touched(e)) > 1))
cluster_heads(slots, root) ==
    SelectSeq(slots, LAMBDA v : ~\E w \in ToSet(slots) : symbol_before(w, v) /\ root[w] = root[v])
split(clauses, slots, root) == clusters_of(clauses, root, cluster_heads(slots, root))
partition_over(clauses, all, cap) ==
    IF Cardinality(all) <= cap THEN <<[bridge |-> FALSE, clauses |-> clauses]>>
    ELSE split(clauses, sorted_symbols(all),
               FoldLeft(LAMBDA r, e : union_clause(r, e, cap), [v \in all |-> v], clauses))
partition(clauses, cap) == partition_over(clauses, UNION {collect_variables(e) : e \in ToSet(clauses)}, cap)

-----------------------------------------------------------------------------
(* ---------------------------- Variable orders -------------------------- *)

facet_name_ascending(clauses) == sorted_symbols(UNION {collect_variables(e) : e \in ToSet(clauses)})
clause_grouped_dfs(clauses) ==
    first_sight(FlattenSeq([i \in DOMAIN clauses |-> collect_predicates_dfs(clauses[i])]))

\* One sweep of FORCE: each variable moves to the mean of the centroids of the
\* clauses that touch it.  The means are compared exactly, scaled by scale.
FORCE_MAX_SWEEPS == 20
force_sweep(perm, seed, edges) ==
    LET pos(v) == (CHOOSE i \in DOMAIN perm : perm[i] = v) - 1
        scale == FoldSet(LAMBDA i, acc : Cardinality(edges[i]) * acc, 1, DOMAIN edges)
        centroid(i) == SumSet({pos(v) : v \in edges[i]}) * (scale \div Cardinality(edges[i]))
        at(v) == {i \in DOMAIN edges : v \in edges[i]}
        weight(v) == FoldSet(LAMBDA i, acc : centroid(i) + acc, 0, at(v))
        before(v, w) == LET l == weight(v) * Cardinality(at(w))
                            r == weight(w) * Cardinality(at(v))
                            index(x) == CHOOSE i \in DOMAIN seed : seed[i] = x
                        IN  l < r \/ (l = r /\ index(v) < index(w))
    IN  SetToSortSeq(ToSet(seed), before)

RECURSIVE force_sweeps(_, _, _, _)
force_sweeps(perm, seed, edges, n) ==
    LET ranked == force_sweep(perm, seed, edges)
    IN  IF n = 0 \/ ranked = perm THEN perm ELSE force_sweeps(ranked, seed, edges, n - 1)

force(clauses) ==
    LET seed == clause_grouped_dfs(clauses)
        touching == SelectSeq(clauses, LAMBDA e : collect_variables(e) # {})
        edges == [i \in DOMAIN touching |-> collect_variables(touching[i])]
    IN  IF Len(seed) <= 1 THEN seed ELSE force_sweeps(seed, seed, edges, FORCE_MAX_SWEEPS)

compute_variable_order(clauses, heuristic) ==
    CASE heuristic = "facet-name-ascending" -> facet_name_ascending(clauses)
      [] heuristic = "clause-grouped-dfs" -> clause_grouped_dfs(clauses)
      [] heuristic = "force" -> force(clauses)

-----------------------------------------------------------------------------
(* ------------------------------- Emission ------------------------------ *)

\* emit_partition_inner: the AND of the clauses over the partition's symbols.
emit_over(part, order) ==
    [bridge |-> part.bridge, order |-> order,
     root |-> {vars \in SUBSET ToSet(order) : \A e \in ToSet(part.clauses) : compile_expr(e, vars)}]
emit_partition(part, heuristic) == emit_over(part, compute_variable_order(part.clauses, heuristic))

\* emit_multi_part: clusters first, then the bridge, and the roster of the
\* named root conjuncts in fold order.
emit_plan(plan, heuristic) == [i \in DOMAIN plan |-> emit_partition(plan[i], heuristic)]
emit_multi_part(m, heuristic, cluster_size) ==
    [parts |-> emit_plan(partition(parse_condition_model(m), cluster_size), heuristic),
     roster |-> ccm_constraints(m)]
=============================================================================
