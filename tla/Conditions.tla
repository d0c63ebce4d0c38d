----------------------------- MODULE Conditions -----------------------------
(***************************************************************************)
(* The condition language of compiler/src/conditions: the parser, the      *)
(* strict evaluator of selectors, the three-valued evaluator of            *)
(* constraints, the expansion of facet comparisons and the implication     *)
(* test.  An expression is a record with a field k for its kind.  A text   *)
(* is a sequence of tokens: the characters of an atom are abstracted away. *)
(***************************************************************************)
EXTENDS Naturals, Sequences, FiniteSets, SequencesExt

\* The constructors of ConditionExpr.  pred and cmp carry the operator as eq.
Bool(v) == [k |-> "bool", b |-> v]
Eq(t, v) == [k |-> "pred", tag |-> t, eq |-> TRUE, value |-> v]
NotEq(t, v) == [k |-> "pred", tag |-> t, eq |-> FALSE, value |-> v]
Not(e) == [k |-> "not", arg |-> e]
And(l, r) == [k |-> "and", lhs |-> l, rhs |-> r]
Or(l, r) == [k |-> "or", lhs |-> l, rhs |-> r]
AnyOf(es) == [k |-> "any_of", args |-> es]
AllOf(es) == [k |-> "all_of", args |-> es]
ExactlyOneOf(es) == [k |-> "exactly_one_of", args |-> es]
Same(l, r) == [k |-> "cmp", left |-> l, eq |-> TRUE, right |-> r]
Differ(l, r) == [k |-> "cmp", left |-> l, eq |-> FALSE, right |-> r]

\* A condition text that no grammar rule accepts.
Unparseable == [k |-> "unparseable"]
parses(e) == e.k # "unparseable"

Cardinality_ops == {"any_of", "all_of", "exactly_one_of"}

-----------------------------------------------------------------------------
(* ----------------------- Texts and the two parsers --------------------- *)

\* Tokens: punctuation, the Boolean literals, the cardinality keywords, and
\* a whole atom (identifier, operator, right-hand side) as its expression.
Tok(s) == [t |-> s]
AtomTok(e) == [t |-> "atom", atom |-> e]
tok(ts, i) == IF i <= Len(ts) THEN ts[i].t ELSE "eof"
Parsed(e, i) == [ok |-> TRUE, expr |-> e, next |-> i]
ParseError == [ok |-> FALSE]

RECURSIVE parse_chain(_, _, _, _), parse_unary(_, _, _), parse_args(_, _, _)

\* parse_or and parse_and: operands joined to the left while the operator
\* follows.  card tells the grammar with the cardinality operators (AstParser)
\* from the one without (the evaluator).
parse_or(ts, i, card) == parse_chain(ts, i, card, "||")

parse_chain(ts, i, card, op) ==
    LET operand(j) == IF op = "||" THEN parse_chain(ts, j, card, "&&")
                                   ELSE parse_unary(ts, j, card)
        join(l, r) == IF op = "||" THEN Or(l, r) ELSE And(l, r)
        RECURSIVE more(_)
        more(p) == IF ~p.ok \/ tok(ts, p.next) # op THEN p
                   ELSE LET r == operand(p.next + 1) IN
                        IF r.ok THEN more(Parsed(join(p.expr, r.expr), r.next))
                                ELSE ParseError
    IN  more(operand(i))

parse_args(ts, i, kw) ==
    LET RECURSIVE more(_, _)
        more(args, j) ==
            LET a == parse_or(ts, j, TRUE) IN
            IF ~a.ok THEN ParseError
            ELSE CASE tok(ts, a.next) = "," -> more(Append(args, a.expr), a.next + 1)
                   [] tok(ts, a.next) = ")" /\ Len(args) >= 1 ->
                        Parsed([k |-> kw, args |-> Append(args, a.expr)], a.next + 1)
                   [] OTHER -> ParseError
    IN  more(<<>>, i)

parse_primary(ts, i, card) ==
    LET t == tok(ts, i) IN
    CASE t = "(" -> LET e == parse_or(ts, i + 1, card) IN
                    IF e.ok /\ tok(ts, e.next) = ")" THEN Parsed(e.expr, e.next + 1)
                                                     ELSE ParseError
      [] t = "true" -> Parsed(Bool(TRUE), i + 1)
      [] t = "false" -> Parsed(Bool(FALSE), i + 1)
      [] t = "atom" -> Parsed(ts[i].atom, i + 1)
      [] card /\ t \in Cardinality_ops /\ tok(ts, i + 1) = "(" -> parse_args(ts, i + 2, t)
      [] OTHER -> ParseError

parse_unary(ts, i, card) ==
    IF tok(ts, i) = "!"
    THEN LET e == parse_unary(ts, i + 1, card) IN
         IF e.ok THEN Parsed(Not(e.expr), e.next) ELSE ParseError
    ELSE parse_primary(ts, i, card)

\* parse_condition_expr: the whole text must be consumed.
parse_text(ts, card) ==
    LET p == parse_or(ts, 1, card) IN
    IF p.ok /\ p.next = Len(ts) + 1 THEN p.expr ELSE Unparseable
parse_condition_expr(ts) == parse_text(ts, TRUE)

\* serialize: parentheses only where the child binds more loosely than its
\* position, both sides of && and || at the operator's own strength.
Prec(e) == IF e.k = "or" THEN 0 ELSE IF e.k = "and" THEN 1 ELSE 2

RECURSIVE serialize(_, _)
serialize(e, parent) ==
    LET wrap(s) == IF Prec(e) < parent THEN <<Tok("(")>> \o s \o <<Tok(")")>> ELSE s
        call(es) == FlattenSeq([i \in 1..Len(es) |->
                        (IF i = 1 THEN <<>> ELSE <<Tok(",")>>) \o serialize(es[i], 0)])
    IN  CASE e.k = "bool" -> <<Tok(IF e.b THEN "true" ELSE "false")>>
          [] e.k \in {"pred", "cmp"} -> <<AtomTok(e)>>
          [] e.k = "not" -> <<Tok("!")>> \o serialize(e.arg, 2)
          [] e.k = "and" -> wrap(serialize(e.lhs, 1) \o <<Tok("&&")>> \o serialize(e.rhs, 1))
          [] e.k = "or" -> wrap(serialize(e.lhs, 0) \o <<Tok("||")>> \o serialize(e.rhs, 0))
          [] OTHER -> <<Tok(e.k), Tok("(")>> \o call(e.args) \o <<Tok(")")>>

\* rewrite_condition_identifiers renames the tags and re-serialises.
RECURSIVE substitute(_, _)
substitute(e, rename_tag) ==
    CASE e.k = "pred" -> [e EXCEPT !.tag = rename_tag[@]]
      [] e.k = "cmp" -> [e EXCEPT !.left = rename_tag[@], !.right = rename_tag[@]]
      [] e.k = "not" -> Not(substitute(e.arg, rename_tag))
      [] e.k \in {"and", "or"} -> [e EXCEPT !.lhs = substitute(@, rename_tag),
                                            !.rhs = substitute(@, rename_tag)]
      [] e.k \in Cardinality_ops ->
            [e EXCEPT !.args = [i \in DOMAIN @ |-> substitute(@[i], rename_tag)]]
      [] OTHER -> e

rewrite_condition_identifiers(ts, rename_tag) ==
    LET e == parse_condition_expr(ts) IN
    IF parses(e) THEN serialize(substitute(e, rename_tag), 0) ELSE <<>>

-----------------------------------------------------------------------------
(* ------------------------- Walks over an expression -------------------- *)

\* The predicate atoms, both operators, and the compared pairs.
RECURSIVE visit_predicates(_)
visit_predicates(e) ==
    CASE e.k = "pred" -> {e}
      [] e.k = "not" -> visit_predicates(e.arg)
      [] e.k \in {"and", "or"} -> visit_predicates(e.lhs) \cup visit_predicates(e.rhs)
      [] e.k \in Cardinality_ops -> UNION {visit_predicates(e.args[i]) : i \in DOMAIN e.args}
      [] OTHER -> {}

RECURSIVE for_each_facet_comparison(_)
for_each_facet_comparison(e) ==
    CASE e.k = "cmp" -> {<<e.left, e.right>>}
      [] e.k = "not" -> for_each_facet_comparison(e.arg)
      [] e.k \in {"and", "or"} -> for_each_facet_comparison(e.lhs) \cup for_each_facet_comparison(e.rhs)
      [] e.k \in Cardinality_ops ->
            UNION {for_each_facet_comparison(e.args[i]) : i \in DOMAIN e.args}
      [] OTHER -> {}

for_each_predicate_symbol(e) == {<<p.tag, p.value>> : p \in visit_predicates(e)}
for_each_eq_predicate(e) == {<<p.tag, p.value>> : p \in {q \in visit_predicates(e) : q.eq}}
mentions_eq(e, tag, value) == <<tag, value>> \in for_each_eq_predicate(e)

\* condition_identifiers(...).tags.
condition_identifiers(e) ==
    {p.tag : p \in visit_predicates(e)}
    \cup UNION {{c[1], c[2]} : c \in for_each_facet_comparison(e)}

RECURSIVE is_pure_conjunction(_)
is_pure_conjunction(e) ==
    CASE e.k = "pred" -> TRUE
      [] e.k = "and" -> is_pure_conjunction(e.lhs) /\ is_pure_conjunction(e.rhs)
      [] OTHER -> FALSE

-----------------------------------------------------------------------------
(* ------------------------- The strict evaluator ------------------------ *)

\* eval_condition: short-circuit evaluation; an unbound facet that is reached
\* is an error, and so is every cardinality operator, which this grammar lacks.
RECURSIVE strict_eval(_, _), mentions_cardinality(_)
mentions_cardinality(e) ==
    CASE e.k = "not" -> mentions_cardinality(e.arg)
      [] e.k \in {"and", "or"} -> mentions_cardinality(e.lhs) \/ mentions_cardinality(e.rhs)
      [] OTHER -> e.k \in Cardinality_ops

strict_eval(e, tags) ==
    LET truth(v) == IF v THEN "True" ELSE "False" IN
    CASE e.k = "bool" -> truth(e.b)
      [] e.k = "pred" -> IF e.tag \notin DOMAIN tags THEN "Err"
                         ELSE truth((tags[e.tag] = e.value) = e.eq)
      [] e.k = "cmp" -> IF {e.left, e.right} \subseteq DOMAIN tags
                        THEN truth((tags[e.left] = tags[e.right]) = e.eq) ELSE "Err"
      [] e.k = "not" -> LET v == strict_eval(e.arg, tags) IN
                        IF v = "Err" THEN "Err" ELSE truth(v = "False")
      [] e.k = "and" -> LET v == strict_eval(e.lhs, tags) IN
                        IF v = "True" THEN strict_eval(e.rhs, tags) ELSE v
      [] e.k = "or" -> LET v == strict_eval(e.lhs, tags) IN
                       IF v = "False" THEN strict_eval(e.rhs, tags) ELSE v

eval_condition(e, tags) ==
    IF ~parses(e) \/ mentions_cardinality(e) THEN "Err" ELSE strict_eval(e, tags)

-----------------------------------------------------------------------------
(* ----------------- Two-valued evaluation and implication --------------- *)

RECURSIVE eval_total(_, _)
eval_total(e, a) ==
    CASE e.k = "bool" -> e.b
      [] e.k = "pred" -> e.tag \in DOMAIN a /\ (a[e.tag] = e.value) = e.eq
      [] e.k = "cmp" -> {e.left, e.right} \subseteq DOMAIN a /\ (a[e.left] = a[e.right]) = e.eq
      [] e.k = "not" -> ~eval_total(e.arg, a)
      [] e.k = "and" -> eval_total(e.lhs, a) /\ eval_total(e.rhs, a)
      [] e.k = "or" -> eval_total(e.lhs, a) \/ eval_total(e.rhs, a)
      [] e.k = "any_of" -> \E i \in DOMAIN e.args : eval_total(e.args[i], a)
      [] e.k = "all_of" -> \A i \in DOMAIN e.args : eval_total(e.args[i], a)
      [] e.k = "exactly_one_of" ->
            Cardinality({i \in DOMAIN e.args : eval_total(e.args[i], a)}) = 1

\* Sentinels stand for "any value no atom names".
unique_sentinel(values) ==
    LET candidates == <<"__other__", "__other__1", "__other__2">>
    IN  candidates[CHOOSE i \in 1..3 : /\ candidates[i] \notin values
                                       /\ \A j \in 1..(i - 1) : candidates[j] \in values]

collect_atom_values(es, tag) ==
    {s[2] : s \in {x \in UNION {for_each_predicate_symbol(e) : e \in es} : x[1] = tag}}

\* unify_compared_tag_domains: the compared tags of one connected group share
\* the values named for any of them.
RECURSIVE group_of(_, _)
group_of(tags, pairs) ==
    LET wider == tags \cup UNION {{p[1], p[2]} : p \in {q \in pairs : {q[1], q[2]} \cap tags # {}}}
    IN  IF wider = tags THEN tags ELSE group_of(wider, pairs)

value_domain(es, pairs, tag) ==
    LET named == UNION {collect_atom_values(es, t) : t \in group_of({tag}, pairs)}
        once == named \cup {unique_sentinel(named)}
    IN  IF \E p \in pairs : tag \in {p[1], p[2]} THEN once \cup {unique_sentinel(once)} ELSE once

condition_expr_implies(antecedent, consequent) ==
    LET es == {antecedent, consequent}
        pairs == UNION {for_each_facet_comparison(e) : e \in es}
        tags == UNION {condition_identifiers(e) : e \in es}
        dom == [t \in tags |-> value_domain(es, pairs, t)]
        rows == {a \in [tags -> UNION {dom[t] : t \in tags}] : \A t \in tags : a[t] \in dom[t]}
    IN  \A a \in rows : eval_total(antecedent, a) => eval_total(consequent, a)

\* condition_implies_typed: NoCondition is an always-active component.
NoCondition == [k |-> "none"]
condition_implies_typed(a, b) ==
    CASE b = NoCondition -> "True"
      [] ~parses(b) \/ (a # NoCondition /\ ~parses(a)) -> "Err"
      [] OTHER -> IF condition_expr_implies(IF a = NoCondition THEN Bool(TRUE) ELSE a, b)
                  THEN "True" ELSE "False"

-----------------------------------------------------------------------------
(* ------------------- Three-valued evaluation (Kleene) ------------------ *)

from_bool(v) == IF v THEN "True" ELSE "False"
ternary_not(v) == IF v = "Unknown" THEN v ELSE from_bool(v = "False")
ternary_and(vs) == IF "False" \in vs THEN "False" ELSE IF "Unknown" \in vs THEN "Unknown" ELSE "True"
ternary_or(vs) == IF "True" \in vs THEN "True" ELSE IF "Unknown" \in vs THEN "Unknown" ELSE "False"

\* A world binds facets to values (bound), or restricts them to sets (open).
Bound(f) == [bound |-> f]
Restricted(f) == [open |-> f]

holds(w, facet, value) ==
    IF "bound" \in DOMAIN w
    THEN IF facet \in DOMAIN w.bound THEN from_bool(w.bound[facet] = value) ELSE "Unknown"
    ELSE CASE facet \notin DOMAIN w.open -> "Unknown"
           [] w.open[facet] = {} -> "Unknown"
           [] value \notin w.open[facet] -> "False"
           [] OTHER -> IF Cardinality(w.open[facet]) = 1 THEN "True" ELSE "Unknown"

agree(w, l, r) ==
    IF "bound" \in DOMAIN w
    THEN IF {l, r} \subseteq DOMAIN w.bound THEN from_bool(w.bound[l] = w.bound[r]) ELSE "Unknown"
    ELSE CASE ~({l, r} \subseteq DOMAIN w.open) -> "Unknown"
           [] w.open[l] = {} \/ w.open[r] = {} -> "Unknown"
           [] w.open[l] \cap w.open[r] = {} -> "False"
           [] OTHER -> IF Cardinality(w.open[l]) = 1 /\ w.open[l] = w.open[r]
                       THEN "True" ELSE "Unknown"

eval_exactly_one_of(vs) ==
    ternary_and({ternary_or({vs[i] : i \in DOMAIN vs})}
        \cup {ternary_not(ternary_and({vs[p[1]], vs[p[2]]})) :
                 p \in {q \in (DOMAIN vs) \X (DOMAIN vs) : q[1] < q[2]}})

RECURSIVE eval_partial(_, _)
eval_partial(e, w) ==
    LET signed(v) == IF e.eq THEN v ELSE ternary_not(v)
        children == [i \in DOMAIN e.args |-> eval_partial(e.args[i], w)]
    IN  CASE e.k = "bool" -> from_bool(e.b)
          [] e.k = "pred" -> signed(holds(w, e.tag, e.value))
          [] e.k = "cmp" -> signed(agree(w, e.left, e.right))
          [] e.k = "not" -> ternary_not(eval_partial(e.arg, w))
          [] e.k = "and" -> ternary_and({eval_partial(e.lhs, w), eval_partial(e.rhs, w)})
          [] e.k = "or" -> ternary_or({eval_partial(e.lhs, w), eval_partial(e.rhs, w)})
          [] e.k = "any_of" -> ternary_or({children[i] : i \in DOMAIN children})
          [] e.k = "all_of" -> ternary_and({children[i] : i \in DOMAIN children})
          [] e.k = "exactly_one_of" -> eval_exactly_one_of(children)

is_contradicted(e, w) == eval_partial(e, w) = "False"
not_contradicted(e, assignments) == ~is_contradicted(e, Bound(assignments))

-----------------------------------------------------------------------------
(* ------------- Expansion of facet comparisons, and lowering ------------ *)

\* expand_equality over the declared domains, values in fold order.
expand_equality(l, r, domains) ==
    LET order == domains[l] \o SelectSeq(domains[r], LAMBDA v : v \notin ToSet(domains[l]))
        term(v) == CASE v \in ToSet(domains[l]) /\ v \in ToSet(domains[r]) ->
                          Or(And(Eq(l, v), Eq(r, v)), And(NotEq(l, v), NotEq(r, v)))
                     [] v \in ToSet(domains[l]) -> NotEq(l, v)
                     [] OTHER -> NotEq(r, v)
    IN  IF order = <<>> THEN Bool(TRUE)
        ELSE FoldLeft(LAMBDA acc, v : And(acc, term(v)), term(order[1]), Tail(order))

RECURSIVE expand_facet_comparisons(_, _)
expand_facet_comparisons(e, domains) ==
    CASE e.k = "cmp" -> LET same == expand_equality(e.left, e.right, domains)
                        IN  IF e.eq THEN same ELSE Not(same)
      [] e.k = "not" -> Not(expand_facet_comparisons(e.arg, domains))
      [] e.k \in {"and", "or"} -> [e EXCEPT !.lhs = expand_facet_comparisons(@, domains),
                                            !.rhs = expand_facet_comparisons(@, domains)]
      [] e.k \in Cardinality_ops ->
            [e EXCEPT !.args = [i \in DOMAIN @ |-> expand_facet_comparisons(@[i], domains)]]
      [] OTHER -> e

\* compile_expr: the truth of an expanded expression in a set of true
\* {facet}.{value} variables, each variable on its own.
RECURSIVE compile_expr(_, _)
compile_expr(e, vars) ==
    CASE e.k = "bool" -> e.b
      [] e.k = "pred" -> (<<e.tag, e.value>> \in vars) = e.eq
      [] e.k = "not" -> ~compile_expr(e.arg, vars)
      [] e.k = "and" -> compile_expr(e.lhs, vars) /\ compile_expr(e.rhs, vars)
      [] e.k = "or" -> compile_expr(e.lhs, vars) \/ compile_expr(e.rhs, vars)
      [] e.k = "any_of" -> \E i \in DOMAIN e.args : compile_expr(e.args[i], vars)
      [] e.k = "all_of" -> \A i \in DOMAIN e.args : compile_expr(e.args[i], vars)
      [] e.k = "exactly_one_of" ->
            /\ \E i \in DOMAIN e.args : compile_expr(e.args[i], vars)
            /\ \A i, j \in DOMAIN e.args :
                  i < j => ~(compile_expr(e.args[i], vars) /\ compile_expr(e.args[j], vars))
=============================================================================
