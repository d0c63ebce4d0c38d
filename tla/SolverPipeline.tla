--------------------------- MODULE SolverPipeline ---------------------------
(***************************************************************************)
(* The solver end to end: packages are emitted as constraint models under  *)
(* every variable order and cluster size, and sessions run on the result.  *)
(* The model a session holds remembers its package, as bound_model_hash    *)
(* does.                                                                   *)
(***************************************************************************)
EXTENDS SolverSession, SolverExplain, CcmEmitter

CONSTANTS Packages,      \* the packages
          ClusterSizes,  \* the --cluster-size values
          Heuristics     \* the variable-order heuristics

Emitted == {emit_multi_part(m, h, n) @@ [package |-> m] :
               m \in Packages, h \in Heuristics, n \in ClusterSizes}

-----------------------------------------------------------------------------
(* ------------------------------ Properties ----------------------------- *)

Symbols == symbols_of(session.ccm)
in_model(a) == \A i \in DOMAIN session.ccm.parts :
                  a \cap ToSet(session.ccm.parts[i].order) \in session.ccm.parts[i].root

\* The total choices of declared values or, for an open facet, of a value
\* nobody declared; and the ones every constraint is true of.
configurations(m) ==
    LET fs == ToSet(declared_facets(m))
        facet(n) == CHOOSE f \in fs : f.name = n
        compared == UNION {{c[1], c[2]} : c \in UNION {for_each_facet_comparison(r.condition) :
                                                      r \in ToSet(ccm_constraints(m))}}
        domain(n) == ToSet(facet(n).values)
                     \cup (IF facet(n).open /\ n \notin compared THEN {"undeclared"} ELSE {})
        names == {f.name : f \in fs}
    IN  {a \in [names -> UNION {domain(n) : n \in names}] : \A n \in names : a[n] \in domain(n)}
satisfies(a, m) == \A r \in ToSet(ccm_constraints(m)) : eval_total(r.condition, a)

\* A constraint means the same to the solver as to a concrete evaluation: a
\* total choice of declared values (or, for an open facet, of a value nobody
\* declared) is a model of the emitted partitions taken together exactly when
\* every authored, derive and accepts conjunct is true of it.  Selectors
\* forbid nothing, and no split loses or duplicates a clause.
ModelMeansConstraints ==
    session.undo = <<>> /\ ~is_empty_ccm(session.ccm) =>
        \A a \in configurations(session.ccm.package) :
            in_model({<<n, a[n]>> : n \in DOMAIN a}) = satisfies(a, session.ccm.package)

\* explain_rejection judges an option against the whole model and every
\* committed selection, across partitions: it refuses exactly the options that
\* no model of all the partitions together can still have, whatever applies,
\* retracts and half retracts came before.  So whenever apply refuses an option
\* there is a core for it, and on a model of one partition the two agree.  apply
\* never finds a symbol that two clusters own.
ConflictIsExplained ==
    \A x \in Symbols :
        LET applied == apply(session, x).status
            explained == explain_rejection(session, x).would_reject
            possible == \E a \in SUBSET Symbols : pinned_symbols(session) \cup {x} \subseteq a /\ in_model(a)
        IN  /\ explained = ~possible
            /\ applied = "Conflict" => explained
            /\ Len(session.ccm.parts) = 1 => (explained => applied = "Conflict")
            /\ applied # "Invariant"

\* The reported core is a reason and a minimal one: its forbidden assignments
\* exclude the option, and no constraint of it can be left out.
CoreIsMinimal ==
    \A x \in Symbols :
        LET r == explain_rejection(session, x)
            clauses == {{<<l[1], ~l[2]>> : l \in k.forbidden} : k \in r.core}
            excluded(cs) == ~solve_with_assumptions(cs, x, Symbols)
        IN  r.would_reject => excluded(clauses) /\ \A c \in clauses : ~excluded(clauses \ {c})
=============================================================================
