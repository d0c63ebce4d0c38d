--------------------------- MODULE EnforcedRuntime ---------------------------
(***************************************************************************)
(* The two clients of the solver: a session driven directly, as in         *)
(* SolverPipeline, and a runtime whose writes and commits are checked by   *)
(* WriteEnforcement.  The runtime is the configuration store of runtime v2 *)
(* (committed values under overrides, any of which may expire as an        *)
(* operation starts); its timers, logs and identities are RuntimeSession's *)
(* and do not decide a check.                                              *)
(***************************************************************************)
EXTENDS SolverPipeline, WriteEnforcement

CONSTANTS OpenedCcms,  \* the models a runtime is opened on
          Handles,     \* for each package, the facet each path is bound to, or None
          DomainsGiven \* whether the opener supplies closed_facet_domains

VARIABLES runtime,  \* the snapshot, or Closed
          disk      \* what ccm_ref names now

Closed == [open |-> FALSE]
client_vars == <<session, runtime, disk>>

Without(f, keys) == [k \in DOMAIN f \ keys |-> f[k]]

declared_values(m, f) == ToSet((CHOOSE d \in ToSet(declared_facets(m)) : d.name = f).values)
closed_domains(m) ==
    [f \in {d.name : d \in {e \in ToSet(declared_facets(m)) : ~e.open}} |-> declared_values(m, f)]
bindable(m, p) == IF Handles[m][p] = None THEN {"on", "off"}
                  ELSE declared_values(m, Handles[m][p]) \cup {"undeclared"}

\* The overlays on the paths of m that values of their facets make up.
writes_of(m, paths) ==
    {ws \in [paths -> UNION {bindable(m, p) : p \in paths}] : \A p \in paths : ws[p] \in bindable(m, p)}

-----------------------------------------------------------------------------
(* --------------------- The operations on a snapshot -------------------- *)

\* What the resolver left: a bound parameter has its facet's value.
resolved_baseline(m, tags) ==
    [p \in DOMAIN Handles[m] |-> IF Handles[m][p] = None THEN "off" ELSE tags[Handles[m][p]]]

\* runtime_open takes persisted overrides as they are.
runtime_open(ccm, m, tags, choices, overlay) ==
    [open |-> TRUE, ccm_ref |-> ccm, model |-> m, handles |-> Handles[m],
     choices |-> choices, baseline |-> resolved_baseline(m, tags),
     committed_overlay |-> Empty, dirty_overlay |-> overlay,
     closed_facet_domains |-> IF DomainsGiven THEN closed_domains(m) ELSE Empty,
     unchecked |-> FALSE]

apply_due_auto_resets(s) ==
    {[s EXCEPT !.dirty_overlay = Without(@, due)] : due \in SUBSET DOMAIN s.dirty_overlay}

apply_dirty_write(s, ws) == [s EXCEPT !.dirty_overlay = ws @@ @]

\* A committed value equal to the baseline's is not kept.
commit_values(s, values) ==
    [s EXCEPT !.committed_overlay =
                  Without(values @@ @, {p \in DOMAIN values : values[p] = s.baseline[p]}),
              !.dirty_overlay = Without(@, DOMAIN values)]

EffectiveValue(s, p) == (s.dirty_overlay @@ s.committed_overlay @@ s.baseline)[p]

-----------------------------------------------------------------------------
(* ------------------------------- Actions ------------------------------- *)

\* runtime_open_with_solver_validation, on a selection that resolved.
RuntimeOpen ==
    /\ runtime = Closed
    /\ is_empty_ccm(session.ccm)
    /\ \E ccm \in OpenedCcms, m \in Packages :
          /\ ccm_usable_for_open(ccm)
          /\ ccm_bound_to_model(ccm, m)
          /\ DomainsGiven => unknown_facet_domain_symbol(closed_domains(m), ccm) = {}
          /\ \E tags \in {a \in configurations(m) : satisfies(a, m)},
                overlay \in {Empty} \cup writes_of(m, DOMAIN Handles[m]) :
                \E choices \in {tags, Empty} :
                    runtime' = runtime_open(ccm, m, tags, choices, overlay)
    /\ UNCHANGED <<session, disk>>

IsOpen == runtime.open

\* A refused operation leaves the caller's snapshot as it was, expired
\* overrides included.
SetParameter(p, value) ==
    /\ IsOpen
    /\ \E s \in apply_due_auto_resets(runtime) :
          LET written == apply_dirty_write(s, p :> value)
          IN  /\ enforce_write_constraints(written, {p}, disk).verdict = Accepted
              /\ runtime' = written
    /\ UNCHANGED <<session, disk>>

SetParametersAtomically(ws) ==
    /\ IsOpen
    /\ \E s \in apply_due_auto_resets(runtime) :
          LET written == apply_dirty_write(s, ws)
          IN  /\ enforce_write_constraints(written, DOMAIN ws, disk).verdict = Accepted
              /\ runtime' = written
    /\ UNCHANGED <<session, disk>>

CommitConfigurationUnchecked ==
    /\ IsOpen
    /\ \E s \in apply_due_auto_resets(runtime) : runtime' = commit_values(s, s.dirty_overlay)
    /\ UNCHANGED <<session, disk>>
CommitConfiguration ==
    /\ IsOpen
    /\ \E s \in apply_due_auto_resets(runtime) :
          LET committed == commit_values(s, s.dirty_overlay)
          IN  /\ enforce_write_constraints(committed, {}, disk).verdict = Accepted
              /\ runtime' = [committed EXCEPT !.unchecked = @ \/ disk # "model"]
    /\ UNCHANGED <<session, disk>>

\* rollback_dirty, and the expiry at the start of every other operation, are
\* not checked.
RollbackDirty(paths) ==
    /\ IsOpen
    /\ paths \cap DOMAIN runtime.dirty_overlay # {}
    /\ runtime' = [runtime EXCEPT !.dirty_overlay = Without(@, paths)]
    /\ UNCHANGED <<session, disk>>

\* Nor is pull_updates.
PullUpdates(ws) ==
    /\ IsOpen
    /\ \E s \in apply_due_auto_resets(runtime) :
          runtime' = [commit_values(s, ws) EXCEPT !.unchecked = TRUE]
    /\ UNCHANGED <<session, disk>>

\* The model is removed or damaged while the session lives.
ModelLost ==
    /\ IsOpen
    /\ disk = "model"
    /\ disk' \in {"missing", "unloadable"}
    /\ UNCHANGED <<session, runtime>>

RuntimeWrites ==
    \E p \in DOMAIN Handles[runtime.model] :
        \/ \E value \in bindable(runtime.model, p) : SetParameter(p, value)
        \/ \E value \in bindable(runtime.model, p) : PullUpdates(p :> value)
        \/ RollbackDirty({p})

RuntimeNext ==
    \/ RuntimeOpen
    \/ IsOpen /\ RuntimeWrites
    \/ IsOpen /\ \E ws \in writes_of(runtime.model, DOMAIN Handles[runtime.model]) : SetParametersAtomically(ws)
    \/ CommitConfiguration
    \/ IsOpen /\ RollbackDirty(DOMAIN runtime.dirty_overlay)
    \/ ModelLost

ClientInit == Init /\ runtime = Closed /\ disk = "model"
ClientNext == (~IsOpen /\ Next /\ UNCHANGED <<runtime, disk>>) \/ RuntimeNext
ClientSpec == ClientInit /\ [][ClientNext]_client_vars

-----------------------------------------------------------------------------
(* ------------------------------ Properties ----------------------------- *)

\* The facets whose current value is known and declared: what a handle shows,
\* and the opening choice for a facet that has none.
Facts(s) ==
    LET shown == [f \in {s.handles[p] : p \in DOMAIN s.handles} \ {None} |->
                     EffectiveValue(s, CHOOSE p \in DOMAIN s.handles : s.handles[p] = f)]
        all == shown @@ s.choices
    IN  [f \in {g \in DOMAIN all : all[g] \in declared_values(s.model, g)} |-> all[f]]
Possible(s) ==
    \E a \in configurations(s.model) :
        satisfies(a, s.model) /\ \A f \in DOMAIN Facts(s) : a[f] = Facts(s)[f]

\* The check decides what the constraints say about the values in effect,
\* whatever was persisted, pulled, rolled back or expired before: a write of
\* some facet is accepted exactly when its values are declared and some product
\* has all the values then in effect, also after the session had become
\* contradictory; a write of no facet is not judged.  When the model cannot be
\* read every write of a facet is refused.
EnforcementIsExact ==
    IsOpen =>
        \A paths \in SUBSET DOMAIN runtime.handles :
            \A ws \in writes_of(runtime.model, paths) :
                LET s == apply_dirty_write(runtime, ws)
                    bound == bound_paths(s, ws)
                    accepted == enforce_write_constraints(s, paths, disk).verdict = Accepted
                    declared == \A p \in bound : ws[p] \in declared_values(s.model, s.handles[p])
                IN  /\ disk = "model" => accepted = \/ paths # {} /\ bound = {}
                                                    \/ declared /\ Possible(s)
                    /\ disk = "unloadable" => accepted = (bound = {})

\* Until values are pulled from upstream or committed without a model, the
\* committed base is a product: whatever an expired or rolled back half of a
\* batch left in effect is not committed, and rollback_dirty of everything
\* leads back to a state that further writes can start from, as the hint of a
\* refusal says.
CommittedBaseHolds ==
    IsOpen /\ ~runtime.unchecked => Possible([runtime EXCEPT !.dirty_overlay = Empty])

\* explain-rejection and the write agree about every value of every handle;
\* only a write refused for what the session already held is not explained.
\* A batch refused although each of its writes alone would be accepted names
\* both of them, not the one that was replayed last.
ReportsAreTrue ==
    IsOpen /\ disk = "model" =>
        /\ \A p \in bound_paths(runtime, runtime.handles) :
              \A value \in bindable(runtime.model, p) :
                  LET e == explain_rejection_via_solver(runtime, p, value, disk)
                      w == enforce_write_constraints(apply_dirty_write(runtime, p :> value), {p}, disk)
                      rejects == e.status # "Ok" \/ e.would_reject
                  IN  w.verdict # "pre_existing_conflict" => (rejects = (w.verdict # Accepted))
        /\ \A ws \in writes_of(runtime.model, DOMAIN runtime.handles) :
              LET s == apply_dirty_write(runtime, ws)
                  v == enforce_write_constraints(s, DOMAIN ws, disk)
                  alone(p) == enforce_write_constraints(apply_dirty_write(runtime, p :> ws[p]), {p}, disk)
                  named == rejected_paths(s, DOMAIN ws, ConstraintRejection(s, v))
              IN  v.verdict = "write_conflict" /\ (\A p \in DOMAIN ws : alone(p).verdict = Accepted)
                      => named = DOMAIN ws
=============================================================================
