------------------------- MODULE ConfigurationStore --------------------------
(***************************************************************************)
(* What a runtime session promises its clients about values, without       *)
(* timers, logs, generations or identities: a committed configuration and  *)
(* a layer of overrides over it.  Overrides may expire at the start of any *)
(* operation; apart from that an operation writes overrides, drops some,   *)
(* commits exactly the configuration in effect, or takes committed values  *)
(* from upstream for some paths and leaves the others alone.  It is the    *)
(* state machine of runtime v2, which RuntimeSession implements.           *)
(***************************************************************************)
CONSTANTS Paths, Values, NoValue, Baseline, RuntimePaths

VARIABLES committed, overrides

storeVars == <<committed, overrides>>

Overlays == [Paths -> Values \cup {NoValue}]

None == [p \in Paths |-> NoValue]

InEffect(o) == [p \in Paths |-> IF o[p] # NoValue THEN o[p] ELSE committed[p]]

\* What may be left of the overrides when some have been dropped.
Remains(o) == o \in Overlays /\ \A p \in Paths : o[p] \in {overrides[p], NoValue}

StoreInit == committed = Baseline /\ overrides \in Overlays

\* Overrides are written on runtime paths; dropping some and writing none is a
\* rollback, or timers that expired.
Override ==
    /\ UNCHANGED committed
    /\ overrides' \in Overlays
    /\ \A p \in Paths : overrides'[p] \in {overrides[p], NoValue}
                           \/ (p \in RuntimePaths /\ overrides'[p] \in Values)

Commit ==
    /\ overrides' = None
    /\ \E o \in Overlays : Remains(o) /\ committed' = InEffect(o)

Sync ==
    \E ps \in SUBSET Paths :
        /\ committed' \in [Paths -> Values]
        /\ Remains(overrides')
        /\ \A p \in ps : overrides'[p] = NoValue
        /\ \A p \in Paths \ ps : committed'[p] = committed[p]

StoreNext == Override \/ Commit \/ Sync

StoreSpec == StoreInit /\ [][StoreNext]_storeVars
=============================================================================
