---------------------------- MODULE SolverSession ----------------------------
(***************************************************************************)
(* A solver session as a state machine: any sequence of applies and        *)
(* retracts on any of the models Ccms.                                     *)
(***************************************************************************)
EXTENDS SolverCore

CONSTANTS Ccms,      \* the models a session may be opened on
          Facets, Values,
          MaxUndo    \* bound on the undo stack: the same option may be applied again

ASSUME MaxUndoAssumption == MaxUndo \in Nat

VARIABLE session

-----------------------------------------------------------------------------
(* ---------------------------- The state machine ------------------------ *)

Init == session \in {NewSession(c) : c \in Ccms}

Apply(facet, value) ==
    /\ Len(session.undo) < MaxUndo
    /\ session' = apply(session, <<facet, value>>).session

Retract == session' = retract(session)

Next == \/ \E facet \in Facets, value \in Values : Apply(facet, value)
        \/ Retract

Spec == Init /\ [][Next]_session

-----------------------------------------------------------------------------
(* ------------------------------ Properties ----------------------------- *)

Parts == DOMAIN session.current

\* A partition's formula is its root under the selections committed on it: a
\* selection whose retract is half done constrains only the partitions it has
\* not been popped from.  The undo entries the committed selections still owe
\* are exactly the stack, so after retracting everything the roots are back.
CurrentIsRestrictedRoot ==
    /\ FoldLeft(LAMBDA n, c : n + c.undo_entries, 0, session.committed) = Len(session.undo)
    /\ \A i \in Parts :
        LET whole == {c \in ToSet(session.committed) :
                          c.undo_entries = Len(touched(session.ccm, c.compound))}
            pins == {c.compound : c \in whole} \cap ToSet(session.ccm.parts[i].order)
            half == {c.compound : c \in ToSet(session.committed) \ whole}
                    \cap ToSet(session.ccm.parts[i].order)
            under(xs) == {a \in session.ccm.parts[i].root : xs \subseteq a}
        IN  is_empty_ccm(session.ccm) \/ session.current[i] \in {under(pins), under(pins \cup half)}
=============================================================================
