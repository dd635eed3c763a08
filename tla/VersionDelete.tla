---------------------------- MODULE VersionDelete ---------------------------
(***************************************************************************)
(* The Object.Delete interface of the version objects (version.cpp) on the *)
(* UBI layout.  A version is made with the interface; each time the power  *)
(* state of the chassis changes, its object takes the interface away if    *)
(* the version is functional and the chassis is not off, and puts it back  *)
(* otherwise.  The signal waits in the daemon's queue, and the symlink     *)
(* that says which version is functional moves without one.                *)
(***************************************************************************)
EXTENDS Naturals, Sequences

CONSTANTS Versions,
          MaxSignals,  \* bound: signals in the queue
          Environments \* bound: what happens beside the calls; each a set of
                       \* "restart"  the daemon is started again at any time
                       \* "link"     the symlink moves while the chassis is on

None == "none"
PowerStates == {"Off", "TransitioningToOn", "On", "TransitioningToOff"}

VARIABLES versions,  \* the version objects
          deletable, \* those with the interface Object.Delete
          link,      \* the version the symlink leads to
          power,     \* CurrentPowerState
          signals,   \* the signals of it the daemon has not handled
          environment\* which of the Environments this behaviour is in

vars == <<versions, deletable, link, power, signals, environment>>

TypeOK ==
    /\ versions \subseteq Versions
    /\ deletable \subseteq versions
    /\ link \in Versions \cup {None}
    /\ power \in PowerStates
    /\ signals \in Seq(PowerStates)
    /\ environment \in Environments

Init ==
    /\ versions = {} /\ deletable = {}
    /\ link = None
    /\ power = "Off"
    /\ signals = <<>>
    /\ environment \in Environments

\* createVersionObject
Create(v) ==
    /\ versions' = versions \cup {v}
    /\ deletable' = IF v \in versions THEN deletable ELSE deletable \cup {v}
    /\ UNCHANGED <<link, power, signals, environment>>

\* update_symlinks runs before the host starts, and leads to a version that is there.
MoveLink ==
    /\ power = "Off" \/ "link" \in environment
    /\ link' \in versions \cup {None}
    /\ UNCHANGED <<versions, deletable, power, signals, environment>>

PowerChange ==
    /\ Len(signals) < MaxSignals
    /\ power' = CASE power = "Off" -> "TransitioningToOn"
                  [] power = "TransitioningToOn" -> "On"
                  [] power = "On" -> "TransitioningToOff"
                  [] OTHER -> "Off"
    /\ signals' = Append(signals, power')
    /\ UNCHANGED <<versions, deletable, link, environment>>

\* The mutant of RunsHost: only a chassis that is on counts.
RunsHostIfOn(v, state) == link = v /\ state = "On"

\* isVersionFunctional, and a chassis that is not off.
RunsHost(v, state) == link = v /\ state # "Off"

\* The versions with the interface after the signal.
Handled(state) == {v \in versions : ~RunsHost(v, state)}

\* updateDeleteInterface of every version.
Handle ==
    /\ signals # <<>>
    /\ deletable' = Handled(Head(signals))
    /\ signals' = Tail(signals)
    /\ UNCHANGED <<versions, link, power, environment>>

\* The interface goes with its version.
Without(v) == deletable \ {v}

\* erase asks for the power state.
MayErase(v) == ~(link = v /\ power # "Off")

\* Delete::delete_
DeleteCall(v) ==
    /\ v \in deletable
    /\ MayErase(v)
    /\ versions' = versions \ {v}
    /\ deletable' = Without(v)
    /\ link' = IF link = v THEN None ELSE link
    /\ UNCHANGED <<power, signals, environment>>

\* processPNORImage makes the objects of the versions in the flash again.
Restart ==
    /\ "restart" \in environment
    /\ deletable' = versions
    /\ signals' = <<>>
    /\ UNCHANGED <<versions, link, power, environment>>

Next ==
    \/ \E v \in Versions : Create(v) \/ DeleteCall(v)
    \/ MoveLink \/ PowerChange \/ Handle \/ Restart

Spec == Init /\ [][Next]_vars

\* While the chassis is not off, once the daemon has handled the signals, every version has
\* the interface but the one that is functional (as long as the daemon runs on and the
\* symlink moves with the chassis off only).
DeleteFollows ==
    environment = {} /\ signals = <<>> /\ power # "Off"
        => deletable = versions \ {link}

\* "A functional activation will have no Object.Delete, while a non-functional activation
\* will have one" (updateDeleteInterface): when the daemon has handled a signal, the
\* functional version is without the interface.
FunctionalHasNoDelete == [][Handle => link \notin deletable']_vars
=============================================================================
