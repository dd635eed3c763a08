---------------------------- MODULE ActivationLifecycle ----------------------------
(* What the update manager promises of a version, whatever the flash layout: the   *)
(* states its Activation property goes through, when it blocks transitions of the  *)
(* host (ActivationBlocksTransition), and which other versions one step may take   *)
(* away. UbiUpdater and StaticUpdater are shown to implement it.                   *)
CONSTANTS
    Versions,
    Lingering   \* whether a version whose activation failed may go on blocking

VARIABLES
    state,      \* the Activation property; "None": no such object
    blocks      \* the versions that block transitions

lifeVars == <<state, blocks>>

\* What may go to make room for v: only active versions are removed for another one.
Removable(v) == SUBSET {w \in Versions \ {v} : state[w] = "Active"}

Become(v, value, gone) ==
    state' = [w \in Versions |-> IF w = v THEN value
                                 ELSE IF w \in gone THEN "None" ELSE state[w]]

Init ==
    /\ state = [v \in Versions |-> "None"]
    /\ blocks = {}

\* An image is uploaded, or found on the flash when the daemon starts.
Appear(v) ==
    /\ state[v] = "None"
    /\ \E value \in {"Ready", "Invalid", "Active"} : Become(v, value, {})
    /\ UNCHANGED blocks

Begin(v, gone) ==
    /\ state[v] \in {"Ready", "Failed"}
    /\ Become(v, "Activating", gone)
    /\ blocks' = (blocks \ gone) \cup {v}

\* A failed activation that has kept its block may still finish: the failure was that
\* of a job in an earlier life of the version.
Finish(v, gone) ==
    /\ v \in blocks
    /\ state[v] = "Activating" \/ (Lingering /\ state[v] = "Failed")
    /\ Become(v, "Active", gone)
    /\ blocks' = blocks \ (gone \cup {v})

\* Also in other states than Activating: the update cannot start, or the job of an
\* earlier life of the version fails late.
Fail(v, gone) ==
    /\ state[v] # "None"
    /\ Become(v, "Failed", gone)
    /\ \/ blocks' = blocks \ (gone \cup {v})
       \/ Lingering /\ blocks' = blocks \ gone

Delete(v) ==
    /\ state[v] # "None"
    /\ Become(v, "None", {})
    /\ blocks' = blocks \ {v}

\* The daemon ends.
Stop ==
    /\ state' = [v \in Versions |-> "None"]
    /\ blocks' = {}

End(v) ==
    \/ \E gone \in Removable(v) : Finish(v, gone) \/ Fail(v, gone)
    \/ Delete(v)
    \/ Stop

Next ==
    \/ \E v \in Versions : Appear(v) \/ Delete(v)
    \/ \E v \in Versions : \E gone \in Removable(v) :
           Begin(v, gone) \/ Finish(v, gone) \/ Fail(v, gone)
    \/ Stop

Spec == Init /\ [][Next]_lifeVars

\* Activation never stays under way for ever.
FairSpec ==
    /\ Spec
    /\ \A v \in Versions :
           WF_lifeVars(state[v] = "Activating" /\ End(v) /\ state'[v] # "Activating")
===================================================================================
