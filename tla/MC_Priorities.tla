---------------------------- MODULE MC_Priorities ---------------------------
(***************************************************************************)
(* The priority of a version in its three copies (PriorityFiles), and the  *)
(* loop that sets a priority free among the versions (FreePriorityLoop),   *)
(* looked at one at a time: component says which takes the steps of a      *)
(* behaviour.                                                              *)
(***************************************************************************)
EXTENDS PriorityFiles, FiniteSets

\* The process ends at any step; power is lost at any step, once; versions are deleted
\* and installed again.
FileEnvironments ==
    {[events |-> {"crash", "busy", "lag"}, losses |-> 0],
     [events |-> {"crash", "busy", "lag", "reorder"}, losses |-> 0],
     [events |-> {}, losses |-> 1],
     [events |-> {"busy", "lag"}, losses |-> 0]}

CONSTANTS LoopVersions,  \* the versions of the loop
          LoopMax        \* the largest value of their priorities

ASSUME LoopAssumption ==
    LoopVersions \subseteq Nat /\ IsFiniteSet(LoopVersions) /\ LoopMax \in Nat \ {0}

\* Every assignment of the priorities 0..4 to four versions: chains of three collisions,
\* duplicates, gaps and the wrap all occur.
FourVersions == 1 .. 4

VARIABLES component,
          wanted, self, before, queue, next, now

Loop == INSTANCE FreePriorityLoop
            WITH Versions <- LoopVersions, MaxPriority <- LoopMax, value <- next

loopVars == <<wanted, self, before, queue, next, now>>
priorityVars == <<vars, component, loopVars>>

PriorityInit ==
    /\ component \in {"PriorityFiles", "FreePriorityLoop"}
    /\ \/ component = "FreePriorityLoop" /\ Loop!Init
       \/ /\ component = "PriorityFiles"
          /\ wanted = 0 /\ self = 0 /\ queue = {} /\ next = 0
          /\ before = [v \in LoopVersions |-> Loop!NoPriority] /\ now = before
    /\ Init
    /\ component = "FreePriorityLoop" => environment.events = {}

OfFiles == component = "PriorityFiles" /\ UNCHANGED <<component, loopVars>>
OfLoop == component = "FreePriorityLoop" /\ UNCHANGED <<component, vars>>

PriorityNext ==
    \/ \E c \in Copies : Flush(c) /\ OfFiles
    \/ \E p \in Priority : Store(p) /\ OfFiles
    \/ StoreVar /\ OfFiles
    \/ StoreRw /\ OfFiles
    \/ FillRw /\ OfFiles
    \/ StoreEnv /\ OfFiles
    \/ CloseVar /\ OfFiles
    \/ Erase /\ OfFiles
    \/ EraseEnd /\ OfFiles
    \/ SetEnv /\ OfFiles
    \/ UmountRw /\ OfFiles
    \/ Install /\ OfFiles
    \/ FactoryReset /\ OfFiles
    \/ Crash /\ OfFiles
    \/ PowerLoss /\ OfFiles
    \/ Loop!Iterate /\ OfLoop

PrioritySpec == PriorityInit /\ [][PriorityNext]_priorityVars

\* The loop of freePriority computes the closed form that UbiUpdater uses, for every
\* assignment of priorities, distinct or not, and also when the value wraps.
LoopIsFreePriority == Loop!LoopIsFreePriority
=============================================================================
