------------------------------- MODULE PnorPriority -------------------------------
(* The redundancy priorities of the host firmware versions: a small number per     *)
(* version, lowest boots first, kept distinct by ItemUpdaterUbi::freePriority.     *)
(*                                                                                 *)
(* The code walks a priority queue of (priority, version id) pairs and increments  *)
(* the value it looks for each time it moves a version away. Here the result is    *)
(* stated in closed form; FreePriorityLoop holds the loop itself and its run       *)
(* compares the two.                                                               *)
(*                                                                                 *)
(* A version is a number: its place in the order of the id strings, which decides  *)
(* between pairs of equal priority.                                                *)
EXTENDS Integers, FiniteSets

CONSTANTS
    Versions,     \* the version ids
    MaxPriority   \* the largest value of the priority type (255, a uint8_t)

ASSUME VersionsAssumption == Versions \subseteq Nat /\ IsFiniteSet(Versions)
ASSUME MaxPriorityAssumption == MaxPriority \in Nat

\* A version whose Activation holds no RedundancyPriority object.
NoPriority == -1

Priority == 0 .. MaxPriority

\* What the RedundancyPriority objects of all activations show.
PriorityMap == [Versions -> Priority \cup {NoPriority}]

\* The versions other than v that hold a given priority.
HoldersOf(p, priority, v) == {w \in Versions \ {v} : priority[w] = p}

\* ++value on a uint8_t
Increment(p) == (p + 1) % (MaxPriority + 1)

\* w is moved when it is the first in the queue at its priority and the chain of
\* collisions that starts at value reaches that priority.
Displaced(value, v, priority) ==
    {w \in Versions \ {v} :
        /\ priority[w] # NoPriority
        /\ priority[w] >= value
        /\ \A x \in HoldersOf(priority[w], priority, v) : w <= x
        /\ \A p \in value .. priority[w] : HoldersOf(p, priority, v) # {}}

\* The mutant of FreePriority: only the direct collision is resolved, the chain it
\* starts is not followed.
FreePriorityOnce(value, v, priority) ==
    [w \in Versions |->
        IF w \in Displaced(value, v, priority) /\ priority[w] = value
        THEN Increment(priority[w]) ELSE priority[w]]

FreePriority(value, v, priority) ==
    [w \in Versions |->
        IF w \in Displaced(value, v, priority)
        THEN Increment(priority[w]) ELSE priority[w]]

\* RedundancyPriority::priority: free the value, then take it.
TakePriority(value, v, priority) ==
    [FreePriority(value, v, priority) EXCEPT ![v] = value]

\* The mutant of ConstructPriority: the value is taken without being freed.
PlacePriority(value, v, priority) == [priority EXCEPT ![v] = value]

\* The constructor of RedundancyPriorityUbi sets its value twice (once in each
\* constructor of the hierarchy), before the Activation points to it.
ConstructPriority(value, v, priority) ==
    TakePriority(value, v, FreePriority(value, v, priority))

\* No two versions hold the same priority.
Distinct(priority) ==
    \A v, w \in Versions :
        v # w /\ priority[v] # NoPriority => priority[v] # priority[w]
===================================================================================
