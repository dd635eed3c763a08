------------------------------ MODULE FreePriorityLoop ------------------------------
(* The loop of ItemUpdaterUbi::freePriority, one step per iteration, against what  *)
(* its comment promises and against the closed form that UbiUpdater uses.          *)
EXTENDS PnorPriority

VARIABLES
    wanted,   \* the value to set free
    self,     \* the version it is set free for
    before,   \* the priorities when the loop starts
    queue,    \* versionsPQ: pairs of a priority and a version, lowest in front
    value,    \* the value the next collision is looked for at
    now       \* the priorities so far

vars == <<wanted, self, before, queue, value, now>>

TypeOK ==
    /\ wanted \in Priority /\ value \in Priority
    /\ self \in Versions
    /\ before \in PriorityMap /\ now \in PriorityMap
    /\ queue \subseteq Priority \X Versions

Least(q) == CHOOSE t \in q : \A u \in q : t[1] < u[1] \/ (t[1] = u[1] /\ t[2] <= u[2])

Init ==
    /\ wanted \in Priority
    /\ self \in Versions
    /\ before \in PriorityMap
    /\ queue = {<<before[v], v>> : v \in {w \in Versions : before[w] # NoPriority}}
    /\ value = wanted
    /\ now = before

Iterate ==
    /\ queue # {}
    /\ LET top == Least(queue) IN
       /\ queue' = queue \ {top}
       /\ IF top[1] = value /\ top[2] # self
          THEN /\ value' = Increment(value)
               /\ now' = [now EXCEPT ![top[2]] = value']
          ELSE UNCHANGED <<value, now>>
    /\ UNCHANGED <<wanted, self, before>>

Next == Iterate

Spec == Init /\ [][Next]_vars

Ended == queue = {}

\* The loop computes the closed form, for every assignment of priorities, distinct or
\* not, and also when the value wraps.
LoopIsFreePriority == Ended => now = FreePriority(wanted, self, before)
======================================================================================
