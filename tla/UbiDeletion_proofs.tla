------------------------- MODULE UbiDeletion_proofs -------------------------
(***************************************************************************)
(* For any set of versions: the clean-up keeps the version the host runs,  *)
(* as long as nothing is uploaded and the daemon stays up; and the         *)
(* interface Object.Delete follows the power of the chassis, while the     *)
(* daemon runs on and the symlink moves with the chassis off only.         *)
(***************************************************************************)
EXTENDS MC_UbiDeletion, Integers, Sequences, TLAPS

USE DEF outside

(***************************************************************************)
(* deleteAll and its script                                                *)
(***************************************************************************)

\* Only deleteAll has activations to visit: the types alone are not inductive, for a
\* restart makes the activations again from the volumes.
VisitsDeleting == daemon # "deleting" => left = {}

\* Every variable of the clean-up keeps its type, and deleteAll visits only versions that
\* are there.
THEOREM TypeCorrect == Spec => []TypeOK
<1>1. Init => TypeOK /\ VisitsDeleting
  BY DEF Init, TypeOK, VisitsDeleting
<1>2. TypeOK /\ VisitsDeleting /\ [Next]_vars => TypeOK' /\ VisitsDeleting'
  <2> SUFFICES ASSUME TypeOK, VisitsDeleting, [Next]_vars PROVE TypeOK' /\ VisitsDeleting'
    OBVIOUS
  <2> USE DEF TypeOK, VisitsDeleting
  <2>1. CASE Begin
    BY <2>1 DEF Begin, flash, cleaning
  <2>2. CASE Visit
    <3> DEFINE v == CHOOSE x \in left : \A y \in left : x <= y
               erased == {v} \cap {x \in left : ~(Functional(x) /\ wasOn) /\ Erasable(x)}
    <3>1. /\ umounts' = umounts \cup erased
          /\ \/ entries' = entries \ erased /\ left' = left \ {v} /\ daemon' = daemon
             \/ entries' = {} /\ left' = {} /\ daemon' = "down"
          /\ UNCHANGED <<wasOn, outside, flash, cleaning>>
      BY <2>2 DEF Visit, Rest
    <3>2. erased \subseteq left /\ erased \subseteq {v}
      OBVIOUS
    <3> HIDE DEF erased, v
    <3>3. left' \subseteq entries' /\ entries' \subseteq Versions /\ umounts' \subseteq Versions
      BY <3>1, <3>2
    <3>4. daemon' \in {"run", "deleting", "down"}
      BY <3>1
    <3> QED
      BY <3>1, <3>3, <3>4 DEF flash, cleaning
  <2>3. CASE End
    BY <2>3 DEF End, flash
  <2>4. CASE Restart
    BY <2>4 DEF Restart, flash, cleaning
  <2>5. ASSUME NEW v \in Versions, Upload(v) PROVE TypeOK' /\ VisitsDeleting'
    BY <2>5 DEF Upload, flash, cleaning
  <2>6. ASSUME NEW v \in Versions, UmountJob(v) PROVE TypeOK' /\ VisitsDeleting'
    BY <2>6 DEF UmountJob, Remove, deleting, cleaning
  <2>7. CASE ChassisChange
    BY <2>7 DEF ChassisChange, deleting, flash, cleaning
  <2>8. CASE List
    <3>1. names' \subseteq Versions
      BY <2>8 DEF List, Foreign
    <3> QED
      BY <2>8, <3>1 DEF List, deleting, flash
  <2>9. CASE RemoveNamed
    BY <2>9 DEF RemoveNamed, Remove, deleting
  <2>10. CASE RemoveNoName
    BY <2>10 DEF RemoveNoName, deleting
  <2>11. CASE UNCHANGED vars
    BY <2>11 DEF vars, deleting, flash, cleaning
  <2> QED
    BY <2>1, <2>2, <2>3, <2>4, <2>5, <2>6, <2>7, <2>8, <2>9, <2>10, <2>11 DEF Next
<1> QED
  BY <1>1, <1>2, PTL DEF Spec

\* No step takes the activation of the version the host runs away, also when the chassis
\* is switched on between deleteAll's look at it and erase's, and whatever the iterator
\* of an erased element leads to, short of the end of the process.
THEOREM HostKeepsVersionHolds == Spec => HostKeepsVersion
<1> DEFINE Kept == daemon' # "down" /\ chassisOn /\ Running \in entries \cap volumes
                   => Running \in entries'
<1>1. [Next]_vars => [Kept]_vars
  <2> SUFFICES ASSUME Next PROVE Kept
    BY DEF vars
  <2>1. CASE UNCHANGED entries
    BY <2>1
  <2>2. CASE Visit
    BY <2>2 DEF Visit, Erasable, Functional
  <2>3. CASE Restart
    BY <2>3 DEF Restart
  <2>4. ASSUME NEW v \in Versions, Upload(v) PROVE Kept
    BY <2>4 DEF Upload
  <2> QED
    BY <2>1, <2>2, <2>3, <2>4
       DEF Next, Begin, End, UmountJob, ChassisChange, List, RemoveNamed, RemoveNoName, deleting
<1> QED
  BY <1>1, PTL DEF Spec, HostKeepsVersion

(***************************************************************************)
(* CurrentKept is not inductive: what the script removes depends on what   *)
(* deleteAll has left, and deleteAll may be running again.                 *)
(***************************************************************************)

\* What deleteAll has visited, it has erased, but for the version the host runs; and
\* nothing is added before the script ends.
LeftOver ==
    environment \subseteq {"chassis"} =>
        /\ daemon # "down"
        /\ daemon = "deleting" => entries \subseteq left \cup {Running}
        /\ script # "idle" => entries \subseteq {Running}

\* The surroundings do not change.
LEMMA EnvironmentStays == ASSUME [Next]_vars PROVE environment' = environment
  BY DEF Next, vars, Begin, Visit, End, Restart, Upload, UmountJob, ChassisChange, List,
         RemoveNamed, RemoveNoName

\* The volumes the script removes are not those of the version the host may run, for any
\* number of versions and of calls of deleteAll, if nothing is uploaded in between.
THEOREM CurrentKeptHolds == Spec => []CurrentKept
<1>1. Init => LeftOver /\ CurrentKept
  BY DEF Init, LeftOver, CurrentKept
<1>2. TypeOK /\ LeftOver /\ CurrentKept /\ [Next]_vars => (LeftOver /\ CurrentKept)'
  <2> SUFFICES ASSUME TypeOK, LeftOver, CurrentKept, [Next]_vars
               PROVE LeftOver' /\ CurrentKept'
    OBVIOUS
  <2> SUFFICES ASSUME environment \subseteq {"chassis"} PROVE LeftOver' /\ CurrentKept'
    BY EnvironmentStays DEF LeftOver, CurrentKept
  <2>0. environment' = environment
    BY EnvironmentStays
  <2> USE <2>0 DEF LeftOver, CurrentKept
  <2>1. CASE Begin
    BY <2>1 DEF Begin, cleaning
  <2>2. CASE Visit
    <3> DEFINE first == CHOOSE x \in left : \A y \in left : x <= y
               erased == {first} \cap {x \in left : ~(Functional(x) /\ wasOn) /\ Erasable(x)}
    <3>1. /\ entries' = entries \ erased /\ left' = left \ {first}
          /\ daemon' = daemon /\ script' = script /\ names' = names
      BY <2>2 DEF Visit, Rest, cleaning
    <3>2. first \in left => first \in erased \/ first = Running
      BY DEF Erasable, Functional
    <3>3. daemon = "deleting" => entries' \subseteq left' \cup {Running}
      BY <3>1, <3>2
    <3> QED
      BY <3>1, <3>3
  <2>3. CASE End
    BY <2>3 DEF End
  <2>4. CASE Restart
    BY <2>4 DEF Restart
  <2>5. ASSUME NEW v \in Versions, Upload(v) PROVE FALSE
    BY <2>5 DEF Upload
  <2>6. ASSUME NEW v \in Versions, UmountJob(v) PROVE LeftOver' /\ CurrentKept'
    BY <2>6 DEF UmountJob, deleting, cleaning
  <2>7. CASE ChassisChange
    BY <2>7 DEF ChassisChange, deleting, cleaning
  <2>8. CASE List
    <3> DEFINE shown == {v \in Shown : \A w \in Shown : w <= v}
    <3>1. /\ names' = volumes \ shown
          /\ UNCHANGED <<daemon, entries, left>>
          /\ script # "idle"
      BY <2>8 DEF List, Foreign, deleting
    <3>2. Running \in entries => Running \in shown
      <4> SUFFICES ASSUME Running \in entries PROVE Running \in shown
        OBVIOUS
      <4>1. Shown = {Running}
        BY <3>1 DEF Shown
      <4>2. Running <= Running
        BY VersionsAssumption
      <4> QED
        BY <4>1, <4>2
    <3> QED
      BY <3>1, <3>2
  <2>9. CASE RemoveNamed
    BY <2>9 DEF RemoveNamed, deleting
  <2>10. CASE RemoveNoName
    BY <2>10 DEF RemoveNoName, deleting
  <2>11. CASE UNCHANGED vars
    BY <2>11 DEF vars, deleting, cleaning
  <2> QED
    BY <2>1, <2>2, <2>3, <2>4, <2>5, <2>6, <2>7, <2>8, <2>9, <2>10, <2>11 DEF Next
<1> QED
  BY <1>1, <1>2, TypeCorrect, PTL DEF Spec

(***************************************************************************)
(* Object.Delete                                                           *)
(***************************************************************************)

\* The interfaces as the code keeps them: with the chassis off every version has one.
InterfacesRight ==
    signals = <<>> => deletable = {v \in versions : ~(link = v /\ power # "Off")}

\* The last of the signals says what the power is now; without one the interfaces are
\* right.  The symlink leads to a version that is there.
QueueFollows ==
    happening = {} =>
        /\ power \in Interface!PowerStates
        /\ signals \in Seq(Interface!PowerStates)
        /\ signals # <<>> => signals[Len(signals)] = power
        /\ link \in versions \cup {Interface!None}
        /\ versions \subseteq Objects
        /\ deletable \subseteq versions
        /\ InterfacesRight

\* The interfaces of the component by itself.
LEMMA InterfaceFollows == Interface!Spec => []Interface!DeleteFollows
<1>1. Interface!Init => QueueFollows
  BY ObjectsAssumption
     DEF Interface!Init, QueueFollows, InterfacesRight, Interface!PowerStates
<1>2. QueueFollows /\ [Interface!Next]_Interface!vars => QueueFollows'
  <2> SUFFICES ASSUME QueueFollows, [Interface!Next]_Interface!vars PROVE QueueFollows'
    OBVIOUS
  <2>0. happening' = happening
    BY DEF Interface!Next, Interface!vars, Interface!Create, Interface!DeleteCall,
           Interface!MoveLink, Interface!PowerChange, Interface!Handle, Interface!Restart
  <2> SUFFICES ASSUME happening = {} PROVE QueueFollows'
    BY <2>0 DEF QueueFollows
  <2> USE <2>0 DEF QueueFollows, InterfacesRight
  <2>1. ASSUME NEW v \in Objects, Interface!Create(v) PROVE QueueFollows'
    BY <2>1, ObjectsAssumption DEF Interface!Create
  <2>2. ASSUME NEW v \in Objects, Interface!DeleteCall(v) PROVE QueueFollows'
    BY <2>2 DEF Interface!DeleteCall, Interface!Without, Interface!MayErase
  <2>3. CASE Interface!MoveLink
    BY <2>3, ObjectsAssumption DEF Interface!MoveLink
  <2>4. CASE Interface!PowerChange
    <3>1. power' \in Interface!PowerStates /\ signals' = Append(signals, power')
      BY <2>4 DEF Interface!PowerChange, Interface!PowerStates
    <3>2. /\ signals' \in Seq(Interface!PowerStates) /\ signals' # <<>>
          /\ Len(signals') = Len(signals) + 1
          /\ signals'[Len(signals')] = power'
      BY <3>1
    <3> QED
      BY <2>4, <3>1, <3>2 DEF Interface!PowerChange
  <2>5. CASE Interface!Handle
    <3>1. /\ signals # <<>> /\ signals' = Tail(signals)
          /\ deletable' = Interface!Handled(Head(signals))
          /\ UNCHANGED <<versions, link, power>>
      BY <2>5 DEF Interface!Handle
    <3>2. signals' \in Seq(Interface!PowerStates) /\ Len(signals) \in Nat /\ Len(signals) # 0
          /\ Len(signals') = Len(signals) - 1 /\ Head(signals) = signals[1]
      BY <3>1
    <3>3. signals' # <<>> => signals'[Len(signals')] = signals[Len(signals)]
      BY <3>1, <3>2
    <3>4. signals' = <<>> => Len(signals') = 0
      OBVIOUS
    <3>5. Len(signals') = 0 => Len(signals) = 1
      BY <3>2
    <3>6. signals' = <<>> => Head(signals) = power
      BY <3>1, <3>2, <3>4, <3>5
    <3> QED
      BY <3>1, <3>2, <3>3, <3>6 DEF Interface!Handled, Interface!RunsHost
  <2>6. CASE Interface!Restart
    BY <2>6 DEF Interface!Restart
  <2>7. CASE UNCHANGED Interface!vars
    BY <2>7 DEF Interface!vars
  <2> QED
    BY <2>1, <2>2, <2>3, <2>4, <2>5, <2>6, <2>7 DEF Interface!Next
<1>3. QueueFollows => Interface!DeleteFollows
  BY DEF QueueFollows, InterfacesRight, Interface!DeleteFollows
<1> QED
  BY <1>1, <1>2, <1>3, PTL DEF Interface!Spec

\* Each step is one of one component, which stays as it is in the steps of the other.
LEMMA ComponentsAlone == DeletionSpec => Interface!Spec
<1>1. DeletionInit => Interface!Init
  BY DEF DeletionInit
<1>2. [DeletionNext]_deletionVars => [Interface!Next]_Interface!vars
  <2> SUFFICES ASSUME [DeletionNext]_deletionVars PROVE [Interface!Next]_Interface!vars
    OBVIOUS
  <2>1. CASE UNCHANGED interfaceVars
    BY <2>1 DEF interfaceVars, Interface!vars
  <2>2. CASE Interface!Next
    BY <2>2
  <2> QED
    BY <2>1, <2>2 DEF DeletionNext, deletionVars, OfCleanup, Interface!Next
<1> QED
  BY <1>1, <1>2, PTL DEF DeletionSpec, Interface!Spec

\* The interface follows the power of the chassis, for any number of versions, power
\* changes and signals that wait: once they are handled and the chassis is not off, all but
\* the functional version have it.
THEOREM DeleteFollowsHolds == DeletionSpec => []DeleteFollows
  BY ComponentsAlone, InterfaceFollows, PTL DEF DeleteFollows
=============================================================================
