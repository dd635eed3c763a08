------------------------- MODULE Priorities_proofs --------------------------
(***************************************************************************)
(* What holds of the copies of a version's priority (PriorityFiles), for   *)
(* any range of priorities, any number of setenv jobs and any environment; *)
(* and of the loop of freePriority (FreePriorityLoop), for any number of   *)
(* versions.                                                               *)
(***************************************************************************)
EXTENDS MC_Priorities, SequenceTheorems, WellFoundedInduction, TLAPS

USE DEF files, daemon, outside

(***************************************************************************)
(* The operators                                                           *)
(***************************************************************************)

Values == Priority \cup {None}

\* What cannot be read is no priority.
LEMMA NoValue == None \notin Priority /\ Torn \notin Priority /\ None # Torn
  BY BoundsAssumption DEF None, Torn, Priority

\* The first copy that can be read is there if any can be read.
LEMMA FirstReadable ==
    ASSUME NEW c, Readable(c) # {}
    PROVE  /\ First(c) \in Readable(c) /\ First(c) \in {1, 2, 3}
           /\ \A j \in Readable(c) : First(c) <= j
<1>1. Readable(c) \subseteq {1, 2, 3} BY DEF Readable
<1>2. \E i \in Readable(c) : \A j \in Readable(c) : i <= j BY <1>1
<1> QED BY <1>1, <1>2 DEF First

\* The files are read before the variable.
LEMMA RestoredFile ==
    ASSUME NEW c, {c["var"], c["rw"]} \cap Priority # {}
    PROVE  Restored(c) \in {c["var"], c["rw"]} \cap Priority
<1>1. \E i \in Readable(c) : i \in {1, 2} BY DEF Readable, Order
<1>2. First(c) \in Readable(c) /\ First(c) \in {1, 2} BY <1>1, FirstReadable
<1> QED BY <1>1, <1>2 DEF Restored, Readable, Order

\* Whatever copies are left, the priority is one of theirs, or the default with none of
\* them left.
LEMMA RestoredAny ==
    ASSUME NEW c
    PROVE  \/ Restored(c) = MaxPriority /\ \A d \in Copies : c[d] \notin Priority
           \/ \E d \in Copies : Restored(c) = c[d] /\ c[d] \in Priority
<1>1. CASE Readable(c) = {}
  <2>1. 1 \notin Readable(c) /\ 2 \notin Readable(c) /\ 3 \notin Readable(c) BY <1>1
  <2>2. \A d \in Copies : c[d] \notin Priority BY <2>1 DEF Readable, Order, Copies
  <2> QED BY <1>1, <2>2 DEF Restored
<1>2. CASE Readable(c) # {}
  <2>1. Order[First(c)] \in Copies /\ c[Order[First(c)]] \in Priority
    BY <1>2, FirstReadable DEF Readable, Order, Copies
  <2> QED BY <1>2, <2>1 DEF Restored
<1> QED BY <1>1, <1>2

\* What is restored is a priority, whatever the copies hold.
LEMMA RestoredType ==
    ASSUME NEW c PROVE Restored(c) \in Priority
<1>1. MaxPriority \in Priority BY BoundsAssumption DEF Priority
<1> QED BY <1>1, RestoredAny

\* The jobs without the one that has run.
LEMMA RestOfJobs ==
    ASSUME jobs \in Seq(Values), NEW i \in 1 .. Len(jobs)
    PROVE  LET rest == SubSeq(jobs, 1, i - 1) \o SubSeq(jobs, i + 1, Len(jobs)) IN
           /\ rest \in Seq(Values)
           /\ Len(rest) = Len(jobs) - 1
           /\ \A k \in 1 .. Len(rest) : rest[k] = IF k < i THEN jobs[k] ELSE jobs[k + 1]
<1> DEFINE a == SubSeq(jobs, 1, i - 1)  b == SubSeq(jobs, i + 1, Len(jobs))
<1>1. Len(jobs) \in Nat /\ \A k \in 1 .. Len(jobs) : jobs[k] \in Values
  BY LenProperties, ElementOfSeq
<1>2. a \in Seq(Values) /\ Len(a) = i - 1 /\ \A k \in 1 .. i - 1 : a[k] = jobs[k]
  <2>1. \A k \in 1 .. i - 1 : jobs[k] \in Values BY <1>1
  <2>2. /\ SubSeq(jobs, 1, i - 1) \in Seq(Values)
        /\ Len(SubSeq(jobs, 1, i - 1)) = IF 1 <= i - 1 THEN i - 1 - 1 + 1 ELSE 0
        /\ \A k \in 1 .. i - 1 - 1 + 1 : SubSeq(jobs, 1, i - 1)[k] = jobs[1 + k - 1]
    BY <1>1, <2>1, SubSeqProperties
  <2> QED BY <1>1, <2>2
<1>3. /\ b \in Seq(Values) /\ Len(b) = Len(jobs) - i
      /\ \A k \in 1 .. Len(jobs) - i : b[k] = jobs[i + k]
  <2>1. \A k \in i + 1 .. Len(jobs) : jobs[k] \in Values BY <1>1
  <2>2. /\ SubSeq(jobs, i + 1, Len(jobs)) \in Seq(Values)
        /\ Len(SubSeq(jobs, i + 1, Len(jobs)))
               = IF i + 1 <= Len(jobs) THEN Len(jobs) - (i + 1) + 1 ELSE 0
        /\ \A k \in 1 .. Len(jobs) - (i + 1) + 1 :
               SubSeq(jobs, i + 1, Len(jobs))[k] = jobs[i + 1 + k - 1]
    BY <1>1, <2>1, SubSeqProperties
  <2> QED BY <1>1, <2>2
<1> HIDE DEF a, b
<1>4. /\ a \o b \in Seq(Values)
      /\ Len(a \o b) = Len(a) + Len(b)
      /\ \A k \in 1 .. Len(a) + Len(b) : (a \o b)[k] = IF k <= Len(a) THEN a[k] ELSE b[k - Len(a)]
  BY <1>2, <1>3, ConcatProperties
<1>5. Len(a \o b) = Len(jobs) - 1 BY <1>1, <1>2, <1>3, <1>4
<1>6. ASSUME NEW k \in 1 .. Len(a \o b)
      PROVE  (a \o b)[k] = IF k < i THEN jobs[k] ELSE jobs[k + 1]
  <2>1. CASE k < i BY <1>1, <1>2, <1>3, <1>4, <1>5, <2>1
  <2>2. CASE k >= i
    <3>1. k - (i - 1) \in 1 .. Len(jobs) - i /\ i + (k - (i - 1)) = k + 1
      BY <1>1, <1>5, <2>2
    <3> QED BY <1>1, <1>2, <1>3, <1>4, <1>5, <2>2, <3>1
  <2> QED BY <1>1, <2>1, <2>2
<1> QED BY <1>4, <1>5, <1>6 DEF a, b

(***************************************************************************)
(* Types                                                                   *)
(***************************************************************************)

\* An operation leaves a value, an empty file or nothing in a copy.
LEMMA PutType ==
    ASSUME TypeOK, NEW c \in Copies, NEW content \in Contents, Put(c, content)
    PROVE  /\ copy' \in [Copies -> Contents]
           /\ may' \in [Copies -> SUBSET Contents]
           /\ \A d \in Copies : copy'[d] \in may'[d] \cup {None}
  BY DEF TypeOK, Put, Values, Contents

\* What a start leaves of the copies it finds.
LEMMA StartType ==
    ASSUME TypeOK, NEW c \in [Copies -> Contents], Start(c)
    PROVE  /\ copy' \in [Copies -> Contents]
           /\ \A d \in Copies : copy'[d] \in {c[d], None}
           /\ volume' = volume
           /\ pc' \in {"idle", "var"}
           /\ value' \in Values /\ shown' \in Values
           /\ recent' \subseteq held' /\ held' \subseteq Priority
           /\ pc' = "var" => value' \in recent'
  BY RestoredType, NoValue DEF TypeOK, Start, Values, Contents

\* Every copy holds a priority, nothing, or a file that is not whole.
THEOREM TypeCorrect == Spec => []TypeOK
<1>1. Init => TypeOK
  <2> SUFFICES ASSUME Init PROVE TypeOK OBVIOUS
  <2>1. environment.losses \in Nat BY EnvironmentAssumption DEF Init
  <2>2. jobs \in Seq(Values) BY EmptySeq DEF Init
  <2>3. {None} \subseteq Contents BY DEF Contents
  <2>4. /\ copy \in [Copies -> Contents] /\ may \in [Copies -> SUBSET Contents]
        /\ \A c \in Copies : copy[c] \in may[c] \cup {None}
    BY <2>3 DEF Init
  <2>5. losses \in 0 .. environment.losses BY <2>1 DEF Init
  <2> QED BY <2>2, <2>4, <2>5 DEF Init, TypeOK, Values
<1>2. TypeOK /\ [Next]_vars => TypeOK'
  <2> SUFFICES ASSUME TypeOK, [Next]_vars PROVE TypeOK' OBVIOUS
  <2>1. ASSUME NEW c \in Copies, Flush(c) PROVE TypeOK'
    BY <2>1 DEF TypeOK, Flush
  <2>2. ASSUME NEW p \in Priority, Store(p) PROVE TypeOK'
    BY <2>2 DEF TypeOK, Store
  <2>3. CASE StoreVar
    BY <2>3, PutType DEF TypeOK, StoreVar, Copies, Contents
  <2>4. CASE StoreRw
    BY <2>4, PutType DEF TypeOK, StoreRw, Copies, Contents
  <2>15. CASE FillRw
    BY <2>15, PutType DEF TypeOK, FillRw, Copies, Contents
  <2>5. CASE StoreEnv
    <3>1. jobs' \in Seq(Values) BY <2>5, AppendProperties DEF TypeOK, StoreEnv, Values
    <3> QED BY <2>5, <3>1 DEF TypeOK, StoreEnv, Values
  <2>16. CASE CloseVar
    BY <2>16, PutType DEF TypeOK, CloseVar, Copies, Contents
  <2>6. CASE Erase
    <3>1. jobs' \in Seq(Values) BY <2>6, AppendProperties DEF TypeOK, Erase, Values
    <3> QED BY <2>6, <3>1 DEF TypeOK, Erase, Values
  <2>7. CASE EraseEnd
    BY <2>7, PutType DEF TypeOK, EraseEnd, Unlinked, Copies, Contents
  <2>8. CASE SetEnv
    <3>1. PICK i \in 1 .. Len(jobs) :
              /\ jobs' = SubSeq(jobs, 1, i - 1) \o SubSeq(jobs, i + 1, Len(jobs))
              /\ copy' = [copy EXCEPT !["env"] = jobs[i]]
              /\ may' = [may EXCEPT !["env"] = {copy'["env"]}]
              /\ UNCHANGED <<volume, umount, daemon, outside>>
      BY <2>8 DEF SetEnv
    <3>2. jobs' \in Seq(Values) BY <3>1, RestOfJobs DEF TypeOK, Values
    <3>3. jobs[i] \in Values BY ElementOfSeq DEF TypeOK, Values
    <3> QED BY <3>1, <3>2, <3>3 DEF TypeOK, Copies, Contents, Values
  <2>9. CASE UmountRw
    BY <2>9 DEF TypeOK, UmountRw, Copies, Contents
  <2>10. CASE Install
    BY <2>10 DEF TypeOK, Install
  <2>11. CASE FactoryReset
    BY <2>11, PutType DEF TypeOK, FactoryReset, Copies, Contents
  <2>12. CASE Crash
    <3>1. copy \in [Copies -> Contents] /\ Start(copy) /\ UNCHANGED <<may, umount, jobs, outside>>
      BY <2>12 DEF Crash, TypeOK
    <3>2. \A d \in Copies : copy'[d] \in may'[d] \cup {None}
      BY <3>1, StartType DEF TypeOK
    <3> QED BY <3>1, <3>2, StartType DEF TypeOK, Values
  <2>13. CASE PowerLoss
    <3>1. PICK c \in [Copies -> Contents] : Start(c) /\ may' = [d \in Copies |-> {copy'[d]}]
      BY <2>13 DEF PowerLoss
    <3>2. losses' \in 0 .. environment'.losses
      <4>1. environment.losses \in Nat BY EnvironmentAssumption DEF TypeOK
      <4> QED BY <2>13, <4>1 DEF PowerLoss, TypeOK
    <3>3. jobs' \in Seq(Values) BY <2>13, EmptySeq DEF PowerLoss
    <3>4. /\ may' \in [Copies -> SUBSET Contents]
          /\ \A d \in Copies : copy'[d] \in may'[d] \cup {None}
      BY <3>1, StartType
    <3>5. umount' \in BOOLEAN /\ environment' \in Environments
      BY <2>13 DEF PowerLoss, TypeOK
    <3> QED BY <3>1, <3>2, <3>3, <3>4, <3>5, StartType DEF TypeOK, Values
  <2>14. CASE UNCHANGED vars
    BY <2>14 DEF TypeOK, vars
  <2> QED
    BY <2>1, <2>2, <2>3, <2>4, <2>5, <2>6, <2>7, <2>8, <2>9, <2>10, <2>11, <2>12, <2>13, <2>14,
       <2>15, <2>16
       DEF Next
<1> QED BY <1>1, <1>2, PTL DEF Spec

(***************************************************************************)
(* The priority after the process has ended                                *)
(***************************************************************************)

\* A behaviour stays in its surroundings.
LEMMA SameEnvironment == [Next]_vars => environment' = environment
  BY DEF Next, vars, Flush, Store, StoreVar, StoreRw, FillRw, StoreEnv, CloseVar, Erase, EraseEnd,
         SetEnv, UmountRw, Install, FactoryReset, Crash, PowerLoss

\* What u-boot's variable will be when the jobs have run, in their order.
LastEnv == IF jobs = <<>> THEN copy["env"] ELSE jobs[Len(jobs)]

\* A job that is appended is the last, and the first one may be.
LEMMA LastEnvAppend ==
    ASSUME TypeOK, NEW v \in Values, jobs' = Append(jobs, v)
    PROVE  LastEnv' = v
  BY AppendProperties DEF LastEnv, TypeOK, Values

\* A setenv job that runs in its turn leaves the value the variable ends at.
LEMMA LastEnvRun ==
    ASSUME TypeOK, SetEnv, "reorder" \notin environment.events
    PROVE  LastEnv' = LastEnv
<1>1. /\ 1 \in 1 .. Len(jobs)
      /\ jobs' = SubSeq(jobs, 1, 1 - 1) \o SubSeq(jobs, 1 + 1, Len(jobs))
      /\ copy' = [copy EXCEPT !["env"] = jobs[1]]
  BY DEF SetEnv
<1>2. /\ jobs' \in Seq(Values)
      /\ Len(jobs') = Len(jobs) - 1
      /\ \A k \in 1 .. Len(jobs') : jobs'[k] = IF k < 1 THEN jobs[k] ELSE jobs[k + 1]
  BY <1>1, RestOfJobs DEF TypeOK, Values
<1>3. Len(jobs) \in Nat /\ jobs # <<>> BY <1>1, EmptySeq, LenProperties DEF TypeOK
<1>4. copy'["env"] = jobs[1] BY <1>1 DEF TypeOK, Copies
<1>5. CASE Len(jobs) = 1
  <2>1. jobs' = <<>> BY <1>2, <1>5, EmptySeq
  <2> QED BY <1>3, <1>4, <1>5, <2>1 DEF LastEnv
<1>6. CASE Len(jobs) # 1
  <2>1. Len(jobs') \in 1 .. Len(jobs') /\ jobs'[Len(jobs')] = jobs[Len(jobs)]
    BY <1>1, <1>2, <1>3, <1>6
  <2>2. jobs' # <<>> BY <1>2, <2>1, EmptySeq
  <2> QED BY <1>3, <2>1, <2>2 DEF LastEnv
<1> QED BY <1>5, <1>6

\* The files and, at the end of its jobs, the variable have one of the recent priorities
\* while an object is there; what storeToFile has been through has the value being stored.
RecentKept ==
    /\ pc = "unlink" => shown = None
    /\ ~volume => copy["rw"] = None
    /\ pc = "fill" => copy["rw"] \notin Priority
    /\ pc \in {"env", "close"} /\ copy["rw"] \in Priority => copy["rw"] = value
    /\ shown # None /\ copy["rw"] \in Priority => copy["rw"] \in recent
    /\ shown # None /\ copy["var"] \in Priority => copy["var"] \in recent
    /\ "reorder" \notin environment.events =>
           /\ pc = "close" => LastEnv = value
           /\ shown # None => LastEnv \in recent

RecentInv == environment.losses = 0 => RecentKept

\* A restart finds one of them: a file, or the variable.
LEMMA StartRecent ==
    ASSUME TypeOK, RecentKept, Start(copy), UNCHANGED <<jobs, environment>>
    PROVE  /\ RecentKept'
           /\ /\ volume /\ shown # None
              /\ \/ {copy["var"], copy["rw"]} \cap Priority # {}
                 \/ jobs = <<>> /\ "reorder" \notin environment.events
              => value' \in recent
<1> USE DEF RecentKept
<1>1. recent \subseteq Priority /\ Restored(copy) \in Priority
  BY RestoredType DEF TypeOK
<1>2. /\ copy'["var"] \in {copy["var"], None} /\ copy'["rw"] \in {copy["rw"], None}
      /\ copy["env"] \in Priority => copy'["env"] = copy["env"]
  <2>1. \A d \in Copies : d \in Discarded(copy) => copy[d] = Torn
    BY DEF Discarded
  <2> QED BY <2>1, NoValue DEF Start, Copies
<1>3. shown # None /\ "reorder" \notin environment.events => LastEnv' = LastEnv
  BY <1>1, <1>2 DEF LastEnv
<1>4. RecentKept'
  <2>1. CASE volume
    <3>1. value' = Restored(copy) /\ pc' = "var" /\ recent' = recent \cup {value'}
          /\ shown' = shown /\ volume' = volume
      BY <2>1 DEF Start
    <3> QED BY <1>2, <1>3, <2>1, <3>1, NoValue
  <2>2. CASE ~volume
    <3>1. pc' = "idle" /\ shown' = None /\ volume' = volume BY <2>2 DEF Start
    <3> QED BY <1>2, <2>2, <3>1, NoValue
  <2> QED BY <2>1, <2>2
<1>5. ASSUME volume, shown # None,
             \/ {copy["var"], copy["rw"]} \cap Priority # {}
             \/ jobs = <<>> /\ "reorder" \notin environment.events
      PROVE  value' \in recent
  <2>1. value' = Restored(copy) BY <1>5 DEF Start
  <2>2. CASE {copy["var"], copy["rw"]} \cap Priority # {}
    BY <1>5, <2>1, <2>2, RestoredFile
  <2>3. CASE /\ {copy["var"], copy["rw"]} \cap Priority = {}
             /\ jobs = <<>> /\ "reorder" \notin environment.events
    <3>1. copy["env"] \in recent BY <1>5, <2>3 DEF LastEnv
    <3>2. copy["env"] \in Priority BY <1>1, <3>1
    <3>3. Restored(copy) = copy["env"]
      BY <2>3, <3>2, RestoredAny DEF Copies
    <3> QED BY <2>1, <3>1, <3>3
  <2> QED BY <1>5, <2>2, <2>3
<1> QED BY <1>4, <1>5

\* Each step of storeToFile leaves the copies with recent priorities, and nobody else
\* puts another there while an object is there.
LEMMA RecentStep == TypeOK /\ RecentInv /\ [Next]_vars => RecentInv'
<1> SUFFICES ASSUME TypeOK, environment.losses = 0, RecentKept, [Next]_vars PROVE RecentKept'
  BY SameEnvironment DEF RecentInv
<1> USE DEF RecentKept, TypeOK
<1>0. environment' = environment BY SameEnvironment
<1>1. CASE \E c \in Copies : Flush(c) BY <1>1 DEF Flush, LastEnv
<1>2. CASE \E p \in Priority : Store(p) BY <1>2 DEF Store, LastEnv
<1>3. CASE StoreVar BY <1>3, NoValue DEF StoreVar, Put, Copies, LastEnv
<1>4. CASE StoreRw BY <1>4, NoValue DEF StoreRw, Put, Copies, LastEnv
<1>5. CASE FillRw BY <1>5, NoValue DEF FillRw, Put, Copies, LastEnv
<1>6. CASE StoreEnv
  <2>1. LastEnv' = value BY <1>6, LastEnvAppend DEF StoreEnv, Values
  <2> QED BY <1>6, <2>1 DEF StoreEnv
<1>7. CASE CloseVar
  <2>1. copy'["var"] = value /\ copy'["rw"] = copy["rw"] /\ copy'["env"] = copy["env"]
    BY <1>7 DEF CloseVar, Put, Copies
  <2>2. LastEnv' = LastEnv BY <1>7, <2>1 DEF CloseVar, LastEnv
  <2> QED BY <1>0, <1>7, <2>1, <2>2 DEF CloseVar
<1>8. CASE Erase BY <1>8 DEF Erase
<1>9. CASE EraseEnd
  <2>1. copy'["rw"] = copy["rw"] BY <1>9 DEF EraseEnd, Put, Copies
  <2> QED BY <1>9, <2>1 DEF EraseEnd
<1>10. CASE SetEnv
  <2>1. copy'["var"] = copy["var"] /\ copy'["rw"] = copy["rw"]
        /\ UNCHANGED <<volume, daemon>>
    BY <1>10 DEF SetEnv, Copies
  <2>2. "reorder" \notin environment.events => LastEnv' = LastEnv
    BY <1>10, LastEnvRun
  <2> QED BY <1>0, <2>1, <2>2
<1>11. CASE UmountRw
  <2>1. /\ copy'["var"] = copy["var"] /\ copy'["env"] = copy["env"] /\ copy'["rw"] = None
        /\ UNCHANGED <<jobs, daemon>>
    BY <1>11 DEF UmountRw, Copies
  <2> QED BY <1>0, <2>1, NoValue DEF LastEnv
<1>12. CASE Install BY <1>12 DEF Install, LastEnv
<1>13. CASE FactoryReset
  <2>1. /\ copy'["var"] = copy["var"] /\ copy'["env"] = copy["env"] /\ copy'["rw"] = None
        /\ UNCHANGED <<volume, jobs, daemon>>
    BY <1>13 DEF FactoryReset, Put, Copies
  <2> QED BY <1>0, <2>1, NoValue DEF LastEnv
<1>14. CASE Crash BY <1>14, StartRecent DEF Crash
<1>15. CASE PowerLoss BY <1>15 DEF PowerLoss
<1>16. CASE UNCHANGED vars BY <1>16 DEF vars, LastEnv
<1> QED
  BY <1>1, <1>2, <1>3, <1>4, <1>5, <1>6, <1>7, <1>8, <1>9, <1>10, <1>11, <1>12, <1>13, <1>14,
     <1>15, <1>16
     DEF Next

\* When the process ends at any step of storeToFile, also with both files empty, and is
\* started again, any number of times, an active version has the priority it had or one
\* that has been stored since, if a file can be read or the setenv jobs have run in order.
THEOREM RestoresLastHolds == Spec => RestoresLast
<1>1. Init => RecentInv
  BY NoValue DEF Init, RecentInv, RecentKept, Copies
<1>2. TypeOK /\ RecentInv
          => [Crash /\ volume /\ shown # None
              /\ environment.losses = 0
              /\ \/ {copy["var"], copy["rw"]} \cap Priority # {}
                 \/ jobs = <<>> /\ "reorder" \notin environment.events
              => value' \in recent]_vars
  BY StartRecent DEF RecentInv, Crash
<1> QED BY <1>1, <1>2, RecentStep, TypeCorrect, PTL DEF Spec, RestoresLast

(***************************************************************************)
(* The copies after a deletion                                             *)
(***************************************************************************)

\* Without an object no copy is left behind, apart from what is still to be done: the
\* volume with its copy waits for the job that removes it, the variable for its jobs.
NoneLeft ==
    /\ pc \in {"var", "rw", "fill", "env", "close"} => volume /\ value \in Priority
    /\ pc = "unlink" => volume /\ shown = None
    /\ shown # None => volume
    /\ umount => volume /\ pc = "idle" /\ shown = None
    /\ pc \in {"idle", "unlink"} /\ shown = None => LastEnv = None
    /\ pc = "idle" /\ shown = None => copy["var"] = None
    /\ pc = "idle" /\ shown = None /\ ~umount => copy["rw"] = None

\* The environments in which it holds, until power is lost.
Undisturbed == environment.events \subseteq {"busy", "lag"} /\ losses = 0

NoneLeftInv == Undisturbed => NoneLeft

\* No copy of a deleted version is left, or written again, by any step.
LEMMA NoneLeftStep == TypeOK /\ NoneLeftInv /\ [Next]_vars => NoneLeftInv'
<1> SUFFICES ASSUME TypeOK, NoneLeftInv, [Next]_vars, Undisturbed' PROVE NoneLeft'
  BY DEF NoneLeftInv
<1>0. Undisturbed
  <2>1. losses \in Nat BY EnvironmentAssumption DEF TypeOK
  <2>2. losses' \in {losses, losses + 1}
    BY DEF Next, vars, Flush, Store, StoreVar, StoreRw, FillRw, StoreEnv, CloseVar, Erase,
           EraseEnd, SetEnv, UmountRw, Install, FactoryReset, Crash, PowerLoss
  <2> QED BY <2>1, <2>2, SameEnvironment DEF Undisturbed
<1>00. NoneLeft BY <1>0 DEF NoneLeftInv
<1> USE <1>00 DEF NoneLeft, TypeOK
<1>1. CASE \E c \in Copies : Flush(c) BY <1>1 DEF Flush, LastEnv
<1>2. CASE \E p \in Priority : Store(p) BY <1>2 DEF Store
<1>3. CASE StoreVar BY <1>3 DEF StoreVar, Put, Copies
<1>4. CASE StoreRw BY <1>4 DEF StoreRw, Put, Copies
<1>15. CASE FillRw BY <1>15 DEF FillRw, Put, Copies
<1>5. CASE StoreEnv BY <1>5, NoValue DEF StoreEnv
<1>16. CASE CloseVar BY <1>16, NoValue DEF CloseVar
<1>6. CASE Erase
  <2>1. LastEnv' = None BY <1>6, LastEnvAppend DEF Erase, Values
  <2> QED BY <1>6, <2>1 DEF Erase
<1>7. CASE EraseEnd BY <1>7 DEF EraseEnd, Put, Unlinked, Copies, LastEnv
<1>8. CASE SetEnv
  <2>1. LastEnv' = LastEnv BY <1>0, <1>8, LastEnvRun DEF Undisturbed
  <2>2. /\ copy'["var"] = copy["var"] /\ copy'["rw"] = copy["rw"]
        /\ UNCHANGED <<volume, umount, daemon>>
    BY <1>8 DEF SetEnv, Copies
  <2> QED BY <2>1, <2>2
<1>9. CASE UmountRw
  <2>1. /\ copy'["var"] = copy["var"] /\ copy'["env"] = copy["env"] /\ copy'["rw"] = None
        /\ UNCHANGED <<jobs, daemon>> /\ umount' = FALSE
    BY <1>9 DEF UmountRw, Copies
  <2> QED BY <1>9, <2>1 DEF UmountRw, LastEnv
<1>10. CASE Install BY <1>10 DEF Install, LastEnv
<1>11. CASE FactoryReset
  <2>1. /\ copy'["var"] = copy["var"] /\ copy'["env"] = copy["env"]
        /\ UNCHANGED <<volume, umount, jobs, daemon>>
    BY <1>11 DEF FactoryReset, Put, Copies
  <2> QED BY <1>11, <2>1 DEF FactoryReset
<1>12. CASE Crash BY <1>0, <1>12 DEF Crash, Undisturbed
<1>13. CASE PowerLoss
  <2>1. losses \in Nat /\ losses' = losses + 1
    BY <1>13, EnvironmentAssumption DEF PowerLoss
  <2> QED BY <2>1 DEF Undisturbed
<1>14. CASE UNCHANGED vars BY <1>14 DEF vars, LastEnv
<1> QED
  BY <1>1, <1>2, <1>3, <1>4, <1>5, <1>6, <1>7, <1>8, <1>9, <1>10, <1>11, <1>12, <1>13, <1>14,
     <1>15, <1>16
     DEF Next

\* That holds in every reachable state.
LEMMA NoneLeftHolds == Spec => []NoneLeftInv
<1>1. Init => NoneLeftInv BY DEF Init, NoneLeftInv, NoneLeft, LastEnv, Copies
<1> QED BY <1>1, NoneLeftStep, TypeCorrect, PTL DEF Spec

\* With the version deleted and the jobs ended no copy is left, also when a volume was busy
\* or the version is installed again before its deletion is through.
THEOREM DeletedLeavesNoneHolds == Spec => []DeletedLeavesNone
<1>1. TypeOK /\ NoneLeftInv => DeletedLeavesNone
  <2>1. TypeOK /\ environment.losses = 0 => losses = 0 BY DEF TypeOK
  <2> QED BY <2>1 DEF DeletedLeavesNone, NoneLeftInv, NoneLeft, Undisturbed, LastEnv, Copies
<1> QED BY <1>1, NoneLeftHolds, TypeCorrect, PTL

(***************************************************************************)
(* The priority after power was lost                                       *)
(***************************************************************************)

\* Every priority that a copy has, may have after a loss of power, or will have, is one the
\* version has had since its volumes were made.
CopiesHeld ==
    /\ \A c \in Copies : may[c] \cap Priority \subseteq held
    /\ \A c \in Copies : copy[c] \in Priority => copy[c] \in held
    /\ \A i \in 1 .. Len(jobs) : jobs[i] \in Priority => jobs[i] \in held
    /\ pc \in {"var", "rw", "fill", "env", "close"} => value \in held
    /\ ~volume => ~umount /\ copy["var"] = None /\ copy["rw"] = None

\* The environment in which it holds, until power is lost.
Calm == environment.events = {} /\ losses = 0

HeldInv == Calm => CopiesHeld

\* Writing a priority that has been held keeps it so.
LEMMA PutHeld ==
    ASSUME TypeOK, CopiesHeld, NEW c \in Copies, NEW content \in Contents, Put(c, content),
           content \in Priority => content \in held, held' = held
    PROVE  /\ \A d \in Copies : may'[d] \cap Priority \subseteq held'
           /\ \A d \in Copies : copy'[d] \in Priority => copy'[d] \in held'
<1>1. \A d \in Copies : copy'[d] = IF d = c THEN content ELSE copy[d]
  BY DEF Put, TypeOK
<1>2. \A d \in Copies :
          may'[d] \subseteq may[d] \cup (IF d = c THEN {content} ELSE {})
  BY DEF Put, TypeOK
<1> QED BY <1>1, <1>2, NoValue DEF CopiesHeld

\* Every copy keeps to the values the version has held, or has none.
LEMMA HeldStep == TypeOK /\ NoneLeftInv /\ HeldInv /\ [Next]_vars => HeldInv'
<1> SUFFICES ASSUME TypeOK, NoneLeftInv, HeldInv, [Next]_vars, Calm' PROVE CopiesHeld'
  BY DEF HeldInv
<1>0. Calm
  <2>1. losses \in Nat BY EnvironmentAssumption DEF TypeOK
  <2>2. losses' \in {losses, losses + 1}
    BY DEF Next, vars, Flush, Store, StoreVar, StoreRw, FillRw, StoreEnv, CloseVar, Erase,
           EraseEnd, SetEnv, UmountRw, Install, FactoryReset, Crash, PowerLoss
  <2> QED BY <2>1, <2>2, SameEnvironment DEF Calm
<1>00. CopiesHeld /\ NoneLeft BY <1>0 DEF HeldInv, NoneLeftInv, Calm, Undisturbed
<1> USE <1>00
<1>1. CASE \E c \in Copies : Flush(c)
  <2>1. PICK c \in Copies : Flush(c) BY <1>1
  <2>2. \A d \in Copies : may'[d] \in {may[d], {copy[d]}} BY <2>1 DEF Flush, TypeOK
  <2> QED BY <2>1, <2>2 DEF Flush, CopiesHeld
<1>2. CASE \E p \in Priority : Store(p) BY <1>2 DEF Store, CopiesHeld
<1>3. CASE StoreVar
  <2>1. volume BY <1>3 DEF StoreVar, NoneLeft
  <2> QED BY <1>3, <2>1, NoValue, PutHeld DEF StoreVar, Copies, Contents, CopiesHeld
<1>4. CASE StoreRw
  <2>1. volume BY <1>4 DEF StoreRw, NoneLeft
  <2> QED BY <1>4, <2>1, NoValue, PutHeld DEF StoreRw, Copies, Contents, CopiesHeld
<1>15. CASE FillRw
  <2>1. value \in Contents /\ value \in held /\ volume
    BY <1>15 DEF FillRw, CopiesHeld, NoneLeft, TypeOK, Contents
  <2> QED BY <1>15, <2>1, PutHeld DEF FillRw, Copies, CopiesHeld
<1>16. CASE CloseVar
  <2>1. value \in Contents /\ value \in held /\ volume
    BY <1>16 DEF CloseVar, CopiesHeld, NoneLeft, TypeOK, Contents
  <2> QED BY <1>16, <2>1, PutHeld DEF CloseVar, Copies, CopiesHeld
<1>5. CASE StoreEnv
  <2>1. value \in Values /\ value \in held BY <1>5 DEF StoreEnv, CopiesHeld, TypeOK, Values
  <2>2. \A i \in 1 .. Len(jobs') : jobs'[i] \in Priority => jobs'[i] \in held
    BY <1>5, <2>1, AppendProperties DEF StoreEnv, CopiesHeld, TypeOK, Values
  <2> QED BY <1>5, <2>2 DEF StoreEnv, CopiesHeld
<1>6. CASE Erase
  <2>1. \A i \in 1 .. Len(jobs') : jobs'[i] \in Priority => jobs'[i] \in held
    BY <1>6, NoValue, AppendProperties DEF Erase, CopiesHeld, TypeOK, Values
  <2> QED BY <1>6, <2>1 DEF Erase, CopiesHeld
<1>7. CASE EraseEnd
  <2>1. volume BY <1>7 DEF EraseEnd, NoneLeft
  <2> QED BY <1>7, <2>1, NoValue, PutHeld DEF EraseEnd, Unlinked, Contents, Copies, CopiesHeld
<1>8. CASE SetEnv
  <2>1. PICK i \in 1 .. Len(jobs) :
            /\ jobs' = SubSeq(jobs, 1, i - 1) \o SubSeq(jobs, i + 1, Len(jobs))
            /\ copy' = [copy EXCEPT !["env"] = jobs[i]]
            /\ may' = [may EXCEPT !["env"] = {copy'["env"]}]
            /\ UNCHANGED <<volume, umount, daemon, outside>>
    BY <1>8 DEF SetEnv
  <2>2. \A k \in 1 .. Len(jobs') : \E j \in 1 .. Len(jobs) : jobs'[k] = jobs[j]
    <3>1. Len(jobs) \in Nat BY LenProperties DEF TypeOK
    <3>2. /\ Len(jobs') = Len(jobs) - 1
          /\ \A k \in 1 .. Len(jobs') : jobs'[k] = IF k < i THEN jobs[k] ELSE jobs[k + 1]
      BY <2>1, RestOfJobs DEF TypeOK, Values
    <3> QED BY <3>1, <3>2
  <2>3. /\ copy'["env"] = jobs[i] /\ may'["env"] = {jobs[i]}
        /\ \A d \in Copies \ {"env"} : copy'[d] = copy[d] /\ may'[d] = may[d]
    BY <2>1 DEF TypeOK, Copies
  <2>4. UNCHANGED <<volume, umount, pc, value, held>> BY <2>1
  <2>5. jobs[i] \in Priority => jobs[i] \in held BY DEF CopiesHeld
  <2>6. \A k \in 1 .. Len(jobs') : jobs'[k] \in Priority => jobs'[k] \in held'
    BY <2>2, <2>4 DEF CopiesHeld
  <2>7. \A c \in Copies : may'[c] \cap Priority \subseteq held'
    BY <2>3, <2>4, <2>5 DEF CopiesHeld
  <2>8. \A c \in Copies : copy'[c] \in Priority => copy'[c] \in held'
    BY <2>3, <2>4, <2>5 DEF CopiesHeld
  <2>9. copy'["var"] = copy["var"] /\ copy'["rw"] = copy["rw"] BY <2>3 DEF Copies
  <2>10. (pc \in {"var", "rw", "fill", "env", "close"} => value \in held)'
         /\ (~volume => ~umount /\ copy["var"] = None /\ copy["rw"] = None)'
    BY <2>4, <2>9 DEF CopiesHeld
  <2> QED BY <2>6, <2>7, <2>8, <2>10, Zenon DEF CopiesHeld
<1>9. CASE UmountRw
  <2>1. /\ copy'["rw"] = None /\ may'["rw"] = {None}
        /\ \A d \in Copies \ {"rw"} : copy'[d] = copy[d] /\ may'[d] = may[d]
        /\ umount' = FALSE /\ UNCHANGED <<jobs, daemon>>
    BY <1>9 DEF UmountRw, TypeOK, Copies
  <2>2. umount /\ pc = "idle" /\ copy["var"] = None BY <1>9 DEF UmountRw, NoneLeft
  <2> QED BY <2>1, <2>2, NoValue DEF CopiesHeld, Copies
<1>10. CASE Install
  <2>1. jobs = <<>> /\ \A c \in Copies : may[c] = {copy[c]}
    BY <1>0, <1>10 DEF Install, Calm
  <2>2. \A c \in Copies : copy[c] = None
    BY <1>10, <2>1 DEF Install, CopiesHeld, NoneLeft, LastEnv, Copies
  <2>3. Len(jobs') = 0 BY <1>10, <2>1, EmptySeq DEF Install
  <2>4. \A c \in Copies : copy'[c] = None /\ may'[c] = {None}
    BY <1>10, <2>1, <2>2 DEF Install
  <2>5. pc' = "idle" /\ volume' = TRUE BY <1>10 DEF Install
  <2> QED BY <2>3, <2>4, <2>5, NoValue DEF CopiesHeld
<1>11. CASE FactoryReset
  BY <1>11, NoValue, PutHeld DEF FactoryReset, Contents, Copies, CopiesHeld
<1>12. CASE Crash BY <1>0, <1>12 DEF Crash, Calm
<1>13. CASE PowerLoss
  <2>1. losses \in Nat /\ losses' = losses + 1
    BY <1>13, EnvironmentAssumption DEF PowerLoss, TypeOK
  <2> QED BY <2>1 DEF Calm
<1>14. CASE UNCHANGED vars BY <1>14 DEF vars, CopiesHeld
<1> QED
  BY <1>1, <1>2, <1>3, <1>4, <1>5, <1>6, <1>7, <1>8, <1>9, <1>10, <1>11, <1>12, <1>13, <1>14,
     <1>15, <1>16
     DEF Next

\* When power is lost once, at any step, whatever of the page cache is lost with it, an
\* active version gets a priority it has had since it was installed, or the default.
THEOREM RestoresHeldHolds == Spec => RestoresHeld
<1>1. Init => HeldInv
  BY NoValue, EmptySeq DEF Init, HeldInv, CopiesHeld, Copies
<1>2. TypeOK /\ HeldInv
          => [PowerLoss /\ volume /\ shown # None
              /\ environment.events = {} /\ environment.losses = 1
                 => value' \in held \cup {MaxPriority}]_vars
  <2> SUFFICES ASSUME TypeOK, HeldInv, PowerLoss, volume, environment.events = {},
                      environment.losses = 1
               PROVE  value' \in held \cup {MaxPriority}
    OBVIOUS
  <2>1. CopiesHeld BY DEF PowerLoss, HeldInv, Calm, TypeOK
  <2>2. PICK c \in [Copies -> Contents] : (\A d \in Copies : c[d] \in may[d]) /\ Start(c)
    BY DEF PowerLoss
  <2>3. value' = Restored(c) BY <2>2 DEF Start
  <2> QED BY <2>1, <2>2, <2>3, RestoredAny DEF CopiesHeld
<1> QED BY <1>1, <1>2, HeldStep, NoneLeftHolds, TypeCorrect, PTL DEF Spec, RestoresHeld

(***************************************************************************)
(* The loop of freePriority                                                *)
(***************************************************************************)

\* The pair of a version is still in the queue.
Waiting(v) == <<before[v], v>> \in queue

\* The versions that the closed form moves.
Chain == Loop!Displaced(wanted, self, before)

LoopType ==
    /\ wanted \in 0 .. LoopMax /\ next \in 0 .. LoopMax
    /\ before \in [LoopVersions -> 0 .. LoopMax \cup {-1}]
    /\ now \in [LoopVersions -> 0 .. LoopMax \cup {-1}]
    /\ queue \subseteq {<<before[v], v>> : v \in {w \in LoopVersions : before[w] # -1}}

\* The versions of the chain that have left the queue have been moved.
MovedInv ==
    \A v \in LoopVersions :
        now[v] = IF v \in Chain /\ ~Waiting(v) THEN Loop!Increment(before[v]) ELSE before[v]

\* Each value from wanted to the one looked for has collided, and nobody at that value or
\* above has been taken from the queue.
OnTrack ==
    /\ wanted <= next
    /\ \A p \in wanted .. next - 1 : Loop!HoldersOf(p, before, self) # {}
    /\ \A v \in LoopVersions \ {self} : next <= before[v] => Waiting(v)
    /\ \A v \in Chain : Waiting(v) => next <= before[v]

\* The chain is broken or the value has wrapped: nothing collides any more.
Through ==
    /\ \A v \in LoopVersions \ {self} : Waiting(v) => next < before[v]
    /\ \A v \in Chain : ~Waiting(v)

LoopInv == LoopType /\ MovedInv /\ (OnTrack \/ Through)

\* A non-empty set of numbers has a least one.
LEMMA LeastNumber ==
    ASSUME NEW S \in SUBSET Nat, S # {}
    PROVE  \E x \in S : \A y \in S : x <= y
<1> DEFINE R == OpToRel(<, Nat)
<1>1. IsWellFoundedOn(R, Nat) BY NatLessThanWellFounded
<1>2. PICK x \in S : \A y \in S : <<y, x>> \notin R
  <2> HIDE DEF R
  <2> QED BY <1>1, WFMin, Zenon
<1>3. \A y \in S : ~(y < x) BY <1>2 DEF OpToRel
<1>4. \A y \in S : x <= y BY <1>3
<1> QED BY <1>4

\* The queue is taken from in the order of the pairs.
LEMMA LeastPair ==
    ASSUME NEW q, NEW T, q \subseteq Nat \X T, T \subseteq Nat, q # {}
    PROVE  /\ Loop!Least(q) \in q
           /\ \A u \in q : \/ Loop!Least(q)[1] < u[1]
                           \/ Loop!Least(q)[1] = u[1] /\ Loop!Least(q)[2] <= u[2]
<1> DEFINE First1 == {u[1] : u \in q}
<1>1. PICK a \in First1 : \A b \in First1 : a <= b
  <2>1. First1 \in SUBSET Nat /\ First1 # {} OBVIOUS
  <2> HIDE DEF First1
  <2> QED BY <2>1, LeastNumber
<1> DEFINE Second == {u[2] : u \in {w \in q : w[1] = a}}
<1>2. PICK c \in Second : \A d \in Second : c <= d
  <2>1. Second \in SUBSET Nat /\ Second # {} OBVIOUS
  <2> HIDE DEF Second
  <2> QED BY <2>1, LeastNumber
<1>3. PICK t \in q : t[1] = a /\ t[2] = c OBVIOUS
<1>4. \A u \in q : t[1] < u[1] \/ (t[1] = u[1] /\ t[2] <= u[2])
  <2> SUFFICES ASSUME NEW u \in q PROVE t[1] < u[1] \/ (t[1] = u[1] /\ t[2] <= u[2])
    OBVIOUS
  <2>1. a <= u[1] /\ a \in Nat /\ u[1] \in Nat BY <1>1
  <2>2. u[1] = a => c <= u[2] BY <1>2
  <2> QED BY <1>3, <2>1, <2>2
<1> QED BY <1>3, <1>4 DEF Loop!Least

\* One iteration of the loop.
LEMMA LoopStep == LoopInv /\ Loop!Iterate => LoopInv'
<1> SUFFICES ASSUME LoopInv, Loop!Iterate PROVE LoopInv' OBVIOUS
<1> DEFINE top == Loop!Least(queue)
<1>1. /\ UNCHANGED <<wanted, self, before>> /\ queue # {} /\ queue' = queue \ {top}
      /\ \/ /\ top[1] = next /\ top[2] # self
            /\ next' = Loop!Increment(next) /\ now' = [now EXCEPT ![top[2]] = next']
         \/ ~(top[1] = next /\ top[2] # self) /\ UNCHANGED <<next, now>>
  BY DEF Loop!Iterate
<1>2. /\ LoopMax \in Nat \ {0} /\ LoopVersions \subseteq Nat
      /\ wanted \in 0 .. LoopMax /\ next \in 0 .. LoopMax
      /\ before \in [LoopVersions -> 0 .. LoopMax \cup {-1}]
      /\ now \in [LoopVersions -> 0 .. LoopMax \cup {-1}]
      /\ queue \subseteq {<<before[v], v>> : v \in {w \in LoopVersions : before[w] # -1}}
  BY LoopAssumption DEF LoopInv, LoopType
<1>3. /\ top \in queue
      /\ \A u \in queue : top[1] < u[1] \/ (top[1] = u[1] /\ top[2] <= u[2])
  <2>1. queue \subseteq Nat \X LoopVersions BY <1>2
  <2> QED BY <1>1, <1>2, <2>1, LeastPair
<1> HIDE DEF top
<1>4. PICK w \in LoopVersions : top = <<before[w], w>> /\ before[w] \in 0 .. LoopMax
  BY <1>2, <1>3
<1>5. Waiting(w) /\ top[1] = before[w] /\ top[2] = w
  BY <1>3, <1>4 DEF Waiting
<1>6. \A v \in LoopVersions : Waiting(v) => before[w] < before[v] \/ (before[w] = before[v] /\ w <= v)
  <2> SUFFICES ASSUME NEW v \in LoopVersions, Waiting(v)
               PROVE  before[w] < before[v] \/ (before[w] = before[v] /\ w <= v)
    OBVIOUS
  <2> DEFINE u == <<before[v], v>>
  <2>1. u \in queue BY DEF Waiting
  <2>2. top[1] < u[1] \/ (top[1] = u[1] /\ top[2] <= u[2]) BY <1>3, <2>1
  <2> QED BY <1>5, <2>2
<1>7. \A v \in LoopVersions : Waiting(v)' <=> Waiting(v) /\ v # w
  BY <1>1, <1>4 DEF Waiting
<1>8. Chain' = Chain
  BY <1>1 DEF Chain
<1>9. \A v \in LoopVersions :
         v \in Chain <=> /\ v # self /\ wanted <= before[v] /\ before[v] # -1
                         /\ \A x \in LoopVersions \ {self} : before[x] = before[v] => v <= x
                         /\ \A p \in wanted .. before[v] : Loop!HoldersOf(p, before, self) # {}
  <2>1. \A v \in LoopVersions : before[v] # Loop!NoPriority <=> before[v] # -1
    BY DEF Loop!NoPriority
  <2> QED BY <1>2, <2>1 DEF Chain, Loop!Displaced, Loop!HoldersOf
<1>10. Chain \subseteq LoopVersions
  BY DEF Chain, Loop!Displaced
<1>11. queue' \subseteq {<<before'[v], v>> : v \in {x \in LoopVersions : before'[x] # -1}}
  BY <1>1, <1>2
<1>12. CASE top[1] = next /\ top[2] # self
  <2>1. /\ w # self /\ before[w] = next /\ next' = Loop!Increment(next)
        /\ now' = [now EXCEPT ![w] = next']
    BY <1>1, <1>5, <1>12
  <2>2. OnTrack
    BY <1>5, <2>1, <1>2 DEF LoopInv, Through
  <2>3. \A x \in LoopVersions \ {self} : before[x] = next => w <= x
    BY <1>2, <1>6, <2>1, <2>2 DEF OnTrack
  <2>4. Loop!HoldersOf(next, before, self) # {}
    BY <2>1 DEF Loop!HoldersOf
  <2>5. \A p \in wanted .. next : Loop!HoldersOf(p, before, self) # {}
    <3> SUFFICES ASSUME NEW p \in wanted .. next PROVE Loop!HoldersOf(p, before, self) # {}
      OBVIOUS
    <3>1. CASE p = next BY <2>4, <3>1
    <3>2. CASE p # next
      <4>1. p \in wanted .. next - 1 BY <1>2, <3>2
      <4> QED BY <2>2, <4>1 DEF OnTrack
    <3> QED BY <3>1, <3>2
  <2>6. w \in Chain
    BY <1>2, <1>9, <2>1, <2>2, <2>3, <2>5 DEF OnTrack
  <2>7. \A v \in Chain : before[v] = next => v = w
    BY <1>2, <1>9, <1>10, <2>1, <2>3
  <2>8. next' \in 0 .. LoopMax /\ next' = IF next = LoopMax THEN 0 ELSE next + 1
    BY <1>2, <2>1 DEF Loop!Increment
  <2>9. LoopType'
    BY <1>1, <1>2, <1>11, <2>1, <2>8 DEF LoopType
  <2>10. MovedInv'
    <3>1. \A v \in LoopVersions : now'[v] = IF v = w THEN Loop!Increment(before[v]) ELSE now[v]
      BY <1>2, <2>1
    <3> QED BY <1>1, <1>7, <1>8, <2>6, <3>1 DEF LoopInv, MovedInv, Loop!Increment
  <2>11. CASE next = LoopMax
    <3>1. \A v \in Chain : ~Waiting(v)'
      BY <1>2, <1>7, <1>10, <2>2, <2>7, <2>11 DEF OnTrack
    <3>2. \A v \in LoopVersions \ {self} : Waiting(v)' => next' < before[v]
      BY <1>2, <1>6, <1>7, <2>1, <2>8, <2>11
    <3> QED BY <1>1, <1>8, <2>9, <2>10, <3>1, <3>2 DEF LoopInv, Through
  <2>12. CASE next # LoopMax
    <3>1. next' = next + 1 BY <2>8, <2>12
    <3>2. ASSUME NEW v \in LoopVersions \ {self}, next' <= before[v]
          PROVE  Waiting(v)'
      <4>1. before[v] \in 0 .. LoopMax \cup {-1} BY <1>2
      <4>2. next <= before[v] /\ v # w BY <1>2, <2>1, <3>1, <3>2, <4>1
      <4>3. Waiting(v) BY <2>2, <4>2 DEF OnTrack
      <4> QED BY <1>7, <4>2, <4>3
    <3>3. ASSUME NEW v \in Chain, Waiting(v)' PROVE next' <= before[v]
      <4>1. v \in LoopVersions /\ Waiting(v) /\ v # w
        BY <1>7, <1>10, <3>3
      <4>2. next <= before[v] /\ before[v] # next
        BY <2>2, <2>7, <4>1 DEF OnTrack
      <4>3. before[v] \in 0 .. LoopMax \cup {-1}
        BY <1>2, <4>1
      <4> QED BY <1>2, <3>1, <4>2, <4>3
    <3>4. \A p \in wanted .. next' - 1 : Loop!HoldersOf(p, before, self) # {}
      BY <1>2, <2>5, <3>1
    <3>5. wanted <= next'
      BY <1>2, <2>2, <3>1 DEF OnTrack
    <3>6. OnTrack'
      BY <1>1, <1>8, <3>2, <3>3, <3>4, <3>5 DEF OnTrack, Loop!HoldersOf
    <3> QED BY <2>9, <2>10, <3>6 DEF LoopInv
  <2> QED BY <2>11, <2>12
<1>13. CASE ~(top[1] = next /\ top[2] # self)
  <2>1. (before[w] # next \/ w = self) /\ UNCHANGED <<next, now>>
    BY <1>1, <1>5, <1>13
  <2>2. LoopType'
    BY <1>1, <1>2, <1>11, <2>1 DEF LoopType
  <2>3. CASE Through
    <3>1. w \notin Chain BY <1>5, <2>3 DEF Through
    <3>2. MovedInv'
      BY <1>1, <1>7, <1>8, <2>1, <3>1 DEF LoopInv, MovedInv, Loop!Increment
    <3>3. Through'
      BY <1>1, <1>7, <1>8, <1>10, <2>1, <2>3 DEF Through
    <3> QED BY <2>2, <3>2, <3>3 DEF LoopInv
  <2>4. CASE OnTrack /\ (w = self \/ before[w] < next)
    <3>1. w \notin Chain
      BY <1>2, <1>5, <1>9, <2>4 DEF OnTrack
    <3>2. MovedInv'
      BY <1>1, <1>7, <1>8, <2>1, <3>1 DEF LoopInv, MovedInv, Loop!Increment
    <3>3. ASSUME NEW v \in LoopVersions \ {self}, next' <= before[v]
          PROVE  Waiting(v)'
      <4>1. next <= before[v] BY <2>1, <3>3
      <4>2. Waiting(v) BY <2>4, <4>1 DEF OnTrack
      <4>3. v # w BY <1>2, <2>4, <4>1
      <4> QED BY <1>7, <4>2, <4>3
    <3>4. OnTrack'
      BY <1>1, <1>7, <1>8, <1>10, <2>1, <2>4, <3>3 DEF OnTrack, Loop!HoldersOf
    <3> QED BY <2>2, <3>2, <3>4 DEF LoopInv
  <2>5. CASE OnTrack /\ w # self /\ next < before[w]
    <3>1. \A v \in LoopVersions : Waiting(v) => next < before[v]
      BY <1>2, <1>6, <2>5
    <3>2. \A v \in Chain : ~Waiting(v)
      <4> SUFFICES ASSUME NEW v \in Chain, Waiting(v) PROVE FALSE OBVIOUS
      <4>1. next \in wanted .. before[v]
        BY <1>2, <1>10, <2>5, <3>1 DEF OnTrack
      <4>2. Loop!HoldersOf(next, before, self) # {}
        BY <1>9, <1>10, <4>1
      <4>3. PICK y \in LoopVersions \ {self} : before[y] = next
        BY <4>2 DEF Loop!HoldersOf
      <4>4. Waiting(y)
        BY <1>2, <2>5, <4>3 DEF OnTrack
      <4> QED BY <1>2, <3>1, <4>3, <4>4
    <3>3. w \notin Chain BY <1>5, <3>2
    <3>4. MovedInv'
      BY <1>1, <1>7, <1>8, <2>1, <3>3 DEF LoopInv, MovedInv, Loop!Increment
    <3>5. Through'
      BY <1>1, <1>7, <1>8, <1>10, <2>1, <3>1, <3>2 DEF Through
    <3> QED BY <2>2, <3>4, <3>5 DEF LoopInv
  <2> QED BY <1>2, <1>4, <2>1, <2>3, <2>4, <2>5 DEF LoopInv
<1> QED BY <1>12, <1>13

\* The loop starts on track.
LEMMA LoopStart == PriorityInit => LoopInv
<1> SUFFICES ASSUME PriorityInit PROVE LoopInv OBVIOUS
<1>0. LoopMax \in Nat \ {0} /\ LoopVersions \subseteq Nat
  BY LoopAssumption
<1>1. CASE Loop!Init
  <2>1. /\ wanted \in 0 .. LoopMax /\ next = wanted /\ now = before
        /\ before \in [LoopVersions -> 0 .. LoopMax \cup {-1}]
        /\ queue = {<<before[v], v>> : v \in {w \in LoopVersions : before[w] # -1}}
    BY <1>1 DEF Loop!Init, Loop!Priority, Loop!PriorityMap, Loop!NoPriority
  <2>2. LoopType BY <2>1 DEF LoopType
  <2>3. \A v \in LoopVersions : before[v] # -1 => Waiting(v)
    BY <2>1 DEF Waiting
  <2>4. \A v \in Chain : v \in LoopVersions /\ before[v] # -1 /\ wanted <= before[v]
    BY DEF Chain, Loop!Displaced, Loop!NoPriority
  <2>5. MovedInv
    BY <2>1, <2>3, <2>4 DEF MovedInv
  <2>6. OnTrack
    <3>1. wanted = next /\ wanted \in Nat
      BY <1>0, <2>1
    <3>2. wanted .. next - 1 = {}
      BY <3>1
    <3>3. \A v \in LoopVersions \ {self} : next <= before[v] => Waiting(v)
      <4> SUFFICES ASSUME NEW v \in LoopVersions \ {self}, next <= before[v]
                   PROVE  Waiting(v)
        OBVIOUS
      <4>1. before[v] # -1 BY <3>1
      <4> QED BY <2>3, <4>1
    <3>4. \A v \in Chain : Waiting(v) => next <= before[v]
      BY <2>4, <3>1
    <3> QED BY <3>1, <3>2, <3>3, <3>4 DEF OnTrack
  <2> QED BY <2>2, <2>5, <2>6 DEF LoopInv
<1>2. CASE /\ wanted = 0 /\ self = 0 /\ queue = {} /\ next = 0
           /\ before = [v \in LoopVersions |-> Loop!NoPriority] /\ now = before
  <2>1. Chain = {} /\ \A v : ~Waiting(v)
    BY <1>2 DEF Chain, Loop!Displaced, Waiting
  <2>2. before = [v \in LoopVersions |-> -1]
    BY <1>2 DEF Loop!NoPriority
  <2>3. LoopType
    BY <1>0, <1>2, <2>2 DEF LoopType
  <2>4. MovedInv /\ Through
    BY <1>2, <2>1 DEF MovedInv, Through
  <2> QED BY <2>3, <2>4 DEF LoopInv
<1> QED BY <1>1, <1>2 DEF PriorityInit

\* For any versions and any largest priority, distinct priorities or not, the loop of
\* freePriority computes the closed form that UbiUpdater uses: it moves the first version at
\* each priority of the unbroken chain of collisions, and none other.
THEOREM LoopIsFreePriorityHolds == PrioritySpec => []LoopIsFreePriority
<1>1. LoopInv /\ [PriorityNext]_priorityVars => LoopInv'
  <2> SUFFICES ASSUME LoopInv, [PriorityNext]_priorityVars PROVE LoopInv' OBVIOUS
  <2>1. Loop!Iterate \/ UNCHANGED loopVars
    BY DEF PriorityNext, priorityVars, OfFiles
  <2>2. CASE UNCHANGED loopVars
    BY <2>2 DEF loopVars, LoopInv, LoopType, MovedInv, OnTrack, Through, Waiting, Chain,
                Loop!Displaced, Loop!HoldersOf, Loop!Increment
  <2> QED BY <2>1, <2>2, LoopStep
<1>2. LoopInv => LoopIsFreePriority
  <2> SUFFICES ASSUME LoopInv, queue = {} PROVE now = Loop!FreePriority(wanted, self, before)
    BY DEF LoopIsFreePriority, Loop!LoopIsFreePriority, Loop!Ended
  <2>1. \A v \in LoopVersions :
            now[v] = IF v \in Chain THEN Loop!Increment(before[v]) ELSE before[v]
    BY DEF LoopInv, MovedInv, Waiting
  <2>2. now = [v \in LoopVersions |-> now[v]]
    BY DEF LoopInv, LoopType
  <2>3. Loop!FreePriority(wanted, self, before)
          = [v \in LoopVersions |->
                IF v \in Chain THEN Loop!Increment(before[v]) ELSE before[v]]
    BY DEF Loop!FreePriority, Chain
  <2> QED BY <2>1, <2>2, <2>3
<1> QED BY <1>1, <1>2, LoopStart, PTL DEF PrioritySpec
=============================================================================
