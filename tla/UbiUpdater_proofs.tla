----------------------------- MODULE UbiUpdater_proofs -----------------------------
(* What holds of UbiUpdater for any number of versions, any priority range, any    *)
(* limit of active versions and any environment.                                   *)
EXTENDS UbiUpdater, FiniteSetTheorems, SequenceTheorems, TLAPS

USE DEF outside

-----------------------------------------------------------------------------------
(* What the operators on priorities preserve: they keep to the range of a uint8_t, *)
(* also when a value wraps, and they never create or destroy a RedundancyPriority  *)
(* object of another version.                                                      *)

\* Incrementing stays within the type: ++value on a uint8_t wraps.
LEMMA IncrementType ==
    ASSUME NEW p \in Priority
    PROVE  Increment(p) \in Priority
  BY MaxPriorityAssumption DEF Increment, Priority

\* Freeing a value keeps every object, and the objects keep to their type.
LEMMA FreePriorityType ==
    ASSUME NEW priorities \in PriorityMap, NEW v \in Versions, NEW value \in Priority
    PROVE  /\ FreePriority(value, v, priorities) \in PriorityMap
           /\ \A w \in Versions :
                  FreePriority(value, v, priorities)[w] = NoPriority
                      <=> priorities[w] = NoPriority
           /\ FreePriority(value, v, priorities)[v] = priorities[v]
<1> DEFINE fp == FreePriority(value, v, priorities)
<1>1. \A w \in Versions : /\ fp[w] \in Priority \cup {NoPriority}
                          /\ fp[w] = NoPriority <=> priorities[w] = NoPriority
  <2> TAKE w \in Versions
  <2>1. fp[w] = IF w \in Displaced(value, v, priorities)
                THEN Increment(priorities[w]) ELSE priorities[w]
    BY DEF FreePriority
  <2>2. priorities[w] \in Priority \cup {NoPriority}
    BY DEF PriorityMap
  <2>3. CASE w \in Displaced(value, v, priorities)
    <3>1. priorities[w] # NoPriority
      BY <2>3 DEF Displaced
    <3>2. Increment(priorities[w]) \in Priority
      BY <3>1, <2>2, IncrementType
    <3>3. NoPriority \notin Priority
      BY MaxPriorityAssumption DEF NoPriority, Priority
    <3> QED BY <2>1, <2>3, <3>1, <3>2, <3>3
  <2>4. CASE w \notin Displaced(value, v, priorities)
    BY <2>1, <2>2, <2>4
  <2> QED BY <2>3, <2>4
<1>2. fp = [w \in Versions |-> fp[w]]
  BY DEF FreePriority
<1>3. fp \in PriorityMap
  BY <1>1, <1>2 DEF PriorityMap
<1>4. fp[v] = priorities[v]
  BY DEF FreePriority, Displaced
<1> QED BY <1>1, <1>3, <1>4

\* A write gives v the value and keeps the objects of the others.
LEMMA TakePriorityType ==
    ASSUME NEW priorities \in PriorityMap, NEW v \in Versions, NEW value \in Priority
    PROVE  /\ TakePriority(value, v, priorities) \in PriorityMap
           /\ TakePriority(value, v, priorities)[v] = value
           /\ \A w \in Versions \ {v} :
                  TakePriority(value, v, priorities)[w] = NoPriority
                      <=> priorities[w] = NoPriority
<1> DEFINE fp == FreePriority(value, v, priorities)
<1>1. /\ fp \in PriorityMap
      /\ \A w \in Versions : fp[w] = NoPriority <=> priorities[w] = NoPriority
  BY FreePriorityType
<1>2. TakePriority(value, v, priorities) = [fp EXCEPT ![v] = value]
  BY DEF TakePriority
<1> HIDE DEF fp
<1> QED BY <1>1, <1>2 DEF PriorityMap

\* The same for the construction of the object of v.
LEMMA ConstructPriorityType ==
    ASSUME NEW priorities \in PriorityMap, NEW v \in Versions, NEW value \in Priority
    PROVE  /\ ConstructPriority(value, v, priorities) \in PriorityMap
           /\ ConstructPriority(value, v, priorities)[v] = value
           /\ \A w \in Versions \ {v} :
                  ConstructPriority(value, v, priorities)[w] = NoPriority
                      <=> priorities[w] = NoPriority
<1> DEFINE fp == FreePriority(value, v, priorities)
<1>1. /\ fp \in PriorityMap
      /\ \A w \in Versions : fp[w] = NoPriority <=> priorities[w] = NoPriority
  BY FreePriorityType
<1>2. ConstructPriority(value, v, priorities) = TakePriority(value, v, fp)
  BY DEF ConstructPriority
<1> HIDE DEF fp
<1>3. /\ TakePriority(value, v, fp) \in PriorityMap
      /\ TakePriority(value, v, fp)[v] = value
      /\ \A w \in Versions \ {v} :
             TakePriority(value, v, fp)[w] = NoPriority <=> fp[w] = NoPriority
  BY <1>1, TakePriorityType
<1> QED BY <1>1, <1>2, <1>3

\* The value is an element of the priorities type, never the mark of a missing object.
LEMMA NoPriorityApart == NoPriority \notin Priority /\ 0 \in Priority
  BY MaxPriorityAssumption DEF NoPriority, Priority

-----------------------------------------------------------------------------------
(* The inductive invariant.                                                        *)

\* The scan owns the objects before the event loop starts: no handler is under way
\* and a version still to be visited has no object yet.
ScanFirst ==
    /\ todo # {} => phase = "scan"
    /\ pending # {} => phase = "run"
    /\ phase = "down" => Objects = {}
    /\ \A v \in todo : activation[v] = "None"

\* An activation that blocks transitions is under way. The converse needs an image
\* check that does not throw (BlocksWhileActivating).
BlocksOnlyActivating == \A v \in transition : activation[v] = "Activating"

IInv ==
    /\ TypeOK
    /\ ScanFirst
    /\ PriorityIffActive
    /\ BlocksOnlyActivating
    /\ StaleFlagOnlyFailed
    /\ ActiveAssociated

-----------------------------------------------------------------------------------
(* Lemmas about the operators.                                                     *)

\* Only active versions make room, the functional one never when the limit leaves
\* room for another.
LEMMA FreeSpaceActive ==
    /\ FreeSpace \subseteq ActiveVersions
    /\ FreeSpace \subseteq Versions
    /\ \A v \in FreeSpace : activation[v] = "Active"
    /\ \A v \in FreeSpace : MaxActive > 1 => ~Functional(v)
  BY DEF FreeSpace, Spare, ActiveVersions

\* Erased versions hold no priority, the others keep theirs.
LEMMA WithoutType ==
    ASSUME NEW p \in PriorityMap, NEW gone
    PROVE  /\ Without(gone, p) \in PriorityMap
           /\ \A w \in Versions :
                  Without(gone, p)[w] = IF w \in gone THEN NoPriority ELSE p[w]
  BY DEF Without, PriorityMap

\* What is stored keeps to its type.
LEMMA PersistType ==
    ASSUME stored \in PriorityMap, NEW v \in Versions,
           NEW old \in PriorityMap, NEW new \in PriorityMap
    PROVE  /\ Persist(v, old, new) \in PriorityMap
           /\ \A w \in Versions :
                  Persist(v, old, new)[w] =
                      IF w = v \/ new[w] # old[w] THEN new[w] ELSE stored[w]
  BY DEF Persist, PriorityMap

\* No message and the message of any unit are messages.
LEMMA MessageType ==
    /\ NoMessage \in Message
    /\ \A v \in Versions, result \in {"done", "failed"} :
           [unit |-> v, result |-> result] \in Message
  BY DEF Message, NoMessage

\* What is left of the messages in transit when one is taken, or added.
LEMMA TailType ==
    ASSUME signals \in Seq(Message), signals # <<>>
    PROVE  Tail(signals) \in Seq(Message) /\ Head(signals) \in Message
  OBVIOUS

-----------------------------------------------------------------------------------
(* The steps.                                                                      *)

\* The initial state satisfies the invariant.
LEMMA InitIInv == Init => IInv
<1> SUFFICES ASSUME Init PROVE IInv OBVIOUS
<1>1. NoPriority \notin Priority /\ 0 \in Priority BY NoPriorityApart
<1>2. TypeOK
  BY MessageType, EmptySeq DEF Init, TypeOK, PriorityMap, States, NoVersion
<1>3. ScanFirst /\ BlocksOnlyActivating /\ StaleFlagOnlyFailed
  BY DEF Init, ScanFirst, Objects, BlocksOnlyActivating, StaleFlagOnlyFailed
<1>4. PriorityIffActive /\ ActiveAssociated
  BY DEF Init, PriorityIffActive, ActiveVersions, ActiveAssociated, Objects
<1> QED BY <1>2, <1>3, <1>4 DEF IInv

\* The process ends in a state that satisfies the invariant, whatever the step does
\* to flash and files.
LEMMA TerminateIInv ==
    ASSUME Terminate,
           stored' \in PriorityMap, ro' \in [Versions -> {"absent", "empty", "mounted"}],
           rw' \subseteq Versions, prsv' \in BOOLEAN, link' \in Versions \cup {NoVersion},
           mountJob' \in [Versions -> {"idle", "ro", "rw", "prsv"}],
           umountRo' \subseteq Versions, umountRw' \subseteq Versions,
           chassisOn' \in BOOLEAN, environment' \in Environments
    PROVE  IInv'
<1>1. TypeOK'
  BY MessageType, EmptySeq DEF Terminate, TypeOK, PriorityMap, States
<1>2. (ScanFirst /\ BlocksOnlyActivating /\ StaleFlagOnlyFailed)'
  BY DEF Terminate, ScanFirst, Objects, BlocksOnlyActivating, StaleFlagOnlyFailed
<1>3. (PriorityIffActive /\ ActiveAssociated)'
  BY DEF Terminate, PriorityIffActive, ActiveVersions, ActiveAssociated, Objects
<1> QED BY <1>1, <1>2, <1>3 DEF IInv

\* The D-Bus calls of clients keep the invariant.
LEMMA ClientCallIInv == IInv /\ ClientCall => IInv'
<1> SUFFICES ASSUME IInv, ClientCall PROVE IInv' OBVIOUS
<1> USE DEF Idle
<1>0. NoPriority \notin Priority BY NoPriorityApart
<1>1. ASSUME NEW v \in Versions, CreateActivation(v) PROVE IInv'
  <2> USE <1>1 DEF CreateActivation, assocVars, handlerVars, diskVars, mountVars,
                   umountVars
  <2>1. TypeOK'
    BY DEF IInv, TypeOK, States
  <2>2. (ScanFirst /\ BlocksOnlyActivating /\ StaleFlagOnlyFailed)'
    BY DEF IInv, TypeOK, ScanFirst, Objects, BlocksOnlyActivating,
           StaleFlagOnlyFailed
  <2>3. (PriorityIffActive /\ ActiveAssociated)'
    BY DEF IInv, TypeOK, PriorityIffActive, ActiveVersions, ActiveAssociated,
           Objects
  <2> QED BY <2>1, <2>2, <2>3 DEF IInv
<1>2. ASSUME NEW v \in Versions, NEW value \in BOOLEAN, Request(v, value)
      PROVE  IInv'
  <2> USE <1>2 DEF Request, FlagsAfterRequest, assocVars, handlerVars, diskVars,
                   mountVars, umountVars
  <2>1. TypeOK'
    BY DEF IInv, TypeOK
  <2>2. (ScanFirst /\ BlocksOnlyActivating /\ StaleFlagOnlyFailed)'
    BY DEF IInv, TypeOK, ScanFirst, Objects, BlocksOnlyActivating,
           StaleFlagOnlyFailed
  <2>3. (PriorityIffActive /\ ActiveAssociated)'
    BY DEF IInv, PriorityIffActive, ActiveVersions, ActiveAssociated, Objects
  <2> QED BY <2>1, <2>2, <2>3 DEF IInv
<1>3. ASSUME NEW v \in Versions, StartActivation(v) PROVE IInv'
  <2> DEFINE gone == FreeSpace
  <2> PICK result \in SignatureResults :
        /\ SetState(v, IF result = "invalid" THEN "Failed" ELSE "Activating", gone)
        /\ requested' = (requested \ gone)
                            \cup (IF result = "error" THEN {} ELSE {v})
        /\ created' = FlagsAfterRequest(v) \ gone
        /\ transition' = CASE result = "valid"   -> transition \cup {v}
                           [] result = "invalid" -> transition \ {v}
                           [] result = "error"   -> transition
        /\ priority' = Without(gone \cup {v}, priority)
        /\ stored' = Without(gone, stored)
        /\ Dissociate(gone)
        /\ Umount(gone)
        /\ mountJob' = IF result = "valid" /\ mountJob[v] = "idle"
                       THEN [mountJob EXCEPT ![v] = "ro"] ELSE mountJob
        /\ queued' = IF result = "valid" THEN queued \cup {v} ELSE queued
    BY <1>3 DEF StartActivation
  <2>0. /\ activation[v] \in {"Ready", "Failed"}
        /\ phase = "run" /\ pending = {} /\ subscribed' = TRUE
        /\ UNCHANGED <<phase, todo, handlerVars, diskVars, signals, linkEvent,
                       outside>>
    BY <1>3 DEF StartActivation
  <2>1. gone \subseteq Versions /\ \A w \in gone : activation[w] = "Active"
    BY FreeSpaceActive
  <2>2. v \notin gone /\ v \notin transition
    BY <2>0, <2>1 DEF IInv, BlocksOnlyActivating
  <2>3. \A w \in Versions :
          activation'[w] = IF w = v
                           THEN IF result = "invalid" THEN "Failed" ELSE "Activating"
                           ELSE IF w \in gone THEN "None" ELSE activation[w]
    BY DEF SetState
  <2>4. /\ priority' \in PriorityMap /\ stored' \in PriorityMap
        /\ \A w \in Versions :
              priority'[w] = IF w \in gone \cup {v} THEN NoPriority ELSE priority[w]
    BY WithoutType DEF IInv, TypeOK
  <2>5. result \in {"valid", "invalid", "error"}
    BY EnvironmentAssumption
  <2>6. \A w \in transition' : w \in transition \/ (w = v /\ result = "valid")
    BY <2>5
  <2> HIDE DEF gone
  <2>7. TypeOK'
    <3>1. activation' \in [Versions -> States]
      BY <2>3 DEF SetState, IInv, TypeOK, States
    <3>2. transition' \subseteq Versions
      BY <2>6 DEF IInv, TypeOK
    <3>3. /\ requested' \subseteq Versions /\ created' \subseteq Versions
          /\ active' \subseteq Versions /\ updateable' \subseteq Versions
          /\ functional' \subseteq Versions \cup {NoVersion}
          /\ umountRo' \subseteq Versions /\ umountRw' \subseteq Versions
      BY <2>1 DEF Dissociate, Umount, FlagsAfterRequest, IInv, TypeOK
    <3>4. /\ mountJob' \in [Versions -> {"idle", "ro", "rw", "prsv"}]
          /\ queued' \subseteq Versions
      BY DEF IInv, TypeOK
    <3> QED BY <2>0, <2>4, <3>1, <3>2, <3>3, <3>4
            DEF IInv, TypeOK, handlerVars, diskVars
  <2>8. ScanFirst'
    BY <2>0 DEF IInv, ScanFirst, handlerVars
  <2>9. BlocksOnlyActivating'
    BY <2>1, <2>3, <2>5, <2>6 DEF IInv, TypeOK, BlocksOnlyActivating
  <2>10. StaleFlagOnlyFailed'
    BY <2>1, <2>3, <2>6, <2>7 DEF IInv, TypeOK, StaleFlagOnlyFailed, FlagsAfterRequest
  <2>11. PriorityIffActive'
    BY <2>0, <2>3, <2>4 DEF IInv, PriorityIffActive, ActiveVersions
  <2>12. ActiveAssociated'
    BY <2>0, <2>2, <2>3 DEF IInv, ActiveAssociated, ActiveVersions, Objects, Dissociate
  <2> QED BY <2>7, <2>8, <2>9, <2>10, <2>11, <2>12 DEF IInv
<1>4. ASSUME NEW v \in Versions, Delete(v) PROVE IInv'
  <2>1. /\ priority' \in PriorityMap /\ stored' \in PriorityMap
        /\ \A w \in Versions :
              priority'[w] = IF w = v THEN NoPriority ELSE priority[w]
    BY <1>4, WithoutType DEF Delete, IInv, TypeOK
  <2>2. \A w \in Versions :
          activation'[w] = IF w = v THEN "None" ELSE activation[w]
    BY <1>4 DEF Delete, IInv, TypeOK
  <2>3. PriorityIffActive'
    BY <2>1, <2>2 DEF IInv, PriorityIffActive, ActiveVersions
  <2> USE <1>4 DEF Delete, Dissociate, Umount, handlerVars, diskVars, mountVars
  <2>4. TypeOK'
    BY <2>1 DEF IInv, TypeOK, States
  <2>5. (ScanFirst /\ BlocksOnlyActivating /\ StaleFlagOnlyFailed)'
    BY DEF IInv, TypeOK, ScanFirst, Objects, BlocksOnlyActivating,
           StaleFlagOnlyFailed
  <2>6. ActiveAssociated'
    BY <2>2 DEF IInv, ActiveAssociated, ActiveVersions, Objects
  <2> QED BY <2>3, <2>4, <2>5, <2>6 DEF IInv
<1>5. ASSUME NEW v \in Versions, NEW value \in WrittenPriorities,
             WritePriority(v, value)
      PROVE  IInv'
  <2>1. value \in Priority
    BY PrioritiesAssumption
  <2>2. /\ priority' \in PriorityMap /\ priority'[v] # NoPriority
        /\ \A w \in Versions \ {v} :
              priority'[w] = NoPriority <=> priority[w] = NoPriority
    BY <1>0, <1>5, <2>1, TakePriorityType DEF WritePriority, IInv, TypeOK
  <2>3. stored' \in PriorityMap
    BY <1>5, <2>2, PersistType DEF WritePriority, IInv, TypeOK
  <2>4. /\ priority[v] # NoPriority
        /\ UNCHANGED <<phase, todo, activation, requested, created, transition,
                       assocVars, subscribed, handlerVars, diskVars, mountVars,
                       umountVars, signals, linkEvent, outside>>
    BY <1>5 DEF WritePriority
  <2> USE <2>4 DEF assocVars, handlerVars, diskVars, mountVars, umountVars
  <2>5. TypeOK'
    BY <2>2, <2>3 DEF IInv, TypeOK
  <2>6. (ScanFirst /\ BlocksOnlyActivating /\ StaleFlagOnlyFailed)'
    BY DEF IInv, ScanFirst, Objects, BlocksOnlyActivating, StaleFlagOnlyFailed
  <2>7. (PriorityIffActive /\ ActiveAssociated)'
    BY <2>2 DEF IInv, PriorityIffActive, ActiveVersions, ActiveAssociated, Objects
  <2> QED BY <2>5, <2>6, <2>7 DEF IInv
<1> QED BY <1>1, <1>2, <1>3, <1>4, <1>5 DEF ClientCall

\* The handlers of a JobRemoved message keep the invariant.
LEMMA HandleIInv ==
    ASSUME IInv, NEW w \in Versions, Handle(w)
    PROVE  IInv'
<1> DEFINE gone == FreeSpace
<1>1. NoPriority \notin Priority /\ 0 \in Priority BY NoPriorityApart
<1>2. gone \subseteq Versions /\ \A x \in gone : activation[x] = "Active"
  BY FreeSpaceActive
<1> HIDE DEF gone
<1>3. phase = "run" /\ w \in pending
  BY DEF Handle, HandleWithoutProgress, Finish, VolumesMissing, HandleFailure,
         IInv, ScanFirst
<1>4. ASSUME HandleWithoutProgress(w) PROVE IInv'
  <2>1. /\ stored' \in PriorityMap
        /\ umountRo' \subseteq Versions /\ umountRw' \subseteq Versions
    BY <1>2, <1>4, WithoutType
       DEF HandleWithoutProgress, Umount, umountVars, IInv, TypeOK, gone
  <2>2. Terminate /\ UNCHANGED <<diskVars, mountJob, outside>>
    BY <1>4 DEF HandleWithoutProgress
  <2> QED BY <2>1, <2>2, TerminateIInv DEF diskVars, IInv, TypeOK
<1>5. ASSUME Finish(w) PROVE IInv'
  <2> DEFINE left == Without(gone \cup {w}, priority)
             new == ConstructPriority(0, w, left)
  <2>1. w \notin gone /\ activation[w] = "Activating"
    BY <1>2, <1>5 DEF Finish, IInv, BlocksOnlyActivating
  <2>2. /\ left \in PriorityMap
        /\ \A x \in Versions :
              left[x] = IF x \in gone \cup {w} THEN NoPriority ELSE priority[x]
    BY WithoutType DEF IInv, TypeOK
  <2> HIDE DEF left
  <2>3. /\ new \in PriorityMap /\ new[w] = 0
        /\ \A x \in Versions \ {w} : new[x] = NoPriority <=> left[x] = NoPriority
    BY <1>1, <2>2, ConstructPriorityType
  <2> HIDE DEF new
  <2>4. /\ stored' = Without(gone, Persist(w, left, new))
        /\ Umount(gone)
        /\ UNCHANGED <<diskVars, mountJob, outside>>
        /\ \/ Terminate
           \/ /\ SetState(w, IF MountFailed(w) THEN "Failed" ELSE "Active", gone)
              /\ requested' = requested \ gone
              /\ created' = created \ (gone \cup {w})
              /\ transition' = transition \ (gone \cup {w})
              /\ priority' = IF MountFailed(w) THEN [new EXCEPT ![w] = NoPriority]
                                               ELSE new
              /\ active' = (active \ gone) \cup {w}
              /\ updateable' = (updateable \ gone) \cup {w}
              /\ functional' = functional \ gone
              /\ subscribed' = FALSE
              /\ Handled(w, gone)
              /\ UNCHANGED <<phase, todo, queued, signals, linkEvent>>
    BY <1>5 DEF Finish, gone, left, new
  <2>5. stored' \in PriorityMap
    BY <2>2, <2>3, <2>4, WithoutType, PersistType DEF IInv, TypeOK
  <2>6. umountRo' \subseteq Versions /\ umountRw' \subseteq Versions
    BY <1>2, <2>4 DEF Umount, IInv, TypeOK
  <2>7. CASE Terminate
    BY <2>4, <2>5, <2>6, <2>7, TerminateIInv DEF diskVars, IInv, TypeOK
  <2>8. CASE ~Terminate
    <3>1. \A x \in Versions :
            activation'[x] = IF x = w THEN IF MountFailed(w) THEN "Failed" ELSE "Active"
                             ELSE IF x \in gone THEN "None" ELSE activation[x]
      BY <2>4, <2>8 DEF SetState
    <3>2. /\ priority' \in PriorityMap
          /\ \A x \in Versions :
                priority'[x] = IF x = w /\ MountFailed(w) THEN NoPriority ELSE new[x]
      BY <2>3, <2>4, <2>8 DEF PriorityMap
    <3>3. pending' \subseteq pending /\ message' \in Message
      BY <2>4, <2>8, MessageType DEF Handled, IInv, TypeOK
    <3>4. TypeOK'
      <4>1. activation' \in [Versions -> States]
        BY <2>4, <2>8, <3>1 DEF SetState, IInv, TypeOK, States
      <4>2. /\ requested' \subseteq Versions /\ created' \subseteq Versions
            /\ transition' \subseteq Versions /\ active' \subseteq Versions
            /\ updateable' \subseteq Versions
            /\ functional' \subseteq Versions \cup {NoVersion}
            /\ pending' \subseteq Versions
        BY <2>4, <2>8, <3>3 DEF IInv, TypeOK
      <4> QED BY <2>4, <2>5, <2>6, <2>8, <3>2, <3>3, <4>1, <4>2
              DEF IInv, TypeOK, diskVars
    <3>5. ScanFirst'
      BY <1>3, <2>4, <2>8 DEF IInv, ScanFirst
    <3>6. BlocksOnlyActivating'
      BY <2>4, <2>8, <3>1 DEF IInv, TypeOK, BlocksOnlyActivating
    <3>7. StaleFlagOnlyFailed'
      BY <2>4, <2>8, <3>1 DEF IInv, TypeOK, StaleFlagOnlyFailed
    <3>8. PriorityIffActive'
      BY <1>1, <1>2, <2>1, <2>2, <2>3, <3>1, <3>2
         DEF IInv, PriorityIffActive, ActiveVersions
    <3>9. ActiveAssociated'
      BY <2>4, <2>8, <3>1 DEF IInv, ActiveAssociated, ActiveVersions, Objects
    <3> QED BY <3>4, <3>5, <3>6, <3>7, <3>8, <3>9 DEF IInv
  <2> QED BY <2>7, <2>8
<1>6. ASSUME VolumesMissing(w) PROVE IInv'
  <2>1. /\ SetState(w, "Failed", gone)
        /\ requested' = requested \ gone
        /\ created' = (created \ gone) \cup {w}
        /\ transition' = transition \ (gone \cup {w})
        /\ priority' = Without(gone \cup {w}, priority)
        /\ stored' = Without(gone, stored)
        /\ Dissociate(gone) /\ Umount(gone) /\ Handled(w, gone)
        /\ UNCHANGED <<phase, todo, subscribed, diskVars, mountVars, signals,
                       linkEvent, outside>>
    BY <1>6 DEF VolumesMissing, gone
  <2>2. w \notin gone /\ activation[w] \notin {"None", "Active"}
    BY <1>2, <1>6 DEF VolumesMissing, VolumesCreated, IInv, BlocksOnlyActivating,
                      StaleFlagOnlyFailed
  <2>3. \A x \in Versions :
          activation'[x] = IF x = w THEN "Failed"
                           ELSE IF x \in gone THEN "None" ELSE activation[x]
    BY <2>1 DEF SetState
  <2>4. /\ priority' \in PriorityMap /\ stored' \in PriorityMap
        /\ \A x \in Versions :
              priority'[x] = IF x \in gone \cup {w} THEN NoPriority ELSE priority[x]
    BY <2>1, WithoutType DEF IInv, TypeOK
  <2>5. pending' \subseteq pending /\ message' \in Message
    BY <2>1, MessageType DEF Handled, IInv, TypeOK
  <2>6. TypeOK'
    <3>1. activation' \in [Versions -> States]
      BY <2>1, <2>3 DEF SetState, IInv, TypeOK, States
    <3>2. /\ requested' \subseteq Versions /\ created' \subseteq Versions
          /\ transition' \subseteq Versions /\ active' \subseteq Versions
          /\ updateable' \subseteq Versions
          /\ functional' \subseteq Versions \cup {NoVersion}
          /\ pending' \subseteq Versions
          /\ umountRo' \subseteq Versions /\ umountRw' \subseteq Versions
      BY <1>2, <2>1, <2>5 DEF Dissociate, Umount, IInv, TypeOK
    <3> QED BY <2>1, <2>4, <2>5, <3>1, <3>2 DEF IInv, TypeOK, diskVars, mountVars
  <2>7. ScanFirst'
    BY <1>3, <2>1 DEF IInv, ScanFirst
  <2>8. BlocksOnlyActivating'
    BY <1>2, <2>1, <2>3 DEF IInv, TypeOK, BlocksOnlyActivating
  <2>9. StaleFlagOnlyFailed'
    BY <1>2, <2>1, <2>3 DEF IInv, TypeOK, StaleFlagOnlyFailed
  <2>10. PriorityIffActive'
    BY <1>2, <2>2, <2>3, <2>4 DEF IInv, PriorityIffActive, ActiveVersions
  <2>11. ActiveAssociated'
    BY <2>1, <2>2, <2>3
       DEF IInv, ActiveAssociated, ActiveVersions, Objects, Dissociate
  <2> QED BY <2>6, <2>7, <2>8, <2>9, <2>10, <2>11 DEF IInv
<1>7. ASSUME HandleFailure(w) PROVE IInv'
  <2>1. \A x \in Versions :
          activation'[x] = IF x = w THEN "Failed" ELSE activation[x]
    BY <1>7 DEF HandleFailure, IInv, TypeOK
  <2>2. /\ priority' \in PriorityMap
        /\ \A x \in Versions :
              priority'[x] = IF x = w THEN NoPriority ELSE priority[x]
    BY <1>7, WithoutType DEF HandleFailure, IInv, TypeOK
  <2>3. pending' \subseteq pending /\ message' \in Message
    BY <1>7, MessageType DEF HandleFailure, Handled, IInv, TypeOK
  <2>4. PriorityIffActive'
    BY <2>1, <2>2 DEF IInv, PriorityIffActive, ActiveVersions
  <2> USE <1>7 DEF HandleFailure, assocVars, diskVars, mountVars, umountVars
  <2>5. TypeOK'
    BY <2>2, <2>3 DEF IInv, TypeOK, States
  <2>6. (ScanFirst /\ BlocksOnlyActivating /\ StaleFlagOnlyFailed)'
    BY <1>3, <2>1 DEF IInv, TypeOK, ScanFirst, BlocksOnlyActivating,
                      StaleFlagOnlyFailed
  <2>7. ActiveAssociated'
    BY <2>1 DEF IInv, ActiveAssociated, ActiveVersions, Objects
  <2> QED BY <2>4, <2>5, <2>6, <2>7 DEF IInv
<1> QED BY <1>4, <1>5, <1>6, <1>7 DEF Handle

\* The daemon's own steps keep the invariant.
LEMMA DaemonIInv == IInv /\ Daemon => IInv'
<1> SUFFICES ASSUME IInv, Daemon PROVE IInv' OBVIOUS
<1>1. CASE Receive
  <2> USE <1>1 DEF Receive, objectVars, assocVars, diskVars, mountVars, umountVars
  <2>1. phase = "run" /\ pending' \subseteq Versions
    BY DEF Idle, Concerned, Objects
  <2>2. signals' \in Seq(Message) /\ message' \in Message
    BY TailType, MessageType DEF IInv, TypeOK
  <2>3. TypeOK'
    BY <2>1, <2>2 DEF IInv, TypeOK
  <2>4. (ScanFirst /\ BlocksOnlyActivating /\ StaleFlagOnlyFailed)'
    BY <2>1 DEF IInv, ScanFirst, BlocksOnlyActivating, StaleFlagOnlyFailed
  <2>5. (PriorityIffActive /\ ActiveAssociated)'
    BY DEF IInv, PriorityIffActive, ActiveVersions, ActiveAssociated, Objects
  <2> QED BY <2>3, <2>4, <2>5 DEF IInv
<1>2. CASE ReceiveOther
  <2> USE <1>2 DEF ReceiveOther, objectVars, assocVars, diskVars, mountVars,
                   umountVars
  <2>1. phase = "run"
    BY DEF Idle
  <2>2. TypeOK'
    BY DEF IInv, TypeOK
  <2>3. (ScanFirst /\ BlocksOnlyActivating /\ StaleFlagOnlyFailed)'
    BY <2>1 DEF IInv, ScanFirst, BlocksOnlyActivating, StaleFlagOnlyFailed
  <2>4. (PriorityIffActive /\ ActiveAssociated)'
    BY DEF IInv, PriorityIffActive, ActiveVersions, ActiveAssociated, Objects
  <2> QED BY <2>2, <2>3, <2>4 DEF IInv
<1>3. ASSUME NEW w \in Versions, Handle(w) PROVE IInv'
  BY <1>3, HandleIInv
<1>4. CASE WatchCallback
  <2>1. CASE Terminate
    BY <1>4, <2>1, TerminateIInv
       DEF WatchCallback, diskVars, umountVars, IInv, TypeOK
  <2>2. CASE ~Terminate
    <3> USE <1>4, <2>2 DEF WatchCallback, objectVars, handlerVars, diskVars,
                           mountVars, umountVars
    <3>1. TypeOK'
      BY DEF IInv, TypeOK
    <3>2. (ScanFirst /\ BlocksOnlyActivating /\ StaleFlagOnlyFailed)'
      BY DEF IInv, ScanFirst, Objects, BlocksOnlyActivating, StaleFlagOnlyFailed
    <3>3. (PriorityIffActive /\ ActiveAssociated)'
      BY DEF IInv, PriorityIffActive, ActiveVersions, ActiveAssociated, Objects
    <3> QED BY <3>1, <3>2, <3>3 DEF IInv
  <2> QED BY <2>1, <2>2
<1>5. CASE Crash
  BY <1>5, TerminateIInv DEF Crash, diskVars, umountVars, IInv, TypeOK
<1>6. CASE Start
  <2> USE <1>6 DEF Start, objectVars, assocVars, handlerVars, diskVars, mountVars,
                   umountVars
  <2>1. TypeOK'
    BY DEF IInv, TypeOK
  <2>2. (ScanFirst /\ BlocksOnlyActivating /\ StaleFlagOnlyFailed)'
    BY DEF IInv, TypeOK, ScanFirst, Objects, BlocksOnlyActivating, StaleFlagOnlyFailed
  <2>3. (PriorityIffActive /\ ActiveAssociated)'
    BY DEF IInv, PriorityIffActive, ActiveVersions, ActiveAssociated, Objects
  <2> QED BY <2>1, <2>2, <2>3 DEF IInv
<1>7. ASSUME NEW v \in Versions, Scan(v) PROVE IInv'
  <2>1. /\ phase = "scan" /\ v \in todo /\ todo' = todo \ {v}
        /\ activation[v] = "None" /\ pending = {}
        /\ UNCHANGED <<phase, scanUnchanged>>
    BY <1>7 DEF Scan, IInv, ScanFirst
  <2>2. ScanFirst' /\ TypeOK' /\ PriorityIffActive' /\ ActiveAssociated'
    <3>1. CASE ScanImage(v) /\ v \notin environment.unlabelled
      <4>1. PICK value \in IF stored[v] # NoPriority THEN {stored[v]}
                                                    ELSE FallbackPriorities :
              /\ priority' = ConstructPriority(value, v, priority)
              /\ stored' = Persist(v, priority, priority')
        BY <3>1 DEF ScanImage
      <4>2. value \in Priority
        BY PrioritiesAssumption DEF IInv, TypeOK, PriorityMap
      <4>3. /\ priority' \in PriorityMap /\ priority'[v] # NoPriority
            /\ \A w \in Versions \ {v} :
                  priority'[w] = NoPriority <=> priority[w] = NoPriority
        <5> DEFINE new == ConstructPriority(value, v, priority)
        <5>1. value # NoPriority /\ priority \in PriorityMap
          BY <4>2, NoPriorityApart DEF IInv, TypeOK
        <5>2. /\ new \in PriorityMap /\ new[v] = value
              /\ \A w \in Versions \ {v} :
                    new[w] = NoPriority <=> priority[w] = NoPriority
          BY <4>2, <5>1, ConstructPriorityType
        <5> HIDE DEF new
        <5>3. priority' = new
          BY <4>1 DEF new
        <5> QED BY <5>1, <5>2, <5>3
      <4>4. stored' \in PriorityMap
        BY <4>1, <4>3, PersistType DEF IInv, TypeOK
      <4>5. /\ updateable' = updateable \cup {v} /\ active' = active \cup {v}
            /\ activation' = [activation EXCEPT ![v] = "Active"]
            /\ UNCHANGED umountVars
        BY <3>1 DEF ScanImage
      <4>6. \A w \in Versions :
              activation'[w] = IF w = v THEN "Active" ELSE activation[w]
        BY <4>5 DEF IInv, TypeOK
      <4>7. TypeOK'
        BY <2>1, <4>3, <4>4, <4>5
           DEF IInv, TypeOK, States, scanUnchanged, handlerVars, diskVars,
               mountVars, umountVars
      <4>8. ScanFirst'
        BY <2>1, <4>6 DEF IInv, TypeOK, ScanFirst, scanUnchanged, handlerVars
      <4>9. PriorityIffActive'
        BY <4>3, <4>6 DEF IInv, PriorityIffActive, ActiveVersions
      <4>10. ActiveAssociated'
        BY <4>5, <4>6 DEF IInv, ActiveAssociated, ActiveVersions, Objects
      <4> QED BY <4>7, <4>8, <4>9, <4>10
    <3>2. CASE ScanImage(v) /\ v \in environment.unlabelled
      <4>1. /\ updateable' = updateable \cup {v}
            /\ activation' = [activation EXCEPT ![v] = "Invalid"]
            /\ UNCHANGED <<active, priority, stored, umountVars>>
        BY <3>2 DEF ScanImage
      <4>2. \A w \in Versions :
              activation'[w] = IF w = v THEN "Invalid" ELSE activation[w]
        BY <4>1 DEF IInv, TypeOK
      <4>3. TypeOK'
        BY <2>1, <4>1
           DEF IInv, TypeOK, States, scanUnchanged, handlerVars, diskVars,
               mountVars, umountVars
      <4>4. ScanFirst'
        BY <2>1, <4>2 DEF IInv, TypeOK, ScanFirst, scanUnchanged, handlerVars
      <4>5. PriorityIffActive'
        BY <2>1, <4>1, <4>2 DEF IInv, PriorityIffActive, ActiveVersions
      <4>6. ActiveAssociated'
        BY <2>1, <4>1, <4>2 DEF IInv, ActiveAssociated, ActiveVersions, Objects
      <4> QED BY <4>3, <4>4, <4>5, <4>6
    <3>3. CASE ScanRemains(v)
      <4>1. stored' \in PriorityMap
        BY <3>3, WithoutType DEF ScanRemains, IInv, TypeOK
      <4>2. umountRo' \subseteq Versions /\ umountRw' \subseteq Versions
        BY <3>3 DEF ScanRemains, Umount, umountVars, IInv, TypeOK
      <4>3. UNCHANGED <<activation, priority, active, updateable>>
        BY <3>3 DEF ScanRemains
      <4>4. TypeOK'
        BY <2>1, <4>1, <4>2, <4>3
           DEF IInv, TypeOK, scanUnchanged, handlerVars, diskVars, mountVars
      <4>5. ScanFirst'
        BY <2>1, <4>3 DEF IInv, ScanFirst, scanUnchanged, handlerVars
      <4>6. (PriorityIffActive /\ ActiveAssociated)'
        BY <4>3 DEF IInv, PriorityIffActive, ActiveVersions, ActiveAssociated, Objects
      <4> QED BY <4>4, <4>5, <4>6
    <3> QED BY <1>7, <3>1, <3>2, <3>3 DEF Scan
  <2>3. \A w \in Versions \ {v} : activation'[w] = activation[w]
    BY <1>7 DEF Scan, ScanImage, ScanRemains, IInv, TypeOK
  <2>4. v \notin transition /\ v \notin created
    BY <2>1 DEF IInv, BlocksOnlyActivating, StaleFlagOnlyFailed
  <2>5. (BlocksOnlyActivating /\ StaleFlagOnlyFailed)'
    BY <2>1, <2>3, <2>4
       DEF IInv, TypeOK, BlocksOnlyActivating, StaleFlagOnlyFailed, scanUnchanged
  <2> QED BY <2>2, <2>5 DEF IInv
<1>8. CASE EndScan
  <2> USE <1>8 DEF EndScan, objectVars, handlerVars, diskVars, mountVars, umountVars
  <2>1. TypeOK'
    BY DEF IInv, TypeOK
  <2>2. (ScanFirst /\ BlocksOnlyActivating /\ StaleFlagOnlyFailed)'
    BY DEF IInv, ScanFirst, Objects, BlocksOnlyActivating, StaleFlagOnlyFailed
  <2>3. (PriorityIffActive /\ ActiveAssociated)'
    BY DEF IInv, PriorityIffActive, ActiveVersions, ActiveAssociated, Objects
  <2> QED BY <2>1, <2>2, <2>3 DEF IInv
<1> QED BY <1>1, <1>2, <1>3, <1>4, <1>5, <1>6, <1>7, <1>8 DEF Daemon

\* What happens outside the daemon leaves its objects alone.
LEMMA SystemIInv == IInv /\ System => IInv'
<1> SUFFICES ASSUME IInv, System PROVE IInv' OBVIOUS
<1>1. UNCHANGED <<phase, todo, objectVars, assocVars, subscribed, handlerVars>>
  BY DEF System, MountStep, MountFails, UmountRo, UmountRw, UpdateSymlinks,
         ChassisChange, systemdUnchanged
<1>2. (ScanFirst /\ BlocksOnlyActivating /\ StaleFlagOnlyFailed)'
  BY <1>1 DEF IInv, ScanFirst, Objects, BlocksOnlyActivating, StaleFlagOnlyFailed,
              objectVars, handlerVars
<1>3. (PriorityIffActive /\ ActiveAssociated)'
  BY <1>1 DEF IInv, PriorityIffActive, ActiveVersions, ActiveAssociated, Objects,
              objectVars, assocVars
<1>4. TypeOK'
  <2> USE <1>1 DEF objectVars, assocVars, handlerVars
  <2>1. ASSUME NEW v \in Versions, NEW result \in {"done", "failed"},
               Announce(v, result)
        PROVE  signals' \in Seq(Message) /\ queued' \subseteq Versions
    <3> DEFINE m == [unit |-> v, result |-> result]
    <3>1. m \in Message /\ signals \in Seq(Message)
      BY MessageType DEF IInv, TypeOK
    <3>2. /\ signals' = Append(signals, m) \/ signals' = signals
          /\ queued' \subseteq Versions
      BY <2>1 DEF Announce, IInv, TypeOK
    <3> HIDE DEF m
    <3> QED BY <3>1, <3>2, AppendProperties
  <2>2. ASSUME NEW v \in Versions, MountStep(v) PROVE TypeOK'
    <3>1. signals' \in Seq(Message) /\ queued' \subseteq Versions
      BY <2>1, <2>2 DEF MountStep, IInv, TypeOK
    <3> QED BY <2>2, <3>1 DEF MountStep, systemdUnchanged, umountVars, IInv, TypeOK
  <2>3. ASSUME NEW v \in Versions, MountFails(v) PROVE TypeOK'
    <3>1. signals' \in Seq(Message) /\ queued' \subseteq Versions
      BY <2>1, <2>3 DEF MountFails
    <3>2. ro' \in [Versions -> {"absent", "empty", "mounted"}]
      BY <2>3 DEF MountFails, IInv, TypeOK
    <3>3. rw' \subseteq Versions /\ prsv' \in BOOLEAN
      BY <2>3 DEF MountFails, IInv, TypeOK
    <3> QED BY <2>3, <3>1, <3>2, <3>3
            DEF MountFails, Umount, systemdUnchanged, IInv, TypeOK
  <2>4. ASSUME NEW v \in Versions, UmountRo(v) \/ UmountRw(v) PROVE TypeOK'
    BY <2>4 DEF UmountRo, UmountRw, systemdUnchanged, mountVars, IInv, TypeOK
  <2>5. ASSUME UpdateSymlinks PROVE TypeOK'
    BY <2>5 DEF UpdateSymlinks, Choices, Candidates, mountVars, umountVars, IInv,
                TypeOK
  <2>6. ASSUME ChassisChange PROVE TypeOK'
    BY <2>6 DEF ChassisChange, diskVars, mountVars, umountVars, IInv, TypeOK
  <2> QED BY <2>2, <2>3, <2>4, <2>5, <2>6 DEF System
<1> QED BY <1>2, <1>3, <1>4 DEF IInv

\* A step that changes nothing keeps the invariant.
LEMMA StutterIInv == IInv /\ UNCHANGED vars => IInv'
  BY DEF vars, objectVars, assocVars, handlerVars, diskVars, mountVars, umountVars,
         IInv, TypeOK, ScanFirst, Objects, PriorityIffActive, ActiveVersions,
         BlocksOnlyActivating, StaleFlagOnlyFailed, ActiveAssociated

-----------------------------------------------------------------------------------
(* The theorems.                                                                   *)

\* The inductive invariant holds in every reachable state.
THEOREM InvariantHolds == Spec => []IInv
<1>1. IInv /\ [Next]_vars => IInv'
  BY ClientCallIInv, DaemonIInv, SystemIInv, StutterIInv DEF Next
<1> QED BY InitIInv, <1>1, PTL DEF Spec

\* Every variable keeps to its type: no priority leaves the range of a uint8_t, also
\* when freePriority wraps.
THEOREM TypeCorrect == Spec => []TypeOK
<1>1. IInv => TypeOK BY DEF IInv
<1> QED BY InvariantHolds, <1>1, PTL

\* Exactly the active versions have a RedundancyPriority object, so freeSpace never
\* dereferences a missing one and freePriority never counts a stale one.
THEOREM PriorityOwnership == Spec => []PriorityIffActive
<1>1. IInv => PriorityIffActive BY DEF IInv
<1> QED BY InvariantHolds, <1>1, PTL

\* ubiVolumesCreated outlives its handler only in failed activations without a
\* progress object.
THEOREM StaleFlag == Spec => []StaleFlagOnlyFailed
<1>1. IInv => StaleFlagOnlyFailed BY DEF IInv
<1> QED BY InvariantHolds, <1>1, PTL

\* The active associations cover the active versions and name no deleted one.
THEOREM AssociationsFollow == Spec => []ActiveAssociated
<1>1. IInv => ActiveAssociated BY DEF IInv
<1> QED BY InvariantHolds, <1>1, PTL

\* As long as the image check does not throw, transitions of the host are blocked
\* exactly while an activation is under way. The run of the finding shows that the
\* assumption is needed.
THEOREM BlocksReleased ==
    ASSUME "error" \notin SignatureResults
    PROVE  Spec => []BlocksWhileActivating
<1> USE DEF Idle
<1> DEFINE Inv == IInv /\ BlocksWhileActivating
<1>1. Init => Inv
  BY InitIInv DEF Init, BlocksWhileActivating
<1>2. ASSUME Inv, [Next]_vars PROVE Inv'
  <2>1. IInv'
    BY <1>2, ClientCallIInv, DaemonIInv, SystemIInv, StutterIInv DEF Next
  <2> SUFFICES BlocksWhileActivating'
    BY <2>1
  <2>2. CASE UNCHANGED <<activation, transition>>
    BY <1>2, <2>2 DEF BlocksWhileActivating
  <2>3. CASE Terminate
    BY <2>3 DEF Terminate, BlocksWhileActivating
  <2>4. \A v \in FreeSpace : activation[v] = "Active" /\ v \notin transition
    BY <1>2, FreeSpaceActive DEF BlocksWhileActivating
  <2>5. ASSUME NEW v \in Versions, CreateActivation(v) \/ Delete(v)
        PROVE  BlocksWhileActivating'
    BY <1>2, <2>5 DEF CreateActivation, Delete, BlocksWhileActivating, IInv, TypeOK
  <2>6. ASSUME NEW v \in Versions, StartActivation(v) PROVE BlocksWhileActivating'
    <3>1. PICK result \in {"valid", "invalid"} :
            /\ SetState(v, IF result = "invalid" THEN "Failed" ELSE "Activating",
                        FreeSpace)
            /\ transition' = CASE result = "valid"   -> transition \cup {v}
                               [] result = "invalid" -> transition \ {v}
                               [] result = "error"   -> transition
      BY <2>6, EnvironmentAssumption DEF StartActivation
    <3>2. transition' = IF result = "valid" THEN transition \cup {v}
                                            ELSE transition \ {v}
      BY <3>1
    <3>3. activation[v] \in {"Ready", "Failed"}
      BY <2>6 DEF StartActivation
    <3>4. \A w \in Versions :
            activation'[w] =
                IF w = v THEN IF result = "invalid" THEN "Failed" ELSE "Activating"
                ELSE IF w \in FreeSpace THEN "None" ELSE activation[w]
      BY <3>1 DEF SetState
    <3> QED BY <1>2, <2>4, <3>2, <3>3, <3>4 DEF BlocksWhileActivating
  <2>7. ASSUME NEW w \in Versions, Finish(w), ~Terminate
        PROVE  BlocksWhileActivating'
    <3>1. /\ SetState(w, IF MountFailed(w) THEN "Failed" ELSE "Active", FreeSpace)
          /\ transition' = transition \ (FreeSpace \cup {w})
      BY <2>7 DEF Finish
    <3>2. \A x \in Versions :
            activation'[x] = IF x = w THEN IF MountFailed(w) THEN "Failed" ELSE "Active"
                             ELSE IF x \in FreeSpace THEN "None" ELSE activation[x]
      BY <3>1 DEF SetState
    <3> QED BY <1>2, <2>4, <3>1, <3>2 DEF BlocksWhileActivating
  <2>8. ASSUME NEW w \in Versions, VolumesMissing(w) PROVE BlocksWhileActivating'
    <3>1. /\ SetState(w, "Failed", FreeSpace)
          /\ transition' = transition \ (FreeSpace \cup {w})
      BY <2>8 DEF VolumesMissing
    <3>2. \A x \in Versions :
            activation'[x] = IF x = w THEN "Failed"
                             ELSE IF x \in FreeSpace THEN "None" ELSE activation[x]
      BY <3>1 DEF SetState
    <3> QED BY <1>2, <2>4, <3>1, <3>2 DEF BlocksWhileActivating
  <2>9. ASSUME NEW w \in Versions, HandleFailure(w) PROVE BlocksWhileActivating'
    BY <1>2, <2>9 DEF HandleFailure, BlocksWhileActivating, IInv, TypeOK
  <2>10. ASSUME NEW v \in Versions, Scan(v) PROVE BlocksWhileActivating'
    <3>1. activation[v] = "None" /\ v \notin transition /\ transition' = transition
      BY <1>2, <2>10 DEF Scan, scanUnchanged, BlocksWhileActivating, IInv, ScanFirst
    <3>2. /\ activation'[v] # "Activating"
          /\ \A w \in Versions \ {v} : activation'[w] = activation[w]
      BY <1>2, <2>10, <3>1 DEF Scan, ScanImage, ScanRemains, IInv, TypeOK
    <3> QED BY <1>2, <3>1, <3>2 DEF BlocksWhileActivating
  <2>11. CASE ClientCall
    BY <2>2, <2>5, <2>6, <2>11 DEF ClientCall, Request, WritePriority
  <2>12. CASE Daemon
    <3>1. ASSUME NEW w \in Versions, Handle(w) PROVE BlocksWhileActivating'
      BY <2>3, <2>7, <2>8, <2>9, <3>1 DEF Handle, HandleWithoutProgress
    <3>2. ASSUME Receive \/ ReceiveOther \/ WatchCallback \/ Crash \/ Start \/ EndScan
          PROVE  BlocksWhileActivating'
      BY <2>2, <2>3, <3>2 DEF Receive, ReceiveOther, WatchCallback, Crash, Start,
                              EndScan, objectVars
    <3> QED BY <2>10, <2>12, <3>1, <3>2 DEF Daemon
  <2>13. CASE System \/ UNCHANGED vars
    BY <2>2, <2>13
       DEF System, MountStep, MountFails, UmountRo, UmountRw, UpdateSymlinks,
           ChassisChange, systemdUnchanged, objectVars, vars
  <2> QED BY <1>2, <2>11, <2>12, <2>13 DEF Next
<1>3. Inv => BlocksWhileActivating
  OBVIOUS
<1> QED BY <1>1, <1>2, <1>3, PTL DEF Spec

\* Where the limit leaves room for a second version, the functional version is never
\* deleted to make room, and a client deletes it only with the chassis off.
THEOREM FunctionalVersionKept ==
    ASSUME MaxActive > 1
    PROVE  Spec => FunctionalKept
<1> DEFINE Kept ==
      \A v \in Versions :
        /\ Functional(v) /\ activation[v] = "Active"
        /\ phase' = "run" /\ activation'[v] = "None"
        => ~chassisOn /\ activation' = [activation EXCEPT ![v] = "None"]
<1>1. ASSUME IInv, [Next]_vars PROVE Kept
  <2> SUFFICES ASSUME NEW v \in Versions,
                      Functional(v), activation[v] = "Active",
                      phase' = "run", activation'[v] = "None"
               PROVE  ~chassisOn /\ activation' = [activation EXCEPT ![v] = "None"]
    OBVIOUS
  <2>1. v \notin FreeSpace
    BY FreeSpaceActive
  <2>2. activation' # activation
    OBVIOUS
  <2>3. ~Terminate
    BY DEF Terminate
  <2>4. ASSUME NEW w \in Versions, NEW state \in {"Failed", "Activating", "Active"}
        PROVE  ~SetState(w, state, FreeSpace)
    BY <2>1 DEF SetState
  <2>5. ASSUME NEW w \in Versions, StartActivation(w) PROVE FALSE
    BY <2>4, <2>5 DEF StartActivation
  <2>6. ASSUME NEW w \in Versions, Handle(w) PROVE FALSE
    <3>1. ~HandleWithoutProgress(w)
      BY <2>3 DEF HandleWithoutProgress
    <3>2. ~Finish(w)
      BY <2>3, <2>4 DEF Finish
    <3>3. ~VolumesMissing(w)
      BY <2>4 DEF VolumesMissing
    <3>4. ~HandleFailure(w)
      BY <1>1 DEF HandleFailure, IInv, TypeOK
    <3> QED BY <2>6, <3>1, <3>2, <3>3, <3>4 DEF Handle
  <2>7. ASSUME NEW w \in Versions, CreateActivation(w) PROVE FALSE
    BY <1>1, <2>7 DEF CreateActivation, IInv, TypeOK
  <2>8. ASSUME NEW w \in Versions, Delete(w)
        PROVE  ~chassisOn /\ activation' = [activation EXCEPT ![v] = "None"]
    <3>1. w = v
      BY <1>1, <2>8 DEF Delete, IInv, TypeOK
    <3> QED BY <2>8, <3>1 DEF Delete, Erasable
  <2>9. ASSUME NEW w \in Versions, Scan(w) PROVE FALSE
    BY <1>1, <2>9 DEF Scan, IInv, ScanFirst
  <2>10. ~ClientCall \/ \E w \in Versions : Delete(w)
    BY <2>2, <2>5, <2>7 DEF ClientCall, Request, WritePriority
  <2>11. ~Daemon
    BY <2>2, <2>3, <2>6, <2>9
       DEF Daemon, Receive, ReceiveOther, WatchCallback, Crash, Start, EndScan,
           objectVars
  <2>12. ~System /\ ~UNCHANGED vars
    BY <2>2 DEF System, MountStep, MountFails, UmountRo, UmountRw, UpdateSymlinks,
                ChassisChange, systemdUnchanged, objectVars, vars
  <2> QED BY <1>1, <2>8, <2>10, <2>11, <2>12 DEF Next
<1>2. IInv /\ [Next]_vars => [Kept]_vars
  BY <1>1
<1> QED BY InvariantHolds, <1>2, PTL DEF Spec, FunctionalKept

\* storeToFile for v and for the versions freePriority moves is enough to keep the
\* files in step with the objects.
LEMMA PersistAgrees ==
    ASSUME stored \in PriorityMap, NEW v \in Versions,
           NEW old \in PriorityMap, NEW new \in PriorityMap,
           \A w \in Versions : old[w] # NoPriority => stored[w] = old[w]
    PROVE  \A w \in Versions :
               new[w] # NoPriority => Persist(v, old, new)[w] = new[w]
  BY PersistType

\* The priority files hold what D-Bus shows, whichever activation or write moved the
\* priority: a restart of the daemon restores the same order.
THEOREM PrioritiesPersist == Spec => []PriorityPersisted
<1> DEFINE Inv == IInv /\ PriorityPersisted
<1>1. Init => Inv
  BY InitIInv DEF Init, PriorityPersisted
<1>2. ASSUME Inv, [Next]_vars PROVE Inv'
  <2>1. IInv'
    BY <1>2, ClientCallIInv, DaemonIInv, SystemIInv, StutterIInv DEF Next
  <2> SUFFICES PriorityPersisted'
    BY <2>1
  <2>2. stored \in PriorityMap /\ priority \in PriorityMap
    BY <1>2 DEF IInv, TypeOK
  <2>3. NoPriority \notin Priority /\ 0 \in Priority
    BY NoPriorityApart
  <2>4. CASE UNCHANGED <<priority, stored>>
    BY <1>2, <2>4 DEF PriorityPersisted
  <2>5. CASE Terminate
    BY <2>5 DEF Terminate, PriorityPersisted
  <2>6. ASSUME NEW gone, NEW gone2, gone \subseteq gone2,
               stored' = Without(gone, stored), priority' = Without(gone2, priority)
        PROVE  PriorityPersisted'
    BY <1>2, <2>2, <2>6, WithoutType DEF PriorityPersisted
  <2>7. ASSUME NEW v \in Versions, StartActivation(v) PROVE PriorityPersisted'
    <3>1. /\ stored' = Without(FreeSpace, stored)
          /\ priority' = Without(FreeSpace \cup {v}, priority)
      BY <2>7 DEF StartActivation
    <3> QED BY <2>6, <3>1
  <2>8. ASSUME NEW v \in Versions, Delete(v) PROVE PriorityPersisted'
    BY <2>6, <2>8 DEF Delete
  <2>9. ASSUME NEW v \in Versions, NEW value \in WrittenPriorities,
               WritePriority(v, value)
        PROVE  PriorityPersisted'
    <3> DEFINE new == TakePriority(value, v, priority)
    <3>1. new \in PriorityMap
      BY <2>2, PrioritiesAssumption, TakePriorityType
    <3>2. priority' = new /\ stored' = Persist(v, priority, new)
      BY <2>9 DEF WritePriority
    <3> HIDE DEF new
    <3> QED BY <1>2, <2>2, <3>1, <3>2, PersistAgrees DEF PriorityPersisted
  <2>10. ASSUME NEW w \in Versions, Finish(w), ~Terminate
         PROVE  PriorityPersisted'
    <3> DEFINE left == Without(FreeSpace \cup {w}, priority)
               new == ConstructPriority(0, w, left)
    <3>1. /\ stored' = Without(FreeSpace, Persist(w, left, new))
          /\ priority' = IF MountFailed(w) THEN [new EXCEPT ![w] = NoPriority] ELSE new
      BY <2>10 DEF Finish
    <3>2. w \notin FreeSpace
      BY <1>2, <2>10, FreeSpaceActive DEF Finish, IInv, BlocksOnlyActivating
    <3>3. /\ left \in PriorityMap
          /\ \A x \in Versions :
                left[x] = IF x \in FreeSpace \cup {w} THEN NoPriority ELSE priority[x]
      BY <2>2, WithoutType
    <3> HIDE DEF left
    <3>4. /\ new \in PriorityMap
          /\ \A x \in Versions \ {w} : new[x] = NoPriority <=> left[x] = NoPriority
      BY <2>3, <3>3, ConstructPriorityType
    <3> HIDE DEF new
    <3>5. \A x \in Versions : new[x] # NoPriority => Persist(w, left, new)[x] = new[x]
      BY <1>2, <2>2, <3>3, <3>4, PersistAgrees DEF PriorityPersisted
    <3>6. Persist(w, left, new) \in PriorityMap
      BY <2>2, <3>3, <3>4, PersistType
    <3>7. \A x \in Versions :
            stored'[x] = IF x \in FreeSpace THEN NoPriority
                                            ELSE Persist(w, left, new)[x]
      BY <3>1, <3>6, WithoutType
    <3>8. \A x \in Versions : x \in FreeSpace => new[x] = NoPriority
      BY <3>2, <3>3, <3>4
    <3>9. \A x \in Versions : priority'[x] \in {NoPriority, new[x]}
      BY <3>1, <3>4 DEF PriorityMap
    <3> QED BY <3>5, <3>7, <3>8, <3>9 DEF PriorityPersisted
  <2>11. ASSUME NEW w \in Versions, VolumesMissing(w) PROVE PriorityPersisted'
    <3>1. /\ stored' = Without(FreeSpace, stored)
          /\ priority' = Without(FreeSpace \cup {w}, priority)
      BY <2>11 DEF VolumesMissing
    <3> QED BY <2>6, <3>1
  <2>12. ASSUME NEW w \in Versions, HandleFailure(w) PROVE PriorityPersisted'
    <3>1. priority' = Without({w}, priority) /\ stored' = stored
      BY <2>12 DEF HandleFailure
    <3> QED BY <1>2, <2>2, <3>1, WithoutType DEF PriorityPersisted
  <2>13. ASSUME NEW v \in Versions, Scan(v) PROVE PriorityPersisted'
    <3>1. CASE ScanImage(v)
      <4>1. CASE UNCHANGED <<priority, stored>>
        BY <2>4, <4>1
      <4>2. ASSUME NEW value \in IF stored[v] # NoPriority THEN {stored[v]}
                                                         ELSE FallbackPriorities,
                   priority' = ConstructPriority(value, v, priority),
                   stored' = Persist(v, priority, priority')
            PROVE  PriorityPersisted'
        <5>1. value \in Priority
          BY <2>2, PrioritiesAssumption DEF PriorityMap
        <5>2. priority' \in PriorityMap
          BY <2>2, <4>2, <5>1, ConstructPriorityType
        <5> QED BY <1>2, <2>2, <4>2, <5>2, PersistAgrees DEF PriorityPersisted
      <4> QED BY <3>1, <4>1, <4>2 DEF ScanImage
    <3>2. CASE ScanRemains(v)
      <4>1. priority[v] = NoPriority
        BY <1>2, <2>13 DEF Scan, IInv, ScanFirst, PriorityIffActive, ActiveVersions
      <4>2. priority' = priority /\ stored' \in {stored, Without({v}, stored)}
        BY <3>2 DEF ScanRemains
      <4> QED BY <1>2, <2>2, <4>1, <4>2, WithoutType DEF PriorityPersisted
    <3> QED BY <2>13, <3>1, <3>2 DEF Scan
  <2>14. CASE ClientCall
    BY <2>4, <2>7, <2>8, <2>9, <2>14 DEF ClientCall, CreateActivation, Request
  <2>15. CASE Daemon
    <3>1. ASSUME NEW w \in Versions, Handle(w) PROVE PriorityPersisted'
      BY <2>5, <2>10, <2>11, <2>12, <3>1 DEF Handle, HandleWithoutProgress
    <3>2. ASSUME Receive \/ ReceiveOther \/ WatchCallback \/ Crash \/ Start \/ EndScan
          PROVE  PriorityPersisted'
      BY <2>4, <2>5, <3>2 DEF Receive, ReceiveOther, WatchCallback, Crash, Start,
                              EndScan, objectVars
    <3> QED BY <2>13, <2>15, <3>1, <3>2 DEF Daemon
  <2>16. CASE System \/ UNCHANGED vars
    BY <2>4, <2>16
       DEF System, MountStep, MountFails, UmountRo, UmountRw, UpdateSymlinks,
           ChassisChange, systemdUnchanged, objectVars, vars
  <2> QED BY <1>2, <2>14, <2>15, <2>16 DEF Next
<1>3. Inv => PriorityPersisted
  OBVIOUS
<1> QED BY <1>1, <1>2, <1>3, PTL DEF Spec

\* An activation is finished by its own handler.
LEMMA FinishStep ==
    ASSUME IInv, [Next]_vars, NEW v \in Versions, Finishes(v)
    PROVE  Finish(v) /\ ~Terminate
<1>1. TypeOK /\ activation[v] = "Activating" /\ activation'[v] = "Active"
  BY DEF IInv, Finishes
<1>2. ~Terminate /\ activation' # activation
  BY <1>1 DEF Terminate
<1>3. \A w \in Versions : ~VolumesMissing(w) /\ ~HandleFailure(w) /\ ~HandleWithoutProgress(w)
  BY <1>1, <1>2 DEF VolumesMissing, SetState, HandleFailure, HandleWithoutProgress, TypeOK
<1>4. ~ClientCall
  BY <1>1, <1>2 DEF ClientCall, CreateActivation, Request, StartActivation, SetState, Delete,
     WritePriority, TypeOK
<1>5. ~System /\ ~UNCHANGED vars
  BY <1>2 DEF System, MountStep, MountFails, UmountRo, UmountRw, UpdateSymlinks,
              ChassisChange, systemdUnchanged, objectVars, vars
<1>6. ASSUME NEW w \in Versions, Scan(w) PROVE FALSE
  BY <1>1, <1>6 DEF Scan, ScanImage, ScanRemains, IInv, ScanFirst, TypeOK
<1>7. PICK w \in Versions : Finish(w)
  BY <1>2, <1>3, <1>4, <1>5, <1>6
     DEF Next, Daemon, Handle, Receive, ReceiveOther, WatchCallback, Crash, Start, EndScan,
         objectVars
<1>8. SetState(w, IF MountFailed(w) THEN "Failed" ELSE "Active", FreeSpace)
  BY <1>2, <1>7 DEF Finish
<1>9. w = v
  BY <1>1, <1>8 DEF SetState
<1> QED BY <1>2, <1>7, <1>9

-----------------------------------------------------------------------------------
(* Making room.                                                                    *)

\* The elements of S that fewer than k others precede.
First(k, S, R) == {v \in S : Cardinality({x \in S : <<x, v>> \in R}) < k}

\* A finite set with a strict total order has k elements that fewer than k precede.
LEMMA Ranked ==
    ASSUME NEW S, IsFiniteSet(S), NEW R,
           \A x \in S : <<x, x>> \notin R,
           \A x, y \in S : x # y => <<x, y>> \in R \/ <<y, x>> \in R,
           \A x, y, z \in S : <<x, y>> \in R /\ <<y, z>> \in R => <<x, z>> \in R,
           NEW k \in 0 .. Cardinality(S)
    PROVE  Cardinality(First(k, S, R)) = k
<1> DEFINE Up(v) == {x \in S : <<x, v>> \in R}
           n == Cardinality(S)
           f == [v \in S |-> Cardinality(Up(v))]
<1>1. n \in Nat
  BY FS_CardinalityType
<1>2. \A v \in S : IsFiniteSet(Up(v)) /\ Cardinality(Up(v)) \in 0 .. n - 1
  <2> TAKE v \in S
  <2>1. IsFiniteSet(S \ {v}) /\ Cardinality(S \ {v}) = n - 1
    BY FS_RemoveElement
  <2>2. Up(v) \in SUBSET (S \ {v})
    OBVIOUS
  <2>3. IsFiniteSet(Up(v)) /\ Cardinality(Up(v)) <= Cardinality(S \ {v})
    BY <2>1, <2>2, FS_Subset
  <2>4. Cardinality(Up(v)) \in Nat
    BY <2>3, FS_CardinalityType
  <2> QED BY <1>1, <2>1, <2>3, <2>4
<1>3. \A v, w \in S : <<v, w>> \in R => f[v] < f[w]
  <2> SUFFICES ASSUME NEW v \in S, NEW w \in S, <<v, w>> \in R
               PROVE  Cardinality(Up(v)) < Cardinality(Up(w))
    OBVIOUS
  <2>1. v \in Up(w) /\ Up(v) \in SUBSET (Up(w) \ {v})
    OBVIOUS
  <2>2. IsFiniteSet(Up(w)) /\ Cardinality(Up(w)) \in Nat /\ Cardinality(Up(v)) \in Nat
    <3>1. /\ IsFiniteSet(Up(w)) /\ Cardinality(Up(w)) \in 0 .. n - 1
          /\ Cardinality(Up(v)) \in 0 .. n - 1
      BY <1>2
    <3> HIDE DEF Up, n
    <3> QED BY <1>1, <3>1
  <2> HIDE DEF Up
  <2>3. /\ IsFiniteSet(Up(w) \ {v})
        /\ Cardinality(Up(w) \ {v}) = Cardinality(Up(w)) - 1
    BY <2>1, <2>2, FS_RemoveElement
  <2>4. Cardinality(Up(v)) <= Cardinality(Up(w) \ {v})
    BY <2>1, <2>3, FS_Subset
  <2> QED BY <2>2, <2>3, <2>4
<1>4. \A v \in S : f[v] \in 0 .. n - 1
  BY <1>2
<1> HIDE DEF f
<1>5. f \in [S -> 0 .. n - 1]
  BY <1>4 DEF f
<1>6. \A v, w \in S : f[v] = f[w] => v = w
  <2> SUFFICES ASSUME NEW v \in S, NEW w \in S, v # w PROVE f[v] # f[w]
    OBVIOUS
  <2>1. f[v] < f[w] \/ f[w] < f[v]
    BY <1>3
  <2>2. f[v] \in 0 .. n - 1 /\ f[w] \in 0 .. n - 1
    BY <1>4
  <2> HIDE DEF n
  <2> QED BY <1>1, <2>1, <2>2
<1>7. f \in Injection(S, 0 .. n - 1)
  BY <1>5, <1>6 DEF Injection, IsInjective
<1>8. IsFiniteSet(0 .. n - 1) /\ Cardinality(0 .. n - 1) = n
  <2> HIDE DEF n
  <2>1. n - 1 \in Int /\ 0 \in Int
    BY <1>1
  <2>2. /\ IsFiniteSet(0 .. n - 1)
        /\ Cardinality(0 .. n - 1) = IF 0 > n - 1 THEN 0 ELSE n - 1 - 0 + 1
    BY <2>1, FS_Interval
  <2> QED BY <1>1, <2>2
<1>9. f \in Surjection(S, 0 .. n - 1)
  BY <1>7, <1>8, FS_Injection
<1> DEFINE K == {v \in S : f[v] < k}
           g == [v \in K |-> f[v]]
<1>10. g \in Bijection(K, 0 .. k - 1)
  <2>1. \A v \in K : g[v] \in 0 .. k - 1
    BY <1>1, <1>4
  <2>2. \A v, w \in K : g[v] = g[w] => v = w
    BY <1>6
  <2>3. \A i \in 0 .. k - 1 : \E v \in K : g[v] = i
    <3> TAKE i \in 0 .. k - 1
    <3>1. i \in 0 .. n - 1 BY <1>1
    <3>2. PICK v \in S : f[v] = i BY <1>9, <3>1 DEF Surjection
    <3> QED BY <3>2
  <2>4. g \in [K -> 0 .. k - 1]
    BY <2>1
  <2> HIDE DEF g, K
  <2> QED BY <2>1, <2>2, <2>3, <2>4 DEF Bijection, Injection, Surjection, IsInjective
<1>11. IsFiniteSet(K)
  BY FS_Subset
<1>12. Cardinality(0 .. k - 1) = Cardinality(K)
  <2> HIDE DEF g, K
  <2> QED BY <1>10, <1>11, FS_Bijection DEF ExistsBijection
<1>13. Cardinality(0 .. k - 1) = k
  BY <1>1, FS_Interval
<1>14. K = First(k, S, R)
  BY DEF f, First
<1> QED BY <1>12, <1>13, <1>14

\* The active versions, and those that may be deleted, are finitely many; only the one
\* the link points to is spared.
LEMMA SpareCount ==
    ASSUME TypeOK
    PROVE  /\ IsFiniteSet(ActiveVersions) /\ Cardinality(ActiveVersions) \in Nat
           /\ IsFiniteSet(Spare) /\ Cardinality(Spare) \in Nat
           /\ Spare \subseteq ActiveVersions
           /\ Cardinality(Spare) >= Cardinality(ActiveVersions) - 1
<1>1. IsFiniteSet(ActiveVersions) /\ Cardinality(ActiveVersions) \in Nat
  <2>1. ActiveVersions \in SUBSET Versions
    BY DEF ActiveVersions
  <2>2. IsFiniteSet(ActiveVersions)
    BY <2>1, VersionsAssumption, FS_Subset
  <2> QED BY <2>2, FS_CardinalityType
<1>2. Spare \in SUBSET ActiveVersions /\ ActiveVersions \ {link} \in SUBSET Spare
  BY DEF Spare, Functional, ActiveVersions
<1>3. IsFiniteSet(Spare)
  BY <1>1, <1>2, FS_Subset
<1>4. Cardinality(Spare) \in Nat
  BY <1>3, FS_CardinalityType
<1>5. Cardinality(ActiveVersions \ {link}) >= Cardinality(ActiveVersions) - 1
  BY <1>1, FS_RemoveElement
<1>6. Cardinality(ActiveVersions \ {link}) <= Cardinality(Spare)
  BY <1>2, <1>3, FS_Subset
<1>7. Cardinality(ActiveVersions \ {link}) \in Int
  BY <1>1, FS_RemoveElement
<1> QED BY <1>1, <1>2, <1>3, <1>4, <1>5, <1>6, <1>7

\* The versions at the front of the queue, k of them if there are as many.
Front(k) == {v \in Spare : Cardinality({x \in Spare : Above(x, v)}) < k}

\* The front of the queue of freeSpace has as many versions as are asked for.
LEMMA FrontCount ==
    ASSUME TypeOK, NEW k \in 0 .. Cardinality(Spare)
    PROVE  Cardinality(Front(k)) = k
<1> DEFINE R == {p \in Spare \X Spare : Above(p[1], p[2])}
<1>1. \A x, v \in Spare : <<x, v>> \in R <=> Above(x, v)
  OBVIOUS
<1>2. \A x \in Spare : x \in Int /\ priority[x] \in Int
  BY VersionsAssumption, MaxPriorityAssumption
     DEF TypeOK, PriorityMap, Priority, NoPriority, Spare, ActiveVersions
<1>3. IsFiniteSet(Spare)
  BY SpareCount
<1>4. \A x \in Spare : ~Above(x, x)
  BY <1>2 DEF Above
<1>5. \A x, y \in Spare : x # y => Above(x, y) \/ Above(y, x)
  BY <1>2 DEF Above
<1>6. \A x, y, z \in Spare : Above(x, y) /\ Above(y, z) => Above(x, z)
  BY <1>2 DEF Above
<1>7. \A v \in Spare : {x \in Spare : <<x, v>> \in R} = {x \in Spare : Above(x, v)}
  BY <1>1
<1>10. \A x \in Spare : <<x, x>> \notin R
  BY <1>1, <1>4
<1>11. \A x, y \in Spare : x # y => <<x, y>> \in R \/ <<y, x>> \in R
  BY <1>1, <1>5
<1>12. \A x, y, z \in Spare : <<x, y>> \in R /\ <<y, z>> \in R => <<x, z>> \in R
  BY <1>1, <1>6
<1> HIDE DEF R
<1>8. Cardinality(First(k, Spare, R)) = k
  BY <1>3, <1>10, <1>11, <1>12, Ranked
<1>9. First(k, Spare, R) = Front(k)
  BY <1>7 DEF First, Front
<1> QED BY <1>8, <1>9

\* With room for a second version, as many versions go as the limit asks for.
LEMMA RoomMade ==
    ASSUME TypeOK, MaxActive > 1
    PROVE  Cardinality(ActiveVersions \ FreeSpace) <= MaxActive - 1
<1> DEFINE A == ActiveVersions
           k == Cardinality(A) - (MaxActive - 1)
<1>1. /\ IsFiniteSet(A) /\ Cardinality(A) \in Nat
      /\ IsFiniteSet(Spare) /\ Cardinality(Spare) \in Nat
      /\ Spare \subseteq A /\ Cardinality(Spare) >= Cardinality(A) - 1
  BY SpareCount
<1>2. MaxActive \in Nat
  BY LimitAssumption
<1>3. FreeSpace = Front(k)
  <2>1. \A v \in Spare : Erasable(v)
    BY DEF Spare, Erasable
  <2> QED BY <2>1 DEF FreeSpace, Front
<1>4. CASE k <= 0
  <2>1. A \ FreeSpace \in SUBSET A
    OBVIOUS
  <2>2. Cardinality(A \ FreeSpace) <= Cardinality(A) /\ IsFiniteSet(A \ FreeSpace)
    BY <1>1, <2>1, FS_Subset
  <2>3. Cardinality(A \ FreeSpace) \in Nat
    BY <2>2, FS_CardinalityType
  <2> QED BY <1>1, <1>2, <1>4, <2>2, <2>3
<1>5. CASE k > 0
  <2>1. k \in 0 .. Cardinality(Spare)
    BY <1>1, <1>2, <1>5
  <2> HIDE DEF k
  <2>2. Cardinality(FreeSpace) = k
    BY <1>3, <2>1, FrontCount
  <2>3. A \cap FreeSpace = FreeSpace
    BY FreeSpaceActive
  <2>4. Cardinality(A \ FreeSpace) = Cardinality(A) - Cardinality(A \cap FreeSpace)
    BY <1>1, FS_Difference
  <2> QED BY <1>1, <1>2, <2>2, <2>3, <2>4 DEF k
<1> QED BY <1>1, <1>2, <1>4, <1>5

\* No more versions go than the limit asks for.
LEMMA RoomKept ==
    ASSUME TypeOK, FreeSpace # {}
    PROVE  Cardinality(ActiveVersions \ FreeSpace) >= MaxActive - 1
<1> DEFINE A == ActiveVersions
           k == Cardinality(A) - (MaxActive - 1)
<1>1. /\ IsFiniteSet(A) /\ Cardinality(A) \in Nat
      /\ IsFiniteSet(Spare) /\ Cardinality(Spare) \in Nat
      /\ Spare \subseteq A
  BY SpareCount
<1>2. MaxActive \in Nat
  BY LimitAssumption
<1>3. FreeSpace \in SUBSET Front(k) /\ Front(k) \in SUBSET Spare
  BY DEF FreeSpace, Front
<1>4. k > 0
  <2>1. PICK v \in Spare : Cardinality({x \in Spare : Above(x, v)}) < k
    BY DEF FreeSpace
  <2>2. {x \in Spare : Above(x, v)} \in SUBSET Spare
    OBVIOUS
  <2>3. Cardinality({x \in Spare : Above(x, v)}) \in Nat
    BY <1>1, <2>2, FS_Subset, FS_CardinalityType
  <2>4. k \in Int
    BY <1>1, <1>2
  <2> HIDE DEF k
  <2> QED BY <2>1, <2>3, <2>4
<1>5. k \in Int
  BY <1>1, <1>2
<1>6. IsFiniteSet(Front(k)) /\ IsFiniteSet(FreeSpace)
  BY <1>1, <1>3, FS_Subset
<1>7. Cardinality(FreeSpace) \in Nat /\ Cardinality(Front(k)) \in Nat
  BY <1>6, FS_CardinalityType
<1>8. Cardinality(FreeSpace) <= k
  <2> HIDE DEF k
  <2>1. CASE k <= Cardinality(Spare)
    <3>1. k \in 0 .. Cardinality(Spare)
      BY <1>1, <1>4, <1>5, <2>1
    <3>2. Cardinality(Front(k)) = k
      BY <3>1, FrontCount
    <3> QED BY <1>3, <1>6, <3>2, FS_Subset
  <2>2. CASE k > Cardinality(Spare)
    <3>1. FreeSpace \in SUBSET Spare
      BY <1>3
    <3>2. Cardinality(FreeSpace) <= Cardinality(Spare)
      BY <1>1, <3>1, FS_Subset
    <3> QED BY <1>1, <1>5, <1>7, <2>2, <3>2
  <2> QED BY <1>1, <1>5, <2>1, <2>2
<1>9. A \cap FreeSpace = FreeSpace
  BY FreeSpaceActive
<1>10. Cardinality(A \ FreeSpace) = Cardinality(A) - Cardinality(A \cap FreeSpace)
  BY <1>1, FS_Difference
<1> QED BY <1>1, <1>2, <1>7, <1>8, <1>9, <1>10

\* Where the limit leaves room for a second version, an activation that finishes leaves no
\* more active versions than it allows, however many were activated at the same time.
THEOREM LimitIsKept ==
    ASSUME MaxActive > 1
    PROVE  Spec => LimitKept
<1> DEFINE Kept ==
      \A v \in Versions : Finishes(v) => Cardinality(ActiveVersions') <= MaxActive
<1>1. ASSUME IInv, [Next]_vars PROVE Kept
  <2> SUFFICES ASSUME NEW v \in Versions, Finishes(v)
               PROVE  Cardinality(ActiveVersions') <= MaxActive
    OBVIOUS
  <2>1. TypeOK /\ Finish(v) /\ ~Terminate
    BY <1>1, FinishStep DEF IInv
  <2>2. SetState(v, IF MountFailed(v) THEN "Failed" ELSE "Active", FreeSpace)
    BY <2>1 DEF Finish
  <2> DEFINE B == ActiveVersions \ FreeSpace
  <2>3. ActiveVersions' \in SUBSET (B \cup {v})
    BY <2>2 DEF SetState, ActiveVersions
  <2>4. IsFiniteSet(B) /\ Cardinality(B) \in Nat /\ Cardinality(B) <= MaxActive - 1
    BY <2>1, SpareCount, RoomMade, FS_Difference, FS_CardinalityType
  <2> HIDE DEF B
  <2>5. /\ IsFiniteSet(B \cup {v})
        /\ Cardinality(B \cup {v}) \in {Cardinality(B), Cardinality(B) + 1}
    BY <2>4, FS_AddElement
  <2>6. /\ IsFiniteSet(ActiveVersions')
        /\ Cardinality(ActiveVersions') <= Cardinality(B \cup {v})
    BY <2>3, <2>5, FS_Subset
  <2>7. Cardinality(ActiveVersions') \in Nat
    BY <2>6, FS_CardinalityType
  <2> QED BY <2>4, <2>5, <2>6, <2>7, LimitAssumption
<1>2. IInv /\ [Next]_vars => [Kept]_vars
  BY <1>1
<1> QED BY InvariantHolds, <1>2, PTL DEF Spec, LimitKept

\* Making room leaves as many versions as the limit does, less one for the version being
\* activated, whatever becomes of that activation.
THEOREM NothingDeletedNeedlessly == Spec => NoNeedlessDeletion
<1> DEFINE Kept ==
      /\ phase' = "run"
      /\ \E v \in Versions : activation'[v] \notin {activation[v], "None"}
      /\ \E v \in ActiveVersions : activation'[v] = "None"
      => Cardinality(ActiveVersions') >= MaxActive - 1
<1>1. ASSUME IInv, [Next]_vars PROVE Kept
  <2> SUFFICES ASSUME phase' = "run",
                      NEW x \in Versions, activation'[x] \notin {activation[x], "None"},
                      NEW v \in ActiveVersions, activation'[v] = "None"
               PROVE  Cardinality(ActiveVersions') >= MaxActive - 1
    OBVIOUS
  <2>1. TypeOK /\ activation[v] = "Active" /\ v \in Versions
    BY <1>1 DEF IInv, ActiveVersions
  <2>2. ASSUME NEW w \in Versions, NEW state, SetState(w, state, FreeSpace),
               activation[w] # "Active", state # "None"
        PROVE  Cardinality(ActiveVersions') >= MaxActive - 1
    <3>1. v \in FreeSpace
      BY <2>1, <2>2 DEF SetState
    <3>2. Cardinality(ActiveVersions \ FreeSpace) >= MaxActive - 1
      BY <2>1, <3>1, RoomKept
    <3>3. ActiveVersions \ FreeSpace \in SUBSET ActiveVersions'
      BY <2>2 DEF SetState, ActiveVersions
    <3>4. ActiveVersions' \in SUBSET Versions
      BY DEF ActiveVersions
    <3>5. IsFiniteSet(ActiveVersions')
      BY <3>4, VersionsAssumption, FS_Subset
    <3>6. /\ IsFiniteSet(ActiveVersions \ FreeSpace)
          /\ Cardinality(ActiveVersions \ FreeSpace) <= Cardinality(ActiveVersions')
      BY <3>3, <3>5, FS_Subset
    <3>7. /\ Cardinality(ActiveVersions \ FreeSpace) \in Nat
          /\ Cardinality(ActiveVersions') \in Nat
      BY <3>5, <3>6, FS_CardinalityType
    <3> QED BY <3>2, <3>6, <3>7, LimitAssumption
  <2>3. ~Terminate
    BY DEF Terminate
  <2>4. ASSUME NEW w \in Versions, StartActivation(w)
        PROVE  Cardinality(ActiveVersions') >= MaxActive - 1
    <3>1. /\ activation[w] # "Active"
          /\ \E state \in {"Failed", "Activating"} : SetState(w, state, FreeSpace)
      BY <2>4 DEF StartActivation
    <3> QED BY <2>2, <3>1
  <2>5. ASSUME NEW w \in Versions, Finish(w)
        PROVE  Cardinality(ActiveVersions') >= MaxActive - 1
    <3>1. activation[w] # "Active"
      BY <1>1, <2>5 DEF Finish, IInv, BlocksOnlyActivating
    <3>2. \E state \in {"Failed", "Active"} : SetState(w, state, FreeSpace)
      BY <2>3, <2>5 DEF Finish
    <3> QED BY <2>2, <3>1, <3>2
  <2>6. ASSUME NEW w \in Versions, VolumesMissing(w)
        PROVE  Cardinality(ActiveVersions') >= MaxActive - 1
    <3>1. activation[w] # "Active"
      BY <1>1, <2>6 DEF VolumesMissing, VolumesCreated, IInv, BlocksOnlyActivating,
                        StaleFlagOnlyFailed
    <3>2. SetState(w, "Failed", FreeSpace)
      BY <2>6 DEF VolumesMissing
    <3> QED BY <2>2, <3>1, <3>2
  <2>7. activation' # activation
    OBVIOUS
  <2>8. ASSUME NEW w \in Versions, HandleFailure(w) \/ HandleWithoutProgress(w) PROVE FALSE
    BY <2>1, <2>3, <2>8 DEF HandleFailure, HandleWithoutProgress, TypeOK
  <2>9. ASSUME NEW w \in Versions, CreateActivation(w) \/ Delete(w) \/ Scan(w) PROVE FALSE
    BY <1>1, <2>1, <2>9 DEF CreateActivation, Delete, Scan, ScanImage, ScanRemains, IInv,
                            ScanFirst, TypeOK
  <2>10. ~System /\ ~UNCHANGED vars
    BY <2>7 DEF System, MountStep, MountFails, UmountRo, UmountRw, UpdateSymlinks,
                ChassisChange, systemdUnchanged, objectVars, vars
  <2>11. ASSUME Receive \/ ReceiveOther \/ WatchCallback \/ Crash \/ Start \/ EndScan
         PROVE  FALSE
    BY <2>3, <2>7, <2>11 DEF Receive, ReceiveOther, WatchCallback, Crash, Start, EndScan,
                             objectVars
  <2>12. CASE ClientCall
    BY <2>4, <2>7, <2>9, <2>12 DEF ClientCall, Request, WritePriority
  <2>13. CASE Daemon
    BY <2>5, <2>6, <2>8, <2>9, <2>11, <2>13 DEF Daemon, Handle
  <2> QED BY <1>1, <2>10, <2>12, <2>13 DEF Next
<1>2. IInv /\ [Next]_vars => [Kept]_vars
  BY <1>1
<1> QED BY InvariantHolds, <1>2, PTL DEF Spec, NoNeedlessDeletion

-----------------------------------------------------------------------------------
(* The mount jobs.                                                                 *)

\* A JobRemoved message of the mount job of v is in transit, or is being handled.
Sent(v) == \E i \in DOMAIN signals : signals[i].unit = v
Handling(v) == v \in pending /\ message.unit = v
Busy(v) == mountJob[v] # "idle" \/ Sent(v) \/ Handling(v)

\* It says that the job has succeeded.
Done(v) ==
    \/ \E i \in DOMAIN signals : signals[i] = [unit |-> v, result |-> "done"]
    \/ v \in pending /\ MountDone(v)

\* A version whose job runs, or whose message is still to be handled, waits for it; and
\* it waits for one of them at a time.
OneJob ==
    /\ \A v \in Versions : Busy(v) => v \in transition
    /\ \A v \in Versions : mountJob[v] # "idle" => ~Sent(v) /\ ~Handling(v)
    /\ \A v \in Versions : Handling(v) => ~Sent(v)
    /\ \A i, j \in DOMAIN signals : signals[i].unit = signals[j].unit => i = j
    /\ pending = {} => message = NoMessage

\* What a job has mounted by the time it is done; a version is marked ubiVolumesCreated
\* when its own volumes, not the preserved one, are missing at that time.
Mounting ==
    /\ \A v \in Versions : mountJob[v] \in {"rw", "prsv"} \/ Done(v) => ro[v] # "empty"
    /\ \A v \in Versions : Done(v) => prsv
    /\ \A v \in created : prsv /\ ~Mounted(v)

Jobs == OneJob /\ Mounting

\* A step keeps that, and a job is done by its last step alone.
JobsFollow ==
    /\ Jobs'
    /\ \A v \in Versions : (Done(v))' => Done(v) \/ mountJob[v] = "prsv"

\* Taking a message.
LEMMA TailSent ==
    ASSUME TypeOK, signals # <<>>, signals' = Tail(signals),
           \A i, j \in DOMAIN signals : signals[i].unit = signals[j].unit => i = j
    PROVE  /\ Head(signals) \in Message
           /\ \A m \in Message :
                  m = Head(signals) => \E i \in DOMAIN signals : signals[i] = m
           /\ \A i \in DOMAIN signals' : i + 1 \in DOMAIN signals /\ signals'[i] = signals[i + 1]
           /\ \A i \in DOMAIN signals' : signals'[i].unit # Head(signals).unit
           /\ \A i, j \in DOMAIN signals' : signals'[i].unit = signals'[j].unit => i = j
<1>1. signals \in Seq(Message)
  BY DEF TypeOK
<1>2. /\ Len(signals) \in Nat /\ Len(signals) > 0 /\ DOMAIN signals = 1 .. Len(signals)
      /\ Head(signals) = signals[1] /\ 1 \in DOMAIN signals
      /\ Len(signals') = Len(signals) - 1 /\ DOMAIN signals' = 1 .. Len(signals')
  BY <1>1
<1>3. \A i \in DOMAIN signals' : i + 1 \in DOMAIN signals /\ signals'[i] = signals[i + 1]
  BY <1>1, <1>2
<1>4. \A i \in DOMAIN signals' : i \in Nat /\ i + 1 # 1
  BY <1>2
<1>5. \A i \in DOMAIN signals' : signals'[i].unit # Head(signals).unit
  BY <1>2, <1>3, <1>4
<1>6. \A i, j \in DOMAIN signals' : signals'[i].unit = signals'[j].unit => i = j
  <2> TAKE i, j \in DOMAIN signals'
  <2>1. signals'[i].unit = signals'[j].unit => i + 1 = j + 1
    BY <1>3
  <2> QED BY <1>4, <2>1
<1>7. Head(signals) \in Message
  BY <1>1
<1> QED BY <1>2, <1>3, <1>5, <1>6, <1>7

\* Sending one.
LEMMA AppendSent ==
    ASSUME TypeOK, NEW m \in Message, signals' = Append(signals, m)
    PROVE  \A i \in DOMAIN signals' :
               \/ i \in DOMAIN signals /\ signals'[i] = signals[i]
               \/ i = Len(signals) + 1 /\ i \notin DOMAIN signals /\ signals'[i] = m
  BY DEF TypeOK

\* A handler is done with its message, or a step has nothing to do with the jobs.
LEMMA OneJobKept ==
    ASSUME OneJob, UNCHANGED <<mountJob, signals>>, pending' \subseteq pending,
           message' = (IF pending' = {} THEN NoMessage ELSE message),
           \A v \in transition \ transition' :
               mountJob[v] = "idle" /\ ~Sent(v) /\ (v \in pending' => message.unit # v)
    PROVE  OneJob' /\ \A v \in Versions : (Done(v))' => Done(v)
<1>1. \A v \in Versions : (Sent(v))' = Sent(v)
  BY DEF Sent
<1>2. \A v \in Versions : (Handling(v))' => Handling(v) /\ v \in pending' /\ message.unit = v
  BY DEF Handling
<1>3. \A v \in Versions : (Done(v))' => Done(v)
  BY DEF Done, MountDone
<1>4. \A v \in Versions : (Busy(v))' => v \in transition'
  BY <1>1, <1>2 DEF Busy, OneJob
<1>5. \A v \in Versions : mountJob'[v] # "idle" => ~(Sent(v))' /\ ~(Handling(v))'
  BY <1>1, <1>2 DEF OneJob
<1>6. \A v \in Versions : (Handling(v))' => ~(Sent(v))'
  BY <1>1, <1>2 DEF OneJob
<1>7. \A i, j \in DOMAIN signals' : signals'[i].unit = signals'[j].unit => i = j
  BY DEF OneJob
<1> QED BY <1>3, <1>4, <1>5, <1>6, <1>7 DEF OneJob

\* What the jobs have mounted stays mounted, and only a handler that misses volumes marks
\* its version.
LEMMA MountingKept ==
    ASSUME Mounting, \A v \in Versions : (Done(v))' => Done(v), mountJob' = mountJob,
           UNCHANGED <<ro, rw, prsv>>,
           \A v \in created' : v \in created \/ (prsv /\ ~Mounted(v))
    PROVE  Mounting'
<1>1. \A v : (Mounted(v))' = Mounted(v)
  BY DEF Mounted
<1>2. \A v \in created' : prsv' /\ ~(Mounted(v))'
  BY <1>1 DEF Mounting
<1>3. \A v \in Versions :
         mountJob'[v] \in {"rw", "prsv"} \/ (Done(v))' => ro'[v] # "empty"
  BY DEF Mounting
<1>4. \A v \in Versions : (Done(v))' => prsv'
  BY DEF Mounting
<1> QED BY <1>2, <1>3, <1>4 DEF Mounting

\* The process ends and no job runs.
LEMMA JobsEnd ==
    ASSUME Terminate, mountJob' = mountJob, \A v \in Versions : mountJob[v] = "idle"
    PROVE  JobsFollow
<1>1. NoMessage.unit \notin Versions
  BY VersionsAssumption DEF NoMessage, NoVersion
<1>2. \A v \in Versions : mountJob'[v] = "idle" /\ ~(Sent(v))' /\ ~(Handling(v))'
  BY DEF Terminate, Sent, Handling
<1>3. \A v \in Versions : ~(Busy(v))' /\ ~(Done(v))'
  BY <1>2 DEF Busy, Done, Terminate
<1> QED BY <1>2, <1>3 DEF JobsFollow, Jobs, OneJob, Mounting, Terminate

\* No job runs at first.
LEMMA JobsInit == Init => Jobs
  BY DEF Init, Jobs, OneJob, Mounting, Busy, Sent, Handling, Done, NoMessage

\* The steps keep what is known of the jobs, as long as no client deletes a version and
\* the process does not end while one runs.
LEMMA JobsStep ==
    ASSUME IInv, Jobs, [Next]_vars, \A v \in Versions : ~Delete(v),
           Terminate => \A v \in Versions : mountJob[v] = "idle"
    PROVE  JobsFollow
<1>0. /\ TypeOK /\ OneJob /\ Mounting /\ NoMessage.unit \notin Versions
      /\ \A v \in Versions : v \in transition =>
             activation[v] = "Activating" /\ v \notin created /\ v \notin FreeSpace
  <2>1. \A v \in Versions : v \in transition => activation[v] = "Activating" /\ v \notin created
    BY DEF IInv, BlocksOnlyActivating, StaleFlagOnlyFailed
  <2> QED BY <2>1, VersionsAssumption, FreeSpaceActive DEF IInv, Jobs, NoMessage, NoVersion
<1>1. ASSUME Terminate, mountJob' = mountJob PROVE JobsFollow
  BY <1>1, JobsEnd
\* Steps that leave the jobs and their messages alone.
<1>2. ASSUME UNCHANGED <<mountJob, signals, handlerVars, transition, ro, rw, prsv>>,
             created' \subseteq created
      PROVE  JobsFollow
  <2>1. message' = IF pending' = {} THEN NoMessage ELSE message
    BY <1>0, <1>2 DEF OneJob, handlerVars
  <2>2. OneJob' /\ \A v \in Versions : (Done(v))' => Done(v)
    BY <1>0, <1>2, <2>1, OneJobKept DEF handlerVars
  <2>3. Mounting'
    BY <1>0, <1>2, <2>2, MountingKept
  <2> QED BY <2>2, <2>3 DEF Jobs, JobsFollow
<1>3. ASSUME NEW v \in Versions, StartActivation(v) PROVE JobsFollow
  <2>1. PICK result \in SignatureResults :
          /\ created' = FlagsAfterRequest(v) \ FreeSpace
          /\ transition' = CASE result = "valid"   -> transition \cup {v}
                             [] result = "invalid" -> transition \ {v}
                             [] result = "error"   -> transition
          /\ mountJob' = IF result = "valid" /\ mountJob[v] = "idle"
                         THEN [mountJob EXCEPT ![v] = "ro"] ELSE mountJob
    BY <1>3 DEF StartActivation
  <2>2. /\ activation[v] \in {"Ready", "Failed"} /\ pending = {}
        /\ UNCHANGED <<handlerVars, ro, rw, prsv, signals>>
    BY <1>3 DEF StartActivation, Idle, diskVars
  <2>3. v \notin transition
    BY <1>0, <2>2
  <2>4. created' \subseteq created
    BY <2>1 DEF FlagsAfterRequest
  <2>5. CASE result # "valid"
    <3>1. transition' = transition /\ mountJob' = mountJob
      BY <2>1, <2>3, <2>5, EnvironmentAssumption
    <3> QED BY <1>2, <2>2, <2>4, <3>1
  <2>6. CASE result = "valid"
    <3>1. mountJob[v] = "idle" /\ ~Sent(v) /\ ~Handling(v) /\ ~Done(v)
      BY <1>0, <2>2, <2>3 DEF OneJob, Busy, Done, Sent
    <3>2. transition' = transition \cup {v} /\ mountJob' = [mountJob EXCEPT ![v] = "ro"]
      BY <2>1, <2>6, <3>1
    <3>3. \A w \in Versions : /\ (Sent(w))' = Sent(w) /\ (Handling(w))' = Handling(w)
                            /\ (Done(w))' = Done(w) /\ (Mounted(w))' = Mounted(w)
      BY <2>2 DEF Sent, Handling, Done, MountDone, Mounted, handlerVars
    <3>4. \A w \in Versions : mountJob'[w] = IF w = v THEN "ro" ELSE mountJob[w]
      BY <1>0, <3>2 DEF TypeOK
    <3>5. OneJob'
      BY <1>0, <2>2, <3>1, <3>2, <3>3, <3>4 DEF OneJob, Busy, handlerVars
    <3>6. Mounting'
      BY <1>0, <2>2, <2>4, <3>1, <3>3, <3>4 DEF Mounting, TypeOK
    <3> QED BY <3>3, <3>5, <3>6 DEF Jobs, JobsFollow
  <2> QED BY <2>5, <2>6
<1>4. ASSUME Receive PROVE JobsFollow
  <2> DEFINE m == Head(signals)
  <2>1. /\ pending = {} /\ signals # <<>> /\ signals' = Tail(signals)
        /\ pending' = {w \in Objects : w = m.unit \/ w \in created}
        /\ message' = IF pending' = {} THEN NoMessage ELSE m
        /\ UNCHANGED <<transition, created, mountJob, ro, rw, prsv>>
    BY <1>4 DEF Receive, Idle, Concerned, objectVars, diskVars, mountVars
  <2>2. /\ m \in Message
        /\ \E i \in DOMAIN signals : signals[i] = m
        /\ \A i \in DOMAIN signals' : i + 1 \in DOMAIN signals /\ signals'[i] = signals[i + 1]
        /\ \A i \in DOMAIN signals' : signals'[i].unit # m.unit
        /\ \A i, j \in DOMAIN signals' : signals'[i].unit = signals'[j].unit => i = j
    BY <1>0, <2>1, TailSent DEF OneJob
  <2> HIDE DEF m
  <2>3. \A v \in Versions : (Sent(v))' => Sent(v) /\ v # m.unit
    BY <2>2 DEF Sent
  <2>4. \A v \in Versions : (Handling(v))' => Sent(v) /\ v = m.unit
    BY <2>1, <2>2 DEF Handling, Sent
  <2>5. \A v \in Versions : (Done(v))' => Done(v)
    <3> SUFFICES ASSUME NEW v \in Versions, (Done(v))' PROVE Done(v)
      OBVIOUS
    <3>1. CASE \E i \in DOMAIN signals' : signals'[i] = [unit |-> v, result |-> "done"]
      BY <2>2, <3>1 DEF Done
    <3>2. CASE v \in pending' /\ message' = [unit |-> v, result |-> "done"]
      BY <2>1, <2>2, <3>2 DEF Done
    <3> QED BY <3>1, <3>2 DEF Done, MountDone
  <2>6. OneJob'
    <3>1. \A v \in Versions : (Busy(v))' => v \in transition'
      BY <1>0, <2>1, <2>3, <2>4 DEF OneJob, Busy
    <3>2. \A v \in Versions : mountJob'[v] # "idle" => ~(Sent(v))' /\ ~(Handling(v))'
      BY <1>0, <2>1, <2>3, <2>4 DEF OneJob
    <3>3. \A v \in Versions : (Handling(v))' => ~(Sent(v))'
      BY <2>3, <2>4
    <3> QED BY <2>1, <2>2, <3>1, <3>2, <3>3 DEF OneJob
  <2>7. Mounting'
    BY <1>0, <2>1, <2>5, MountingKept
  <2> QED BY <2>5, <2>6, <2>7 DEF Jobs, JobsFollow
<1>5. ASSUME ReceiveOther PROVE JobsFollow
  <2>1. /\ pending = {} /\ message = NoMessage /\ message' = message /\ created # {}
        /\ pending' = created
        /\ UNCHANGED <<transition, created, mountJob, signals, ro, rw, prsv>>
    BY <1>0, <1>5 DEF ReceiveOther, Idle, objectVars, diskVars, mountVars, OneJob
  <2>2. \A v \in Versions : ~(Handling(v))' /\ (Sent(v))' = Sent(v) /\ ((Done(v))' => Done(v))
    BY <1>0, <2>1 DEF Handling, Sent, Done, MountDone
  <2>3. OneJob'
    BY <1>0, <2>1, <2>2 DEF OneJob, Busy
  <2>4. Mounting'
    BY <1>0, <2>1, <2>2, MountingKept
  <2> QED BY <2>2, <2>3, <2>4 DEF Jobs, JobsFollow
<1>6. ASSUME NEW w \in Versions, NEW gone, gone \subseteq FreeSpace, w \in pending,
             Handled(w, gone), UNCHANGED <<mountJob, signals, ro, rw, prsv>>,
             transition' = transition \ (gone \cup {w}),
             message.unit = w \/ w \notin transition,
             \A v \in created' : v \in created \/ (prsv /\ ~Mounted(v))
      PROVE  JobsFollow
  <2>1. pending' \subseteq pending \ {w} /\ message' = IF pending' = {} THEN NoMessage ELSE message
    BY <1>6 DEF Handled
  <2>2. ASSUME NEW v \in transition \ transition'
        PROVE  mountJob[v] = "idle" /\ ~Sent(v) /\ (v \in pending' => message.unit # v)
    <3>1. v \in Versions
      BY <1>0 DEF TypeOK
    <3>2. v = w /\ Handling(w)
      BY <1>0, <1>6, <3>1 DEF Handling
    <3> QED BY <1>0, <2>1, <3>1, <3>2 DEF OneJob
  <2>3. OneJob' /\ \A v \in Versions : (Done(v))' => Done(v)
    BY <1>0, <1>6, <2>1, <2>2, OneJobKept
  <2>4. Mounting'
    BY <1>0, <1>6, <2>3, MountingKept
  <2> QED BY <2>3, <2>4 DEF Jobs, JobsFollow
<1>7. ASSUME NEW w \in Versions, Handle(w) PROVE JobsFollow
  <2>1. CASE HandleWithoutProgress(w)
    BY <1>1, <2>1 DEF HandleWithoutProgress
  <2>2. CASE Finish(w)
    <3>1. CASE Terminate
      BY <1>1, <2>2, <3>1 DEF Finish
    <3>2. CASE ~Terminate
      <4>1. /\ w \in pending /\ Handled(w, FreeSpace) /\ VolumesCreated(w) /\ w \in transition
            /\ UNCHANGED <<mountJob, signals, ro, rw, prsv>>
            /\ transition' = transition \ (FreeSpace \cup {w})
            /\ created' \subseteq created
        BY <2>2, <3>2 DEF Finish, diskVars
      <4>2. message.unit = w
        BY <1>0, <4>1 DEF VolumesCreated, MountDone
      <4> QED BY <1>6, <4>1, <4>2
    <3> QED BY <3>1, <3>2
  <2>3. CASE VolumesMissing(w)
    <3>1. /\ w \in pending /\ Handled(w, FreeSpace) /\ VolumesCreated(w) /\ ~Mounted(w)
          /\ UNCHANGED <<mountJob, signals, ro, rw, prsv>>
          /\ transition' = transition \ (FreeSpace \cup {w})
          /\ created' \subseteq created \cup {w}
      BY <2>3 DEF VolumesMissing, diskVars, mountVars
    <3>2. message.unit = w \/ w \notin transition
      BY <1>0, <3>1 DEF VolumesCreated, MountDone
    <3>3. w \in created \/ prsv
      BY <1>0, <3>1 DEF VolumesCreated, Done, Mounting
    <3> QED BY <1>6, <3>1, <3>2, <3>3
  <2>4. CASE HandleFailure(w)
    <3>1. /\ w \in pending /\ Handled(w, {}) /\ message.unit = w
          /\ UNCHANGED <<mountJob, signals, ro, rw, prsv, created>>
          /\ transition' = transition \ ({} \cup {w})
      BY <2>4 DEF HandleFailure, MountFailed, diskVars, mountVars
    <3> QED BY <1>6, <3>1
  <2> QED BY <1>7, <2>1, <2>2, <2>3, <2>4 DEF Handle
\* A job comes to its next step, or to its end.
<1>8. ASSUME NEW v \in Versions, mountJob[v] # "idle",
             NEW step \in {"idle", "rw", "prsv"},
             NEW result \in {"done", "failed"},
             mountJob' = [mountJob EXCEPT ![v] = step],
             \/ signals' = signals
             \/ step = "idle" /\ signals' = Append(signals, [unit |-> v, result |-> result]),
             UNCHANGED <<transition, created, handlerVars>>,
             \A w \in Versions \ {v} : ro'[w] = ro[w] /\ (w \in rw' => w \in rw),
             prsv => prsv',
             signals' # signals /\ result = "done" =>
                 mountJob[v] = "prsv" /\ prsv' /\ ro'[v] # "empty",
             step # "idle" => ro'[v] # "empty"
      PROVE  JobsFollow
  <2> DEFINE m == [unit |-> v, result |-> result]
  <2>1. m \in Message /\ m.unit = v
    BY MessageType
  <2>2. v \in transition /\ ~Sent(v) /\ ~Handling(v) /\ ~Done(v)
    BY <1>0, <1>8 DEF OneJob, Busy, Done, Sent, Handling, MountDone
  <2>3. \A i \in DOMAIN signals' :
            \/ i \in DOMAIN signals /\ signals'[i] = signals[i]
            \/ i = Len(signals) + 1 /\ signals'[i] = m /\ step = "idle" /\ signals' # signals
    <3>1. CASE signals' = signals
      BY <3>1
    <3>2. CASE signals' # signals
      BY <1>0, <1>8, <2>1, <3>2, AppendSent
    <3> QED BY <3>1, <3>2
  <2> HIDE DEF m
  <2>4. \A w \in Versions : mountJob'[w] = IF w = v THEN step ELSE mountJob[w]
    BY <1>0, <1>8 DEF TypeOK
  <2>5. \A w \in Versions : (Sent(w))' => Sent(w) \/ (w = v /\ step = "idle")
    BY <2>1, <2>3 DEF Sent
  <2>6. \A w \in Versions : (Handling(w))' = Handling(w)
    BY <1>8 DEF Handling, handlerVars
  <2>7. \A i, j \in DOMAIN signals' : signals'[i].unit = signals'[j].unit => i = j
    BY <1>0, <2>1, <2>2, <2>3 DEF OneJob, Sent
  <2>8. OneJob'
    <3>1. \A w \in Versions : (Busy(w))' => w \in transition'
      BY <1>0, <1>8, <2>2, <2>4, <2>5, <2>6 DEF OneJob, Busy
    <3>2. \A w \in Versions : mountJob'[w] # "idle" => ~(Sent(w))' /\ ~(Handling(w))'
      BY <1>0, <1>8, <2>2, <2>4, <2>5, <2>6 DEF OneJob
    <3>3. \A w \in Versions : (Handling(w))' => ~(Sent(w))'
      BY <1>0, <2>2, <2>5, <2>6 DEF OneJob
    <3> QED BY <1>0, <1>8, <2>7, <3>1, <3>2, <3>3 DEF OneJob, handlerVars
  <2>9. \A w \in Versions :
            (Done(w))' => Done(w) \/ (w = v /\ result = "done" /\ signals' # signals)
    BY <1>8, <2>3 DEF Done, MountDone, handlerVars, m
  <2>10. \A w \in created' : prsv' /\ ~(Mounted(w))'
    <3> SUFFICES ASSUME NEW w \in created PROVE prsv' /\ ~(Mounted(w))'
      BY <1>8
    <3>1. w \in Versions \ {v}
      BY <1>0, <2>2 DEF TypeOK
    <3> QED BY <1>0, <1>8, <3>1 DEF Mounting, Mounted
  <2>11. \A w \in Versions : (Done(w))' => prsv'
    BY <1>0, <1>8, <2>9 DEF Mounting
  <2>12. \A w \in Versions :
            mountJob'[w] \in {"rw", "prsv"} \/ (Done(w))' => ro'[w] # "empty"
    BY <1>0, <1>8, <2>2, <2>4, <2>9 DEF Mounting
  <2> QED BY <1>8, <2>8, <2>9, <2>10, <2>11, <2>12 DEF Jobs, Mounting, JobsFollow
<1>9. ASSUME NEW v \in Versions, MountStep(v) PROVE JobsFollow
  <2>1. UNCHANGED <<transition, created, handlerVars>>
    BY <1>9 DEF MountStep, systemdUnchanged, objectVars
  <2>2. /\ ro \in [Versions -> {"absent", "empty", "mounted"}]
        /\ mountJob[v] \in {"rw", "prsv"} => ro[v] # "empty"
    BY <1>0 DEF TypeOK, Mounting
  <2>3. CASE mountJob[v] = "ro" /\ ro' = [ro EXCEPT ![v] = "mounted"]
    <3>1. /\ mountJob' = [mountJob EXCEPT ![v] = "rw"]
          /\ UNCHANGED <<rw, prsv, signals>>
      BY <1>9, <2>3 DEF MountStep
    <3>2. ro'[v] = "mounted" /\ \A w \in Versions \ {v} : ro'[w] = ro[w]
      BY <2>2, <2>3
    <3> QED BY <1>8, <2>1, <2>3, <3>1, <3>2
  <2>4. CASE mountJob[v] = "rw"
    <3>1. /\ mountJob' = [mountJob EXCEPT ![v] = "prsv"]
          /\ rw' = rw \cup {v} /\ UNCHANGED <<ro, prsv, signals>>
      BY <1>9, <2>4 DEF MountStep
    <3> QED BY <1>8, <2>1, <2>2, <2>4, <3>1
  <2>5. CASE mountJob[v] = "prsv"
    <3>1. /\ mountJob' = [mountJob EXCEPT ![v] = "idle"] /\ prsv'
          /\ \/ signals' = signals
             \/ signals' = Append(signals, [unit |-> v, result |-> "done"])
          /\ UNCHANGED <<ro, rw>>
      BY <1>9, <2>5 DEF MountStep, Announce
    <3> QED BY <1>8, <2>1, <2>2, <2>5, <3>1
  <2> QED BY <1>9, <2>3, <2>4, <2>5 DEF MountStep
<1>10. ASSUME NEW v \in Versions, MountFails(v) PROVE JobsFollow
  <2>1. /\ mountJob[v] # "idle" /\ mountJob' = [mountJob EXCEPT ![v] = "idle"]
        /\ \/ signals' = signals
           \/ signals' = Append(signals, [unit |-> v, result |-> "failed"])
        /\ ro' \in {ro, IF mountJob[v] = "ro" /\ ro[v] = "absent"
                        THEN [ro EXCEPT ![v] = "empty"] ELSE ro}
        /\ rw' \in {rw, IF mountJob[v] = "rw" THEN rw \cup {v} ELSE rw}
        /\ prsv' \in {prsv, prsv \/ mountJob[v] = "prsv"}
        /\ UNCHANGED <<transition, created, handlerVars>>
    BY <1>10 DEF MountFails, Announce, systemdUnchanged, objectVars
  <2>2. prsv => prsv'
    BY <2>1
  <2>3. \A w \in Versions \ {v} : ro'[w] = ro[w] /\ (w \in rw' => w \in rw)
    BY <1>0, <2>1 DEF TypeOK
  <2> QED BY <1>8, <2>1, <2>2, <2>3
<1>11. ASSUME NEW v \in Versions, UmountRo(v) \/ UmountRw(v) PROVE JobsFollow
  <2>1. /\ UNCHANGED <<mountJob, signals, pending, message, transition, created, prsv>>
        /\ ro' \in {ro, [ro EXCEPT ![v] = "absent"]} /\ rw' \subseteq rw
    BY <1>11 DEF UmountRo, UmountRw, systemdUnchanged, objectVars, handlerVars, mountVars
  <2>2. message' = IF pending' = {} THEN NoMessage ELSE message
    BY <1>0, <2>1 DEF OneJob
  <2>3. OneJob' /\ \A w \in Versions : (Done(w))' => Done(w)
    BY <1>0, <2>1, <2>2, OneJobKept
  <2>4. \A w \in Versions : ro'[w] = ro[w] \/ ro'[w] = "absent"
    BY <1>0, <2>1 DEF TypeOK
  <2>5. \A w \in Versions : (Mounted(w))' => Mounted(w)
    BY <2>1, <2>4 DEF Mounted
  <2>6. Mounting'
    BY <1>0, <2>1, <2>3, <2>4, <2>5 DEF Mounting, TypeOK
  <2> QED BY <2>3, <2>6 DEF Jobs, JobsFollow
<1>12. CASE UNCHANGED vars
  BY <1>2, <1>12 DEF vars, objectVars, diskVars, mountVars
<1>13. CASE ClientCall
  <2>1. ASSUME NEW v \in Versions, CreateActivation(v) PROVE JobsFollow
    BY <1>2, <2>1 DEF CreateActivation, diskVars, mountVars
  <2>2. ASSUME NEW v \in Versions, NEW value \in BOOLEAN, Request(v, value) PROVE JobsFollow
    BY <1>2, <2>2 DEF Request, FlagsAfterRequest, diskVars, mountVars
  <2>3. ASSUME NEW v \in Versions, NEW value, WritePriority(v, value) PROVE JobsFollow
    BY <1>2, <2>3 DEF WritePriority, diskVars, mountVars
  <2> QED BY <1>3, <1>13, <2>1, <2>2, <2>3 DEF ClientCall
<1>14. CASE Daemon
  <2>1. CASE WatchCallback
    BY <1>1, <1>2, <2>1 DEF WatchCallback, objectVars, diskVars
  <2>2. CASE Crash
    BY <1>1, <2>2 DEF Crash
  <2>3. CASE Start \/ EndScan
    BY <1>2, <2>3 DEF Start, EndScan, objectVars, diskVars, mountVars
  <2>4. ASSUME NEW v \in Versions, Scan(v) PROVE JobsFollow
    BY <1>2, <2>4 DEF Scan, scanUnchanged, diskVars, mountVars
  <2> QED BY <1>4, <1>5, <1>7, <1>14, <2>1, <2>2, <2>3, <2>4 DEF Daemon
<1>15. CASE System
  <2>1. CASE UpdateSymlinks \/ ChassisChange
    BY <1>2, <2>1 DEF UpdateSymlinks, ChassisChange, objectVars, diskVars, mountVars
  <2> QED BY <1>9, <1>10, <1>11, <1>15, <2>1 DEF System
<1> QED BY <1>12, <1>13, <1>14, <1>15 DEF Next

\* What a step does to the states of the activations, to those that are awaited, and to
\* the events that are awaited with them.
LEMMA Step ==
    ASSUME IInv, [Next]_vars
    PROVE  \/ \E v \in Versions : CreateActivation(v) \/ StartActivation(v) \/ Handle(v)
           \/ UpdateSymlinks
           \/ Terminate
           \/ /\ UNCHANGED <<subscribed, linkEvent>> \/ (subscribed' = subscribed /\ ~linkEvent')
              /\ transition' \subseteq transition
              /\ \A v \in Versions : activation'[v] \in {activation[v], "None", "Active", "Invalid"}
<1> DEFINE Rest ==
      /\ UNCHANGED <<subscribed, linkEvent>> \/ (subscribed' = subscribed /\ ~linkEvent')
      /\ transition' \subseteq transition
      /\ \A v \in Versions : activation'[v] \in {activation[v], "None", "Active", "Invalid"}
<1>1. CASE UNCHANGED vars
  BY <1>1 DEF vars, objectVars
<1>2. CASE ClientCall
  <2>1. ASSUME NEW v \in Versions, Delete(v) PROVE Rest
    BY <2>1 DEF Delete, IInv, TypeOK
  <2>2. ASSUME NEW v \in Versions, NEW value \in BOOLEAN, Request(v, value) PROVE Rest
    BY <2>2 DEF Request
  <2>3. ASSUME NEW v \in Versions, NEW value, WritePriority(v, value) PROVE Rest
    BY <2>3 DEF WritePriority
  <2> QED BY <1>2, <2>1, <2>2, <2>3 DEF ClientCall
<1>3. CASE Daemon
  <2>1. CASE WatchCallback
    BY <2>1 DEF WatchCallback, objectVars
  <2>2. CASE Crash
    BY <2>2 DEF Crash
  <2>3. CASE Start \/ EndScan \/ Receive \/ ReceiveOther
    BY <2>3 DEF Start, EndScan, Receive, ReceiveOther, objectVars
  <2>4. ASSUME NEW v \in Versions, Scan(v) PROVE Rest
    BY <2>4 DEF Scan, ScanImage, ScanRemains, scanUnchanged, IInv, TypeOK
  <2> QED BY <1>3, <2>1, <2>2, <2>3, <2>4 DEF Daemon
<1>4. CASE System
  BY <1>4 DEF System, MountStep, MountFails, UmountRo, UmountRw, systemdUnchanged,
              ChassisChange, objectVars
<1> QED BY <1>1, <1>2, <1>3, <1>4 DEF Next

\* Where it is not killed, the process ends when the symlink leads to nothing and when an
\* activation finishes after another has unsubscribed.
LEMMA ProcessEnds ==
    ASSUME IInv, Jobs, [Next]_vars, ~Happens("crash"), phase # "down", Terminate
    PROVE  \/ linkEvent /\ LinkTarget = "absent"
           \/ \E w \in Versions : w \in transition /\ Handling(w) /\ ~subscribed
<1>1. phase' = "down"
  BY DEF Terminate
<1>2. ASSUME NEW w \in Versions, HandleWithoutProgress(w) PROVE FALSE
  <2>1. w \in pending /\ w \notin transition
    BY <1>2 DEF HandleWithoutProgress
  <2>2. ~MountDone(w)
    BY <2>1 DEF MountDone, Jobs, OneJob, Busy, Handling
  <2>3. ~(w \in created /\ Mounted(w))
    BY DEF Jobs, Mounting
  <2> QED BY <1>2, <2>2, <2>3 DEF HandleWithoutProgress
<1>3. ASSUME NEW w \in Versions, Finish(w)
      PROVE  w \in transition /\ Handling(w) /\ ~subscribed
  <2>1. w \in pending /\ w \in transition /\ VolumesCreated(w)
    BY <1>3 DEF Finish
  <2>2. w \notin created
    BY <2>1 DEF IInv, StaleFlagOnlyFailed
  <2>3. Handling(w)
    BY <2>1, <2>2 DEF VolumesCreated, MountDone, Handling
  <2> QED BY <1>1, <1>3, <2>1, <2>3 DEF Finish
<1>4. ASSUME NEW w \in Versions, VolumesMissing(w) \/ HandleFailure(w) PROVE FALSE
  BY <1>1, <1>4 DEF VolumesMissing, HandleFailure
<1>5. CASE WatchCallback
  BY <1>1, <1>5 DEF WatchCallback
<1>6. ~UNCHANGED vars /\ ~Crash /\ ~Start /\ ~EndScan /\ ~Receive /\ ~ReceiveOther
  BY <1>1 DEF vars, Crash, Start, EndScan, Receive, ReceiveOther
<1>7. \A v \in Versions : ~Scan(v)
  BY <1>1 DEF Scan, scanUnchanged
<1>8. ~ClientCall
  BY <1>1 DEF ClientCall, CreateActivation, Request, StartActivation, Delete, WritePriority
<1>9. ~System
  BY <1>1 DEF System, MountStep, MountFails, UmountRo, UmountRw, UpdateSymlinks,
              ChassisChange, systemdUnchanged
<1> QED BY <1>2, <1>3, <1>4, <1>5, <1>6, <1>7, <1>8, <1>9 DEF Next, Daemon, Handle

-----------------------------------------------------------------------------------
(* Two activations at a time.                                                      *)

AtMostOne(S) == \A x, y \in S : x = y

\* Only uploaded versions are activated, and while two of them are, the connection is
\* subscribed: the one that ends first does not take the process with it.
Overlaps ==
    /\ \A v \in Versions : activation[v] \in {"Ready", "Failed", "Activating"}
                               => v \in environment.uploads
    /\ ~subscribed => AtMostOne(transition)
    /\ Happens("parallel") \/ AtMostOne(transition)
    /\ ~linkEvent

\* Three elements are more than two.
LEMMA AmongTwo ==
    ASSUME NEW S, IsFiniteSet(S), Cardinality(S) <= 2, NEW x \in S, NEW y \in S, NEW z \in S
    PROVE  x = y \/ x = z \/ y = z
<1> SUFFICES ASSUME x # y, x # z, y # z PROVE FALSE
  OBVIOUS
<1>1. IsFiniteSet({x}) /\ Cardinality({x}) = 1
  BY FS_Singleton
<1> DEFINE T == {x} \cup {y}
<1>2. IsFiniteSet(T) /\ Cardinality(T) = 2
  <2>1. y \notin {x}
    OBVIOUS
  <2> DEFINE X == {x}
  <2> HIDE DEF X
  <2>2. IsFiniteSet(X \cup {y}) /\ Cardinality(X \cup {y}) = Cardinality(X) + 1
    BY <1>1, <2>1, FS_AddElement DEF X
  <2> QED BY <1>1, <2>2 DEF X
<1>3. z \notin T /\ T \cup {z} \in SUBSET S
  OBVIOUS
<1> HIDE DEF T
<1>4. Cardinality(T \cup {z}) = 3
  BY <1>2, <1>3, FS_AddElement
<1>5. Cardinality(T \cup {z}) <= Cardinality(S) /\ Cardinality(S) \in Nat
  BY <1>3, FS_Subset, FS_CardinalityType
<1> QED BY <1>4, <1>5

\* A behaviour stays in its surroundings.
LEMMA EnvironmentKept ==
    ASSUME [Next]_vars PROVE environment' = environment
<1>1. CASE UNCHANGED vars
  BY <1>1 DEF vars, objectVars, assocVars, handlerVars, diskVars, mountVars, umountVars
<1>2. CASE ClientCall
  BY <1>2 DEF ClientCall, CreateActivation, Request, StartActivation, Delete, WritePriority
<1>3. CASE Daemon
  BY <1>3 DEF Daemon, Receive, ReceiveOther, Handle, HandleWithoutProgress, Finish, VolumesMissing,
              HandleFailure, WatchCallback, Crash, Start, Scan, scanUnchanged, EndScan
<1>4. CASE System
  BY <1>4 DEF System, MountStep, MountFails, UmountRo, UmountRw, UpdateSymlinks,
              ChassisChange, systemdUnchanged
<1> QED BY <1>1, <1>2, <1>3, <1>4 DEF Next

\* A handler changes the state of its own activation, which waits no more.
LEMMA HandlerStep ==
    ASSUME IInv, Jobs, NEW w \in Versions, Handle(w), ~Terminate
    PROVE  /\ transition' \subseteq transition \ {w}
           /\ \A v \in Versions : activation'[v] \in {activation[v], "None", "Active"}
                                      \/ (v = w /\ activation[w] \in {"Activating", "Failed"})
           /\ w \in transition \/ subscribed' = subscribed
           /\ linkEvent' = linkEvent
<1>1. CASE Finish(w)
  BY <1>1 DEF Finish, SetState, IInv, BlocksOnlyActivating
<1>2. CASE VolumesMissing(w)
  <2>1. activation[w] \in {"Activating", "Failed"}
    BY <1>2 DEF VolumesMissing, VolumesCreated, IInv, BlocksOnlyActivating, StaleFlagOnlyFailed
  <2> QED BY <1>2, <2>1 DEF VolumesMissing, SetState
<1>3. CASE HandleFailure(w)
  <2>1. Handling(w)
    BY <1>3 DEF HandleFailure, MountFailed, Handling
  <2>2. activation[w] = "Activating"
    BY <2>1 DEF Jobs, OneJob, Busy, IInv, BlocksOnlyActivating
  <2> QED BY <1>3, <2>2 DEF HandleFailure, IInv, TypeOK
<1> QED BY <1>1, <1>2, <1>3 DEF Handle, HandleWithoutProgress

\* The invariant of overlapping activations is inductive.
LEMMA OverlapsStep ==
    ASSUME IInv, Jobs, Overlaps, Undisturbed, [Next]_vars
    PROVE  Jobs' /\ Overlaps'
<1>1. /\ \A event \in {"delete", "crash", "symlink"} : ~Happens(event)
      /\ environment' = environment
      /\ \A event : (Happens(event))' = Happens(event)
  BY EnvironmentKept DEF Undisturbed, Happens
<1>2. \A v \in transition : v \in Versions /\ v \in environment.uploads
  BY DEF IInv, TypeOK, BlocksOnlyActivating, Overlaps
<1>3. ASSUME Terminate PROVE \A v \in Versions : mountJob[v] = "idle"
  <2>1. CASE phase = "down"
    <3>1. transition = {}
      BY <2>1, <1>2 DEF IInv, ScanFirst, Objects, BlocksOnlyActivating
    <3> QED BY <3>1 DEF Jobs, OneJob, Busy
  <2>2. CASE phase # "down"
    <3>1. PICK w \in Versions : w \in transition /\ Handling(w) /\ ~subscribed
      BY <1>1, <1>3, <2>2, ProcessEnds DEF Overlaps
    <3>2. \A v \in transition : v = w
      BY <3>1 DEF Overlaps, AtMostOne
    <3>3. mountJob[w] = "idle"
      BY <3>1 DEF Jobs, OneJob
    <3> QED BY <3>2, <3>3 DEF Jobs, OneJob, Busy
  <2> QED BY <2>1, <2>2
<1>4. Jobs'
  <2>1. \A v \in Versions : ~Delete(v)
    BY <1>1 DEF Delete
  <2> QED BY <1>3, <2>1, JobsStep DEF JobsFollow
<1>5. ASSUME Terminate PROVE Overlaps'
  BY <1>1, <1>5 DEF Terminate, Overlaps, AtMostOne
<1>6. ASSUME NEW v \in Versions, CreateActivation(v) PROVE Overlaps'
  <2>1. /\ v \in environment.uploads
        /\ \A w \in Versions \ {v} : activation'[w] = activation[w]
        /\ UNCHANGED <<transition, subscribed, linkEvent>>
    BY <1>6 DEF CreateActivation, IInv, TypeOK
  <2> QED BY <1>1, <2>1 DEF Overlaps, AtMostOne
<1>7. ASSUME NEW v \in Versions, StartActivation(v) PROVE Overlaps'
  <2>1. /\ activation[v] \in {"Ready", "Failed"} /\ subscribed' /\ linkEvent' = linkEvent
        /\ Happens("parallel") \/ transition = {}
    BY <1>7 DEF StartActivation
  <2>2. \A w \in Versions \ {v} : activation'[w] \in {activation[w], "None"}
    BY <1>7 DEF StartActivation, SetState
  <2>3. transition' \subseteq transition \cup {v}
    BY <1>7, EnvironmentAssumption DEF StartActivation
  <2> QED BY <1>1, <2>1, <2>2, <2>3 DEF Overlaps, AtMostOne
<1>8. ASSUME NEW w \in Versions, Handle(w), ~Terminate PROVE Overlaps'
  <2>1. /\ transition' \subseteq transition \ {w}
        /\ \A v \in Versions : activation'[v] \in {activation[v], "None", "Active"}
                                   \/ (v = w /\ activation[w] \in {"Activating", "Failed"})
        /\ w \in transition \/ subscribed' = subscribed
        /\ linkEvent' = linkEvent
    BY <1>8, HandlerStep
  <2>2. ASSUME w \in transition PROVE AtMostOne(transition')
    <3>1. CASE ~Happens("parallel")
      BY <2>1, <3>1 DEF Overlaps, AtMostOne
    <3>2. CASE Happens("parallel")
      <4>1. Cardinality(environment.uploads) <= 2
        BY <3>2 DEF Undisturbed
      <4>2. IsFiniteSet(environment.uploads)
        <5>1. environment.uploads \in SUBSET Versions
          BY EnvironmentAssumption DEF IInv, TypeOK
        <5> QED BY <5>1, VersionsAssumption, FS_Subset
      <4>3. ASSUME NEW x \in transition', NEW y \in transition' PROVE x = y
        <5>1. /\ x \in environment.uploads /\ y \in environment.uploads
              /\ w \in environment.uploads /\ x # w /\ y # w
          BY <1>2, <2>1, <2>2
        <5> QED BY <4>1, <4>2, <5>1, AmongTwo
      <4> QED BY <4>3 DEF AtMostOne
    <3> QED BY <3>1, <3>2
  <2>3. \A v \in Versions : activation'[v] \in {"Ready", "Failed", "Activating"}
                               => v \in environment.uploads
    BY <2>1 DEF Overlaps
  <2> QED BY <1>1, <2>1, <2>2, <2>3 DEF Overlaps, AtMostOne
<1>9. ~UpdateSymlinks
  BY <1>1 DEF UpdateSymlinks
<1>10. ASSUME subscribed' = subscribed, linkEvent' = linkEvent \/ ~linkEvent',
              transition' \subseteq transition,
              \A v \in Versions : activation'[v] \in {activation[v], "None", "Active", "Invalid"}
       PROVE  Overlaps'
  BY <1>1, <1>10 DEF Overlaps, AtMostOne
<1>11. Overlaps'
  BY <1>5, <1>6, <1>7, <1>8, <1>9, <1>10, Step
<1> QED BY <1>4, <1>11

\* It holds throughout.
LEMMA OverlapsHold == Spec => [](Undisturbed => Jobs /\ Overlaps)
<1> DEFINE I == Undisturbed => Jobs /\ Overlaps
<1>1. Init => I
  BY JobsInit DEF Init, Overlaps, AtMostOne
<1>2. IInv /\ I /\ [Next]_vars => I'
  <2> SUFFICES ASSUME IInv, I, [Next]_vars, Undisturbed' PROVE Jobs' /\ Overlaps'
    OBVIOUS
  <2>1. Undisturbed
    BY EnvironmentKept DEF Undisturbed, Happens
  <2> QED BY <2>1, OverlapsStep
<1> QED BY <1>1, <1>2, InvariantHolds, PTL DEF Spec

\* No handler reads an ActivationProgress object that is not there.
THEOREM ProgressIsPresent == Spec => []ProgressPresent
<1>1. IInv /\ (Undisturbed => Jobs /\ Overlaps) => ProgressPresent
  <2> SUFFICES ASSUME IInv, Jobs, NEW w \in pending, w \notin transition
               PROVE  ~MountDone(w) /\ ~(w \in created /\ Mounted(w))
    BY DEF ProgressPresent
  <2>1. w \in Versions
    BY DEF IInv, TypeOK
  <2>2. ~Handling(w)
    BY <2>1 DEF Jobs, OneJob, Busy
  <2> QED BY <2>2 DEF MountDone, Handling, Jobs, Mounting
<1> QED BY <1>1, InvariantHolds, OverlapsHold, PTL

\* Where no step of a job fails, no directory is left empty.
LEMMA NoneEmpty == Spec => [](~Happens("failure") => \A v \in Versions : ro[v] # "empty")
<1> DEFINE I == ~Happens("failure") => \A v \in Versions : ro[v] # "empty"
<1>1. Init => I
  BY DEF Init
<1>2. IInv /\ I /\ [Next]_vars => I'
  <2> SUFFICES ASSUME IInv, I, [Next]_vars PROVE I'
    OBVIOUS
  <2>1. (Happens("failure"))' = Happens("failure")
    BY EnvironmentKept DEF Happens
  <2>2. CASE ro' = ro
    BY <2>1, <2>2
  <2>3. ASSUME NEW v \in Versions, MountStep(v) \/ UmountRo(v) PROVE I'
    <3>1. ro' \in {ro, [ro EXCEPT ![v] = "mounted"], [ro EXCEPT ![v] = "absent"]}
      BY <2>3 DEF MountStep, UmountRo
    <3> QED BY <2>1, <3>1 DEF IInv, TypeOK
  <2>4. ASSUME NEW v \in Versions, MountFails(v) PROVE I'
    BY <2>1, <2>4 DEF MountFails
  <2>5. CASE System
    BY <2>2, <2>3, <2>4, <2>5 DEF System, UmountRw, UpdateSymlinks, ChassisChange, diskVars
  <2>6. CASE ClientCall \/ UNCHANGED vars
    BY <2>2, <2>6 DEF ClientCall, CreateActivation, Request, StartActivation, Delete,
                      WritePriority, diskVars, vars
  <2>7. CASE Daemon
    BY <2>2, <2>7 DEF Daemon, Receive, ReceiveOther, Handle, HandleWithoutProgress, Finish,
                      VolumesMissing, HandleFailure, WatchCallback, Crash, Start, Scan,
                      scanUnchanged, EndScan, diskVars
  <2> QED BY <2>5, <2>6, <2>7 DEF Next
<1> QED BY <1>1, <1>2, InvariantHolds, PTL DEF Spec

\* A version only becomes active with its image mounted.
THEOREM ActivatedAreMounted == Spec => ActivatedIsMounted
<1> DEFINE Kept ==
      \A v \in Versions :
          Finishes(v) /\ (Undisturbed \/ ~Happens("failure")) => ro[v] = "mounted" /\ v \in rw
<1>1. ASSUME IInv, Undisturbed => Jobs /\ Overlaps,
             ~Happens("failure") => \A v \in Versions : ro[v] # "empty", [Next]_vars
      PROVE  Kept
  <2> SUFFICES ASSUME NEW v \in Versions, Finishes(v), Undisturbed \/ ~Happens("failure")
               PROVE  ro[v] = "mounted" /\ v \in rw
    OBVIOUS
  <2>1. v \in pending /\ v \in transition /\ VolumesCreated(v) /\ Mounted(v)
    BY <1>1, FinishStep DEF Finish
  <2>2. MountDone(v)
    BY <1>1, <2>1 DEF VolumesCreated, IInv, StaleFlagOnlyFailed
  <2>3. ro[v] # "empty"
    BY <1>1, <2>1, <2>2 DEF Jobs, Mounting, Done
  <2> QED BY <1>1, <2>1, <2>3 DEF Mounted, IInv, TypeOK
<1>2. IInv /\ (Undisturbed => Jobs /\ Overlaps)
      /\ (~Happens("failure") => \A v \in Versions : ro[v] # "empty") /\ [Next]_vars
      => [Kept]_vars
  BY <1>1
<1> QED BY <1>2, InvariantHolds, OverlapsHold, NoneEmpty, PTL DEF Spec, ActivatedIsMounted

-----------------------------------------------------------------------------------
(* The symlink.                                                                    *)

\* The surroundings of LinkNotRemoved.
OneByOne ==
    environment.events \cap {"delete", "failure", "parallel", "crash", "reupload"} = {}

Unmounting == umountRo \cup umountRw

\* The volumes of a version that is awaited are those its own job has mounted, so none is
\* found missing; a version whose volumes are to be removed has no object and no priority
\* file; and the symlink leads to a version that has both a directory and such a file.
Leads ==
    /\ AtMostOne(transition) /\ (transition # {} => subscribed)
    /\ created = {}
    /\ \A v \in Versions : mountJob[v] \in {"rw", "prsv"} \/ Done(v) => ro[v] = "mounted"
    /\ \A v \in Versions : mountJob[v] = "prsv" \/ Done(v) => v \in rw
    /\ \A v \in Unmounting : stored[v] = NoPriority /\ activation[v] = "None"
    /\ link # NoVersion => ro[link] # "absent" /\ stored[link] # NoPriority
    /\ linkEvent => link # NoVersion
    /\ phase # "run" => \A v \in Versions : ro[v] = "absent" /\ v \notin rw /\ mountJob[v] = "idle"
    /\ todo = {}

\* As long as there is a version to choose, one is chosen.
LEMMA ChoicesExist ==
    ASSUME TypeOK, Candidates # {} PROVE Choices # {}
<1> DEFINE R == {p \in Candidates \X Candidates :
                    \/ LastDigit(p[1]) < LastDigit(p[2])
                    \/ LastDigit(p[1]) = LastDigit(p[2]) /\ p[1] > p[2]}
<1>1. \A v \in Candidates : v \in Nat /\ LastDigit(v) \in Int
  BY VersionsAssumption, MaxPriorityAssumption
     DEF Candidates, LastDigit, TypeOK, PriorityMap, Priority, NoPriority
<1>2. IsFiniteSet(Candidates) /\ Cardinality(Candidates) \in Nat
  <2>1. Candidates \in SUBSET Versions
    BY DEF Candidates
  <2> QED BY <2>1, VersionsAssumption, FS_Subset, FS_CardinalityType
<1>3. 1 \in 0 .. Cardinality(Candidates)
  <2>1. Cardinality(Candidates) # 0
    BY <1>2, FS_EmptySet
  <2> QED BY <1>2, <2>1
<1>4. \A x \in Candidates : <<x, x>> \notin R
  BY <1>1
<1>5. \A x, y \in Candidates : x # y => <<x, y>> \in R \/ <<y, x>> \in R
  BY <1>1
<1>6. \A x, y, z \in Candidates : <<x, y>> \in R /\ <<y, z>> \in R => <<x, z>> \in R
  BY <1>1
<1>7. \A x, y \in Candidates :
         <<x, y>> \notin R => \/ LastDigit(y) < LastDigit(x)
                              \/ LastDigit(y) = LastDigit(x) /\ y >= x
  BY <1>1
<1> HIDE DEF R
<1>8. Cardinality(First(1, Candidates, R)) = 1
  BY <1>2, <1>3, <1>4, <1>5, <1>6, Ranked
<1>9. First(1, Candidates, R) # {}
  BY <1>8, FS_EmptySet
<1>10. PICK v \in Candidates : Cardinality({x \in Candidates : <<x, v>> \in R}) < 1
  BY <1>9 DEF First
<1>11. {x \in Candidates : <<x, v>> \in R} = {}
  <2> DEFINE S == {x \in Candidates : <<x, v>> \in R}
  <2>1. IsFiniteSet(S)
    BY <1>2, FS_Subset
  <2>2. Cardinality(S) \in Nat /\ Cardinality(S) < 1
    BY <1>10, <2>1, FS_CardinalityType
  <2> HIDE DEF S
  <2>3. Cardinality(S) = 0
    BY <2>2
  <2>4. S = {}
    BY <2>1, <2>3, FS_EmptySet
  <2> QED BY <2>4 DEF S
<1>12. v \in Choices
  BY <1>7, <1>11 DEF Choices
<1> QED BY <1>12

\* Storing the priorities of a step takes no file away, and writes none for a version
\* without an object.
LEMMA PersistKeeps ==
    ASSUME stored \in PriorityMap, NEW v \in Versions,
           NEW old \in PriorityMap, NEW new \in PriorityMap, new[v] # NoPriority,
           \A w \in Versions \ {v} : new[w] = NoPriority <=> old[w] = NoPriority
    PROVE  \A w \in Versions :
               /\ stored[w] # NoPriority => Persist(v, old, new)[w] # NoPriority
               /\ w # v /\ old[w] = NoPriority => Persist(v, old, new)[w] = stored[w]
  BY PersistType

\* The process does not end: the symlink leads to something, and whoever waits is
\* subscribed.
LEMMA NoEnd ==
    ASSUME IInv, Jobs, Leads, OneByOne, [Next]_vars, Terminate
    PROVE  phase = "down"
<1> SUFFICES ASSUME phase # "down" PROVE FALSE
  OBVIOUS
<1>1. ~Happens("crash")
  BY DEF OneByOne, Happens
<1>2. ~(linkEvent /\ LinkTarget = "absent")
  BY DEF Leads, LinkTarget
<1>3. \A w \in Versions : w \in transition => subscribed
  BY DEF Leads
<1> QED BY <1>1, <1>2, <1>3, ProcessEnds

\* The symlink leads nowhere at first.
LEMMA LeadsInit == Init => Leads
  BY DEF Init, Leads, AtMostOne, Unmounting, Done

\* Making room takes the priority files of the versions that go, and the version the
\* symlink leads to is not one of them.
LEMMA RoomLeads ==
    ASSUME IInv, Leads, MaxActive > 1, NEW gone \in SUBSET FreeSpace,
           Unmounting' = Unmounting \cup gone, UNCHANGED <<link, ro>>,
           \A w \in gone : stored'[w] = NoPriority /\ activation'[w] = "None",
           \A w \in Versions \ gone :
               /\ stored[w] # NoPriority => stored'[w] # NoPriority
               /\ activation[w] = "None" => stored'[w] = stored[w] /\ activation'[w] = "None"
    PROVE  /\ \A v \in Unmounting' : stored'[v] = NoPriority /\ activation'[v] = "None"
           /\ link' # NoVersion => ro'[link'] # "absent" /\ stored'[link'] # NoPriority
<1>1. Unmounting \subseteq Versions /\ (link # NoVersion => link \in Versions)
  BY DEF IInv, TypeOK, Unmounting
<1>2. link # NoVersion => link \notin gone
  BY FreeSpaceActive DEF Leads, Functional, LinkTarget
<1> QED BY <1>1, <1>2 DEF Leads

\* Steps that have nothing to do with the volumes.
LEMMA LeadsKept ==
    ASSUME Leads, JobsFollow,
           UNCHANGED <<mountJob, ro, rw, stored, link, umountVars, subscribed>>,
           transition' \subseteq transition, created' \subseteq created,
           \A v \in Unmounting : activation'[v] = "None",
           linkEvent' => linkEvent, phase' # "run" => phase # "run", todo' = {}
    PROVE  Leads'
<1>1. Unmounting' = Unmounting
  BY DEF Unmounting, umountVars
<1>2. \A v \in Versions :
         /\ mountJob'[v] \in {"rw", "prsv"} \/ (Done(v))' => ro'[v] = "mounted"
         /\ mountJob'[v] = "prsv" \/ (Done(v))' => v \in rw'
  BY DEF Leads, JobsFollow
<1>3. AtMostOne(transition') /\ (transition' # {} => subscribed')
  BY DEF Leads, AtMostOne
<1> QED BY <1>1, <1>2, <1>3 DEF Leads

\* The invariant of the symlink is inductive.
LEMMA LeadsStep ==
    ASSUME IInv, Jobs, Leads, OneByOne, MaxActive > 1, [Next]_vars
    PROVE  Jobs' /\ Leads'
<1>0. /\ TypeOK /\ OneJob /\ Mounting
      /\ \A event \in {"delete", "failure", "parallel", "crash", "reupload"} : ~Happens(event)
      /\ \A v \in Unmounting : v \in Versions /\ v \notin transition /\ v \notin FreeSpace
  <2>1. TypeOK /\ \A v \in Unmounting : v \in Versions /\ activation[v] = "None"
    BY DEF IInv, TypeOK, Unmounting, Leads
  <2>2. \A v \in Unmounting : v \notin transition
    BY <2>1 DEF IInv, BlocksOnlyActivating
  <2> QED BY <2>1, <2>2, FreeSpaceActive DEF Jobs, OneByOne, Happens
<1>1. JobsFollow
  <2>1. \A v \in Versions : ~Delete(v)
    BY <1>0 DEF Delete
  <2>2. Terminate => \A v \in Versions : mountJob[v] = "idle"
    BY NoEnd DEF Leads
  <2> QED BY <2>1, <2>2, JobsStep
<1>2. phase = "run" => ~Terminate
  BY NoEnd
<1>3. ASSUME NEW v \in Versions, CreateActivation(v) PROVE Leads'
  <2>1. v \notin Unmounting
    BY <1>0, <1>3 DEF CreateActivation, Unmounting
  <2>2. \A w \in Unmounting : activation'[w] = "None"
    BY <1>0, <1>3, <2>1 DEF CreateActivation, Leads, TypeOK
  <2>3. /\ UNCHANGED <<mountJob, ro, rw, stored, link, umountVars, subscribed,
                       transition, created, linkEvent, phase, todo>>
    BY <1>3 DEF CreateActivation, diskVars, mountVars
  <2> QED BY <1>1, <2>2, <2>3, LeadsKept DEF Leads
<1>4. ASSUME UNCHANGED <<mountJob, ro, rw, stored, link, umountVars, subscribed, activation>>,
             transition' \subseteq transition, created' \subseteq created,
             linkEvent' => linkEvent, phase' # "run" => phase # "run", todo' = {}
      PROVE  Leads'
  BY <1>1, <1>4, LeadsKept DEF Leads
<1>5. ASSUME NEW v \in Versions, StartActivation(v) PROVE Leads'
  <2>1. PICK result \in SignatureResults :
          /\ SetState(v, IF result = "invalid" THEN "Failed" ELSE "Activating", FreeSpace)
          /\ created' = FlagsAfterRequest(v) \ FreeSpace
          /\ transition' = CASE result = "valid"   -> transition \cup {v}
                             [] result = "invalid" -> transition \ {v}
                             [] result = "error"   -> transition
          /\ mountJob' \in {mountJob, [mountJob EXCEPT ![v] = "ro"]}
    BY <1>5 DEF StartActivation
  <2>2. /\ activation[v] \in {"Ready", "Failed"} /\ transition = {} /\ phase = "run"
        /\ subscribed' /\ stored' = Without(FreeSpace, stored)
        /\ umountRo' = umountRo \cup FreeSpace /\ umountRw' = umountRw \cup FreeSpace
        /\ UNCHANGED <<phase, ro, rw, link, linkEvent, todo>>
    BY <1>0, <1>5 DEF StartActivation, Idle, Umount, diskVars
  <2>3. transition' \subseteq {v}
    BY <2>1, <2>2, EnvironmentAssumption
  <2>4. created' = {}
    BY <2>1 DEF Leads, FlagsAfterRequest
  <2>5. Unmounting' = Unmounting \cup FreeSpace
    BY <2>2 DEF Unmounting
  <2>6. \A w \in Versions : stored'[w] = IF w \in FreeSpace THEN NoPriority ELSE stored[w]
    BY <1>0, <2>2, WithoutType DEF TypeOK
  <2>7. v \notin FreeSpace
    BY <2>2, FreeSpaceActive
  <2>8. /\ \A w \in FreeSpace : activation'[w] = "None"
        /\ \A w \in Versions : activation[w] = "None" => activation'[w] = "None"
    BY <2>1, <2>2, <2>7, FreeSpaceActive DEF SetState
  <2>9. /\ \A w \in Unmounting' : stored'[w] = NoPriority /\ activation'[w] = "None"
        /\ link' # NoVersion => ro'[link'] # "absent" /\ stored'[link'] # NoPriority
    BY <2>2, <2>5, <2>6, <2>8, RoomLeads, FreeSpaceActive
  <2>10. \A w \in Versions :
            /\ mountJob'[w] \in {"rw", "prsv"} \/ (Done(w))' => ro'[w] = "mounted"
            /\ mountJob'[w] = "prsv" \/ (Done(w))' => w \in rw'
    BY <1>0, <1>1, <2>1, <2>2 DEF JobsFollow, Leads, TypeOK
  <2> QED BY <2>2, <2>3, <2>4, <2>9, <2>10 DEF Leads, AtMostOne
<1>6. ASSUME NEW v \in Versions, NEW value \in WrittenPriorities, WritePriority(v, value)
      PROVE  Leads'
  <2>1. /\ value \in Priority /\ NoPriority \notin Priority
    BY PrioritiesAssumption, NoPriorityApart
  <2>2. /\ priority[v] # NoPriority /\ priority' = TakePriority(value, v, priority)
        /\ stored' = Persist(v, priority, priority')
        /\ UNCHANGED <<phase, activation, transition, created, subscribed, mountJob,
                       ro, rw, link, umountRo, umountRw, linkEvent, todo>>
    BY <1>6 DEF WritePriority, diskVars, mountVars, umountVars
  <2>3. /\ priority' \in PriorityMap /\ priority'[v] # NoPriority
        /\ \A w \in Versions \ {v} : priority'[w] = NoPriority <=> priority[w] = NoPriority
    BY <1>0, <2>1, <2>2, TakePriorityType DEF TypeOK
  <2>4. \A w \in Versions :
           /\ stored[w] # NoPriority => stored'[w] # NoPriority
           /\ w # v /\ priority[w] = NoPriority => stored'[w] = stored[w]
    BY <1>0, <2>2, <2>3, PersistKeeps DEF TypeOK
  <2>5. \A w \in Versions : activation[w] = "None" => priority[w] = NoPriority
    BY DEF IInv, PriorityIffActive, ActiveVersions
  <2>6. Unmounting' = Unmounting
    BY <2>2 DEF Unmounting
  <2>7. /\ \A w \in Unmounting' : stored'[w] = NoPriority /\ activation'[w] = "None"
        /\ link' # NoVersion => ro'[link'] # "absent" /\ stored'[link'] # NoPriority
    <3>1. \A w \in Unmounting :
             /\ w \in Versions /\ w # v
             /\ stored[w] = NoPriority /\ activation[w] = "None" /\ priority[w] = NoPriority
      BY <1>0, <2>2, <2>5 DEF Leads
    <3>2. link # NoVersion =>
             link \in Versions /\ ro[link] # "absent" /\ stored[link] # NoPriority
      BY <1>0 DEF Leads, TypeOK
    <3> QED BY <2>2, <2>4, <2>6, <3>1, <3>2
  <2>8. \A w \in Versions :
            /\ mountJob'[w] \in {"rw", "prsv"} \/ (Done(w))' => ro'[w] = "mounted"
            /\ mountJob'[w] = "prsv" \/ (Done(w))' => w \in rw'
    BY <1>1, <2>2 DEF JobsFollow, Leads
  <2> QED BY <2>2, <2>7, <2>8 DEF Leads
<1>7. ASSUME NEW w \in Versions, Finish(w) PROVE Leads'
  <2> DEFINE left == Without(FreeSpace \cup {w}, priority)
             new == ConstructPriority(0, w, left)
  <2>1. phase = "run" /\ ~Terminate
    BY <1>2, <1>7 DEF Finish, IInv, ScanFirst
  <2>2. /\ w \in transition /\ w \in pending /\ VolumesCreated(w)
        /\ stored' = Without(FreeSpace, Persist(w, left, new))
        /\ SetState(w, IF MountFailed(w) THEN "Failed" ELSE "Active", FreeSpace)
        /\ umountRo' = umountRo \cup FreeSpace /\ umountRw' = umountRw \cup FreeSpace
        /\ created' \subseteq created /\ transition' \subseteq transition \ {w}
        /\ UNCHANGED <<phase, todo, mountJob, ro, rw, link, linkEvent>>
    BY <1>7, <2>1 DEF Finish, Umount, diskVars
  <2>3. /\ left \in PriorityMap
        /\ \A x \in Versions :
              left[x] = IF x \in FreeSpace \cup {w} THEN NoPriority ELSE priority[x]
    BY <1>0, WithoutType DEF TypeOK
  <2> HIDE DEF left
  <2>4. /\ new \in PriorityMap /\ new[w] = 0
        /\ \A x \in Versions \ {w} : new[x] = NoPriority <=> left[x] = NoPriority
    BY <2>3, NoPriorityApart, ConstructPriorityType
  <2> HIDE DEF new
  <2>5. new[w] # NoPriority
    BY <2>4, NoPriorityApart
  <2>6. \A x \in Versions :
           /\ stored[x] # NoPriority => Persist(w, left, new)[x] # NoPriority
           /\ x # w /\ left[x] = NoPriority => Persist(w, left, new)[x] = stored[x]
    BY <1>0, <2>3, <2>4, <2>5, PersistKeeps DEF TypeOK
  <2>7. \A x \in Versions :
           stored'[x] = IF x \in FreeSpace THEN NoPriority ELSE Persist(w, left, new)[x]
    <3>1. Persist(w, left, new) \in PriorityMap
      BY <1>0, <2>3, <2>4, PersistType DEF TypeOK
    <3> QED BY <2>2, <3>1, WithoutType
  <2>8. activation[w] = "Activating" /\ w \notin FreeSpace
    BY <2>2, FreeSpaceActive DEF IInv, BlocksOnlyActivating
  <2>9. \A x \in Versions : activation[x] = "None" => x # w /\ left[x] = NoPriority
    BY <2>3, <2>8 DEF IInv, PriorityIffActive, ActiveVersions
  <2>10. /\ \A x \in FreeSpace : activation'[x] = "None"
         /\ \A x \in Versions : activation[x] = "None" => activation'[x] = "None"
    BY <2>2, <2>8, FreeSpaceActive DEF SetState
  <2>11. Unmounting' = Unmounting \cup FreeSpace
    BY <2>2 DEF Unmounting
  <2>12. /\ \A x \in Unmounting' : stored'[x] = NoPriority /\ activation'[x] = "None"
         /\ link' # NoVersion => ro'[link'] # "absent" /\ stored'[link'] # NoPriority
    BY <2>2, <2>6, <2>7, <2>9, <2>10, <2>11, RoomLeads, FreeSpaceActive
  <2>13. transition' = {}
    BY <2>2 DEF Leads, AtMostOne
  <2>14. \A x \in Versions :
            /\ mountJob'[x] \in {"rw", "prsv"} \/ (Done(x))' => ro'[x] = "mounted"
            /\ mountJob'[x] = "prsv" \/ (Done(x))' => x \in rw'
    BY <1>1, <2>2 DEF JobsFollow, Leads
  <2> QED BY <2>1, <2>2, <2>12, <2>13, <2>14 DEF Leads, AtMostOne
<1>8. ASSUME NEW w \in Versions, VolumesMissing(w) PROVE FALSE
  <2>1. w \in pending /\ MountDone(w) /\ ~Mounted(w)
    BY <1>8 DEF VolumesMissing, VolumesCreated, Leads
  <2>2. Done(w)
    BY <2>1 DEF Done
  <2> QED BY <1>0, <2>1, <2>2 DEF Mounted, Mounting, Leads
<1>9. ASSUME NEW w \in Versions, HandleFailure(w) PROVE Leads'
  <2>1. Handling(w)
    BY <1>9 DEF HandleFailure, MountFailed, Handling
  <2>2. w \in transition
    BY <1>0, <2>1 DEF OneJob, Busy
  <2>3. \A v \in Unmounting : activation'[v] = "None"
    BY <1>0, <1>9, <2>2 DEF HandleFailure, Leads, TypeOK
  <2>4. /\ transition' \subseteq transition
        /\ UNCHANGED <<mountJob, ro, rw, stored, link, umountVars, subscribed,
                       created, linkEvent, phase, todo>>
    BY <1>9 DEF HandleFailure, diskVars, mountVars
  <2> QED BY <1>1, <2>3, <2>4, LeadsKept DEF Leads
<1>10. ASSUME NEW w \in Versions, HandleWithoutProgress(w) PROVE FALSE
  BY <1>2, <1>10 DEF HandleWithoutProgress, IInv, ScanFirst
<1>11. ASSUME UNCHANGED vars PROVE Leads'
  BY <1>4, <1>1, <1>11 DEF vars, objectVars, diskVars, mountVars, Leads
<1>12. CASE ClientCall
  <2>1. ASSUME NEW v \in Versions, NEW value \in BOOLEAN, Request(v, value) PROVE Leads'
    BY <1>4, <2>1 DEF Request, FlagsAfterRequest, diskVars, mountVars, Leads
  <2>2. \A v \in Versions : ~Delete(v)
    BY <1>0 DEF Delete
  <2> QED BY <1>1, <1>3, <1>5, <1>6, <1>12, <2>1, <2>2 DEF ClientCall, JobsFollow
<1>13. CASE Daemon
  <2>1. ASSUME WatchCallback PROVE Leads'
    <3>1. phase = "run" /\ ~Terminate
      BY <1>2, <2>1 DEF WatchCallback, Idle
    <3> QED BY <1>4, <2>1, <3>1 DEF WatchCallback, objectVars, diskVars, Leads
  <2>2. ~Crash /\ \A v \in Versions : ~Scan(v)
    BY <1>0 DEF Crash, Scan, Leads
  <2>3. ASSUME Start PROVE Leads'
    <3>1. todo' = {}
      BY <2>3 DEF Start, Leads
    <3> QED BY <1>4, <2>3, <3>1 DEF Start, objectVars, diskVars, mountVars
  <2>4. ASSUME EndScan \/ Receive \/ ReceiveOther PROVE Leads'
    BY <1>4, <2>4 DEF EndScan, Receive, ReceiveOther, objectVars, diskVars, mountVars, Leads
  <2> QED BY <1>1, <1>7, <1>8, <1>9, <1>10, <1>13, <2>1, <2>2, <2>3, <2>4
          DEF Daemon, Handle, JobsFollow
<1>14. CASE System
  <2>1. ASSUME NEW v \in Versions, MountStep(v) PROVE Leads'
    <3>1. /\ UNCHANGED <<phase, todo, activation, created, transition, subscribed, stored,
                         link, linkEvent, umountRo, umountRw>>
      BY <2>1 DEF MountStep, systemdUnchanged, objectVars, umountVars
    <3>2. v \in transition
      BY <1>0, <2>1 DEF MountStep, OneJob, Busy
    <3>3. phase = "run"
      BY <2>1 DEF MountStep, Leads
    <3>4. \A w \in Versions : ro'[w] = IF w = v /\ mountJob[v] = "ro" THEN "mounted" ELSE ro[w]
      BY <1>0, <2>1 DEF MountStep, TypeOK
    <3>5. rw \subseteq rw' /\ (mountJob[v] = "rw" => v \in rw')
      BY <2>1 DEF MountStep
    <3>6. \A w \in Versions : \/ mountJob'[w] = mountJob[w]
                              \/ w = v /\ mountJob[v] = "ro" /\ mountJob'[v] = "rw"
                              \/ w = v /\ mountJob[v] = "rw" /\ mountJob'[v] = "prsv"
                              \/ w = v /\ mountJob[v] = "prsv" /\ mountJob'[v] = "idle"
      BY <1>0, <2>1 DEF MountStep, TypeOK
    <3>7. \A w \in Versions :
            /\ mountJob'[w] \in {"rw", "prsv"} \/ (Done(w))' => ro'[w] = "mounted"
            /\ mountJob'[w] = "prsv" \/ (Done(w))' => w \in rw'
      BY <1>1, <3>4, <3>5, <3>6 DEF JobsFollow, Leads
    <3>8. link # NoVersion => ro'[link] # "absent"
      BY <1>0, <3>4 DEF Leads, TypeOK
    <3>9. Unmounting' = Unmounting
      BY <3>1 DEF Unmounting
    <3> QED BY <3>1, <3>3, <3>7, <3>8, <3>9 DEF Leads
  <2>2. ASSUME NEW v \in Versions, UmountRo(v) \/ UmountRw(v) PROVE Leads'
    <3>1. /\ v \in Unmounting /\ Unmounting' \subseteq Unmounting
          /\ ro' \in {ro, [ro EXCEPT ![v] = "absent"]} /\ rw' \in {rw, rw \ {v}}
          /\ UNCHANGED <<phase, todo, activation, created, transition, subscribed, stored,
                         link, linkEvent, mountJob, signals, pending, message>>
      BY <2>2 DEF UmountRo, UmountRw, systemdUnchanged, objectVars, handlerVars, mountVars,
                  Unmounting
    <3>2. /\ v # link /\ mountJob[v] = "idle" /\ ~Done(v)
      <4>1. ~Busy(v)
        BY <1>0, <3>1 DEF OneJob
      <4>2. ~Done(v)
        BY <1>0, <3>1, <4>1 DEF Busy, Sent, Handling, Done, MountDone
      <4>3. v # link
        BY <1>0, <3>1, VersionsAssumption DEF Leads, NoVersion
      <4> QED BY <4>1, <4>2, <4>3 DEF Busy
    <3>3. \A w \in Versions : (Done(w))' = Done(w)
      BY <3>1 DEF Done, MountDone
    <3>4. \A w \in Versions \ {v} : ro'[w] = ro[w] /\ (w \in rw' <=> w \in rw)
      BY <1>0, <3>1 DEF TypeOK
    <3>5. \A w \in Versions :
            /\ mountJob'[w] \in {"rw", "prsv"} \/ (Done(w))' => ro'[w] = "mounted"
            /\ mountJob'[w] = "prsv" \/ (Done(w))' => w \in rw'
      BY <3>1, <3>2, <3>3, <3>4 DEF Leads
    <3>6. link # NoVersion => ro'[link] # "absent"
      BY <1>0, <3>2, <3>4 DEF Leads, TypeOK
    <3>7. phase' # "run" => \A w \in Versions : ro'[w] = "absent" /\ w \notin rw'
                                                 /\ mountJob'[w] = "idle"
      BY <1>0, <3>1 DEF Leads, TypeOK
    <3> QED BY <3>1, <3>5, <3>6, <3>7 DEF Leads
  <2>3. ASSUME UpdateSymlinks PROVE Leads'
    <3>1. /\ UNCHANGED <<phase, todo, activation, created, transition, subscribed, stored,
                         ro, rw, mountJob, signals, pending, message, umountRo, umountRw>>
      BY <2>3 DEF UpdateSymlinks, objectVars, handlerVars, mountVars, umountVars
    <3>2. \A w \in Versions : (Done(w))' = Done(w)
      BY <3>1 DEF Done, MountDone
    <3>3. CASE link' \in Choices
      <4>1. ro[link'] # "absent" /\ stored[link'] # NoPriority /\ link' # NoVersion
        BY <3>3, VersionsAssumption DEF Choices, Candidates, NoVersion
      <4> QED BY <3>1, <3>2, <4>1 DEF Leads, Unmounting
    <3>4. CASE Choices = {} /\ link' = NoVersion /\ linkEvent' = linkEvent
      <4>1. Candidates = {}
        BY <1>0, <3>4, ChoicesExist
      <4>2. link = NoVersion
        BY <1>0, <4>1 DEF Leads, Candidates, TypeOK
      <4> QED BY <3>1, <3>2, <3>4, <4>2 DEF Leads, Unmounting
    <3> QED BY <2>3, <3>3, <3>4 DEF UpdateSymlinks
  <2>4. ASSUME ChassisChange PROVE Leads'
    BY <1>4, <2>4 DEF ChassisChange, objectVars, diskVars, mountVars, Leads
  <2>5. \A v \in Versions : ~MountFails(v)
    BY <1>0 DEF MountFails
  <2> QED BY <1>1, <1>14, <2>1, <2>2, <2>3, <2>4, <2>5 DEF System, JobsFollow
<1> QED BY <1>1, <1>11, <1>12, <1>13, <1>14 DEF Next, JobsFollow

\* It holds throughout.
LEMMA LeadsHold ==
    ASSUME MaxActive > 1
    PROVE  Spec => [](OneByOne => Jobs /\ Leads)
<1> DEFINE I == OneByOne => Jobs /\ Leads
<1>1. Init => I
  BY JobsInit, LeadsInit
<1>2. IInv /\ I /\ [Next]_vars => I'
  <2> SUFFICES ASSUME IInv, I, [Next]_vars, OneByOne' PROVE Jobs' /\ Leads'
    OBVIOUS
  <2>1. OneByOne
    BY EnvironmentKept DEF OneByOne
  <2> QED BY <2>1, LeadsStep
<1> QED BY <1>1, <1>2, InvariantHolds, PTL DEF Spec

\* The symlink never leads to a version whose volumes are queued for removal.
THEOREM LinkIsNotRemoved ==
    ASSUME MaxActive > 1
    PROVE  Spec => []LinkNotRemoved
<1>1. IInv /\ (OneByOne => Jobs /\ Leads) => LinkNotRemoved
  <2> SUFFICES ASSUME IInv, Leads PROVE link \notin Unmounting
    BY DEF LinkNotRemoved, OneByOne, Unmounting
  <2>1. Unmounting \subseteq Versions
    BY DEF IInv, TypeOK, Unmounting
  <2>2. \A v \in Unmounting : stored[v] = NoPriority
    BY DEF Leads
  <2>3. link # NoVersion => stored[link] # NoPriority
    BY DEF Leads
  <2>4. NoVersion \notin Versions
    BY VersionsAssumption DEF NoVersion
  <2> QED BY <2>1, <2>2, <2>3, <2>4
<1> QED BY <1>1, LeadsHold, InvariantHolds, PTL

-----------------------------------------------------------------------------------
(* The refinement.                                                                 *)

\* Only activations that exist have a handler to run: one that is erased while the
\* message is handled is not called any more.
PendingExist == pending \subseteq Objects

\* No handler runs for an activation that is gone.
LEMMA HandlersExist == Spec => []PendingExist
<1>1. Init => PendingExist
  BY DEF Init, PendingExist
<1>2. ASSUME IInv, PendingExist, [Next]_vars PROVE PendingExist'
  <2>1. CASE pending' = {}
    BY <2>1 DEF PendingExist
  <2>2. CASE UNCHANGED <<pending, activation>>
    BY <1>2, <2>2 DEF PendingExist, Objects
  <2>3. ASSUME NEW w \in Versions, NEW state \in {"Failed", "Active"}, NEW gone,
               SetState(w, state, gone), Handled(w, gone)
        PROVE  PendingExist'
    BY <1>2, <2>3 DEF PendingExist, Objects, SetState, Handled
  <2>4. CASE ClientCall
    <3>1. CASE UNCHANGED pending
      BY <2>1, <2>4, <3>1
         DEF ClientCall, CreateActivation, Request, StartActivation, Delete,
             WritePriority, Idle
    <3> QED BY <2>4, <3>1
            DEF ClientCall, CreateActivation, Request, StartActivation, Delete,
                WritePriority, handlerVars
  <2>5. ASSUME NEW w \in Versions, Handle(w) PROVE PendingExist'
    <3>1. CASE Terminate
      BY <2>1, <3>1 DEF Terminate
    <3>2. CASE Finish(w) /\ ~Terminate
      BY <2>3, <3>2 DEF Finish
    <3>3. CASE VolumesMissing(w)
      BY <2>3, <3>3 DEF VolumesMissing
    <3>4. CASE HandleFailure(w)
      BY <1>2, <3>4 DEF HandleFailure, Handled, PendingExist, Objects, IInv, TypeOK
    <3> QED BY <2>5, <3>1, <3>2, <3>3, <3>4 DEF Handle, HandleWithoutProgress
  <2>6. CASE Receive \/ ReceiveOther
    BY <1>2, <2>6 DEF Receive, ReceiveOther, PendingExist, Objects, Concerned,
                      objectVars, IInv, StaleFlagOnlyFailed, TypeOK
  <2>7. ASSUME NEW v \in Versions, Scan(v) PROVE PendingExist'
    BY <1>2, <2>1, <2>7 DEF Scan, scanUnchanged, handlerVars, IInv, ScanFirst
  <2>8. CASE Daemon
    BY <2>1, <2>2, <2>5, <2>6, <2>7, <2>8
       DEF Daemon, WatchCallback, Crash, Start, EndScan, Terminate, objectVars,
           handlerVars
  <2>9. CASE System \/ UNCHANGED vars
    BY <2>2, <2>9
       DEF System, MountStep, MountFails, UmountRo, UmountRw, UpdateSymlinks,
           ChassisChange, systemdUnchanged, objectVars, handlerVars, vars
  <2> QED BY <1>2, <2>4, <2>8, <2>9 DEF Next
<1> QED BY InvariantHolds, <1>1, <1>2, PTL DEF Spec

\* A step of UbiUpdater that leaves the property and the block alone is no step of the
\* life cycle; the end of the process is its Stop.
LEMMA LifecycleStutter ==
    ASSUME UNCHANGED <<activation, transition>> \/ Terminate
    PROVE  [Lifecycle!Next]_(Lifecycle!lifeVars)
  BY DEF Terminate, Lifecycle!Next, Lifecycle!Stop, Lifecycle!lifeVars

\* What freeSpace removes is what the life cycle lets an activation remove.
LEMMA LifecycleMakesRoom ==
    ASSUME NEW v \in Versions, activation[v] # "Active"
    PROVE  FreeSpace \in Lifecycle!Removable(v)
  BY FreeSpaceActive DEF Lifecycle!Removable

\* SetState is the change of state of the life cycle.
LEMMA LifecycleBecome ==
    ASSUME NEW v, NEW state, NEW gone, SetState(v, state, gone)
    PROVE  Lifecycle!Become(v, state, gone)
  BY DEF SetState, Lifecycle!Become

\* As long as the image check does not throw, the UBI updater implements the life cycle
\* of a version: each of its steps is a step of ActivationLifecycle or leaves state and
\* blocks alone.
THEOREM UbiImplementsLifecycle ==
    ASSUME "error" \notin SignatureResults
    PROVE  Spec => LifecycleKept
<1>1. Init => Lifecycle!Init
  BY DEF Init, Lifecycle!Init
<1>2. ASSUME IInv, BlocksWhileActivating, PendingExist, [Next]_vars
      PROVE  [Lifecycle!Next]_(Lifecycle!lifeVars)
  <2>1. ASSUME NEW v \in Versions, NEW value \in {"Ready", "Invalid", "Active"},
               activation[v] = "None", activation' = [activation EXCEPT ![v] = value],
               transition' = transition
        PROVE  Lifecycle!Next
    <3>1. Lifecycle!Become(v, value, {})
      BY <1>2, <2>1 DEF Lifecycle!Become, IInv, TypeOK
    <3> QED BY <2>1, <3>1 DEF Lifecycle!Next, Lifecycle!Appear
  <2>2. ASSUME NEW v \in Versions, StartActivation(v) PROVE Lifecycle!Next
    <3>1. PICK result \in {"valid", "invalid"} :
            /\ SetState(v, IF result = "invalid" THEN "Failed" ELSE "Activating",
                        FreeSpace)
            /\ transition' = CASE result = "valid"   -> transition \cup {v}
                               [] result = "invalid" -> transition \ {v}
                               [] result = "error"   -> transition
      BY <2>2, EnvironmentAssumption DEF StartActivation
    <3>2. activation[v] \in {"Ready", "Failed"}
      BY <2>2 DEF StartActivation
    <3>3. \A w \in FreeSpace : w \notin transition /\ w # v
      BY <1>2, <3>2, FreeSpaceActive DEF BlocksWhileActivating
    <3>4. FreeSpace \in Lifecycle!Removable(v)
      BY <3>2, LifecycleMakesRoom
    <3>5. CASE result = "valid"
      <4>1. Lifecycle!Become(v, "Activating", FreeSpace)
        BY <3>1, <3>5, LifecycleBecome
      <4>2. transition' = (transition \ FreeSpace) \cup {v}
        BY <3>1, <3>3, <3>5
      <4> QED BY <3>2, <3>4, <4>1, <4>2 DEF Lifecycle!Next, Lifecycle!Begin
    <3>6. CASE result = "invalid"
      <4>1. Lifecycle!Become(v, "Failed", FreeSpace)
        BY <3>1, <3>6, LifecycleBecome
      <4>2. transition' = transition \ (FreeSpace \cup {v})
        BY <3>1, <3>3, <3>6
      <4> QED BY <3>2, <3>4, <4>1, <4>2 DEF Lifecycle!Next, Lifecycle!Fail
    <3> QED BY <3>5, <3>6
  <2>3. ASSUME NEW v \in Versions, Delete(v) PROVE Lifecycle!Next
    <3>1. Lifecycle!Become(v, "None", {})
      BY <1>2, <2>3 DEF Delete, Lifecycle!Become, IInv, TypeOK
    <3> QED BY <2>3, <3>1 DEF Delete, Lifecycle!Next, Lifecycle!Delete
  <2>4. ASSUME NEW w \in Versions, Finish(w), ~Terminate PROVE Lifecycle!Next
    <3>1. /\ SetState(w, IF MountFailed(w) THEN "Failed" ELSE "Active", FreeSpace)
          /\ transition' = transition \ (FreeSpace \cup {w})
          /\ w \in transition
      BY <2>4 DEF Finish
    <3>2. activation[w] = "Activating"
      BY <1>2, <3>1 DEF BlocksWhileActivating
    <3>3. FreeSpace \in Lifecycle!Removable(w)
      BY <3>2, LifecycleMakesRoom
    <3>4. CASE MountFailed(w)
      <4>1. Lifecycle!Become(w, "Failed", FreeSpace)
        BY <3>1, <3>4, LifecycleBecome
      <4> QED BY <3>1, <3>2, <3>3, <4>1 DEF Lifecycle!Next, Lifecycle!Fail
    <3>5. CASE ~MountFailed(w)
      <4>1. Lifecycle!Become(w, "Active", FreeSpace)
        BY <3>1, <3>5, LifecycleBecome
      <4> QED BY <3>1, <3>2, <3>3, <4>1 DEF Lifecycle!Next, Lifecycle!Finish
    <3> QED BY <3>4, <3>5
  <2>5. ASSUME NEW w \in Versions, VolumesMissing(w) PROVE Lifecycle!Next
    <3>1. /\ SetState(w, "Failed", FreeSpace)
          /\ transition' = transition \ (FreeSpace \cup {w})
          /\ VolumesCreated(w)
      BY <2>5 DEF VolumesMissing
    <3>2. activation[w] \in {"Activating", "Failed"}
      BY <1>2, <2>5 DEF VolumesMissing, VolumesCreated, BlocksWhileActivating, IInv,
                        StaleFlagOnlyFailed
    <3>3. FreeSpace \in Lifecycle!Removable(w)
      BY <3>2, LifecycleMakesRoom
    <3>4. Lifecycle!Become(w, "Failed", FreeSpace)
      BY <3>1, LifecycleBecome
    <3> QED BY <3>1, <3>2, <3>3, <3>4 DEF Lifecycle!Next, Lifecycle!Fail
  <2>6. ASSUME NEW w \in Versions, HandleFailure(w) PROVE Lifecycle!Next
    <3>1. activation[w] # "None" /\ transition' = transition \ ({} \cup {w})
      BY <1>2, <2>6 DEF HandleFailure, PendingExist, Objects
    <3>2. Lifecycle!Become(w, "Failed", {}) /\ {} \in Lifecycle!Removable(w)
      BY <1>2, <2>6 DEF HandleFailure, Lifecycle!Become, Lifecycle!Removable, IInv, TypeOK
    <3> QED BY <3>1, <3>2 DEF Lifecycle!Next, Lifecycle!Fail
  <2>7. ASSUME NEW v \in Versions, CreateActivation(v) PROVE Lifecycle!Next
    BY <2>1, <2>7 DEF CreateActivation
  <2>8. ASSUME NEW v \in Versions, Scan(v) PROVE [Lifecycle!Next]_(Lifecycle!lifeVars)
    <3>1. activation[v] = "None" /\ transition' = transition
      BY <1>2, <2>8 DEF Scan, scanUnchanged, IInv, ScanFirst
    <3>2. CASE ScanImage(v)
      BY <2>1, <3>1, <3>2 DEF ScanImage
    <3>3. CASE ScanRemains(v)
      BY <3>1, <3>3, LifecycleStutter DEF ScanRemains
    <3> QED BY <2>8, <3>2, <3>3 DEF Scan
  <2>9. CASE ClientCall
    BY <2>2, <2>3, <2>7, <2>9, LifecycleStutter DEF ClientCall, Request, WritePriority
  <2>10. CASE Daemon
    <3>1. ASSUME NEW w \in Versions, Handle(w)
          PROVE  [Lifecycle!Next]_(Lifecycle!lifeVars)
      BY <2>4, <2>5, <2>6, <3>1, LifecycleStutter DEF Handle, HandleWithoutProgress
    <3>2. ASSUME Receive \/ ReceiveOther \/ WatchCallback \/ Crash \/ Start \/ EndScan
          PROVE  [Lifecycle!Next]_(Lifecycle!lifeVars)
      BY <3>2, LifecycleStutter DEF Receive, ReceiveOther, WatchCallback, Crash, Start,
                                    EndScan, objectVars
    <3> QED BY <2>8, <2>10, <3>1, <3>2 DEF Daemon
  <2>11. CASE System \/ UNCHANGED vars
    BY <2>11, LifecycleStutter
       DEF System, MountStep, MountFails, UmountRo, UmountRw, UpdateSymlinks,
           ChassisChange, systemdUnchanged, objectVars, vars
  <2> QED BY <1>2, <2>9, <2>10, <2>11 DEF Next
<1>3. Spec => []BlocksWhileActivating
  BY BlocksReleased
<1> QED BY InvariantHolds, HandlersExist, <1>1, <1>2, <1>3, PTL DEF Spec, LifecycleKept, Lifecycle!Spec

-----------------------------------------------------------------------------------
(* Distinct priorities.                                                            *)

\* Of distinct priorities below the largest value, freePriority leaves distinct ones in the
\* same order, and none at the value that is to be taken.
LEMMA PriorityFreed ==
    ASSUME NEW priorities \in PriorityMap, NEW v \in Versions, NEW value \in Priority,
           Distinct(priorities), \A w \in Versions : priorities[w] # MaxPriority
    PROVE  LET freed == FreePriority(value, v, priorities) IN
           \A w \in Versions \ {v} :
               /\ freed[w] # value
               /\ freed[w] \in {priorities[w], priorities[w] + 1}
               /\ \A x \in Versions \ {v} :
                      priorities[w] # NoPriority /\ priorities[w] < priorities[x]
                          => freed[w] < freed[x]
               /\ \A x \in Versions \ {v} :
                      w # x /\ freed[w] # NoPriority => freed[w] # freed[x]
<1> DEFINE freed == FreePriority(value, v, priorities)
           D == Displaced(value, v, priorities)
<1>1. /\ MaxPriority \in Nat /\ value \in 0 .. MaxPriority /\ NoPriority = -1
      /\ \A w \in Versions : priorities[w] \in 0 .. MaxPriority \cup {-1}
  BY MaxPriorityAssumption DEF Priority, PriorityMap, NoPriority
<1>2. \A w \in Versions : freed[w] = IF w \in D THEN priorities[w] + 1 ELSE priorities[w]
  <2> SUFFICES ASSUME NEW w \in Versions
               PROVE  freed[w] = IF w \in D THEN priorities[w] + 1 ELSE priorities[w]
    OBVIOUS
  <2>1. freed[w] = IF w \in D THEN Increment(priorities[w]) ELSE priorities[w]
    BY DEF FreePriority
  <2>2. w \in D => priorities[w] \in 0 .. MaxPriority - 1
    BY <1>1 DEF Displaced
  <2>3. \A p \in 0 .. MaxPriority - 1 : Increment(p) = p + 1
    BY <1>1 DEF Increment
  <2> QED BY <2>1, <2>2, <2>3
<1>3. \A w \in Versions \ {v} :
         w \in D <=> /\ value <= priorities[w]
                     /\ \A p \in value .. priorities[w] : HoldersOf(p, priorities, v) # {}
  <2> SUFFICES ASSUME NEW w \in Versions \ {v}
               PROVE  w \in D <=> /\ value <= priorities[w]
                                  /\ \A p \in value .. priorities[w] :
                                         HoldersOf(p, priorities, v) # {}
    OBVIOUS
  <2>1. ASSUME value <= priorities[w]
        PROVE  /\ priorities[w] # NoPriority
               /\ \A x \in HoldersOf(priorities[w], priorities, v) : w <= x
    <3>1. priorities[w] # NoPriority
      BY <1>1, <2>1
    <3>2. \A x \in HoldersOf(priorities[w], priorities, v) : x = w
      BY <3>1 DEF HoldersOf, Distinct
    <3> QED BY <3>1, <3>2, VersionsAssumption
  <2> QED BY <1>1, <2>1 DEF Displaced
<1>4. \A w \in Versions \ {v} : HoldersOf(priorities[w], priorities, v) # {}
  BY DEF HoldersOf
<1> HIDE DEF D, freed
<1>5. ASSUME NEW w \in Versions \ {v} PROVE freed[w] # value
  <2>1. CASE w \in D
    BY <1>1, <1>2, <1>3, <2>1
  <2>2. CASE w \notin D
    <3> SUFFICES ASSUME priorities[w] = value PROVE FALSE
      BY <1>2, <2>2
    <3>1. \A p \in value .. priorities[w] : p = priorities[w]
      BY <1>1
    <3>2. value <= priorities[w]
      BY <1>1
    <3> QED BY <1>3, <1>4, <2>2, <3>1, <3>2
  <2> QED BY <2>1, <2>2
<1>6. ASSUME NEW w \in Versions \ {v}, NEW x \in Versions \ {v},
             priorities[w] # NoPriority, priorities[w] < priorities[x]
      PROVE  freed[w] < freed[x]
  <2>1. CASE priorities[x] = priorities[w] + 1 /\ w \in D
    <3>1. \A p \in value .. priorities[x] :
              p \in value .. priorities[w] \/ p = priorities[x]
      BY <1>1, <2>1
    <3>2. \A p \in value .. priorities[w] : HoldersOf(p, priorities, v) # {}
      BY <1>3, <2>1
    <3>3. \A p \in value .. priorities[x] : HoldersOf(p, priorities, v) # {}
      BY <1>4, <3>1, <3>2
    <3>4. value <= priorities[x]
      BY <1>1, <1>3, <2>1
    <3>5. x \in D
      BY <1>3, <3>3, <3>4
    <3> QED BY <1>1, <1>2, <2>1, <3>5
  <2>2. CASE ~(priorities[x] = priorities[w] + 1 /\ w \in D)
    BY <1>1, <1>2, <1>6, <2>2
  <2> QED BY <2>1, <2>2
<1>7. ASSUME NEW w \in Versions \ {v}, NEW x \in Versions \ {v}, w # x,
             freed[w] # NoPriority
      PROVE  freed[w] # freed[x]
  <2>1. \A y \in Versions \ {v} : freed[y] = NoPriority <=> priorities[y] = NoPriority
    BY <1>1, <1>2, <1>3
  <2>2. priorities[w] # NoPriority /\ priorities[w] # priorities[x]
    BY <1>7, <2>1 DEF Distinct
  <2>3. CASE priorities[w] < priorities[x]
    BY <1>1, <1>2, <1>6, <2>2, <2>3
  <2>4. CASE priorities[x] = NoPriority
    BY <1>7, <2>1, <2>4
  <2>5. CASE priorities[x] # NoPriority /\ priorities[x] < priorities[w]
    BY <1>1, <1>2, <1>6, <2>5
  <2> QED BY <1>1, <2>2, <2>3, <2>4, <2>5
<1> QED BY <1>2, <1>5, <1>6, <1>7 DEF freed

\* Taking a value among distinct priorities below the largest one leaves distinct ones, also
\* when both constructors of the object take it; they move the others by one at most.
LEMMA DistinctTaken ==
    ASSUME NEW priorities \in PriorityMap, NEW v \in Versions, NEW value \in Priority,
           Distinct(priorities), \A w \in Versions : priorities[w] # MaxPriority
    PROVE  /\ Distinct(TakePriority(value, v, priorities))
           /\ Distinct(ConstructPriority(value, v, priorities))
           /\ ConstructPriority(value, v, priorities)[v] = value
           /\ \A w \in Versions \ {v} : ConstructPriority(value, v, priorities)[w]
                                           \in {priorities[w], priorities[w] + 1}
<1> DEFINE freed == FreePriority(value, v, priorities)
<1>1. freed \in PriorityMap BY FreePriorityType
<1>2. \A w \in Versions \ {v} :
          /\ freed[w] # value
          /\ freed[w] \in {priorities[w], priorities[w] + 1}
          /\ \A x \in Versions \ {v} : w # x /\ freed[w] # NoPriority => freed[w] # freed[x]
  BY PriorityFreed
<1>3. FreePriority(value, v, freed) = freed
  <2>1. HoldersOf(value, freed, v) = {}
    BY <1>2 DEF HoldersOf
  <2>2. Displaced(value, v, freed) = {}
    <3> SUFFICES ASSUME NEW w \in Displaced(value, v, freed) PROVE FALSE OBVIOUS
    <3>1. w \in Versions /\ freed[w] # NoPriority /\ freed[w] >= value
      BY DEF Displaced
    <3>2. freed[w] \in Int /\ value \in Int
      BY <1>1, <3>1, MaxPriorityAssumption DEF PriorityMap, Priority
    <3>3. value \in value .. freed[w]
      BY <3>1, <3>2
    <3> QED BY <2>1, <3>3 DEF Displaced
  <2>3. FreePriority(value, v, freed) = [w \in Versions |-> freed[w]]
    BY <2>2 DEF FreePriority
  <2> QED BY <1>1, <2>3 DEF PriorityMap
<1>4. TakePriority(value, v, priorities) = [freed EXCEPT ![v] = value]
  BY DEF TakePriority
<1>5. ConstructPriority(value, v, priorities) = [freed EXCEPT ![v] = value]
  BY <1>3 DEF ConstructPriority, TakePriority
<1> HIDE DEF freed
<1>6. Distinct([freed EXCEPT ![v] = value])
  BY <1>1, <1>2 DEF Distinct, PriorityMap
<1>7. /\ [freed EXCEPT ![v] = value][v] = value
      /\ \A w \in Versions \ {v} :
             [freed EXCEPT ![v] = value][w] \in {priorities[w], priorities[w] + 1}
  BY <1>1, <1>2 DEF PriorityMap
<1> QED BY <1>4, <1>5, <1>6, <1>7

\* Removing objects keeps the others apart.
LEMMA DistinctWithout ==
    ASSUME NEW priorities, Distinct(priorities), NEW gone
    PROVE  Distinct(Without(gone, priorities))
  BY DEF Without, Distinct

\* Whatever is written, restored or activated, priorities that are distinct stay so unless
\* one of them is the largest value, from which it would wrap.
THEOREM OnlyWrapCollides ==
    Spec => [][/\ Distinct(priority)
               /\ \A v \in Versions : priority[v] # MaxPriority
               => Distinct(priority')]_vars
<1>1. ASSUME IInv, Next, Distinct(priority), \A v \in Versions : priority[v] # MaxPriority
      PROVE  Distinct(priority')
  <2>0. TypeOK /\ priority \in PriorityMap
    BY <1>1 DEF IInv, TypeOK
  <2>1. CASE UNCHANGED priority
    BY <1>1, <2>1 DEF Distinct
  <2>2. CASE Terminate
    BY <2>2 DEF Terminate, Distinct
  <2>3. ASSUME NEW v \in Versions, StartActivation(v) \/ Delete(v) PROVE Distinct(priority')
    <3>1. \E gone : priority' = Without(gone, priority)
      BY <2>3 DEF StartActivation, Delete
    <3> QED BY <1>1, <3>1, DistinctWithout
  <2>4. ASSUME NEW v \in Versions, NEW value \in WrittenPriorities, WritePriority(v, value)
        PROVE  Distinct(priority')
    <3>1. value \in Priority
      BY PrioritiesAssumption
    <3> QED BY <1>1, <2>0, <2>4, <3>1, DistinctTaken DEF WritePriority
  <2>5. ASSUME NEW w \in Versions, Handle(w), ~Terminate PROVE Distinct(priority')
    <3>1. CASE VolumesMissing(w) \/ HandleFailure(w)
      <4>1. \E gone : priority' = Without(gone, priority)
        BY <3>1 DEF VolumesMissing, HandleFailure
      <4> QED BY <1>1, <4>1, DistinctWithout
    <3>2. CASE Finish(w)
      <4> DEFINE left == Without(FreeSpace \cup {w}, priority)
                 new == ConstructPriority(0, w, left)
      <4>1. priority' = IF MountFailed(w) THEN [new EXCEPT ![w] = NoPriority] ELSE new
        BY <2>5, <3>2 DEF Finish
      <4>2. left \in PriorityMap /\ \A v \in Versions : left[v] # MaxPriority
        BY <1>1, <2>0, MaxPriorityAssumption DEF Without, PriorityMap, NoPriority
      <4>3. Distinct(left)
        BY <1>1, DistinctWithout
      <4>4. Distinct(new) /\ new \in PriorityMap
        <5> HIDE DEF left
        <5> QED BY <4>2, <4>3, DistinctTaken, ConstructPriorityType, NoPriorityApart
      <4> HIDE DEF new
      <4>5. Distinct([new EXCEPT ![w] = NoPriority])
        BY <4>4 DEF Distinct, PriorityMap
      <4> QED BY <4>1, <4>4, <4>5
    <3> QED BY <2>5, <3>1, <3>2 DEF Handle, HandleWithoutProgress
  <2>6. ASSUME NEW v \in Versions, Scan(v) PROVE Distinct(priority')
    <3>1. CASE UNCHANGED priority
      BY <1>1, <3>1
    <3>2. CASE ~UNCHANGED priority
      <4>1. PICK value \in IF stored[v] # NoPriority THEN {stored[v]} ELSE FallbackPriorities :
                priority' = ConstructPriority(value, v, priority)
        BY <2>6, <3>2 DEF Scan, ScanImage, ScanRemains
      <4>2. value \in Priority
        BY <2>0, <4>1, PrioritiesAssumption DEF TypeOK, PriorityMap
      <4> QED BY <1>1, <2>0, <4>1, <4>2, DistinctTaken
    <3> QED BY <3>1, <3>2
  <2>7. CASE ClientCall
    <3>1. \/ UNCHANGED priority
          \/ \E v \in Versions : StartActivation(v) \/ Delete(v)
          \/ \E v \in Versions, value \in WrittenPriorities : WritePriority(v, value)
      BY <2>7 DEF ClientCall, CreateActivation, Request
    <3> QED BY <2>1, <2>3, <2>4, <3>1
  <2>8. CASE Daemon
    <3>1. \/ UNCHANGED priority \/ Terminate
          \/ \E v \in Versions : Handle(v) \/ Scan(v)
      BY <2>8 DEF Daemon, Receive, ReceiveOther, WatchCallback, Crash, Start, EndScan, objectVars
    <3> QED BY <2>1, <2>2, <2>5, <2>6, <3>1
  <2>9. CASE System
    <3>1. UNCHANGED priority
      BY <2>9 DEF System, MountStep, MountFails, UmountRo, UmountRw, UpdateSymlinks,
              ChassisChange, systemdUnchanged, objectVars
    <3> QED BY <2>1, <3>1
  <2> QED BY <1>1, <2>7, <2>8, <2>9 DEF Next
<1>2. IInv /\ [Next]_vars
      => [/\ Distinct(priority)
          /\ \A v \in Versions : priority[v] # MaxPriority
          => Distinct(priority')]_vars
  BY <1>1
<1> QED BY <1>2, InvariantHolds, PTL DEF Spec

-----------------------------------------------------------------------------------
(* The version that boots next.                                                    *)

\* Only active versions have a priority file; and while an activation is under way the
\* connection is subscribed, so that its end does not take the process with it.
Filed ==
    /\ \A v \in Versions : stored[v] # NoPriority => activation[v] = "Active"
    /\ transition # {} => subscribed

\* What is known where updates come one at a time.
LEMMA AloneKnown ==
    ASSUME OneAtATime, Undisturbed => Jobs /\ Overlaps, OneByOne => Jobs /\ Leads
    PROVE  /\ Jobs /\ AtMostOne(transition)
           /\ ~(linkEvent /\ LinkTarget = "absent")
           /\ ~Happens("delete") /\ ~Happens("crash")
<1>1. ~Happens("delete") /\ ~Happens("crash") /\ ~Happens("parallel")
  BY DEF OneAtATime, Happens
<1>2. CASE ~Happens("symlink")
  <2>1. Undisturbed
    BY <1>1, <1>2 DEF Undisturbed, Happens
  <2> QED BY <1>1, <2>1 DEF Overlaps
<1>3. CASE Happens("symlink")
  <2>1. OneByOne
    BY <1>1, <1>3 DEF OneAtATime, OneByOne, Happens
  <2> QED BY <1>1, <2>1 DEF Leads, LinkTarget
<1> QED BY <1>2, <1>3

\* Storing the priorities of a step adds no file but that of its version.
LEMMA PersistFiled ==
    ASSUME IInv, \A w \in Versions : stored[w] # NoPriority => activation[w] = "Active",
           NEW v \in Versions, NEW value \in Priority,
           NEW old \in PriorityMap, \A w \in Versions : old[w] # NoPriority => activation[w] = "Active",
           NEW new \in {TakePriority(value, v, old), ConstructPriority(value, v, old)}
    PROVE  \A w \in Versions \ {v} :
               Persist(v, old, new)[w] # NoPriority => activation[w] = "Active"
<1>1. stored \in PriorityMap
  BY DEF IInv, TypeOK
<1>2. /\ new \in PriorityMap /\ new[v] = value
      /\ \A w \in Versions \ {v} : new[w] = NoPriority <=> old[w] = NoPriority
  BY TakePriorityType, ConstructPriorityType
<1>3. \A w \in Versions \ {v} : old[w] = NoPriority => Persist(v, old, new)[w] = stored[w]
  BY <1>1, <1>2, NoPriorityApart, PersistKeeps
<1> QED BY <1>3

\* The invariant of the files is inductive.
LEMMA FiledStep ==
    ASSUME IInv, Filed, OneAtATime, [Next]_vars,
           Undisturbed => Jobs /\ Overlaps, OneByOne => Jobs /\ Leads
    PROVE  Filed'
<1> DEFINE Files == \A v \in Versions : stored[v] # NoPriority => activation[v] = "Active"
<1>0. /\ TypeOK /\ Jobs /\ Files /\ AtMostOne(transition)
      /\ ~Happens("delete") /\ ~Happens("crash")
  BY AloneKnown DEF IInv, Filed
<1>1. ASSUME Terminate, phase # "down" PROVE FALSE
  BY <1>0, <1>1, AloneKnown, ProcessEnds DEF Filed
<1>2. CASE UNCHANGED vars
  BY <1>2 DEF vars, objectVars, Filed
<1>3. ASSUME NEW v \in Versions, CreateActivation(v) PROVE Filed'
  BY <1>0, <1>3 DEF CreateActivation, TypeOK, Filed
<1>4. ASSUME NEW v \in Versions, StartActivation(v) PROVE Filed'
  <2>1. /\ stored' = Without(FreeSpace, stored) /\ subscribed'
        /\ activation[v] \in {"Ready", "Failed"}
        /\ \A w \in Versions : w # v /\ w \notin FreeSpace => activation'[w] = activation[w]
    BY <1>4 DEF StartActivation, SetState
  <2>2. \A w \in Versions : stored'[w] # NoPriority => w \notin FreeSpace /\ stored[w] # NoPriority
    BY <2>1 DEF Without
  <2> QED BY <1>0, <2>1, <2>2 DEF Filed
<1>5. ASSUME NEW v \in Versions, NEW value \in WrittenPriorities, WritePriority(v, value)
      PROVE  Filed'
  <2>1. value \in Priority
    BY PrioritiesAssumption
  <2>2. activation[v] = "Active" /\ \A w \in Versions : priority[w] # NoPriority => activation[w] = "Active"
    BY <1>5 DEF WritePriority, IInv, PriorityIffActive, ActiveVersions
  <2>3. \A w \in Versions : stored'[w] # NoPriority => activation[w] = "Active"
    BY <1>0, <1>5, <2>1, <2>2, PersistFiled DEF WritePriority, TypeOK
  <2> QED BY <1>5, <2>3 DEF WritePriority, Filed
<1>6. ASSUME NEW w \in Versions, Handle(w) PROVE Filed'
  <2>0. w \in pending /\ ~Terminate
    <3>1. w \in pending
      BY <1>6 DEF Handle, HandleWithoutProgress, Finish, VolumesMissing, HandleFailure
    <3> QED BY <1>1, <3>1 DEF IInv, ScanFirst
  <2>1. transition' # {} => subscribed'
    <3>1. /\ transition' \subseteq transition \ {w}
          /\ w \in transition \/ subscribed' = subscribed
      BY <1>0, <1>6, <2>0, HandlerStep
    <3> QED BY <1>0, <3>1 DEF AtMostOne, Filed
  <2>2. CASE VolumesMissing(w)
    <3>1. activation[w] \in {"Activating", "Failed"}
      BY <2>2 DEF VolumesMissing, VolumesCreated, IInv, BlocksOnlyActivating, StaleFlagOnlyFailed
    <3>2. /\ stored' = Without(FreeSpace, stored)
          /\ \A x \in Versions : x # w /\ x \notin FreeSpace => activation'[x] = activation[x]
      BY <2>2 DEF VolumesMissing, SetState
    <3>3. \A x \in Versions : stored'[x] # NoPriority => x \notin FreeSpace /\ stored[x] # NoPriority
      BY <3>2 DEF Without
    <3> QED BY <1>0, <2>1, <3>1, <3>2, <3>3 DEF Filed
  <2>3. CASE HandleFailure(w)
    <3>1. Handling(w)
      BY <2>3 DEF HandleFailure, MountFailed, Handling
    <3>2. activation[w] = "Activating"
      BY <1>0, <3>1 DEF Jobs, OneJob, Busy, IInv, BlocksOnlyActivating
    <3> QED BY <1>0, <2>1, <2>3, <3>2 DEF HandleFailure, Filed, TypeOK
  <2>4. CASE Finish(w)
    <3> DEFINE left == Without(FreeSpace \cup {w}, priority)
               new == ConstructPriority(0, w, left)
    <3>1. w \in transition /\ VolumesCreated(w) /\ w \notin created
      BY <2>4 DEF Finish, IInv, StaleFlagOnlyFailed
    <3>2. ~MountFailed(w)
      BY <3>1 DEF VolumesCreated, MountDone, MountFailed
    <3>3. /\ stored' = Without(FreeSpace, Persist(w, left, new))
          /\ SetState(w, "Active", FreeSpace)
      BY <2>0, <2>4, <3>2 DEF Finish
    <3>4. left \in PriorityMap
      BY <1>0, WithoutType DEF TypeOK
    <3>5. \A x \in Versions : left[x] # NoPriority => activation[x] = "Active"
      BY DEF Without, IInv, PriorityIffActive, ActiveVersions
    <3> HIDE DEF left
    <3>6. \A x \in Versions \ {w} : Persist(w, left, new)[x] # NoPriority => activation[x] = "Active"
      BY <1>0, <3>4, <3>5, NoPriorityApart, PersistFiled
    <3> HIDE DEF new
    <3>7. \A x \in Versions : stored'[x] # NoPriority
              => x \notin FreeSpace /\ Persist(w, left, new)[x] # NoPriority
      BY <3>3 DEF Without
    <3>8. \A x \in Versions : stored'[x] # NoPriority => activation'[x] = "Active"
      BY <3>3, <3>6, <3>7 DEF SetState
    <3> QED BY <2>1, <3>8 DEF Filed
  <2> QED BY <1>6, <2>0, <2>2, <2>3, <2>4 DEF Handle, HandleWithoutProgress
<1>7. ASSUME NEW v \in Versions, Scan(v) PROVE Filed'
  <2>0. /\ UNCHANGED <<transition, subscribed>> /\ activation[v] = "None" /\ stored[v] = NoPriority
    BY <1>0, <1>7 DEF Scan, scanUnchanged, IInv, ScanFirst
  <2>1. CASE ScanRemains(v)
    <3>1. \A w \in Versions : stored'[w] # NoPriority => stored[w] # NoPriority
      BY <2>1 DEF ScanRemains, Without
    <3> QED BY <1>0, <2>0, <2>1, <3>1 DEF ScanRemains, Filed
  <2>2. CASE ScanImage(v)
    <3>1. CASE v \in environment.unlabelled
      BY <1>0, <2>0, <2>2, <3>1 DEF ScanImage, Filed, TypeOK
    <3>2. CASE v \notin environment.unlabelled
      <4>1. PICK value \in IF stored[v] # NoPriority THEN {stored[v]} ELSE FallbackPriorities :
                /\ priority' = ConstructPriority(value, v, priority)
                /\ stored' = Persist(v, priority, priority')
        BY <2>2, <3>2 DEF ScanImage
      <4>2. value \in Priority
        BY <2>0, <4>1, PrioritiesAssumption
      <4>3. \A w \in Versions : priority[w] # NoPriority => activation[w] = "Active"
        BY DEF IInv, PriorityIffActive, ActiveVersions
      <4>4. \A w \in Versions \ {v} : stored'[w] # NoPriority => activation[w] = "Active"
        <5>1. priority \in PriorityMap
          BY <1>0 DEF TypeOK
        <5>2. priority' \in {TakePriority(value, v, priority), ConstructPriority(value, v, priority)}
          BY <4>1
        <5>3. \A w \in Versions \ {v} :
                  Persist(v, priority, priority')[w] # NoPriority => activation[w] = "Active"
          BY <1>0, <4>2, <4>3, <5>1, <5>2, PersistFiled
        <5> QED BY <4>1, <5>3
      <4>5. activation' = [activation EXCEPT ![v] = "Active"]
        BY <2>2, <3>2 DEF ScanImage
      <4> QED BY <1>0, <2>0, <4>4, <4>5 DEF Filed, TypeOK
    <3> QED BY <3>1, <3>2
  <2> QED BY <1>7, <2>1, <2>2 DEF Scan
<1>8. CASE ClientCall
  <2>1. ASSUME NEW v \in Versions, NEW value \in BOOLEAN, Request(v, value) PROVE Filed'
    BY <2>1 DEF Request, Filed
  <2>2. \A v \in Versions : ~Delete(v)
    BY <1>0 DEF Delete
  <2> QED BY <1>3, <1>4, <1>5, <1>8, <2>1, <2>2 DEF ClientCall
<1>9. CASE Daemon
  <2>1. CASE Receive \/ ReceiveOther \/ Start \/ EndScan
    BY <2>1 DEF Receive, ReceiveOther, Start, EndScan, objectVars, Filed
  <2>2. CASE WatchCallback
    <3>1. ~Terminate
      BY <1>1, <2>2 DEF WatchCallback, Idle
    <3> QED BY <2>2, <3>1 DEF WatchCallback, objectVars, Filed
  <2>3. ~Crash
    BY <1>0 DEF Crash
  <2> QED BY <1>6, <1>7, <1>9, <2>1, <2>2, <2>3 DEF Daemon
<1>10. CASE System
  BY <1>10 DEF System, MountStep, MountFails, UmountRo, UmountRw, UpdateSymlinks,
               ChassisChange, systemdUnchanged, objectVars, Filed
<1> QED BY <1>2, <1>8, <1>9, <1>10 DEF Next

\* A number of one digit is its last.
LEMMA OneDigit == \A n \in 0 .. 9 : n % 10 = n
  OBVIOUS

\* The symlink script chooses the version whose activation has just finished: its priority
\* is 0, and of the others only active ones have a file, which freePriority has moved away
\* from 0.
THEOREM NewestBootsNextHolds ==
    ASSUME MaxActive > 1
    PROVE  Spec => NewestBootsNext
<1> DEFINE I == OneAtATime => Filed
           Chosen ==
      \A v \in Versions :
        /\ Finishes(v) /\ OneAtATime
        /\ Distinct(priority)
        /\ \A w \in Versions : priority[w] < MaxPriority /\ priority[w] < 9
        => Choices' = {v}
<1>1. Init => I
  BY DEF Init, Filed
<1>2. IInv /\ I /\ (Undisturbed => Jobs /\ Overlaps) /\ (OneByOne => Jobs /\ Leads) /\ [Next]_vars
      => I'
  <2> SUFFICES ASSUME IInv, I, Undisturbed => Jobs /\ Overlaps, OneByOne => Jobs /\ Leads,
                      [Next]_vars, OneAtATime'
               PROVE  Filed'
    OBVIOUS
  <2>1. OneAtATime
    BY EnvironmentKept DEF OneAtATime, Happens
  <2> QED BY <2>1, FiledStep
<1>3. ASSUME IInv, I, PriorityPersisted, [Next]_vars PROVE Chosen
  <2> SUFFICES ASSUME NEW v \in Versions, Finishes(v), OneAtATime, Distinct(priority),
                      \A w \in Versions : priority[w] < MaxPriority /\ priority[w] < 9
               PROVE  Choices' = {v}
    OBVIOUS
  <2> DEFINE left == Without(FreeSpace \cup {v}, priority)
             new == ConstructPriority(0, v, left)
  <2>1. /\ Finish(v) /\ ~Terminate /\ TypeOK /\ Filed
        /\ stored' = Without(FreeSpace, Persist(v, left, new))
        /\ ro' = ro /\ ro[v] # "absent"
    BY <1>3, FinishStep DEF Finish, Mounted, diskVars, IInv
  <2>2. v \notin FreeSpace
    BY <1>3, FreeSpaceActive DEF Finishes, IInv, ActiveVersions
  <2>3. left \in PriorityMap
    BY <2>1, WithoutType DEF TypeOK
  <2>4. \A w \in Versions : left[w] # MaxPriority /\ left[w] < 9
    BY <2>1, MaxPriorityAssumption DEF Without, NoPriority, PriorityMap, Priority, TypeOK
  <2>5. Distinct(left)
    BY DistinctWithout
  <2>6. \A w \in Versions : stored[w] # NoPriority => stored[w] = priority[w]
    BY <1>3, <2>1 DEF Filed, IInv, PriorityIffActive, ActiveVersions, PriorityPersisted
  <2>7. \A w \in Versions : w \notin FreeSpace \cup {v} => left[w] = priority[w]
    BY DEF Without
  <2> HIDE DEF left
  <2>8. /\ Distinct(new) /\ new \in PriorityMap /\ new[v] = 0
        /\ \A w \in Versions \ {v} : new[w] \in {left[w], left[w] + 1}
    BY <2>3, <2>4, <2>5, DistinctTaken, ConstructPriorityType, NoPriorityApart
  <2> HIDE DEF new
  <2>9. stored'[v] = 0
    BY <2>1, <2>2, <2>8 DEF Without, Persist
  <2>10. ASSUME NEW w \in Versions \ {v}
         PROVE  stored'[w] = NoPriority \/ stored'[w] \in 1 .. 9
    <3>1. new[w] = NoPriority \/ new[w] \in 1 .. 9
      <4>1. new[w] # 0
        BY <2>8, NoPriorityApart DEF Distinct
      <4>2. left[w] \in Int /\ new[w] \in Int /\ (new[w] = NoPriority \/ new[w] >= 0)
        BY <2>3, <2>8, MaxPriorityAssumption DEF PriorityMap, Priority, NoPriority
      <4> QED BY <2>4, <2>8, <4>1, <4>2
    <3>2. CASE w \in FreeSpace
      BY <2>1, <3>2 DEF Without
    <3>3. CASE w \notin FreeSpace
      <4>1. stored'[w] = IF new[w] # left[w] THEN new[w] ELSE stored[w]
        BY <2>1, <3>3 DEF Without, Persist
      <4>2. stored[w] = NoPriority \/ stored[w] = left[w]
        BY <2>6, <2>7, <3>3
      <4> QED BY <3>1, <4>1, <4>2
    <3> QED BY <3>2, <3>3
  <2>11. v \in Candidates' /\ (LastDigit(v))' = 0
    BY <2>1, <2>9, OneDigit DEF Candidates, LastDigit, NoPriority
  <2>12. \A w \in Versions : w \in Candidates' /\ w # v => (LastDigit(w))' > 0
    BY <2>10, OneDigit DEF Candidates, LastDigit
  <2>13. Candidates' \subseteq Versions /\ \A w \in Candidates' : (LastDigit(w))' \in Int /\ w \in Int
    BY <2>9, <2>10, OneDigit, VersionsAssumption DEF Candidates, LastDigit
  <2> QED BY <2>11, <2>12, <2>13 DEF Choices
<1>4. IInv /\ I /\ PriorityPersisted /\ [Next]_vars => [Chosen]_vars
  BY <1>3
<1> QED BY <1>1, <1>2, <1>4, InvariantHolds, OverlapsHold, LeadsHold, PrioritiesPersist, PTL
        DEF Spec, NewestBootsNext
====================================================================================
