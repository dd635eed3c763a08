---------------------------- MODULE StaticUpdater_proofs ---------------------------
(* What holds of StaticUpdater for any number of versions and any environment,     *)
(* updates that overlap, deletions and restarts included; and what holds of the    *)
(* flash and the running host when one update follows the other.                   *)
EXTENDS StaticUpdater, FiniteSetTheorems, SequenceTheorems, TLAPS

USE DEF outside

-----------------------------------------------------------------------------------
(* The inductive invariant.                                                        *)

\* A process that is down has no objects and no subscription.
DownIsEmpty == ~running => ~subscribed /\ \A v \in Versions : activation[v] = "None"

\* Two active versions are one and the same.
AtMostOne == \A v, w \in ActiveVersions : v = w

\* The connection is subscribed from the start of an update, which has made room, to
\* the next end, which unsubscribes: no version is active in between. This is why one
\* Unsubscribe too many ends the process instead of making a second version active.
SubscribedNoneActive == subscribed => ActiveVersions = {}

\* Activations under way block the host, and of the others only failed ones do.
BlockingInv ==
    /\ \A v \in Versions : activation[v] = "Activating" => v \in transition
    /\ \A v \in transition : activation[v] \in {"Activating", "Failed"}

IInv == TypeOK /\ DownIsEmpty /\ AtMostOne /\ SubscribedNoneActive /\ BlockingInv

-----------------------------------------------------------------------------------
(* Lemmas about the operators.                                                     *)

\* freeSpace removes all there is when there is at most one active version.
LEMMA VictimIsAll ==
    ASSUME AtMostOne
    PROVE  Victim = ActiveVersions /\ Victim \subseteq Versions
<1>1. ActiveVersions \subseteq Versions /\ Victim \subseteq ActiveVersions
  BY DEF Victim, ActiveVersions
<1>2. ASSUME NEW v \in ActiveVersions PROVE v \in Victim
  <2>1. \A w \in ActiveVersions : w = v /\ w \in Nat
    BY <1>1, VersionsAssumption DEF AtMostOne
  <2>2. \A w \in ActiveVersions : v <= w
    BY <2>1
  <2> QED BY <2>2 DEF Victim
<1> QED BY <1>1, <1>2

\* What the end of a job leaves of the jobs and of the messages in transit.
LEMMA AnnounceType ==
    ASSUME TypeOK, NEW v \in Versions, NEW result \in {"done", "failed"},
           Announce(v, result)
    PROVE  /\ job' \in [Versions -> {"idle", "erase", "program", "rest"}]
           /\ queued' \subseteq Versions
           /\ signals' \in Seq(Message)
<1>1. [unit |-> v, result |-> result] \in Message
  BY DEF Message
<1> QED BY <1>1 DEF Announce, TypeOK

-----------------------------------------------------------------------------------
(* The steps.                                                                      *)

\* The initial state satisfies the invariant.
LEMMA InitIInv == Init => IInv
<1> SUFFICES ASSUME Init PROVE IInv OBVIOUS
<1>1. environment \in Environments /\ environment.versions \subseteq Versions
  BY EnvironmentAssumption DEF Init
<1>2. TypeOK
  BY <1>1, EmptySeq DEF Init, TypeOK, NoVersion
<1>3. DownIsEmpty /\ AtMostOne /\ SubscribedNoneActive /\ BlockingInv
  BY DEF Init, DownIsEmpty, AtMostOne, SubscribedNoneActive, BlockingInv,
         ActiveVersions
<1> QED BY <1>2, <1>3 DEF IInv

\* The process ends in a state that satisfies the invariant.
LEMMA TerminateIInv ==
    ASSUME TypeOK, Terminate, UNCHANGED <<flashVars, job, outside>>, image' = image
    PROVE  IInv'
<1>1. TypeOK'
  BY EmptySeq DEF Terminate, TypeOK, NoVersion, flashVars
<1>2. (DownIsEmpty /\ AtMostOne /\ SubscribedNoneActive /\ BlockingInv)'
  BY DEF Terminate, DownIsEmpty, AtMostOne, SubscribedNoneActive, BlockingInv,
         ActiveVersions
<1> QED BY <1>1, <1>2 DEF IInv

\* A step that changes none of the objects' states, blocks and subscription keeps the
\* invariant when it keeps the types.
LEMMA QuietIInv ==
    ASSUME IInv, TypeOK', UNCHANGED <<running, activation, transition, subscribed>>
    PROVE  IInv'
  BY DEF IInv, DownIsEmpty, AtMostOne, SubscribedNoneActive, BlockingInv,
         ActiveVersions

\* The D-Bus calls of clients keep the invariant.
LEMMA ClientCallIInv == IInv /\ ClientCall => IInv'
<1> SUFFICES ASSUME IInv, ClientCall PROVE IInv' OBVIOUS
<1> USE DEF objectVars, assocVars, flashVars, outsideVars
<1>1. ASSUME NEW v \in Versions, CreateActivation(v) PROVE IInv'
  <2>1. TypeOK'
    BY <1>1 DEF CreateActivation, IInv, TypeOK
  <2>2. (DownIsEmpty /\ AtMostOne /\ SubscribedNoneActive /\ BlockingInv)'
    BY <1>1 DEF CreateActivation, IInv, TypeOK, DownIsEmpty, AtMostOne,
                SubscribedNoneActive, BlockingInv, ActiveVersions
  <2> QED BY <2>1, <2>2 DEF IInv
<1>2. ASSUME NEW v \in Versions, DropImage(v) PROVE IInv'
  BY <1>2, QuietIInv DEF DropImage, IInv, TypeOK
<1>3. ASSUME NEW v \in Versions, NEW value \in BOOLEAN, Request(v, value) PROVE IInv'
  BY <1>3, QuietIInv DEF Request, IInv, TypeOK
<1>4. ASSUME NEW v \in Versions, StartError(v) PROVE IInv'
  BY <1>4, QuietIInv DEF StartError, IInv, TypeOK
<1>5. ASSUME NEW v \in Versions, StartRefused(v) PROVE IInv'
  <2>1. /\ \A w \in Versions : activation'[w] = IF w = v THEN "Failed" ELSE activation[w]
        /\ activation' \in
              [Versions -> {"None", "Ready", "Invalid", "Activating", "Active", "Failed"}]
    BY <1>5 DEF StartRefused, SetState, IInv, TypeOK
  <2>2. transition' \subseteq transition /\ transition \ {v} \subseteq transition'
    BY <1>5 DEF StartRefused
  <2>3. TypeOK'
    BY <1>5, <2>1, <2>2 DEF StartRefused, IInv, TypeOK
  <2>4. running /\ running' /\ subscribed' = subscribed
    BY <1>5 DEF StartRefused, Requested
  <2>5. (DownIsEmpty /\ AtMostOne /\ SubscribedNoneActive /\ BlockingInv)'
    BY <2>1, <2>2, <2>4 DEF IInv, TypeOK, DownIsEmpty, AtMostOne,
                            SubscribedNoneActive, BlockingInv, ActiveVersions
  <2> QED BY <2>3, <2>5 DEF IInv
<1>6. ASSUME NEW v \in Versions, StartActivation(v) PROVE IInv'
  <2>1. Victim = ActiveVersions /\ Victim \subseteq Versions
    BY VictimIsAll DEF IInv
  <2>2. activation[v] \in {"Ready", "Failed"} /\ running /\ running' /\ subscribed'
    BY <1>6 DEF StartActivation, Requested
  <2>3. /\ \A w \in Versions :
              activation'[w] = IF w = v THEN "Activating"
                               ELSE IF w \in ActiveVersions THEN "None" ELSE activation[w]
        /\ activation' \in
              [Versions -> {"None", "Ready", "Invalid", "Activating", "Active", "Failed"}]
    BY <1>6, <2>1 DEF StartActivation, SetState, IInv, TypeOK
  <2>4. transition' = (transition \cup {v}) \ ActiveVersions
    BY <1>6, <2>1 DEF StartActivation, Started
  <2>5. job' \in [Versions -> {"idle", "erase", "program", "rest"}]
    BY <1>6 DEF StartActivation, IInv, TypeOK
  <2>6. TypeOK'
    BY <1>6, <2>1, <2>3, <2>4, <2>5 DEF StartActivation, Dissociate, IInv, TypeOK
  <2>7. ActiveVersions' = {}
    BY <2>3 DEF ActiveVersions
  <2>8. BlockingInv'
    BY <2>2, <2>3, <2>4 DEF IInv, TypeOK, BlockingInv, ActiveVersions
  <2>9. (DownIsEmpty /\ AtMostOne /\ SubscribedNoneActive)'
    BY <2>2, <2>7 DEF DownIsEmpty, AtMostOne, SubscribedNoneActive
  <2> QED BY <2>6, <2>8, <2>9 DEF IInv
<1>7. ASSUME NEW v \in Versions, Delete(v) PROVE IInv'
  <2>1. /\ \A w \in Versions : activation'[w] = IF w = v THEN "None" ELSE activation[w]
        /\ activation' \in
              [Versions -> {"None", "Ready", "Invalid", "Activating", "Active", "Failed"}]
    BY <1>7 DEF Delete, SetState, IInv, TypeOK
  <2>2. TypeOK'
    BY <1>7, <2>1 DEF Delete, Dissociate, IInv, TypeOK
  <2>3. (DownIsEmpty /\ AtMostOne /\ SubscribedNoneActive /\ BlockingInv)'
    BY <1>7, <2>1 DEF Delete, IInv, TypeOK, DownIsEmpty, AtMostOne,
                      SubscribedNoneActive, BlockingInv, ActiveVersions
  <2> QED BY <2>2, <2>3 DEF IInv
<1> QED BY <1>1, <1>2, <1>3, <1>4, <1>5, <1>6, <1>7 DEF ClientCall

\* The handlers of JobRemoved, termination and restart keep the invariant.
LEMMA DaemonIInv == IInv /\ Daemon => IInv'
<1> SUFFICES ASSUME IInv, Daemon PROVE IInv' OBVIOUS
<1> USE DEF objectVars, assocVars, flashVars, outsideVars
<1>1. CASE ReceiveIgnored
  BY <1>1, QuietIInv DEF ReceiveIgnored, IInv, TypeOK
<1>2. ASSUME NEW v \in Versions, Finish(v) PROVE IInv'
  <2>1. CASE Terminate
    <3>1. CASE image' = image
      BY <1>2, <2>1, <3>1, TerminateIInv DEF Finish, IInv
    <3>2. CASE ~(image' = image)
      BY <1>2, <2>1, <3>2 DEF Finish, Terminate, SetState, IInv, TypeOK
    <3> QED BY <3>1, <3>2
  <2>2. CASE ~Terminate
    <3>1. /\ v \in transition /\ subscribed /\ running /\ running' /\ ~subscribed'
          /\ transition' = transition \ {v}
          /\ SetState(v, "Active", {})
          /\ prioritized' = prioritized \cup {v}
          /\ image' = [image EXCEPT ![v] = "absent"]
          /\ active' = active \cup {v} /\ updateable' = updateable \cup {v}
          /\ functional' = {v} /\ functionalId' = v
          /\ signals' = Tail(signals) /\ signals # <<>>
          /\ UNCHANGED <<running, requested, fileFound, unitNamed, queued>>
          /\ UNCHANGED <<flashVars, job, outside>>
      BY <1>2, <2>2 DEF Finish, RemoveUpload
    <3>2. /\ \A w \in Versions :
                activation'[w] = IF w = v THEN "Active" ELSE activation[w]
          /\ activation' \in
                [Versions -> {"None", "Ready", "Invalid", "Activating", "Active",
                              "Failed"}]
      BY <3>1 DEF SetState, IInv, TypeOK
    <3>3. TypeOK'
      <4>1. signals' \in Seq(Message) /\ image' \in [Versions -> {"absent", "empty", "pnor"}]
        BY <3>1 DEF IInv, TypeOK
      <4>2. UNCHANGED <<requested, fileFound, unitNamed, queued, flash, whole, disturbed,
                        job, outside>>
        BY <3>1
      <4>3. running' /\ ~subscribed' /\ running' \in BOOLEAN /\ subscribed' \in BOOLEAN
        BY <1>2, <2>2, <3>1 DEF Finish, IInv, TypeOK
      <4> QED BY <3>1, <3>2, <4>1, <4>2, <4>3 DEF IInv, TypeOK
    <3>4. \A w \in Versions : activation[w] # "Active"
      BY <3>1 DEF IInv, SubscribedNoneActive, ActiveVersions
    <3>5. (DownIsEmpty /\ AtMostOne /\ SubscribedNoneActive /\ BlockingInv)'
      BY <3>1, <3>2, <3>4 DEF IInv, TypeOK, DownIsEmpty, AtMostOne,
                              SubscribedNoneActive, BlockingInv, ActiveVersions
    <3> QED BY <3>3, <3>5 DEF IInv
  <2> QED BY <2>1, <2>2
<1>3. ASSUME NEW v \in Versions, HandleFailure(v) PROVE IInv'
  <2>1. /\ \A w \in Versions : activation'[w] = IF w = v THEN "Failed" ELSE activation[w]
        /\ activation' \in
              [Versions -> {"None", "Ready", "Invalid", "Activating", "Active", "Failed"}]
    BY <1>3 DEF HandleFailure, SetState, IInv, TypeOK
  <2>2. TypeOK'
    BY <1>3, <2>1 DEF HandleFailure, IInv, TypeOK
  <2>3. (DownIsEmpty /\ AtMostOne /\ SubscribedNoneActive /\ BlockingInv)'
    BY <1>3, <2>1 DEF HandleFailure, IInv, TypeOK, DownIsEmpty, AtMostOne,
                      SubscribedNoneActive, BlockingInv, ActiveVersions
  <2> QED BY <2>2, <2>3 DEF IInv
<1>4. CASE Crash
  BY <1>4, TerminateIInv DEF Crash, IInv
<1>5. CASE Start
  <2>1. PICK labelled \in BOOLEAN :
          /\ activation' = [v \in Versions |->
                              IF v \notin Found THEN activation[v]
                              ELSE IF labelled THEN "Active" ELSE "Invalid"]
          /\ prioritized' = IF labelled THEN Found ELSE {}
          /\ active' = IF labelled THEN Found ELSE {}
    BY <1>5 DEF Start
  <2>2. Found \subseteq Versions /\ \A v, w \in Found : v = w
    BY DEF Found, IInv, TypeOK
  <2>3. \A v \in Versions : activation[v] = "None" /\ v \notin transition
    BY <1>5 DEF Start, IInv, DownIsEmpty, BlockingInv
  <2>4. activation' \in
          [Versions -> {"None", "Ready", "Invalid", "Activating", "Active", "Failed"}]
    BY <2>1, <2>3
  <2>5. /\ running' /\ updateable' = Found /\ functional' = Found
        /\ functionalId' = flash
        /\ UNCHANGED <<requested, fileFound, unitNamed, transition, subscribed, queued,
                       signals, outsideVars>>
    BY <1>5 DEF Start
  <2>6. TypeOK'
    BY <2>1, <2>2, <2>4, <2>5 DEF IInv, TypeOK
  <2>7. \A v \in Versions : activation'[v] = IF v \notin Found THEN "None"
                                             ELSE IF labelled THEN "Active" ELSE "Invalid"
    BY <2>1, <2>3
  <2>8. ~subscribed
    BY <1>5 DEF Start, IInv, DownIsEmpty
  <2>9. (DownIsEmpty /\ AtMostOne /\ SubscribedNoneActive /\ BlockingInv)'
    BY <2>2, <2>3, <2>5, <2>7, <2>8 DEF IInv, TypeOK, DownIsEmpty, AtMostOne,
                                   SubscribedNoneActive, BlockingInv, ActiveVersions
  <2> QED BY <2>6, <2>9 DEF IInv
<1> QED BY <1>1, <1>2, <1>3, <1>4, <1>5 DEF Daemon

\* pflash, systemd and the chassis keep the invariant.
LEMMA SystemIInv == IInv /\ System => IInv'
<1> SUFFICES ASSUME IInv, System PROVE IInv' OBVIOUS
<1> USE DEF objectVars, assocVars, flashVars, pflashUnchanged
<1>1. ASSUME NEW v \in Versions, PflashStep(v) PROVE IInv'
  <2>1. /\ job' \in [Versions -> {"idle", "erase", "program", "rest"}]
        /\ queued' \subseteq Versions /\ signals' \in Seq(Message)
    BY <1>1, AnnounceType DEF PflashStep, IInv, TypeOK
  <2>2. /\ flash' \in Versions \cup {NoVersion} /\ whole' \in BOOLEAN
        /\ disturbed' \subseteq Versions
    BY <1>1 DEF PflashStep, Disturbed, Programming, IInv, TypeOK
  <2>3. TypeOK'
    BY <1>1, <2>1, <2>2 DEF PflashStep, IInv, TypeOK
  <2> QED BY <1>1, <2>3, QuietIInv DEF PflashStep
<1>2. ASSUME NEW v \in Versions, PflashFails(v) PROVE IInv'
  <2>1. /\ job' \in [Versions -> {"idle", "erase", "program", "rest"}]
        /\ queued' \subseteq Versions /\ signals' \in Seq(Message)
    BY <1>2, AnnounceType DEF PflashFails, IInv
  <2>2. TypeOK'
    BY <1>2, <2>1 DEF PflashFails, IInv, TypeOK
  <2> QED BY <1>2, <2>2, QuietIInv DEF PflashFails
<1>3. CASE ChassisChange
  <2>1. TypeOK'
    BY <1>3 DEF ChassisChange, IInv, TypeOK
  <2> QED BY <1>3, <2>1, QuietIInv DEF ChassisChange
<1> QED BY <1>1, <1>2, <1>3 DEF System

\* A step that changes nothing keeps the invariant.
LEMMA StutterIInv == IInv /\ UNCHANGED vars => IInv'
  BY DEF vars, objectVars, assocVars, flashVars, IInv, TypeOK, DownIsEmpty, AtMostOne,
         SubscribedNoneActive, BlockingInv, ActiveVersions

-----------------------------------------------------------------------------------
(* The theorems.                                                                   *)

\* The inductive invariant holds in every reachable state.
THEOREM InvariantHolds == Spec => []IInv
<1>1. IInv /\ [Next]_vars => IInv'
  BY ClientCallIInv, DaemonIInv, SystemIInv, StutterIInv DEF Next
<1> QED BY InitIInv, <1>1, PTL DEF Spec

\* Every variable keeps to its type: no object of a version that is not there is made,
\* whatever the flash holds when the daemon starts.
THEOREM TypeCorrect == Spec => []TypeOK
<1>1. IInv => TypeOK BY DEF IInv
<1> QED BY InvariantHolds, <1>1, PTL

\* At most one version is active, however many updates overlap, fail, are deleted or
\* are cut off by a restart.
THEOREM OneActiveHolds == Spec => []OneActive
<1>1. ASSUME IInv PROVE OneActive
  <2>1. CASE ActiveVersions = {}
    BY <2>1, FS_EmptySet DEF OneActive
  <2>2. CASE ActiveVersions # {}
    <3>1. PICK v \in ActiveVersions : TRUE
      BY <2>2
    <3>2. ActiveVersions = {v}
      BY <1>1, <3>1 DEF IInv, AtMostOne
    <3>3. Cardinality({v}) = 1
      BY FS_Singleton
    <3> QED BY <3>2, <3>3 DEF OneActive
  <2> QED BY <2>1, <2>2
<1> QED BY InvariantHolds, <1>1, PTL

\* The static updater implements the life cycle of a version: each of its steps is a
\* step of ActivationLifecycle, with failed versions that may go on blocking the host,
\* or leaves state and blocks alone.
THEOREM StaticImplementsLifecycle == Spec => LifecycleKept
<1>1. Init => Lifecycle!Init
  BY DEF Init, Lifecycle!Init
<1>2. ASSUME IInv, [Next]_vars PROVE [Lifecycle!Next]_(Lifecycle!lifeVars)
  <2> USE DEF Lifecycle!lifeVars, objectVars
  <2>1. ASSUME NEW v, NEW state, NEW gone, SetState(v, state, gone)
        PROVE  Lifecycle!Become(v, state, gone)
    BY <2>1 DEF SetState, Lifecycle!Become
  <2>2. \A v \in Versions : {} \in Lifecycle!Removable(v)
    BY DEF Lifecycle!Removable
  <2>3. CASE Terminate
    BY <2>3 DEF Terminate, Lifecycle!Next, Lifecycle!Stop
  <2>4. ASSUME NEW v \in Versions, CreateActivation(v)
        PROVE  [Lifecycle!Next]_(Lifecycle!lifeVars)
    <3>1. CASE activation[v] = "None"
      <4>1. Lifecycle!Become(v, "Ready", {})
        BY <1>2, <2>4, <3>1 DEF CreateActivation, Lifecycle!Become, IInv, TypeOK
      <4> QED BY <2>4, <3>1, <4>1 DEF CreateActivation, Lifecycle!Next,
                                      Lifecycle!Appear
    <3>2. CASE activation[v] # "None"
      BY <2>4, <3>2 DEF CreateActivation
    <3> QED BY <3>1, <3>2
  <2>5. ASSUME NEW v \in Versions, StartRefused(v) PROVE Lifecycle!Next
    <3>1. /\ activation[v] # "None"
          /\ transition' = transition \ ({} \cup {v}) \/ transition' = transition \ {}
      BY <2>5 DEF StartRefused, Requested
    <3>2. Lifecycle!Become(v, "Failed", {})
      BY <2>1, <2>5 DEF StartRefused
    <3>3. Lifecycle!Fail(v, {})
      BY <2>2, <3>1, <3>2 DEF Lifecycle!Fail
    <3> QED BY <2>2, <3>3 DEF Lifecycle!Next
  <2>6. ASSUME NEW v \in Versions, StartActivation(v) PROVE Lifecycle!Next
    <3>1. activation[v] \in {"Ready", "Failed"}
      BY <2>6 DEF StartActivation, Requested
    <3>2. Victim \in Lifecycle!Removable(v) /\ v \notin Victim
      BY <3>1 DEF Lifecycle!Removable, Victim, ActiveVersions
    <3>3. Lifecycle!Become(v, "Activating", Victim)
      BY <2>1, <2>6 DEF StartActivation
    <3>4. transition' = (transition \ Victim) \cup {v}
      BY <2>6, <3>2 DEF StartActivation, Started
    <3> QED BY <3>1, <3>2, <3>3, <3>4 DEF Lifecycle!Next, Lifecycle!Begin
  <2>7. ASSUME NEW v \in Versions, Delete(v) PROVE Lifecycle!Next
    BY <2>1, <2>7 DEF Delete, Lifecycle!Next, Lifecycle!Delete
  <2>8. ASSUME NEW v \in Versions, Finish(v), ~Terminate PROVE Lifecycle!Next
    <3>1. /\ v \in transition /\ SetState(v, "Active", {})
          /\ transition' = transition \ ({} \cup {v})
      BY <2>8 DEF Finish
    <3>2. activation[v] = "Activating" \/ (TRUE /\ activation[v] = "Failed")
      BY <1>2, <3>1 DEF IInv, BlockingInv
    <3>3. Lifecycle!Finish(v, {})
      BY <2>1, <2>2, <3>1, <3>2 DEF Lifecycle!Finish
    <3> QED BY <2>2, <3>3 DEF Lifecycle!Next
  <2>9. ASSUME NEW v \in Versions, HandleFailure(v) PROVE Lifecycle!Next
    <3>1. activation[v] # "None" /\ transition' = transition \ {}
      BY <2>9 DEF HandleFailure, Concerned
    <3>2. Lifecycle!Fail(v, {})
      BY <2>1, <2>2, <2>9, <3>1 DEF HandleFailure, Lifecycle!Fail
    <3> QED BY <2>2, <3>2 DEF Lifecycle!Next
  <2>10. CASE Start
    <3>1. PICK labelled \in BOOLEAN :
            activation' = [v \in Versions |->
                             IF v \notin Found THEN activation[v]
                             ELSE IF labelled THEN "Active" ELSE "Invalid"]
      BY <2>10 DEF Start
    <3>2. transition' = transition /\ \A v \in Versions : activation[v] = "None"
      BY <1>2, <2>10 DEF Start, IInv, DownIsEmpty
    <3>3. CASE flash = NoVersion
      BY <1>2, <3>1, <3>2, <3>3 DEF Found, IInv, TypeOK
    <3>4. CASE flash # NoVersion
      <4>1. Found = {flash} /\ flash \in Versions
        BY <1>2, <3>4 DEF Found, IInv, TypeOK
      <4>2. Lifecycle!Become(flash, IF labelled THEN "Active" ELSE "Invalid", {})
        BY <3>1, <4>1 DEF Lifecycle!Become
      <4>3. Lifecycle!Appear(flash)
        BY <3>2, <4>1, <4>2 DEF Lifecycle!Appear
      <4> QED BY <4>1, <4>3 DEF Lifecycle!Next
    <3> QED BY <3>3, <3>4
  <2>11. CASE ClientCall
    BY <2>4, <2>5, <2>6, <2>7, <2>11 DEF ClientCall, DropImage, Request, StartError
  <2>12. CASE Daemon
    BY <2>3, <2>8, <2>9, <2>10, <2>12 DEF Daemon, ReceiveIgnored, Crash
  <2>13. CASE System \/ UNCHANGED vars
    BY <2>13 DEF System, PflashStep, PflashFails, ChassisChange, pflashUnchanged, vars
  <2> QED BY <1>2, <2>11, <2>12, <2>13 DEF Next
<1> QED BY InvariantHolds, <1>1, <1>2, PTL DEF Spec, LifecycleKept, Lifecycle!Spec

-----------------------------------------------------------------------------------
(* One update after the other.                                                     *)

\* The message that pflash has succeeded is in transit.
DoneSent(v) == \E i \in DOMAIN signals : signals[i] = [unit |-> v, result |-> "done"]

\* The versions whose unit runs, or whose end has still to be handled.
Ends == queued \cup {signals[i].unit : i \in DOMAIN signals}

\* The end of a unit finds its activation, which is the only one under way and is
\* subscribed; and it is announced once.
EndsInv ==
    /\ \A v \in Ends : v \in unitNamed \cap transition /\ activation[v] = "Activating"
    /\ \A v \in Versions : job[v] # "idle" <=> v \in queued
    /\ \A v, w \in Versions : activation[v] = "Activating" /\ activation[w] = "Activating" => v = w
    /\ \A v \in Versions : activation[v] = "Activating" => subscribed
    /\ queued # {} => signals = <<>>
    /\ Len(signals) <= 1

\* The flash holds what the last unit has written, and it is all there when the unit has
\* succeeded and when the daemon starts.
FlashInv ==
    /\ disturbed = {}
    /\ \A v \in Versions : job[v] = "rest" \/ DoneSent(v) => flash = v
    /\ \A v \in Versions : DoneSent(v) => whole
    /\ \A v \in ActiveVersions : flash = v /\ whole /\ Programming = {} /\ functionalId = v
    /\ ~running => whole = (flash # NoVersion) /\ Programming = {}

\* A host on a whole flash is on an active version, or on the one that becomes active next;
\* and whoever starts it on a whole flash starts an active version.
GuardInv ==
    /\ ~Happens("failure") =>
           /\ \A v \in transition : activation[v] = "Activating"
           /\ \A i \in DOMAIN signals : signals[i].result = "done"
    /\ running /\ chassisOn /\ whole =>
           Programming = {} /\ (ActiveVersions # {} \/ \E v \in Versions : DoneSent(v))
    /\ running /\ whole /\ transition = {} => ActiveVersions # {}

\* A behaviour stays in its surroundings.
LEMMA EnvironmentKept ==
    ASSUME [Next]_vars
    PROVE  /\ environment' = environment
           /\ \A event : (Happens(event))' = Happens(event)
<1> SUFFICES environment' = environment
  BY DEF Happens
<1>1. CASE UNCHANGED vars
  BY <1>1 DEF vars
<1>2. CASE ClientCall
  BY <1>2 DEF ClientCall, CreateActivation, DropImage, Request, StartError, StartRefused,
              StartActivation, Delete, outsideVars
<1>3. CASE Daemon
  BY <1>3 DEF Daemon, ReceiveIgnored, Finish, HandleFailure, Crash, Start, outsideVars
<1>4. CASE System
  BY <1>4 DEF System, PflashStep, PflashFails, ChassisChange, pflashUnchanged
<1> QED BY <1>1, <1>2, <1>3, <1>4 DEF Next

\* When an end is awaited, it is the end of the only unit there is.
LEMMA OnlyEnd ==
    ASSUME IInv, EndsInv
    PROVE  /\ Ends \subseteq Versions
           /\ \A v, w \in Ends : v = w
           /\ signals # <<>> => /\ Head(signals) \in Message /\ Tail(signals) = <<>>
                                /\ Head(signals).unit \in Ends /\ queued = {} /\ Programming = {}
                                /\ DOMAIN signals = {1} /\ signals[1] = Head(signals)
           /\ \A v \in Versions : DoneSent(v) => v \in Ends /\ signals # <<>>
                                                 /\ Head(signals).result = "done"
           /\ \A v \in Programming : v \in queued /\ v \in Ends /\ signals = <<>>
<1>1. signals \in Seq(Message) /\ queued \subseteq Versions
  BY DEF IInv, TypeOK
<1>2. \A i \in DOMAIN signals : signals[i] \in Message /\ signals[i].unit \in Versions
  <2>1. \A i \in DOMAIN signals : signals[i] \in Message
    BY <1>1, ElementOfSeq, LenProperties
  <2> QED BY <2>1 DEF Message
<1>3. Ends \subseteq Versions
  BY <1>1, <1>2 DEF Ends
<1>4. \A v, w \in Ends : v = w
  <2>1. \A v \in Ends : activation[v] = "Activating"
    BY DEF EndsInv
  <2>2. \A v, w \in Versions : activation[v] = "Activating" /\ activation[w] = "Activating" => v = w
    BY DEF EndsInv
  <2> QED BY <1>3, <2>1, <2>2
<1>5. ASSUME signals # <<>>
      PROVE  /\ Head(signals) \in Message /\ Tail(signals) = <<>>
             /\ DOMAIN signals = {1} /\ signals[1] = Head(signals)
  <2>1. Len(signals) = 1
    <3>1. Len(signals) \in Nat \ {0}
      BY <1>1, <1>5, EmptySeq
    <3>2. Len(signals) <= 1
      BY DEF EndsInv
    <3> QED BY <3>1, <3>2
  <2>2. Head(signals) \in Message /\ Tail(signals) \in Seq(Message) /\ Len(Tail(signals)) = 0
    BY <1>1, <1>5, <2>1, HeadTailProperties
  <2>3. Tail(signals) = <<>>
    BY <2>2, EmptySeq
  <2>4. DOMAIN signals = 1 .. 1
    BY <1>1, <2>1, LenProperties
  <2>5. signals[1] = Head(signals)
    BY <1>1, <1>5
  <2> QED BY <2>2, <2>3, <2>4, <2>5
<1>6. \A v \in Programming : v \in queued /\ v \in Ends /\ signals = <<>>
  BY DEF Programming, EndsInv, Ends
<1>7. ASSUME signals # <<>> PROVE Head(signals).unit \in Ends /\ queued = {} /\ Programming = {}
  BY <1>5, <1>6, <1>7 DEF EndsInv, Ends
<1>8. ASSUME NEW v \in Versions, DoneSent(v)
      PROVE  v \in Ends /\ signals # <<>> /\ Head(signals).result = "done"
  <2>1. PICK i \in DOMAIN signals : signals[i] = [unit |-> v, result |-> "done"]
    BY <1>8 DEF DoneSent
  <2>2. signals # <<>>
    <3>1. DOMAIN signals = 1 .. Len(signals) /\ Len(signals) \in Nat
      BY <1>1
    <3>2. DOMAIN signals # {}
      BY <2>1
    <3>3. Len(signals) # 0
      BY <3>1, <3>2
    <3> QED BY <1>1, <3>3
  <2>3. Head(signals) = signals[i]
    <3>1. DOMAIN signals = {1} /\ signals[1] = Head(signals)
      BY <1>5, <2>2
    <3> QED BY <2>1, <3>1
  <2>4. signals[i].unit = v /\ signals[i].result = "done"
    BY <2>1
  <2> QED BY <2>1, <2>2, <2>3, <2>4 DEF Ends
<1> QED BY <1>3, <1>4, <1>5, <1>6, <1>7, <1>8

\* A unit succeeds or fails: its end is announced.
LEMMA EndAnnounced ==
    ASSUME IInv, EndsInv, NEW v \in Programming, NEW result \in {"done", "failed"},
           Announce(v, result), running
    PROVE  /\ queued' = {} /\ signals' = <<[unit |-> v, result |-> result]>>
           /\ job' = [job EXCEPT ![v] = "idle"]
           /\ \A w \in Versions : job'[w] = "idle"
<1>1. v \in queued /\ signals = <<>> /\ queued \subseteq Ends /\ v \in Versions
  BY OnlyEnd DEF Ends, Programming
<1>2. Listening
  BY <1>1 DEF Listening, EndsInv, Ends
<1>3. queued = {v}
  BY <1>1, OnlyEnd
<1>4. signals' = Append(<<>>, [unit |-> v, result |-> result])
  BY <1>1, <1>2 DEF Announce
<1>5. \A w \in Versions \ {v} : job[w] = "idle"
  BY <1>3 DEF EndsInv
<1> QED BY <1>1, <1>3, <1>4, <1>5 DEF Announce, IInv, TypeOK

\* Steps that have nothing to do with units under way.
LEMMA QuietSteady ==
    ASSUME IInv, EndsInv, FlashInv,
           UNCHANGED <<running, unitNamed, subscribed, job, queued, signals, flash, whole,
                       disturbed, functionalId>>,
           \A v \in Versions :
               /\ activation'[v] = "Activating" <=> activation[v] = "Activating"
               /\ activation'[v] = "Active" => activation[v] = "Active"
               /\ activation[v] = "Activating" /\ v \in transition => v \in transition'
    PROVE  EndsInv' /\ FlashInv'
<1>1. Ends' = Ends /\ Ends \subseteq Versions
  BY OnlyEnd DEF Ends
<1>2. \A v \in Versions : (DoneSent(v))' = DoneSent(v)
  BY DEF DoneSent
<1>3. ActiveVersions' \subseteq ActiveVersions /\ Programming' = Programming
  BY DEF ActiveVersions, Programming
<1>4. EndsInv'
  BY <1>1 DEF EndsInv
<1>5. FlashInv'
  BY <1>2, <1>3 DEF FlashInv
<1> QED BY <1>4, <1>5

\* No unit is under way any more, and the version that has become active is the one on the
\* flash.
LEMMA EndSteady ==
    ASSUME FlashInv, IInv, signals' = <<>>, queued' = {}, running',
           UNCHANGED <<flash, whole, disturbed>>,
           \A w \in Versions : job'[w] = "idle" /\ activation'[w] # "Activating",
           \A w \in Versions : activation'[w] = "Active" => flash = w /\ whole /\ functionalId' = w
    PROVE  EndsInv' /\ FlashInv'
<1>1. Ends' = {} /\ Programming' = {} /\ \A w : ~(DoneSent(w))'
  BY DEF Ends, Programming, DoneSent
<1>2. Len(signals') = 0
  BY EmptySeq
<1>3. EndsInv'
  BY <1>1, <1>2 DEF EndsInv
<1>4. FlashInv'
  BY <1>1 DEF FlashInv, ActiveVersions
<1> QED BY <1>3, <1>4

\* The end that is handled is that of the only update under way.
LEMMA EndHandled ==
    ASSUME IInv, EndsInv, NEW v \in Versions, Finish(v) \/ HandleFailure(v)
    PROVE  /\ running /\ v = Head(signals).unit /\ signals # <<>> /\ queued = {} /\ Programming = {}
           /\ Head(signals) \in Message /\ Tail(signals) = <<>> /\ signals[1] = Head(signals)
           /\ DOMAIN signals = {1}
           /\ v \in transition /\ subscribed
           /\ \A w \in Versions : activation[w] = "Activating" <=> w = v
           /\ ActiveVersions = {}
<1>1. running /\ v = Head(signals).unit /\ signals # <<>>
  BY DEF Finish, HandleFailure, Concerned
<1>2. /\ queued = {} /\ Programming = {} /\ v \in Ends
        /\ Head(signals) \in Message /\ Tail(signals) = <<>>
        /\ DOMAIN signals = {1} /\ signals[1] = Head(signals)
  BY <1>1, OnlyEnd
<1>3. v \in transition /\ activation[v] = "Activating" /\ subscribed
  BY <1>2 DEF EndsInv
<1>4. \A w \in Versions : activation[w] = "Activating" <=> w = v
  BY <1>3 DEF EndsInv
<1>5. ActiveVersions = {}
  BY <1>3 DEF IInv, SubscribedNoneActive
<1> QED BY <1>1, <1>2, <1>3, <1>4, <1>5

\* The unit that runs is the only one, and its update is waiting for it.
LEMMA OneProgramming ==
    ASSUME IInv, EndsInv, FlashInv, NEW v \in Programming
    PROVE  /\ v \in Versions /\ queued = {v} /\ signals = <<>> /\ running /\ ActiveVersions = {}
           /\ activation[v] = "Activating" /\ v \in unitNamed \cap transition
           /\ Disturbed(v) = {} /\ \A w \in Versions \ {v} : job[w] = "idle"
<1>1. v \in Versions /\ v \in queued /\ v \in Ends /\ signals = <<>>
  BY OnlyEnd DEF Programming
<1>2. queued = {v}
  BY <1>1, OnlyEnd DEF Ends
<1>3. activation[v] = "Activating" /\ v \in unitNamed \cap transition
  BY <1>1 DEF EndsInv
<1>4. \A w \in Versions \ {v} : job[w] = "idle"
  BY <1>2 DEF EndsInv
<1>5. ActiveVersions = {}
  BY DEF FlashInv
<1>6. Disturbed(v) = {}
  BY <1>4 DEF Disturbed, Programming, FlashInv
<1>7. running
  BY <1>1, <1>3 DEF IInv, DownIsEmpty
<1> QED BY <1>1, <1>2, <1>3, <1>4, <1>5, <1>6, <1>7

\* What is known of units and flash is kept by the steps of updates that do not overlap.
LEMMA SteadyStep ==
    ASSUME IInv, EndsInv, FlashInv, OneAfterAnother, [Next]_vars
    PROVE  EndsInv' /\ FlashInv'
<1>0. TypeOK /\ \A event \in {"parallel", "delete", "crash"} : ~Happens(event)
  BY DEF IInv, OneAfterAnother, Happens
<1>1. CASE UNCHANGED vars
  BY <1>1, QuietSteady DEF vars, objectVars, assocVars, flashVars
<1>2. ASSUME NEW v \in Versions, CreateActivation(v) PROVE EndsInv' /\ FlashInv'
  <2>1. UNCHANGED <<running, unitNamed, transition, subscribed, job, queued, signals, flash,
                    whole, disturbed, functionalId>>
    BY <1>2 DEF CreateActivation, assocVars, flashVars
  <2>2. \A w \in Versions : activation'[w] = activation[w]
                               \/ (activation[w] = "None" /\ activation'[w] = "Ready")
    BY <1>0, <1>2 DEF CreateActivation, TypeOK
  <2> QED BY <2>1, <2>2, QuietSteady
<1>3. ASSUME NEW v \in Versions, DropImage(v) PROVE EndsInv' /\ FlashInv'
  BY <1>3, QuietSteady DEF DropImage, objectVars, assocVars, flashVars
<1>4. ASSUME NEW v \in Versions, NEW value \in BOOLEAN, Request(v, value)
      PROVE  EndsInv' /\ FlashInv'
  BY <1>4, QuietSteady DEF Request, outsideVars, assocVars, flashVars
<1>5. ASSUME NEW v \in Versions, StartError(v) PROVE EndsInv' /\ FlashInv'
  BY <1>5, QuietSteady DEF StartError, outsideVars, assocVars, flashVars
<1>6. ASSUME NEW v \in Versions, StartRefused(v) PROVE EndsInv' /\ FlashInv'
  <2>1. UNCHANGED <<running, unitNamed, subscribed, job, queued, signals, flash, whole,
                    disturbed, functionalId>>
    BY <1>6 DEF StartRefused, outsideVars, assocVars, flashVars
  <2>2. activation[v] \in {"Ready", "Failed"} /\ transition \ {v} \subseteq transition'
    BY <1>6 DEF StartRefused, Requested
  <2>3. \A w \in Versions : activation'[w] = IF w = v THEN "Failed" ELSE activation[w]
    BY <1>6 DEF StartRefused, SetState
  <2> QED BY <2>1, <2>2, <2>3, QuietSteady
<1>7. ASSUME NEW v \in Versions, StartActivation(v) PROVE EndsInv' /\ FlashInv'
  <2>1. /\ activation[v] \in {"Ready", "Failed"} /\ running /\ Programming = {}
        /\ \A w \in Versions : activation[w] # "Activating"
    BY <1>0, <1>7 DEF StartActivation, Requested
  <2>2. Victim = ActiveVersions
    BY VictimIsAll DEF IInv
  <2>3. v \notin Victim
    BY <2>1, <2>2 DEF ActiveVersions
  <2>4. \A w \in Versions : activation'[w] = IF w = v THEN "Activating"
                                             ELSE IF activation[w] = "Active" THEN "None"
                                             ELSE activation[w]
    BY <1>7, <2>2 DEF StartActivation, SetState, ActiveVersions
  <2>5. /\ v \in unitNamed' /\ v \in transition' /\ subscribed' /\ running'
        /\ queued' = queued \cup {v}
        /\ job' = IF job[v] = "idle" THEN [job EXCEPT ![v] = "erase"] ELSE job
        /\ UNCHANGED <<signals, flash, whole, disturbed, functionalId>>
    BY <1>7, <2>1, <2>3 DEF StartActivation, Started, flashVars
  <2>6. Ends = {} /\ queued = {}
    <3>1. Ends \subseteq Versions
      BY OnlyEnd
    <3> QED BY <2>1, <3>1 DEF EndsInv, Ends
  <2>7. signals = <<>>
    BY <2>6, OnlyEnd
  <2>8. \A w \in Versions : job'[w] = IF w = v THEN "erase" ELSE "idle"
    BY <1>0, <2>1, <2>5 DEF TypeOK, Programming
  <2>9. Ends' = {v}
    BY <2>5, <2>6, <2>7 DEF Ends
  <2>10. Len(signals') = 0 /\ \A w : ~(DoneSent(w))'
    BY <2>5, <2>7, EmptySeq DEF DoneSent
  <2>11. ActiveVersions' = {}
    BY <2>4 DEF ActiveVersions
  <2>12. EndsInv'
    <3>1. \A w \in Versions : activation'[w] = "Activating" => w = v
      BY <2>1, <2>4
    <3> QED BY <2>4, <2>5, <2>6, <2>7, <2>8, <2>9, <2>10, <3>1 DEF EndsInv
  <2>13. FlashInv'
    BY <2>5, <2>8, <2>10, <2>11 DEF FlashInv
  <2> QED BY <2>12, <2>13
<1>8. ASSUME ReceiveIgnored PROVE FALSE
  <2>1. signals # <<>> /\ Concerned(Head(signals)) = {}
    BY <1>8 DEF ReceiveIgnored
  <2>2. Head(signals).unit \in Ends /\ Ends \subseteq Versions
    BY <2>1, OnlyEnd
  <2>3. Head(signals).unit \in Concerned(Head(signals))
    BY <2>2 DEF Concerned, EndsInv
  <2> QED BY <2>1, <2>3
<1>9. ASSUME NEW v \in Versions, Finish(v) PROVE EndsInv' /\ FlashInv'
  <2>1. /\ running /\ queued = {} /\ Programming = {} /\ Tail(signals) = <<>>
        /\ v \in transition /\ subscribed /\ ActiveVersions = {}
        /\ \A w \in Versions : activation[w] = "Activating" <=> w = v
    BY <1>9, EndHandled
  <2>2. /\ SetState(v, "Active", {}) /\ functionalId' = v /\ signals' = Tail(signals)
        /\ UNCHANGED <<running, queued, job, flash, whole, disturbed>>
    BY <1>0, <1>9, <2>1 DEF Finish, flashVars
  <2>3. DoneSent(v)
    <3>1. Head(signals) \in Message /\ Head(signals).unit = v /\ Head(signals).result = "done"
      BY <1>9, EndHandled DEF Finish
    <3>2. Head(signals) = [unit |-> v, result |-> "done"]
      BY <3>1 DEF Message
    <3>3. signals[1] = Head(signals) /\ 1 \in DOMAIN signals
      BY <1>9, EndHandled
    <3> QED BY <3>2, <3>3 DEF DoneSent
  <2>4. \A w \in Versions : activation'[w] = IF w = v THEN "Active" ELSE activation[w]
    BY <2>2 DEF SetState
  <2>5. flash = v /\ whole
    BY <2>3 DEF FlashInv
  <2>6. \A w \in Versions : job'[w] = "idle" /\ activation'[w] # "Activating"
    BY <2>1, <2>2, <2>4 DEF Programming
  <2>7. \A w \in Versions : activation'[w] = "Active" => w = v
    BY <2>1, <2>4 DEF ActiveVersions
  <2>8. signals' = <<>> /\ queued' = {} /\ running' /\ UNCHANGED <<flash, whole, disturbed>>
    BY <2>1, <2>2
  <2>9. \A w \in Versions : activation'[w] = "Active" => flash = w /\ whole /\ functionalId' = w
    BY <2>2, <2>5, <2>7
  <2> QED BY <2>6, <2>8, <2>9, EndSteady
<1>10. ASSUME NEW v \in Versions, HandleFailure(v) PROVE EndsInv' /\ FlashInv'
  <2>1. /\ running /\ queued = {} /\ Programming = {} /\ Tail(signals) = <<>>
        /\ ActiveVersions = {}
        /\ \A w \in Versions : activation[w] = "Activating" <=> w = v
    BY <1>10, EndHandled
  <2>2. /\ SetState(v, "Failed", {}) /\ signals' = Tail(signals)
        /\ UNCHANGED <<running, queued, job, flash, whole, disturbed>>
    BY <1>10 DEF HandleFailure, outsideVars, flashVars
  <2>3. \A w \in Versions : activation'[w] = IF w = v THEN "Failed" ELSE activation[w]
    BY <2>2 DEF SetState
  <2>4. \A w \in Versions : job'[w] = "idle" /\ activation'[w] # "Activating"
    BY <2>1, <2>2, <2>3 DEF Programming
  <2>5. \A w \in Versions : activation'[w] # "Active"
    BY <2>1, <2>3 DEF ActiveVersions
  <2>6. signals' = <<>> /\ queued' = {} /\ running' /\ UNCHANGED <<flash, whole, disturbed>>
    BY <2>1, <2>2
  <2> QED BY <2>4, <2>5, <2>6, EndSteady
<1>11. ASSUME Start PROVE EndsInv' /\ FlashInv'
  <2>1. ~running /\ \A v \in Versions : activation[v] = "None"
    BY <1>11 DEF Start, IInv, DownIsEmpty
  <2>2. Ends = {} /\ queued = {} /\ signals = <<>>
    <3>1. Ends \subseteq Versions
      BY OnlyEnd
    <3>2. Ends = {}
      BY <2>1, <3>1 DEF EndsInv
    <3> QED BY <3>2, OnlyEnd DEF Ends
  <2>3. /\ running' /\ functionalId' = flash
        /\ \A v \in Versions :
              activation'[v] \in IF v \in Found THEN {"Active", "Invalid"} ELSE {"None"}
        /\ UNCHANGED <<queued, signals, job, flash, whole, disturbed>>
    BY <1>11, <2>1 DEF Start, outsideVars, flashVars
  <2>4. \A v \in Versions : job[v] = "idle"
    BY <2>1 DEF FlashInv, Programming
  <2>5. \A v \in Versions : v \in Found => flash = v /\ whole
    BY <2>1 DEF FlashInv, Found
  <2>6. \A w \in Versions : job'[w] = "idle" /\ activation'[w] # "Activating"
    BY <2>3, <2>4
  <2>7. \A w \in Versions : activation'[w] = "Active" => flash = w /\ whole /\ functionalId' = w
    BY <2>3, <2>5
  <2>8. signals' = <<>> /\ queued' = {} /\ running' /\ UNCHANGED <<flash, whole, disturbed>>
    BY <2>2, <2>3
  <2> QED BY <2>6, <2>7, <2>8, EndSteady
<1>12. ASSUME NEW v \in Programming, NEW result \in {"done", "failed"}, Announce(v, result),
              UNCHANGED pflashUnchanged, disturbed' = {}, flash' = flash,
              result = "done" => flash = v /\ whole'
       PROVE  EndsInv' /\ FlashInv'
  <2>1. /\ v \in Versions /\ ActiveVersions = {} /\ running
        /\ activation[v] = "Activating" /\ v \in unitNamed \cap transition
    BY OneProgramming
  <2>2. /\ queued' = {} /\ signals' = <<[unit |-> v, result |-> result]>>
        /\ \A w \in Versions : job'[w] = "idle"
    BY <1>12, <2>1, EndAnnounced
  <2>3. UNCHANGED <<running, unitNamed, transition, activation, subscribed, functionalId>>
    BY <1>12 DEF pflashUnchanged, objectVars, assocVars
  <2>4. /\ Len(signals') = 1 /\ DOMAIN signals' = {1}
        /\ signals'[1] = [unit |-> v, result |-> result]
    BY <2>2
  <2>5. Ends' = {v}
    BY <2>2, <2>4 DEF Ends
  <2>6. \A w \in Versions : (DoneSent(w))' => w = v /\ result = "done"
    <3> SUFFICES ASSUME NEW w \in Versions, (DoneSent(w))' PROVE w = v /\ result = "done"
      OBVIOUS
    <3>1. [unit |-> v, result |-> result] = [unit |-> w, result |-> "done"]
      BY <2>4 DEF DoneSent
    <3> QED BY <3>1
  <2>7. ActiveVersions' = {} /\ Programming' = {}
    BY <2>1, <2>2, <2>3 DEF ActiveVersions, Programming
  <2>8. EndsInv'
    BY <2>1, <2>2, <2>3, <2>4, <2>5 DEF EndsInv
  <2>9. FlashInv'
    BY <1>12, <2>1, <2>2, <2>3, <2>6, <2>7 DEF FlashInv
  <2> QED BY <2>8, <2>9
<1>13. ASSUME NEW v \in Versions, PflashStep(v) PROVE EndsInv' /\ FlashInv'
  <2>1. v \in Programming
    BY <1>13 DEF PflashStep, Programming
  <2>2. /\ queued = {v} /\ signals = <<>> /\ running /\ ActiveVersions = {}
        /\ activation[v] = "Activating" /\ v \in unitNamed \cap transition
        /\ Disturbed(v) = {} /\ \A w \in Versions \ {v} : job[w] = "idle"
    BY <2>1, OneProgramming
  <2>3. UNCHANGED pflashUnchanged
    BY <1>13 DEF PflashStep
  <2>4. CASE job[v] = "rest"
    <3>1. /\ Announce(v, "done") /\ disturbed' = {} /\ flash' = flash
          /\ whole' = (v \notin disturbed)
      BY <1>13, <2>2, <2>4 DEF PflashStep
    <3>2. flash = v /\ whole'
      BY <2>4, <3>1 DEF FlashInv
    <3> QED BY <1>12, <2>1, <2>3, <3>1, <3>2
  <2>5. CASE job[v] # "rest"
    <3>1. /\ disturbed' = {} /\ UNCHANGED <<queued, signals>>
          /\ \/ job' = [job EXCEPT ![v] = "program"]
             \/ job' = [job EXCEPT ![v] = "rest"] /\ flash' = v
      <4>1. disturbed = {}
        BY DEF FlashInv
      <4> QED BY <1>13, <2>2, <2>5, <4>1 DEF PflashStep
    <3>2. \A w \in Versions : (job'[w] # "idle" <=> w = v) /\ (job'[w] = "rest" => flash' = w)
      BY <1>0, <2>2, <3>1 DEF TypeOK
    <3>3. UNCHANGED <<running, unitNamed, transition, activation, subscribed, functionalId>>
      BY <2>3 DEF pflashUnchanged, objectVars, assocVars
    <3>4. Ends' = Ends /\ ActiveVersions' = {} /\ \A w : ~(DoneSent(w))'
      BY <2>2, <3>1, <3>3 DEF Ends, ActiveVersions, DoneSent
    <3>5. EndsInv'
      BY <2>2, <3>1, <3>2, <3>3, <3>4 DEF EndsInv
    <3>6. FlashInv'
      BY <2>2, <3>1, <3>2, <3>3, <3>4 DEF FlashInv
    <3> QED BY <3>5, <3>6
  <2> QED BY <2>4, <2>5
<1>14. ASSUME NEW v \in Versions, PflashFails(v) PROVE EndsInv' /\ FlashInv'
  <2>1. v \in Programming /\ Announce(v, "failed") /\ UNCHANGED pflashUnchanged
        /\ disturbed' = disturbed \ {v} /\ UNCHANGED <<flash, whole>>
    BY <1>14 DEF PflashFails, Programming
  <2>2. disturbed' = {}
    BY <2>1 DEF FlashInv
  <2> QED BY <1>12, <2>1, <2>2
<1>15. ASSUME ChassisChange PROVE EndsInv' /\ FlashInv'
  BY <1>15, QuietSteady DEF ChassisChange, objectVars, assocVars, flashVars
<1>16. ~Crash /\ \A v \in Versions : ~Delete(v)
  BY <1>0 DEF Crash, Delete
<1> QED BY <1>1, <1>2, <1>3, <1>4, <1>5, <1>6, <1>7, <1>8, <1>9, <1>10, <1>11, <1>13, <1>14,
           <1>15, <1>16 DEF Next, ClientCall, Daemon, System

\* Steps that leave power, flash, units and blocks alone.
LEMMA QuietGuard ==
    ASSUME GuardInv, transition \subseteq Versions,
           UNCHANGED <<running, transition, job, signals, whole, chassisOn, environment>>,
           \A v \in Versions :
               /\ v \in transition => (activation'[v] = "Activating" <=> activation[v] = "Activating")
               /\ activation'[v] = "Active" <=> activation[v] = "Active"
    PROVE  GuardInv'
<1>1. ActiveVersions' = ActiveVersions /\ Programming' = Programming
  BY DEF ActiveVersions, Programming
<1>2. \A v : (DoneSent(v))' = DoneSent(v)
  BY DEF DoneSent
<1>3. \A event : (Happens(event))' = Happens(event)
  BY DEF Happens
<1> QED BY <1>1, <1>2, <1>3 DEF GuardInv

\* What is known of the host and the blocks is kept as well, where an image names its version
\* and a wrong signature does not follow a failure.
LEMMA GuardStep ==
    ASSUME IInv, EndsInv, FlashInv, GuardInv, WholeIsGuarded, [Next]_vars
    PROVE  GuardInv'
<1>0. /\ TypeOK /\ \A event \in {"parallel", "delete", "crash", "unlabelled"} : ~Happens(event)
      /\ ~(Happens("failure") /\ Happens("signature"))
      /\ transition \subseteq Versions
      /\ (Happens("failure"))' = Happens("failure")
      /\ environment' = environment
  BY EnvironmentKept DEF IInv, TypeOK, WholeIsGuarded, OneAfterAnother, Happens
<1>1. ~Happens("failure") =>
          /\ \A v \in transition : activation[v] = "Activating"
          /\ \A i \in DOMAIN signals : signals[i].result = "done"
  BY DEF GuardInv
<1>2. \A v \in Versions : activation[v] = "Activating" => v \in transition
  BY DEF IInv, BlockingInv
<1>3. CASE UNCHANGED vars
  BY <1>0, <1>3, QuietGuard DEF vars, objectVars, assocVars, flashVars
<1>4. ASSUME NEW v \in Versions, CreateActivation(v) PROVE GuardInv'
  <2>1. UNCHANGED <<running, transition, job, signals, whole, chassisOn>>
    BY <1>4 DEF CreateActivation, flashVars
  <2>2. \A w \in Versions : activation'[w] = activation[w]
                               \/ (activation[w] = "None" /\ activation'[w] = "Ready")
    BY <1>0, <1>4 DEF CreateActivation, TypeOK
  <2> QED BY <1>0, <2>1, <2>2, QuietGuard
<1>5. ASSUME NEW v \in Versions, DropImage(v) PROVE GuardInv'
  BY <1>0, <1>5, QuietGuard DEF DropImage, objectVars, flashVars
<1>6. ASSUME NEW v \in Versions, NEW value \in BOOLEAN, Request(v, value) PROVE GuardInv'
  BY <1>0, <1>6, QuietGuard DEF Request, outsideVars, flashVars
<1>7. ASSUME NEW v \in Versions, StartError(v) PROVE GuardInv'
  BY <1>0, <1>7, QuietGuard DEF StartError, outsideVars, flashVars
<1>8. ASSUME NEW v \in Versions, StartRefused(v) PROVE GuardInv'
  <2>1. UNCHANGED <<running, job, signals, whole, chassisOn>>
    BY <1>8 DEF StartRefused, outsideVars, flashVars
  <2>2. activation[v] \in {"Ready", "Failed"}
    BY <1>8 DEF StartRefused, Requested
  <2>3. \A w \in Versions : activation'[w] = IF w = v THEN "Failed" ELSE activation[w]
    BY <1>8 DEF StartRefused, SetState
  <2>4. transition' = transition
    <3>1. CASE Happens("signature")
      <4>1. v \notin transition
        BY <1>0, <1>1, <2>2, <3>1
      <4> QED BY <1>8, <4>1 DEF StartRefused
    <3>2. CASE ~Happens("signature")
      BY <1>8, <3>2 DEF StartRefused
    <3> QED BY <3>1, <3>2
  <2> QED BY <1>0, <2>1, <2>2, <2>3, <2>4, QuietGuard
<1>9. ASSUME NEW v \in Versions, StartActivation(v) PROVE GuardInv'
  <2>1. /\ activation[v] \in {"Ready", "Failed"} /\ running /\ MakesRoom
        /\ \A w \in Versions : activation[w] # "Activating"
    BY <1>0, <1>9 DEF StartActivation, Requested
  <2>2. Victim = ActiveVersions
    BY VictimIsAll DEF IInv
  <2>3. v \notin ActiveVersions
    BY <2>1 DEF ActiveVersions
  <2>4. /\ transition' = (transition \cup {v}) \ ActiveVersions
        /\ \A w \in Versions : activation'[w] = IF w = v THEN "Activating"
                                                ELSE IF w \in ActiveVersions THEN "None"
                                                ELSE activation[w]
        /\ UNCHANGED <<running, signals, whole, chassisOn>>
    BY <1>9, <2>2 DEF StartActivation, Started, SetState, flashVars
  <2>5. ~(chassisOn /\ whole)
    <3> SUFFICES ASSUME chassisOn, whole PROVE FALSE OBVIOUS
    <3>1. ActiveVersions # {} \/ \E w \in Versions : DoneSent(w)
      BY <2>1 DEF GuardInv
    <3>2. \A w \in Versions : ~DoneSent(w)
      BY <2>1, OnlyEnd DEF EndsInv
    <3>3. PICK w \in ActiveVersions : TRUE
      BY <3>1, <3>2
    <3>4. functionalId = w
      BY <3>3 DEF FlashInv
    <3> QED BY <2>1, <2>2, <3>3, <3>4 DEF MakesRoom, Erasable, IsFunctional
  <2>6. ~Happens("failure") => \A w \in transition' : activation'[w] = "Activating"
    BY <1>0, <1>1, <2>1, <2>4
  <2>7. v \in transition'
    BY <2>3, <2>4
  <2> QED BY <1>0, <1>1, <2>4, <2>5, <2>6, <2>7 DEF GuardInv
<1>10. ASSUME NEW v \in Versions, Finish(v) PROVE GuardInv'
  <2>1. /\ running /\ Programming = {} /\ Tail(signals) = <<>> /\ v \in transition /\ subscribed
        /\ \A w \in Versions : activation[w] = "Activating" <=> w = v
    BY <1>10, EndHandled
  <2>2. /\ SetState(v, "Active", {}) /\ signals' = Tail(signals)
        /\ transition' = transition \ {v} /\ UNCHANGED job
    BY <1>0, <1>10, <2>1 DEF Finish
  <2>3. \A w \in Versions : activation'[w] = IF w = v THEN "Active" ELSE activation[w]
    BY <2>2 DEF SetState
  <2>4. signals' = <<>> /\ Programming' = {} /\ v \in ActiveVersions'
    BY <2>1, <2>2, <2>3 DEF Programming, ActiveVersions
  <2>5. \A w \in transition' : w \in transition /\ w \in Versions /\ activation'[w] = activation[w]
    BY <1>0, <2>2, <2>3
  <2>6. DOMAIN signals' = {}
    BY <2>4
  <2> QED BY <1>0, <1>1, <2>4, <2>5, <2>6 DEF GuardInv
<1>11. ASSUME NEW v \in Versions, HandleFailure(v) PROVE GuardInv'
  <2>1. /\ running /\ v \in transition /\ ActiveVersions = {} /\ signals[1] = Head(signals)
        /\ DOMAIN signals = {1} /\ Head(signals).result = "failed"
    BY <1>11, EndHandled DEF HandleFailure
  <2>2. Happens("failure")
    BY <1>1, <2>1
  <2>3. \A w \in Versions : ~DoneSent(w)
    BY <2>1, OnlyEnd
  <2>4. ~(chassisOn /\ whole)
    BY <2>1, <2>3 DEF GuardInv
  <2>5. UNCHANGED <<running, transition, whole, chassisOn>>
    BY <1>11 DEF HandleFailure, outsideVars, flashVars
  <2> QED BY <1>0, <2>1, <2>2, <2>4, <2>5 DEF GuardInv
<1>12. ASSUME Start PROVE GuardInv'
  <2>1. ~running /\ \A v \in Versions : activation[v] = "None"
    BY <1>12 DEF Start, IInv, DownIsEmpty
  <2>2. whole = (flash # NoVersion) /\ Programming = {}
    BY <2>1 DEF FlashInv
  <2>3. transition = {}
    BY <1>0, <2>1 DEF IInv, BlockingInv
  <2>4. \A v \in Versions : activation'[v] = IF v \in Found THEN "Active" ELSE activation[v]
    BY <1>0, <1>12 DEF Start
  <2>5. UNCHANGED <<transition, signals, job, whole>>
    BY <1>12 DEF Start, outsideVars, flashVars
  <2>6. ASSUME whole PROVE ActiveVersions' # {}
    <3>1. flash \in Found /\ flash \in Versions
      BY <1>0, <2>2, <2>6 DEF Found, TypeOK
    <3> QED BY <2>4, <3>1 DEF ActiveVersions
  <2>7. Programming' = {}
    BY <2>2, <2>5 DEF Programming
  <2> QED BY <1>0, <1>1, <2>3, <2>5, <2>6, <2>7 DEF GuardInv
<1>13. ASSUME NEW v \in Versions, PflashStep(v) \/ PflashFails(v)
       PROVE  /\ v \in Programming /\ v \in transition /\ activation[v] = "Activating"
              /\ running /\ ~(chassisOn /\ whole)
              /\ UNCHANGED <<running, activation, transition, chassisOn>>
  <2>1. v \in Programming /\ UNCHANGED pflashUnchanged
    BY <1>13 DEF PflashStep, PflashFails, Programming
  <2>2. v \in transition /\ activation[v] = "Activating" /\ running
    BY <2>1, OneProgramming
  <2>3. ~(chassisOn /\ whole)
    BY <2>1, <2>2 DEF GuardInv
  <2> QED BY <2>1, <2>2, <2>3 DEF pflashUnchanged, objectVars
<1>14. ASSUME NEW v \in Versions, PflashStep(v) PROVE GuardInv'
  <2>1. CASE job[v] = "rest"
    <3>1. Announce(v, "done")
      BY <1>14, <2>1 DEF PflashStep
    <3>2. signals' = <<[unit |-> v, result |-> "done"]>> /\ \A w \in Versions : job'[w] = "idle"
      BY <1>13, <1>14, <3>1, EndAnnounced
    <3>3. /\ DOMAIN signals' = {1} /\ signals'[1] = [unit |-> v, result |-> "done"]
          /\ signals'[1].result = "done"
      BY <3>2
    <3>4. (DoneSent(v))' /\ Programming' = {}
      BY <3>2, <3>3 DEF DoneSent, Programming
    <3> QED BY <1>0, <1>1, <1>13, <1>14, <3>3, <3>4 DEF GuardInv
  <2>2. CASE job[v] # "rest"
    <3>1. ~whole' /\ signals' = signals
      BY <1>14, <2>2 DEF PflashStep
    <3> QED BY <1>0, <1>1, <1>13, <1>14, <3>1 DEF GuardInv
  <2> QED BY <2>1, <2>2
<1>15. ASSUME NEW v \in Versions, PflashFails(v) PROVE GuardInv'
  <2>1. Happens("failure") /\ whole' = whole
    BY <1>15 DEF PflashFails
  <2> QED BY <1>0, <1>13, <1>15, <2>1 DEF GuardInv
<1>16. ASSUME ChassisChange PROVE GuardInv'
  <2>1. /\ UNCHANGED <<running, activation, transition, job, signals, whole>>
        /\ chassisOn' => transition = {}
    BY <1>0, <1>16 DEF ChassisChange, objectVars, flashVars, TypeOK
  <2>2. ActiveVersions' = ActiveVersions /\ Programming' = Programming
    BY <2>1 DEF ActiveVersions, Programming
  <2>3. running /\ chassisOn' /\ whole => ActiveVersions # {}
    BY <2>1 DEF GuardInv
  <2>4. ActiveVersions # {} => Programming = {}
    BY DEF FlashInv
  <2> QED BY <1>0, <1>1, <2>1, <2>2, <2>3, <2>4 DEF GuardInv
<1>17. ~ReceiveIgnored
  <2> SUFFICES ASSUME ReceiveIgnored PROVE FALSE OBVIOUS
  <2>1. signals # <<>> /\ Concerned(Head(signals)) = {}
    BY DEF ReceiveIgnored
  <2>2. Head(signals).unit \in Ends /\ Ends \subseteq Versions
    BY <2>1, OnlyEnd
  <2>3. Head(signals).unit \in Concerned(Head(signals))
    BY <2>2 DEF Concerned, EndsInv
  <2> QED BY <2>1, <2>3
<1>18. ~Crash /\ \A v \in Versions : ~Delete(v)
  BY <1>0 DEF Crash, Delete
<1> QED BY <1>3, <1>4, <1>5, <1>6, <1>7, <1>8, <1>9, <1>10, <1>11, <1>12, <1>14, <1>15,
           <1>16, <1>17, <1>18 DEF Next, ClientCall, Daemon, System

\* The daemon is down on a flash that holds a whole version or none.
LEMMA InitSteady == Init => EndsInv /\ FlashInv /\ GuardInv
<1> SUFFICES ASSUME Init PROVE EndsInv /\ FlashInv /\ GuardInv OBVIOUS
<1>1. /\ ~running /\ transition = {} /\ queued = {} /\ signals = <<>> /\ disturbed = {}
      /\ \A v \in Versions : activation[v] = "None" /\ job[v] = "idle"
      /\ whole = (flash # NoVersion)
  BY DEF Init
<1>2. Len(signals) = 0 /\ DOMAIN signals = {}
  BY <1>1
<1>3. Ends = {} /\ ActiveVersions = {} /\ Programming = {} /\ \A v : ~DoneSent(v)
  BY <1>1, <1>2 DEF Ends, ActiveVersions, Programming, DoneSent
<1> QED BY <1>1, <1>2, <1>3 DEF EndsInv, FlashInv, GuardInv

\* The inductive invariant of updates that do not overlap holds in every reachable state.
LEMMA SteadyHolds ==
    Spec => [](OneAfterAnother => EndsInv /\ FlashInv /\ (WholeIsGuarded => GuardInv))
<1> DEFINE SteadyInv == OneAfterAnother => EndsInv /\ FlashInv /\ (WholeIsGuarded => GuardInv)
<1>1. Init => SteadyInv
  BY InitSteady
<1>2. ASSUME IInv, SteadyInv, [Next]_vars PROVE SteadyInv'
  <2>1. /\ OneAfterAnother' = OneAfterAnother /\ WholeIsGuarded' = WholeIsGuarded
    BY <1>2, EnvironmentKept DEF OneAfterAnother, WholeIsGuarded, Happens
  <2>2. OneAfterAnother => (EndsInv /\ FlashInv)'
    BY <1>2, SteadyStep
  <2>3. WholeIsGuarded => GuardInv'
    BY <1>2, GuardStep DEF WholeIsGuarded
  <2> QED BY <2>1, <2>2, <2>3
<1> QED BY <1>1, <1>2, InvariantHolds, PTL DEF Spec

\* A version that is shown as Active is on the flash, all of it, and nothing programs over it,
\* however updates fail or are refused.
THEOREM ActiveIsFlashedHolds == Spec => []ActiveIsFlashed
<1>1. (OneAfterAnother => EndsInv /\ FlashInv /\ (WholeIsGuarded => GuardInv)) => ActiveIsFlashed
  BY DEF ActiveIsFlashed, FlashInv
<1> QED BY <1>1, SteadyHolds, PTL

\* The end of a unit finds the activation that started it waiting, blocking the host and with
\* its progress object.
THEOREM EndFindsActivationHolds == Spec => []EndFindsActivation
<1>1. (OneAfterAnother => EndsInv /\ FlashInv /\ (WholeIsGuarded => GuardInv)) => EndFindsActivation
  BY DEF EndFindsActivation, EndsInv, Ends
<1> QED BY <1>1, SteadyHolds, PTL

\* A host that runs from a whole flash does not lose it: while a unit programs it, either the
\* host is off or the flash was no longer whole.
THEOREM HostKeepsFlashHolds == Spec => HostKeepsFlash
<1>1. ASSUME IInv, OneAfterAnother => EndsInv /\ FlashInv /\ (WholeIsGuarded => GuardInv),
             [Next]_vars, WholeIsGuarded, chassisOn, whole
      PROVE  whole'
  <2>1. EndsInv /\ FlashInv /\ GuardInv
    BY <1>1 DEF WholeIsGuarded
  <2>2. \A v \in Versions : ~PflashStep(v)
    <3> SUFFICES ASSUME NEW v \in Versions, PflashStep(v) PROVE FALSE OBVIOUS
    <3>1. v \in Programming
      BY DEF PflashStep, Programming
    <3>2. running
      BY <1>1, <2>1, <3>1, OneProgramming
    <3> QED BY <1>1, <2>1, <3>1, <3>2 DEF GuardInv
  <2>3. CASE UNCHANGED vars
    BY <1>1, <2>3 DEF vars, flashVars
  <2>4. CASE ClientCall
    BY <1>1, <2>4 DEF ClientCall, CreateActivation, DropImage, Request, StartError, StartRefused,
                      StartActivation, Delete, outsideVars, flashVars
  <2>5. CASE Daemon
    BY <1>1, <2>5 DEF Daemon, ReceiveIgnored, Finish, HandleFailure, Crash, Start, outsideVars,
                      flashVars
  <2>6. CASE System
    BY <1>1, <2>2, <2>6 DEF System, PflashFails, ChassisChange, flashVars
  <2> QED BY <1>1, <2>3, <2>4, <2>5, <2>6 DEF Next
<1>2. IInv /\ (OneAfterAnother => EndsInv /\ FlashInv /\ (WholeIsGuarded => GuardInv)) /\ [Next]_vars
      => [WholeIsGuarded /\ chassisOn /\ whole => whole']_vars
  BY <1>1
<1> QED BY <1>2, SteadyHolds, InvariantHolds, PTL DEF Spec, HostKeepsFlash
===================================================================================
