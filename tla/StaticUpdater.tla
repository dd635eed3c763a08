-------------------------------- MODULE StaticUpdater ------------------------------
(* The host firmware update manager on the static layout, where the host has one   *)
(* flash and an update programs it in place: the daemon's objects                  *)
(* (ItemUpdaterStatic, ActivationStatic), the openpower-pnor-update@ units that    *)
(* run pflash, the JobRemoved signals that tell the daemon a unit has ended, the   *)
(* host's power, and the daemon's termination and restart.                         *)
(*                                                                                 *)
(* One step of the daemon is one D-Bus call or one signal. A JobRemoved message    *)
(* runs the handler of every activation, but the unit's name holds the path of the *)
(* image, so at most one of them acts. pflash and the chassis move in between.     *)
EXTENDS Integers, Sequences, FiniteSets

CONSTANTS
    Versions,           \* ids, in the order of the activations map
    MaxSignals,         \* bound: JobRemoved messages in transit
    Environments        \* bound: the surroundings the daemon is looked at in; one of
                        \* them holds throughout a behaviour

ASSUME VersionsAssumption == Versions \subseteq Nat /\ IsFiniteSet(Versions)
ASSUME MaxSignalsAssumption == MaxSignals \in Nat
ASSUME EnvironmentAssumption ==
    Environments \subseteq
        [events : SUBSET
             {"parallel",   \* a version is activated while others still are
              "images",     \* images without a .pnor file; uploads are removed again
              "unlabelled", \* the image on the flash names no extended version
              "signature",  \* the signature of an image is found invalid
              "error",      \* validateSignature ends with an exception
              "delete",     \* clients delete versions
              "failure",    \* pflash fails
              "mapper",     \* the power state of the chassis cannot be read
              "crash"},     \* the daemon may terminate at any time
         versions : SUBSET Versions]  \* the versions uploaded or found on the flash

NoVersion == -1

VARIABLES
    \* The daemon's objects, by version.
    running,        \* the process is there
    activation,     \* the Activation property; "None": no entry in activations
    requested,      \* the versions with RequestedActivation = Active
    fileFound,      \* the versions with pnorFilePath set
    unitNamed,      \* the versions with pnorUpdateUnit set
    transition,     \* the versions with ActivationProgress and ...BlocksTransition
    prioritized,    \* the versions with a RedundancyPriority object
    active,         \* the "active" associations
    updateable,     \* the "updateable" associations
    functional,     \* the "functional" associations
    functionalId,   \* functionalVersionId
    subscribed,     \* the connection is subscribed to systemd's signals
    \* Outside the daemon.
    image,          \* the upload of a version: absent, empty, or with a .pnor file
    flash,          \* the version whose VERSION partition the flash holds
    whole,          \* the flash holds all of that version
    job,            \* the step openpower-pnor-update@<image> has reached, or idle
    disturbed,      \* the jobs whose programming another job has overlapped
    queued,         \* the versions whose job the running process has started
    signals,        \* the JobRemoved messages of these jobs in transit
    chassisOn,      \* CurrentPowerState is not Off
    environment     \* which of the Environments this behaviour is in

objectVars == <<activation, requested, fileFound, unitNamed, transition, prioritized>>
assocVars == <<active, updateable, functional, functionalId>>
flashVars == <<flash, whole, disturbed>>
outside == <<chassisOn, environment>>
vars == <<running, objectVars, assocVars, subscribed, image, flashVars, job, queued,
          signals, outside>>

Message == [unit : Versions, result : {"done", "failed"}]

TypeOK ==
    /\ running \in BOOLEAN
    /\ activation \in
           [Versions -> {"None", "Ready", "Invalid", "Activating", "Active", "Failed"}]
    /\ requested \subseteq Versions /\ fileFound \subseteq Versions
    /\ unitNamed \subseteq Versions /\ transition \subseteq Versions
    /\ prioritized \subseteq Versions
    /\ active \subseteq Versions /\ updateable \subseteq Versions
    /\ functional \subseteq Versions
    /\ functionalId \in Versions \cup {NoVersion}
    /\ subscribed \in BOOLEAN
    /\ image \in [Versions -> {"absent", "empty", "pnor"}]
    /\ flash \in Versions \cup {NoVersion}
    /\ whole \in BOOLEAN
    /\ job \in [Versions -> {"idle", "erase", "program", "rest"}]
    /\ disturbed \subseteq Versions
    /\ queued \subseteq Versions
    /\ signals \in Seq(Message)
    /\ chassisOn \in BOOLEAN
    /\ environment \in Environments

-----------------------------------------------------------------------------------
(* What the handlers read.                                                         *)

Happens(event) == event \in environment.events

ActiveVersions == {v \in Versions : activation[v] = "Active"}
Programming == {v \in Versions : job[v] # "idle"}

\* isVersionFunctional compares with the id noted last, whatever became of it since.
IsFunctional(v) == v = functionalId

\* ItemUpdater::erase refuses to delete the version the host runs.
Erasable(v) == ~(IsFunctional(v) /\ chassisOn)

\* The mutant of Victim: the active version is left in place.
VictimSpared == {}

\* The version freeSpace erases: the first active one in the map's order.
Victim == {v \in ActiveVersions : \A w \in ActiveVersions : v <= w}

\* A mutant of MakesRoom: erase does not ask whether the host is running.
MakesRoomAlways == TRUE

\* freeSpace succeeds when there is nothing to erase or erase succeeds.
MakesRoom == \A v \in Victim : Erasable(v)

Init ==
    /\ running = FALSE
    /\ activation = [v \in Versions |-> "None"]
    /\ requested = {} /\ fileFound = {} /\ unitNamed = {}
    /\ transition = {} /\ prioritized = {}
    /\ active = {} /\ updateable = {} /\ functional = {}
    /\ functionalId = NoVersion
    /\ subscribed = FALSE
    /\ image = [v \in Versions |-> "absent"]
    /\ environment \in Environments
    /\ flash \in environment.versions \cup {NoVersion} /\ whole = (flash # NoVersion)
    /\ job = [v \in Versions |-> "idle"]
    /\ disturbed = {} /\ queued = {}
    /\ signals = <<>>
    /\ chassisOn \in {FALSE, flash # NoVersion}

-----------------------------------------------------------------------------------
(* Parts the handlers share.                                                       *)

SetState(v, state, gone) ==
    activation' = [w \in Versions |-> IF w = v THEN state
                                      ELSE IF w \in gone THEN "None"
                                      ELSE activation[w]]

\* removeAssociation
Dissociate(gone) ==
    /\ active' = active \ gone
    /\ updateable' = updateable \ gone
    /\ functional' = functional \ gone

\* The process ends: what it keeps in memory is gone, and so are its messages.
Terminate ==
    /\ running' = FALSE
    /\ activation' = [v \in Versions |-> "None"]
    /\ requested' = {} /\ fileFound' = {} /\ unitNamed' = {}
    /\ transition' = {} /\ prioritized' = {}
    /\ active' = {} /\ updateable' = {} /\ functional' = {}
    /\ functionalId' = NoVersion
    /\ subscribed' = FALSE
    /\ queued' = {} /\ signals' = <<>>

outsideVars == <<image, flashVars, job, outside>>

-----------------------------------------------------------------------------------
(* D-Bus calls.                                                                    *)

\* The image manager shows a new version. Every static image is accepted.
CreateActivation(v) ==
    /\ running
    /\ v \in environment.versions
    /\ image[v] = "absent"
    /\ \/ image' = [image EXCEPT ![v] = "pnor"]
       \/ Happens("images") /\ image' = [image EXCEPT ![v] = "empty"]
    /\ activation' = IF activation[v] = "None" THEN [activation EXCEPT ![v] = "Ready"]
                                               ELSE activation
    /\ UNCHANGED <<running, requested, fileFound, unitNamed, transition, prioritized,
                   assocVars, subscribed, flashVars, job, queued, signals, outside>>

\* The upload is deleted in the image manager.
DropImage(v) ==
    /\ Happens("images")
    /\ image[v] # "absent"
    /\ image' = [image EXCEPT ![v] = "absent"]
    /\ UNCHANGED <<running, objectVars, assocVars, subscribed, flashVars, job, queued,
                   signals, outside>>

\* RequestedActivation is written and no activation starts.
Request(v, value) ==
    /\ running
    /\ activation[v] # "None"
    /\ ~value \/ v \in requested \/ activation[v] \notin {"Ready", "Failed"}
    /\ requested' = IF value THEN requested \cup {v} ELSE requested \ {v}
    /\ UNCHANGED <<running, activation, fileFound, unitNamed, transition, prioritized,
                   assocVars, subscribed, queued, signals, outsideVars>>

\* RequestedActivation becomes Active, which starts an activation.
Requested(v) ==
    /\ running
    /\ \/ Happens("parallel")
       \/ Programming = {} /\ \A w \in Versions : activation[w] # "Activating"
    /\ v \notin requested
    /\ activation[v] \in {"Ready", "Failed"}

\* The .pnor file in the upload's directory, or the path an earlier attempt found.
FindsFile(v) == image[v] = "pnor" \/ (image[v] = "empty" /\ v \in fileFound)

\* The upload's directory cannot be opened, the check of the image throws, or the
\* chassis' state cannot be read: the exception leaves the property setter.
StartError(v) ==
    /\ Requested(v)
    /\ prioritized' = prioritized \ {v}
    /\ \/ image[v] = "absent" /\ fileFound' = fileFound
       \/ /\ FindsFile(v)
          /\ \/ Happens("error")
             \/ Happens("mapper") /\ \E w \in Victim : IsFunctional(w)
          /\ fileFound' = fileFound \cup {v}
    /\ UNCHANGED <<running, activation, requested, unitNamed, transition, assocVars,
                   subscribed, queued, signals, outsideVars>>

\* There is no image, its signature is wrong, or no room can be made. Only a wrong
\* signature releases what an earlier failure has left behind.
StartRefused(v) ==
    /\ Requested(v)
    /\ image[v] # "absent"
    /\ requested' = requested \cup {v}
    /\ SetState(v, "Failed", {})
    /\ prioritized' = prioritized \ {v}
    /\ \/ /\ image[v] = "empty" /\ v \notin fileFound
          /\ UNCHANGED <<fileFound, transition>>
       \/ /\ FindsFile(v)
          /\ fileFound' = fileFound \cup {v}
          /\ \/ Happens("signature") /\ transition' = transition \ {v}
             \/ ~MakesRoom /\ UNCHANGED transition
    /\ UNCHANGED <<running, unitNamed, assocVars, subscribed, queued, signals,
                   outsideVars>>

\* The mutant of Started: progress and block are made when the unit ends.
StartedUnblocked(v) == transition

\* startActivation makes the progress object and the block.
Started(v) == transition \cup {v}

\* Room is made and the unit is started.
StartActivation(v) ==
    /\ Requested(v)
    /\ FindsFile(v)
    /\ MakesRoom
    /\ SetState(v, "Activating", Victim)
    /\ requested' = (requested \ Victim) \cup {v}
    /\ fileFound' = (fileFound \ Victim) \cup {v}
    /\ unitNamed' = (unitNamed \ Victim) \cup {v}
    /\ transition' = Started(v) \ Victim
    /\ prioritized' = prioritized \ (Victim \cup {v})
    /\ Dissociate(Victim)
    /\ subscribed' = TRUE
    /\ job' = IF job[v] = "idle" THEN [job EXCEPT ![v] = "erase"] ELSE job
    /\ queued' = queued \cup {v}
    /\ UNCHANGED <<running, functionalId, image, flashVars, signals, outside>>

\* Object.Delete on the version.
Delete(v) ==
    /\ Happens("delete")
    /\ running
    /\ activation[v] # "None"
    /\ Erasable(v)
    /\ SetState(v, "None", {})
    /\ requested' = requested \ {v} /\ fileFound' = fileFound \ {v}
    /\ unitNamed' = unitNamed \ {v} /\ transition' = transition \ {v}
    /\ prioritized' = prioritized \ {v}
    /\ Dissociate({v})
    /\ UNCHANGED <<running, functionalId, subscribed, queued, signals, outsideVars>>

-----------------------------------------------------------------------------------
(* JobRemoved: ActivationStatic::unitStateChange.                                  *)

\* The activations whose unit the message names.
Concerned(m) == {v \in Versions : v = m.unit /\ activation[v] # "None" /\ v \in unitNamed}

ReceiveIgnored ==
    /\ running /\ signals # <<>>
    /\ Concerned(Head(signals)) = {}
    /\ signals' = Tail(signals)
    /\ UNCHANGED <<running, objectVars, assocVars, subscribed, queued, outsideVars>>

\* deleteImageManagerObject: the image manager deletes the version and its upload.
RemoveUpload(v) == image' = [image EXCEPT ![v] = "absent"]

\* finishActivation. The process ends when the progress object is gone, or with the
\* error of Unsubscribe, when another activation has unsubscribed the connection.
Finish(v) ==
    /\ running /\ signals # <<>>
    /\ v \in Concerned(Head(signals))
    /\ Head(signals).result = "done"
    /\ \/ /\ v \notin transition \/ ~subscribed \/ Happens("crash")
          /\ Terminate
          /\ UNCHANGED image
       \/ /\ v \in transition /\ subscribed
          /\ SetState(v, "Active", {})
          /\ prioritized' = prioritized \cup {v}
          /\ transition' = transition \ {v}
          /\ subscribed' = FALSE
          /\ RemoveUpload(v)
          /\ active' = active \cup {v}
          /\ updateable' = updateable \cup {v}
          /\ functional' = {v}
          /\ functionalId' = v
          /\ signals' = Tail(signals)
          /\ UNCHANGED <<running, requested, fileFound, unitNamed, queued>>
    /\ UNCHANGED <<flashVars, job, outside>>

\* The mutant of HandleFailure: a failed unit is not noticed.
HandleFailureNever(v) == FALSE /\ UNCHANGED vars

\* The unit failed. The setter of the base class is called, which only sets the
\* property: progress and block stay.
HandleFailure(v) ==
    /\ running /\ signals # <<>>
    /\ v \in Concerned(Head(signals))
    /\ Head(signals).result = "failed"
    /\ SetState(v, "Failed", {})
    /\ signals' = Tail(signals)
    /\ UNCHANGED <<running, requested, fileFound, unitNamed, transition, prioritized,
                   assocVars, subscribed, queued, outsideVars>>

-----------------------------------------------------------------------------------
(* systemd and pflash: erase the flash, then program it.                           *)

Listening == running /\ \E v \in Versions : activation[v] # "None"

\* A process that did not start the job and is not subscribed hears of its end only
\* when somebody else is subscribed.
Announce(v, result) ==
    /\ job' = [job EXCEPT ![v] = "idle"]
    /\ queued' = queued \ {v}
    /\ \/ /\ Listening /\ Len(signals) < MaxSignals
          /\ signals' = Append(signals, [unit |-> v, result |-> result])
       \/ ~(Listening /\ (v \in queued \/ subscribed)) /\ signals' = signals

\* What v does to the flash spoils what other jobs have already written.
Disturbed(v) ==
    (disturbed \cup {w \in Programming : job[w] \in {"program", "rest"}}) \ {v}

pflashUnchanged == <<running, objectVars, assocVars, subscribed, image, outside>>

\* Between "program" and "rest" the VERSION partition is written.
PflashStep(v) ==
    /\ \/ /\ job[v] = "erase"
          /\ job' = [job EXCEPT ![v] = "program"]
          /\ flash' = NoVersion /\ whole' = FALSE
          /\ disturbed' = Disturbed(v)
          /\ UNCHANGED <<queued, signals>>
       \/ /\ job[v] = "program"
          /\ job' = [job EXCEPT ![v] = "rest"]
          /\ flash' = v /\ whole' = FALSE
          /\ disturbed' = Disturbed(v) \cup (disturbed \cap {v})
          /\ UNCHANGED <<queued, signals>>
       \/ /\ job[v] = "rest"
          /\ flash' = flash /\ whole' = (v \notin disturbed)
          /\ disturbed' = Disturbed(v)
          /\ Announce(v, "done")
    /\ UNCHANGED pflashUnchanged

PflashFails(v) ==
    /\ Happens("failure")
    /\ job[v] # "idle"
    /\ disturbed' = disturbed \ {v}
    /\ Announce(v, "failed")
    /\ UNCHANGED <<pflashUnchanged, flash, whole>>

\* ActivationBlocksTransition keeps the host from being started.
ChassisChange ==
    /\ chassisOn \/ transition = {}
    /\ chassisOn' = ~chassisOn
    /\ UNCHANGED <<running, objectVars, assocVars, subscribed, image, flashVars, job,
                   queued, signals, environment>>

-----------------------------------------------------------------------------------
(* Termination and restart.                                                        *)

Crash ==
    /\ Happens("crash")
    /\ running
    /\ Terminate
    /\ UNCHANGED outsideVars

\* getPNORVersion finds the version whose VERSION partition can be read.
Found == {flash} \ {NoVersion}

\* processPNORImage shows that version: Active, or Invalid when it names no extended
\* version.
Start ==
    /\ ~running
    /\ running' = TRUE
    /\ \E labelled \in BOOLEAN :
           /\ labelled \/ Happens("unlabelled")
           /\ activation' = [v \in Versions |->
                                IF v \notin Found THEN activation[v]
                                ELSE IF labelled THEN "Active" ELSE "Invalid"]
           /\ prioritized' = IF labelled THEN Found ELSE {}
           /\ active' = IF labelled THEN Found ELSE {}
    /\ updateable' = Found /\ functional' = Found
    /\ functionalId' = flash
    /\ UNCHANGED <<requested, fileFound, unitNamed, transition, subscribed, queued,
                   signals, outsideVars>>

-----------------------------------------------------------------------------------

ClientCall ==
    \/ \E v \in Versions : CreateActivation(v)
    \/ \E v \in Versions : DropImage(v)
    \/ \E v \in Versions, value \in BOOLEAN : Request(v, value)
    \/ \E v \in Versions : StartError(v)
    \/ \E v \in Versions : StartRefused(v)
    \/ \E v \in Versions : StartActivation(v)
    \/ \E v \in Versions : Delete(v)

Daemon ==
    \/ ReceiveIgnored
    \/ \E v \in Versions : Finish(v)
    \/ \E v \in Versions : HandleFailure(v)
    \/ Crash
    \/ Start

System ==
    \/ \E v \in Versions : PflashStep(v)
    \/ \E v \in Versions : PflashFails(v)
    \/ ChassisChange

Next == ClientCall \/ Daemon \/ System

Spec == Init /\ [][Next]_vars

\* The daemon takes every message in the end, pflash ends, and Restart=always brings
\* the daemon back. A full queue of signals holds a job back (MaxSignals), hence SF.
Fairness ==
    /\ \A v \in Versions : SF_vars(PflashStep(v) \/ PflashFails(v))
    /\ WF_vars(ReceiveIgnored)
    /\ \A v \in Versions : WF_vars(Finish(v)) /\ WF_vars(HandleFailure(v))
    /\ WF_vars(Start)

FairSpec == Spec /\ Fairness

-----------------------------------------------------------------------------------
(* The promise to clients. A failed unit releases neither progress nor block.      *)

Lifecycle == INSTANCE ActivationLifecycle
                 WITH state <- activation, blocks <- transition, Lingering <- TRUE

\* Every step of the static updater is one the life cycle of a version allows.
LifecycleKept == Lifecycle!Spec

\* Every activation ends, as the life cycle asks.
LifecycleEnds == Lifecycle!FairSpec

-----------------------------------------------------------------------------------
(* Properties.                                                                     *)

\* Updates do not overlap, nothing is deleted and the daemon does not go down.
OneAfterAnother == {"parallel", "delete", "crash"} \cap environment.events = {}

\* A version that D-Bus shows as Active is on the flash, all of it, and nothing is
\* programming over it.
ActiveIsFlashed ==
    OneAfterAnother =>
        \A v \in ActiveVersions : flash = v /\ whole /\ Programming = {}

\* An update is refused, or keeps the host off, for as long as the flash holds a whole
\* version: that takes an active version on it, or a block. There is neither when the image
\* names no extended version (Start shows it as Invalid), and when an update fails before it
\* has erased the flash and a retry with a wrong signature releases its block.
WholeIsGuarded ==
    /\ OneAfterAnother
    /\ ~Happens("unlabelled")
    /\ ~(Happens("failure") /\ Happens("signature"))

\* A host that has been started from a good flash does not lose it: making room stops
\* at the version a running host uses, and from then on the block keeps the host off
\* until the end of pflash has been handled.
HostKeepsFlash == [][WholeIsGuarded /\ chassisOn /\ whole => whole']_vars

\* The end of a unit finds the activation that started it as it was left: waiting,
\* blocking the host and with its progress object, whatever other uploads did meanwhile.
EndFindsActivation ==
    OneAfterAnother =>
        \A v \in queued \cup {signals[i].unit : i \in DOMAIN signals} :
            v \in unitNamed \cap transition /\ activation[v] = "Activating"

\* At most one version is active, also when updates overlap: freeSpace erases only the
\* first active version it finds. A version becomes active with the connection
\* subscribed, which it is only from a start, when room was made, to the next end.
OneActive == Cardinality(ActiveVersions) <= 1

\* An update that finds no active version finds nothing the host could be running: that
\* is why it need not ask whether the host is on.
NoActiveMeansEmpty ==
    [][\A v \in Versions :
        /\ ActiveVersions = {} /\ Programming = {} /\ signals = <<>>
        /\ activation[v] # "Activating" /\ activation'[v] = "Activating"
        => ~whole]_vars
===================================================================================
