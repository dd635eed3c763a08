-------------------------------- MODULE UbiUpdater --------------------------------
(* The host firmware update manager on the UBI layout: the daemon's objects        *)
(* (ItemUpdaterUbi, ActivationUbi, RedundancyPriorityUbi), the systemd jobs that   *)
(* create and remove the UBI volumes, the JobRemoved signals that tell the daemon  *)
(* a job has ended, the active symlink that selects the version the host boots,    *)
(* and the daemon's termination and restart.                                       *)
(*                                                                                 *)
(* The daemon is one sd-event loop: each D-Bus call and each signal handler is one *)
(* step. systemd, the mount scripts and the chassis take steps of their own in     *)
(* between. One JobRemoved message runs the handler of every Activation object in  *)
(* turn, with no other message in between (pending).                               *)
EXTENDS PnorPriority, Sequences

CONSTANTS
    MaxActive,           \* ACTIVE_PNOR_MAX_ALLOWED
    MaxSignals,          \* bound: JobRemoved messages in transit
    WrittenPriorities,   \* bound: the priorities a D-Bus client writes
    FallbackPriorities,  \* what is restored when the /var copy is missing: the rw
                         \* volume's copy, the u-boot variable or the default
    SignatureResults,    \* how validateSignature may end: valid, invalid, error
    Environments         \* bound: the surroundings the daemon is looked at in; one of
                         \* them holds throughout a behaviour

ASSUME LimitAssumption == MaxActive \in Nat \ {0} /\ MaxSignals \in Nat
ASSUME PrioritiesAssumption ==
    /\ WrittenPriorities \subseteq Priority
    /\ FallbackPriorities \subseteq Priority
    /\ MaxPriority \in FallbackPriorities
ASSUME EnvironmentAssumption ==
    /\ SignatureResults \subseteq {"valid", "invalid", "error"}
    /\ Environments \subseteq
           [events : SUBSET
                {"parallel",  \* a version is activated while others still are
                 "invalid",   \* images without a squashfs are uploaded
                 "reupload",  \* a version is uploaded while jobs of its former life
                              \* are still running
                 "write",     \* clients write priorities
                 "delete",    \* clients delete versions
                 "signature", \* the signature of an image is found invalid
                 "failure",   \* steps of the mount jobs fail
                 "symlink",   \* the active symlink is updated
                 "chassis",   \* the chassis is switched on and off
                 "crash"},    \* the daemon may terminate at any time
            uploads : SUBSET Versions,     \* the versions that are uploaded
            unlabelled : SUBSET Versions]  \* those whose pnor.toc names no extended
                                           \* version

NoVersion == -1

VARIABLES
    \* The daemon's objects, by version.
    phase,          \* down, scan (processPNORImage) or run (the event loop)
    todo,           \* the versions under /media that the scan has still to visit
    activation,     \* the Activation property; "None": no entry in activations
    requested,      \* the versions with RequestedActivation = Active
    created,        \* the versions with ubiVolumesCreated set
    transition,     \* the versions with ActivationProgress and ...BlocksTransition
    priority,       \* the RedundancyPriority objects
    active,         \* the "active" associations
    updateable,     \* the "updateable" associations
    functional,     \* the "functional" association (NoVersion: to an empty id)
    subscribed,     \* the connection is subscribed to systemd's signals
    pending,        \* the activations that have still to handle the message
    message,        \* the JobRemoved message being handled
    \* Flash and files.
    stored,         \* the priority files in /var/lib/obmc/openpower-pnor-code-mgmt
    ro,             \* /media/pnor-ro-<id>: absent, empty, or mounted
    rw,             \* the versions with a directory /media/pnor-rw-<id>
    prsv,           \* /media/pnor-prsv exists
    link,           \* where the pnor/ro symlink points
    \* systemd, inotify and the chassis.
    mountJob,       \* the step ubimount@<id> has reached, or idle
    queued,         \* the versions whose mount job the running process has started
    umountRo,       \* the versions with a queued ubiumount-ro@<id> job
    umountRw,       \* the versions with a queued ubiumount-rw@<id> job
    signals,        \* the JobRemoved messages of ubimount jobs in transit
    linkEvent,      \* an inotify event for the new symlink is unread
    chassisOn,      \* CurrentPowerState is not Off
    environment     \* which of the Environments this behaviour is in

objectVars == <<activation, requested, created, transition, priority>>
assocVars == <<active, updateable, functional>>
handlerVars == <<pending, message>>
diskVars == <<ro, rw, prsv, link>>
mountVars == <<mountJob, queued>>
umountVars == <<umountRo, umountRw>>
outside == <<chassisOn, environment>>
vars == <<phase, todo, objectVars, assocVars, subscribed, handlerVars, stored,
          diskVars, mountVars, umountVars, signals, linkEvent, outside>>

States == {"None", "Ready", "Invalid", "Activating", "Active", "Failed"}
Message == [unit : Versions \cup {NoVersion}, result : {"done", "failed"}]
NoMessage == [unit |-> NoVersion, result |-> "done"]

TypeOK ==
    /\ phase \in {"down", "scan", "run"}
    /\ todo \subseteq Versions
    /\ activation \in [Versions -> States]
    /\ requested \subseteq Versions
    /\ created \subseteq Versions
    /\ transition \subseteq Versions
    /\ priority \in PriorityMap
    /\ active \subseteq Versions
    /\ updateable \subseteq Versions
    /\ functional \subseteq Versions \cup {NoVersion}
    /\ subscribed \in BOOLEAN
    /\ pending \subseteq Versions
    /\ message \in Message
    /\ stored \in PriorityMap
    /\ ro \in [Versions -> {"absent", "empty", "mounted"}]
    /\ rw \subseteq Versions
    /\ prsv \in BOOLEAN
    /\ link \in Versions \cup {NoVersion}
    /\ mountJob \in [Versions -> {"idle", "ro", "rw", "prsv"}]
    /\ queued \subseteq Versions
    /\ umountRo \subseteq Versions
    /\ umountRw \subseteq Versions
    /\ signals \in Seq(Message)
    /\ linkEvent \in BOOLEAN
    /\ chassisOn \in BOOLEAN
    /\ environment \in Environments

-----------------------------------------------------------------------------------
(* What the handlers read.                                                         *)

Objects == {v \in Versions : activation[v] # "None"}
ActiveVersions == {v \in Versions : activation[v] = "Active"}

Happens(event) == event \in environment.events

\* The event loop is free to take the next message.
Idle == phase = "run" /\ pending = {}

LinkTarget == IF link = NoVersion THEN "absent" ELSE ro[link]

Functional(v) == link = v /\ LinkTarget # "absent"

\* ItemUpdater::erase refuses to delete the version the host runs.
Erasable(v) == ~(Functional(v) /\ chassisOn)

\* Each activation of the running process has a match for JobRemoved.
Listening == phase # "down" /\ Objects # {}

\* systemd sends the end of a job to the connection that started it and to those that
\* are subscribed.
Owed(v) == Listening /\ (v \in queued \/ subscribed)

\* Pairs of (priority, id), highest in front.
Above(x, v) == priority[x] > priority[v] \/ (priority[x] = priority[v] /\ x > v)

\* The mutant of Spare: the functional version is not skipped.
SpareAny == ActiveVersions

\* The versions freeSpace queues for deletion.
Spare == IF MaxActive > 1 THEN {v \in ActiveVersions : ~Functional(v)}
                          ELSE ActiveVersions

\* The mutants of FreeSpace: one version too few, one too many.
FreeSpaceLate ==
    {v \in Spare : /\ Cardinality({x \in Spare : Above(x, v)})
                          < Cardinality(ActiveVersions) - MaxActive
                   /\ Erasable(v)}
FreeSpaceEager ==
    {v \in Spare : /\ Cardinality({x \in Spare : Above(x, v)})
                          <= Cardinality(ActiveVersions) - (MaxActive - 1)
                   /\ Erasable(v)}

\* The versions freeSpace deletes: from the front of the queue, as many as the
\* count of active versions exceeds MaxActive - 1.
FreeSpace ==
    {v \in Spare :
        /\ Cardinality({x \in Spare : Above(x, v)})
               < Cardinality(ActiveVersions) - (MaxActive - 1)
        /\ Erasable(v)}

\* A map of priorities once the versions gone are erased.
Without(gone, p) == [w \in Versions |-> IF w \in gone THEN NoPriority ELSE p[w]]

\* The mutant of Persist: the versions freePriority moves are not stored.
PersistOwn(v, old, new) == [stored EXCEPT ![v] = new[v]]

\* storeToFile for v and for each version freePriority moves.
Persist(v, old, new) ==
    [w \in Versions |-> IF w = v \/ new[w] # old[w] THEN new[w] ELSE stored[w]]

Init ==
    /\ phase = "down"
    /\ todo = {}
    /\ activation = [v \in Versions |-> "None"]
    /\ requested = {} /\ created = {} /\ transition = {}
    /\ priority = [v \in Versions |-> NoPriority]
    /\ active = {} /\ updateable = {} /\ functional = {}
    /\ subscribed = FALSE
    /\ pending = {} /\ message = NoMessage
    /\ stored = [v \in Versions |-> NoPriority]
    /\ ro = [v \in Versions |-> "absent"] /\ rw = {} /\ prsv = FALSE
    /\ link = NoVersion
    /\ mountJob = [v \in Versions |-> "idle"] /\ queued = {}
    /\ umountRo = {} /\ umountRw = {}
    /\ signals = <<>>
    /\ linkEvent = FALSE
    /\ chassisOn = FALSE
    /\ environment \in Environments

-----------------------------------------------------------------------------------
(* Parts the handlers share.                                                       *)

SetState(v, state, gone) ==
    activation' = [w \in Versions |-> IF w = v THEN state
                                      ELSE IF w \in gone THEN "None"
                                      ELSE activation[w]]

\* The umount jobs ItemUpdaterUbi::erase starts.
Umount(gone) ==
    /\ umountRo' = umountRo \cup gone
    /\ umountRw' = umountRw \cup gone

\* removeAssociation
Dissociate(gone) ==
    /\ active' = active \ gone
    /\ updateable' = updateable \ gone
    /\ functional' = functional \ gone

\* The process ends: what it keeps in memory is gone, and so are the messages and
\* events addressed to it.
Terminate ==
    /\ phase' = "down" /\ todo' = {}
    /\ activation' = [v \in Versions |-> "None"]
    /\ requested' = {} /\ created' = {} /\ transition' = {}
    /\ priority' = [v \in Versions |-> NoPriority]
    /\ active' = {} /\ updateable' = {} /\ functional' = {}
    /\ subscribed' = FALSE
    /\ pending' = {} /\ message' = NoMessage
    /\ signals' = <<>> /\ queued' = {}
    /\ linkEvent' = FALSE

\* The handler of w is done, and the activations gone no longer have one.
Handled(w, gone) ==
    LET left == pending \ (gone \cup {w}) IN
    /\ pending' = left
    /\ message' = IF left = {} THEN NoMessage ELSE message

-----------------------------------------------------------------------------------
(* D-Bus calls.                                                                    *)

\* The image manager shows a new version: its Activation is Ready when the image
\* directory holds the squashfs image, Invalid otherwise.
CreateActivation(v) ==
    /\ Idle
    /\ v \in environment.uploads
    /\ activation[v] = "None"
    /\ \/ Happens("reupload")
       \/ mountJob[v] = "idle" /\ v \notin umountRo \cup umountRw
    /\ \/ activation' = [activation EXCEPT ![v] = "Ready"]
       \/ /\ Happens("invalid")
          /\ activation' = [activation EXCEPT ![v] = "Invalid"]
    /\ UNCHANGED <<phase, todo, requested, created, transition, priority,
                   assocVars, subscribed, handlerVars, stored, diskVars,
                   mountVars, umountVars, signals, linkEvent, outside>>

\* The mutant of FlagsAfterRequest: a write leaves ubiVolumesCreated as it is.
FlagsKept(v) == created

\* Every write of RequestedActivation clears ubiVolumesCreated first.
FlagsAfterRequest(v) == created \ {v}

\* RequestedActivation is written and no activation starts.
Request(v, value) ==
    /\ Idle
    /\ activation[v] # "None"
    /\ \/ value = FALSE
       \/ v \in requested
       \/ activation[v] \notin {"Ready", "Failed"}
    /\ created' = FlagsAfterRequest(v)
    /\ requested' = IF value THEN requested \cup {v} ELSE requested \ {v}
    /\ UNCHANGED <<phase, todo, activation, transition, priority, assocVars,
                   subscribed, handlerVars, stored, diskVars, mountVars,
                   umountVars, signals, linkEvent, outside>>

\* RequestedActivation becomes Active: activation(Activating) with
\* ubiVolumesCreated cleared. An error of validateSignature leaves the property
\* setter as an exception, before requestedActivation is stored.
StartActivation(v) ==
    /\ Idle
    /\ Happens("parallel") \/ transition = {}
    /\ v \notin requested
    /\ activation[v] \in {"Ready", "Failed"}
    /\ \E result \in SignatureResults :
           LET gone == FreeSpace IN
           /\ result = "invalid" => Happens("signature")
           /\ SetState(v, IF result = "invalid" THEN "Failed" ELSE "Activating",
                       gone)
           /\ requested' = (requested \ gone)
                               \cup (IF result = "error" THEN {} ELSE {v})
           /\ created' = FlagsAfterRequest(v) \ gone
           /\ transition' = CASE result = "valid"   -> transition \cup {v}
                              [] result = "invalid" -> transition \ {v}
                              [] result = "error"   -> transition
           /\ priority' = Without(gone \cup {v}, priority)
           /\ stored' = Without(gone, stored)
           /\ Dissociate(gone)
           /\ Umount(gone)
           /\ mountJob' = IF result = "valid" /\ mountJob[v] = "idle"
                          THEN [mountJob EXCEPT ![v] = "ro"] ELSE mountJob
           /\ queued' = IF result = "valid" THEN queued \cup {v} ELSE queued
    /\ subscribed' = TRUE
    /\ UNCHANGED <<phase, todo, handlerVars, diskVars, signals, linkEvent,
                   outside>>

\* Object.Delete on the version.
Delete(v) ==
    /\ Happens("delete")
    /\ Idle
    /\ activation[v] # "None"
    /\ Erasable(v)
    /\ activation' = [activation EXCEPT ![v] = "None"]
    /\ requested' = requested \ {v}
    /\ created' = created \ {v}
    /\ transition' = transition \ {v}
    /\ priority' = Without({v}, priority)
    /\ stored' = Without({v}, stored)
    /\ Dissociate({v})
    /\ Umount({v})
    /\ UNCHANGED <<phase, todo, subscribed, handlerVars, diskVars, mountVars,
                   signals, linkEvent, outside>>

\* RedundancyPriority.Priority is written.
WritePriority(v, value) ==
    /\ Happens("write")
    /\ Idle
    /\ priority[v] # NoPriority
    /\ priority' = TakePriority(value, v, priority)
    /\ stored' = Persist(v, priority, priority')
    /\ UNCHANGED <<phase, todo, activation, requested, created, transition,
                   assocVars, subscribed, handlerVars, diskVars, mountVars,
                   umountVars, signals, linkEvent, outside>>

-----------------------------------------------------------------------------------
(* JobRemoved: ActivationUbi::unitStateChange of every activation. Only the        *)
(* handlers with something to do are kept: the one of the unit named in the        *)
(* message and those with ubiVolumesCreated set, which act on any message.         *)

\* The mutant of Concerned: the unit's name is never matched.
ConcernedByFlag(m) == {w \in Objects : w \in created}

Concerned(m) == {w \in Objects : w = m.unit \/ w \in created}

Receive ==
    /\ Idle
    /\ signals # <<>>
    /\ pending' = Concerned(Head(signals))
    /\ message' = IF pending' = {} THEN NoMessage ELSE Head(signals)
    /\ signals' = Tail(signals)
    /\ UNCHANGED <<phase, todo, objectVars, assocVars, subscribed, stored,
                   diskVars, mountVars, umountVars, linkEvent, outside>>

\* A JobRemoved message for some other unit: the umount and setenv jobs the daemon
\* starts itself, or any unit of the BMC.
ReceiveOther ==
    /\ Idle
    /\ created # {}
    /\ pending' = created
    /\ UNCHANGED <<phase, todo, objectVars, assocVars, subscribed, message, stored,
                   diskVars, mountVars, umountVars, signals, linkEvent, outside>>

MountDone(w) == message = [unit |-> w, result |-> "done"]
MountFailed(w) == message = [unit |-> w, result |-> "failed"]
VolumesCreated(w) == MountDone(w) \/ w \in created

\* The mutant of Mounted: the read-only directory is not looked for.
MountedWithoutRo(w) == prsv /\ w \in rw

\* The directories that activation(Activating) looks for.
Mounted(w) == prsv /\ w \in rw /\ ro[w] # "absent"

\* activationProgress is read without a check: by unitStateChange when the job is
\* done, by finishActivation when the volumes are there. Without the object the
\* process ends; freeSpace has run by then in the second case.
HandleWithoutProgress(w) ==
    /\ w \in pending \ transition
    /\ \/ MountDone(w) /\ stored' = stored /\ UNCHANGED umountVars
       \/ /\ ~MountDone(w) /\ w \in created /\ Mounted(w)
          /\ stored' = Without(FreeSpace, stored)
          /\ Umount(FreeSpace)
    /\ Terminate
    /\ UNCHANGED <<diskVars, mountJob, outside>>

\* The volumes are there: finishActivation, then Active. Two errors leave the handler,
\* which ends the process: Unsubscribe's, when another activation has unsubscribed the
\* connection in the meantime, and that of the lookup of the apply time. The priority
\* is stored by then.
Finish(w) ==
    /\ w \in pending \cap transition
    /\ VolumesCreated(w) /\ Mounted(w)
    /\ LET gone == FreeSpace
           left == Without(gone \cup {w}, priority)
           new == ConstructPriority(0, w, left)
       IN
       /\ stored' = Without(gone, Persist(w, left, new))
       /\ Umount(gone)
       /\ \/ /\ ~subscribed \/ Happens("crash")
             /\ Terminate
          \/ /\ subscribed
             /\ SetState(w, IF MountFailed(w) THEN "Failed" ELSE "Active", gone)
             /\ requested' = requested \ gone
             /\ created' = created \ (gone \cup {w})
             /\ transition' = transition \ (gone \cup {w})
             /\ priority' = IF MountFailed(w) THEN [new EXCEPT ![w] = NoPriority]
                                              ELSE new
             /\ active' = (active \ gone) \cup {w}
             /\ updateable' = (updateable \ gone) \cup {w}
             /\ functional' = functional \ gone
             /\ subscribed' = FALSE
             /\ Handled(w, gone)
             /\ UNCHANGED <<phase, todo, queued, signals, linkEvent>>
    /\ UNCHANGED <<diskVars, mountJob, outside>>

\* The volumes should be there and are not.
VolumesMissing(w) ==
    /\ w \in pending
    /\ VolumesCreated(w) /\ ~Mounted(w)
    /\ MountDone(w) => w \in transition
    /\ LET gone == FreeSpace IN
       /\ SetState(w, "Failed", gone)
       /\ requested' = requested \ gone
       /\ created' = (created \ gone) \cup {w}
       /\ transition' = transition \ (gone \cup {w})
       /\ priority' = Without(gone \cup {w}, priority)
       /\ stored' = Without(gone, stored)
       /\ Dissociate(gone)
       /\ Umount(gone)
       /\ Handled(w, gone)
    /\ UNCHANGED <<phase, todo, subscribed, diskVars, mountVars, signals, linkEvent,
                   outside>>

\* The mutant of HandleFailure: the state is set by the setter of the base class,
\* which releases nothing.
HandleFailureByBaseSetter(w) ==
    /\ w \in pending
    /\ MountFailed(w) /\ w \notin created
    /\ activation' = [activation EXCEPT ![w] = "Failed"]
    /\ Handled(w, {})
    /\ UNCHANGED <<phase, todo, requested, created, transition, priority, assocVars,
                   subscribed, stored, diskVars, mountVars, umountVars, signals,
                   linkEvent, outside>>

\* The job failed: activation(Failed).
HandleFailure(w) ==
    /\ w \in pending
    /\ MountFailed(w) /\ w \notin created
    /\ activation' = [activation EXCEPT ![w] = "Failed"]
    /\ transition' = transition \ {w}
    /\ priority' = Without({w}, priority)
    /\ Handled(w, {})
    /\ UNCHANGED <<phase, todo, requested, created, assocVars, subscribed, stored,
                   diskVars, mountVars, umountVars, signals, linkEvent, outside>>

Handle(w) ==
    \/ HandleWithoutProgress(w)
    \/ Finish(w)
    \/ VolumesMissing(w)
    \/ HandleFailure(w)

-----------------------------------------------------------------------------------
(* systemd: obmc-flash-bios-ubimount@<id> (mount the read-only volume, then the    *)
(* read-write volume, then the preserved one) and the ubiumount jobs.              *)

\* The end of the job is broadcast. A process that is not owed the message gets it
\* when somebody else is subscribed.
Announce(v, result) ==
    /\ queued' = queued \ {v}
    /\ \/ /\ Listening
          /\ Len(signals) < MaxSignals
          /\ signals' = Append(signals, [unit |-> v, result |-> result])
       \/ ~Owed(v) /\ signals' = signals

systemdUnchanged == <<phase, todo, objectVars, assocVars, subscribed, handlerVars,
                      stored, linkEvent, outside>>

MountStep(v) ==
    /\ \/ /\ mountJob[v] = "ro"
          /\ mountJob' = [mountJob EXCEPT ![v] = "rw"]
          /\ ro' = [ro EXCEPT ![v] = "mounted"]
          /\ UNCHANGED <<rw, prsv, queued, signals>>
       \/ /\ mountJob[v] = "rw"
          /\ mountJob' = [mountJob EXCEPT ![v] = "prsv"]
          /\ rw' = rw \cup {v}
          /\ UNCHANGED <<ro, prsv, queued, signals>>
       \/ /\ mountJob[v] = "prsv"
          /\ mountJob' = [mountJob EXCEPT ![v] = "idle"]
          /\ prsv' = TRUE
          /\ Announce(v, "done")
          /\ UNCHANGED <<ro, rw>>
    /\ UNCHANGED <<systemdUnchanged, link, umountVars>>

\* A step fails, after its mkdir or before: OnFailure= starts the umount jobs.
MountFails(v) ==
    /\ Happens("failure")
    /\ mountJob[v] # "idle"
    /\ mountJob' = [mountJob EXCEPT ![v] = "idle"]
    /\ ro' \in {ro, IF mountJob[v] = "ro" /\ ro[v] = "absent"
                    THEN [ro EXCEPT ![v] = "empty"] ELSE ro}
    /\ rw' \in {rw, IF mountJob[v] = "rw" THEN rw \cup {v} ELSE rw}
    /\ prsv' \in {prsv, prsv \/ mountJob[v] = "prsv"}
    /\ Announce(v, "failed")
    /\ Umount({v})
    /\ UNCHANGED <<systemdUnchanged, link>>

UmountRo(v) ==
    /\ v \in umountRo
    /\ umountRo' = umountRo \ {v}
    /\ ro' = [ro EXCEPT ![v] = "absent"]
    /\ UNCHANGED <<systemdUnchanged, rw, prsv, link, mountVars, umountRw, signals>>

UmountRw(v) ==
    /\ v \in umountRw
    /\ umountRw' = umountRw \ {v}
    /\ rw' = rw \ {v}
    /\ UNCHANGED <<systemdUnchanged, ro, prsv, link, mountVars, umountRo, signals>>

-----------------------------------------------------------------------------------
(* The active symlink, the chassis.                                                *)

\* obmc-vpnor-util reads the last digit of the priority line; ls sorts the ids and
\* -le lets the last of equals win.
LastDigit(v) == stored[v] % 10
Candidates == {v \in Versions : ro[v] # "absent" /\ stored[v] # NoPriority}
Choices ==
    {v \in Candidates : \A w \in Candidates :
        LastDigit(v) < LastDigit(w) \/ (LastDigit(v) = LastDigit(w) /\ v >= w)}

\* updatesymlinks runs before mboxd starts, and only while the chassis is off. A link
\* that already points to the chosen version is left alone.
UpdateSymlinks ==
    /\ Happens("symlink")
    /\ ~chassisOn
    /\ \/ \E v \in Choices \ {link} :
              link' = v /\ linkEvent' = (phase = "run")
       \/ Choices = {} /\ link' = NoVersion /\ linkEvent' = linkEvent
    /\ UNCHANGED <<phase, todo, objectVars, assocVars, subscribed, handlerVars,
                   stored, ro, rw, prsv, mountVars, umountVars, signals, outside>>

\* Watch::callback. std::filesystem::equivalent throws on a link to nothing.
WatchCallback ==
    /\ Idle
    /\ linkEvent
    /\ \/ /\ LinkTarget # "absent"
          /\ functional' = {IF LinkTarget = "mounted" THEN link ELSE NoVersion}
          /\ linkEvent' = FALSE
          /\ UNCHANGED <<phase, todo, objectVars, active, updateable, subscribed,
                         handlerVars, queued, signals>>
       \/ /\ LinkTarget = "absent"
          /\ Terminate
    /\ UNCHANGED <<stored, diskVars, mountJob, umountVars, outside>>

ChassisChange ==
    /\ Happens("chassis")
    /\ chassisOn' = ~chassisOn
    /\ UNCHANGED <<phase, todo, objectVars, assocVars, subscribed, handlerVars,
                   stored, diskVars, mountVars, umountVars, signals, linkEvent,
                   environment>>

-----------------------------------------------------------------------------------
(* Termination and restart (Restart=always): processPNORImage visits the entries   *)
(* of /media in the order the directory gives them, then the event loop starts.    *)

Crash ==
    /\ Happens("crash")
    /\ phase # "down"
    /\ Terminate
    /\ UNCHANGED <<stored, diskVars, mountJob, umountVars, outside>>

Start ==
    /\ phase = "down"
    /\ phase' = "scan"
    /\ todo' = {v \in Versions : ro[v] # "absent" \/ v \in rw}
    /\ UNCHANGED <<objectVars, assocVars, subscribed, handlerVars, stored, diskVars,
                   mountVars, umountVars, signals, linkEvent, outside>>

scanUnchanged == <<requested, created, transition, functional, subscribed,
                   handlerVars, diskVars, mountVars, signals, linkEvent, outside>>

\* pnor.toc can be read: an Activation is made, Active with a priority when the toc
\* is complete.
ScanImage(v) ==
    /\ ro[v] = "mounted"
    /\ updateable' = updateable \cup {v}
    /\ \/ /\ v \notin environment.unlabelled
          /\ activation' = [activation EXCEPT ![v] = "Active"]
          /\ active' = active \cup {v}
          /\ \E value \in IF stored[v] # NoPriority THEN {stored[v]}
                                                    ELSE FallbackPriorities :
                 /\ priority' = ConstructPriority(value, v, priority)
                 /\ stored' = Persist(v, priority, priority')
       \/ /\ v \in environment.unlabelled
          /\ activation' = [activation EXCEPT ![v] = "Invalid"]
          /\ UNCHANGED <<active, priority, stored>>
    /\ UNCHANGED umountVars

\* No pnor.toc, or no read-only directory beside the read-write one: erase.
ScanRemains(v) ==
    /\ ro[v] # "mounted"
    /\ IF (ro[v] # "absent" \/ v \in rw) /\ Erasable(v)
       THEN stored' = Without({v}, stored) /\ Umount({v})
       ELSE UNCHANGED <<stored, umountVars>>
    /\ UNCHANGED <<activation, priority, active, updateable>>

Scan(v) ==
    /\ phase = "scan"
    /\ v \in todo
    /\ todo' = todo \ {v}
    /\ ScanImage(v) \/ ScanRemains(v)
    /\ UNCHANGED <<phase, scanUnchanged>>

\* The functional version is determined last, then the event loop takes over.
EndScan ==
    /\ phase = "scan"
    /\ todo = {}
    /\ phase' = "run"
    /\ functional' = IF LinkTarget = "mounted" THEN {link} ELSE {}
    /\ UNCHANGED <<todo, objectVars, active, updateable, subscribed, handlerVars,
                   stored, diskVars, mountVars, umountVars, signals, linkEvent,
                   outside>>

-----------------------------------------------------------------------------------

ClientCall ==
    \/ \E v \in Versions : CreateActivation(v)
    \/ \E v \in Versions, value \in BOOLEAN : Request(v, value)
    \/ \E v \in Versions : StartActivation(v)
    \/ \E v \in Versions : Delete(v)
    \/ \E v \in Versions, value \in WrittenPriorities : WritePriority(v, value)

Daemon ==
    \/ Receive
    \/ ReceiveOther
    \/ \E w \in Versions : Handle(w)
    \/ WatchCallback
    \/ Crash
    \/ Start
    \/ \E v \in Versions : Scan(v)
    \/ EndScan

System ==
    \/ \E v \in Versions : MountStep(v)
    \/ \E v \in Versions : MountFails(v)
    \/ \E v \in Versions : UmountRo(v)
    \/ \E v \in Versions : UmountRw(v)
    \/ UpdateSymlinks
    \/ ChassisChange

Next == ClientCall \/ Daemon \/ System

Spec == Init /\ [][Next]_vars

\* The daemon's loop takes every message in the end, systemd finishes every job, and
\* Restart=always brings the daemon back. Receive and the mount jobs need strong
\* fairness only because of the model's shape: a message for another unit is taken
\* between (in the code all of them wait in one queue), and a full queue of signals
\* holds a job back (MaxSignals). Clients, the chassis and crashes owe nothing.
Fairness ==
    /\ \A v \in Versions : SF_vars(MountStep(v) \/ MountFails(v))
    /\ \A v \in Versions : WF_vars(UmountRo(v)) /\ WF_vars(UmountRw(v))
    /\ SF_vars(Receive)
    /\ \A w \in Versions : WF_vars(Handle(w))
    /\ WF_vars(Start) /\ WF_vars(EndScan)
    /\ \A v \in Versions : WF_vars(Scan(v))

FairSpec == Spec /\ Fairness

-----------------------------------------------------------------------------------
(* The promise to clients.                                                         *)

Lifecycle == INSTANCE ActivationLifecycle
                 WITH state <- activation, blocks <- transition, Lingering <- FALSE

\* Every step of the UBI updater is one the life cycle of a version allows: the states
\* follow each other as documented, a version blocks the host exactly while it is being
\* activated, and a step removes other versions only to make room and only active ones
\* (as long as the image check does not throw).
LifecycleKept == Lifecycle!Spec

-----------------------------------------------------------------------------------
(* Invariants.                                                                     *)

\* Exactly the active versions have a RedundancyPriority object: freeSpace reads the
\* object of every active version without a check, and freePriority and the D-Bus
\* tree must not count a version that is no longer active.
PriorityIffActive == {v \in Versions : priority[v] # NoPriority} = ActiveVersions

\* Transitions of the host are blocked exactly while an activation is under way: no
\* end of it, by success, failure or deletion, leaves the block behind.
BlocksWhileActivating ==
    transition = {v \in Versions : activation[v] = "Activating"}

\* What a restart will restore is what D-Bus shows, also for the versions whose
\* priority another version's activation has moved.
PriorityPersisted ==
    \A v \in Versions : priority[v] # NoPriority => stored[v] = priority[v]

\* No two active versions share a priority, so the order they boot in is defined, also
\* after restarts, as long as no priority has to be made up for a version whose files
\* are gone.
DistinctPriorities == Distinct(priority)

\* ubiVolumesCreated outlives its handler only in a Failed activation, whose progress
\* object is gone: this is the flag on which any later JobRemoved message acts.
StaleFlagOnlyFailed ==
    \A v \in created : activation[v] = "Failed" /\ v \notin transition

\* No mount job outlives the activation that started it: versions are not deleted, and
\* the process does not end while two activations are under way. Crashes, a link to
\* nothing (WatchCallback) and a third activation (FinishIsSafe) may bring that about.
Undisturbed ==
    /\ environment.events \cap {"delete", "crash", "symlink"} = {}
    /\ Cardinality(environment.uploads) <= 2 \/ ~Happens("parallel")

\* No handler reads an ActivationProgress object that is not there: a job that ends
\* finds the activation that started it still waiting, and the stale flag never meets
\* volumes, however failures and retries of two activations overlap.
ProgressPresent ==
    Undisturbed => \A w \in pending \ transition :
                       ~MountDone(w) /\ ~(w \in created /\ Mounted(w))

\* Every active version is listed as such for the users of the associations, and no
\* association names a version that was deleted.
ActiveAssociated == ActiveVersions \subseteq active /\ active \subseteq Objects

\* The symlink the host boots through never leads to a version whose volumes are
\* queued for removal, when versions are activated one after the other and none is
\* deleted by a client or uploaded again while its jobs run: making room spares the
\* functional version and takes the priority file of its victim away before the symlink
\* can choose it.
LinkNotRemoved ==
    environment.events \cap {"delete", "failure", "parallel", "crash", "reupload"} = {}
        => link \notin umountRo \cup umountRw

-----------------------------------------------------------------------------------
(* Action properties.                                                              *)

Finishes(v) == activation[v] = "Activating" /\ activation'[v] = "Active"

\* When an activation finishes there are at most ACTIVE_PNOR_MAX_ALLOWED active
\* versions, also when several were activated at the same time and each made room
\* before the others were active.
LimitKept ==
    [][\A v \in Versions : Finishes(v) => Cardinality(ActiveVersions') <= MaxActive]_vars

\* Making room never goes below ACTIVE_PNOR_MAX_ALLOWED - 1 versions: an activation
\* that fails afterwards leaves a version to boot.
NoNeedlessDeletion ==
    [][/\ phase' = "run"
       /\ \E v \in Versions : activation'[v] \notin {activation[v], "None"}
       /\ \E v \in ActiveVersions : activation'[v] = "None"
       => Cardinality(ActiveVersions') >= MaxActive - 1]_vars

\* The functional version is deleted by a client's call alone, never to make room for
\* an activation, and not while the chassis is on.
FunctionalKept ==
    [][\A v \in Versions :
        /\ Functional(v) /\ activation[v] = "Active"
        /\ phase' = "run" /\ activation'[v] = "None"
        => ~chassisOn /\ activation' = [activation EXCEPT ![v] = "None"]]_vars

\* One update at a time, no deletion, and a daemon that does not go down: it would if the
\* symlink led to nothing, as it may when umount jobs of a failure overtake a retry.
OneAtATime ==
    /\ environment.events \cap {"parallel", "delete", "crash"} = {}
    /\ ~Happens("symlink") \/ environment.events \cap {"failure", "reupload"} = {}

\* Once an activation has finished, the symlink script chooses the new version: its
\* priority file is in place, and neither another active version nor a file left behind
\* by one that is not still carries its priority. The priorities were distinct, none
\* wraps, and none gets a second digit, of which the script would read the last.
NewestBootsNext ==
    [][\A v \in Versions :
        /\ Finishes(v) /\ OneAtATime
        /\ Distinct(priority)
        /\ \A w \in Versions : priority[w] < MaxPriority /\ priority[w] < 9
        => Choices' = {v}]_vars

\* A version only becomes active with its image mounted: when the mounts succeed, for
\* whatever reason its handler finds the volumes (the jobs may be those of a former life
\* of the version), and when they may fail, as long as no job outlives its activation.
ActivatedIsMounted ==
    [][\A v \in Versions :
        Finishes(v) /\ (Undisturbed \/ ~Happens("failure"))
            => ro[v] = "mounted" /\ v \in rw]_vars

\* Finishing an activation does not end the process, whichever other activations have
\* finished before: it is safe to unsubscribe from systemd's signals at the end.
FinishIsSafe ==
    [][\A v \in Versions :
        v \in pending \cap transition /\ MountDone(v) /\ Mounted(v)
        => phase' = phase]_vars

-----------------------------------------------------------------------------------
(* Liveness.                                                                       *)

\* An activation that has started ends: Active, Failed, deleted, or with the daemon.
ActivationEnds ==
    \A v \in Versions : activation[v] = "Activating" ~> activation[v] # "Activating"
===================================================================================
