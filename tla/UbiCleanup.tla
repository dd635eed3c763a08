----------------------------- MODULE UbiCleanup -----------------------------
(***************************************************************************)
(* Collection.DeleteAll on the UBI layout: deleteAll erases all versions   *)
(* but the one the host runs, and starts obmc-flash-bios-cleanup, whose    *)
(* script removes the volumes of no version.  The script runs beside the   *)
(* daemon: it asks for the versions on D-Bus and lists the volumes.        *)
(*                                                                         *)
(* UbiUpdater has the rest of the daemon.  Here the two volumes of a       *)
(* version are one, the symlink does not move, and no version is           *)
(* activated.                                                              *)
(***************************************************************************)
EXTENDS Naturals, FiniteSets

CONSTANTS Versions,    \* numbers in the order of the ids
          Running,     \* the version the symlink leads to
          Environments \* bound: what happens beside deleteAll; each a set of
                       \* "chassis"   the chassis is switched on and off
                       \* "upload"    images are uploaded
                       \* "iterator"  the step from an erased element of a map
                       \*             ends the process

ASSUME VersionsAssumption == Versions \subseteq Nat /\ Running \in Versions
ASSUME EnvironmentAssumption ==
    Environments \subseteq SUBSET {"chassis", "upload", "iterator"}

VARIABLES daemon,    \* "run", "deleting" (in deleteAll), "down"
          entries,   \* the activations
          left,      \* the activations deleteAll has still to visit
          wasOn,     \* what deleteAll takes the chassis to be
          chassisOn, \* the chassis
          volumes,   \* the versions with volumes
          emptied,   \* the versions whose read-write files are gone
          prsvKept,  \* the files of the preserved volume are there
          umounts,   \* the versions with umount jobs
          script,    \* "idle", "queued", "removing", "no name"
          names,     \* what the script has still to remove
          environment\* which of the Environments this behaviour is in

deleting == <<daemon, entries, left, wasOn>>
flash == <<volumes, emptied, prsvKept>>
cleaning == <<script, names>>
outside == <<chassisOn, environment>>
vars == <<deleting, outside, flash, umounts, cleaning>>

TypeOK ==
    /\ daemon \in {"run", "deleting", "down"}
    /\ entries \subseteq Versions
    /\ left \subseteq entries
    /\ wasOn \in BOOLEAN /\ chassisOn \in BOOLEAN /\ prsvKept \in BOOLEAN
    /\ volumes \subseteq Versions
    /\ emptied \subseteq Versions
    /\ umounts \subseteq Versions
    /\ script \in {"idle", "queued", "removing", "no name"}
    /\ names \subseteq Versions
    /\ environment \in Environments

\* Volumes without an entry are those of an activation that was cut short.
Init ==
    /\ daemon = "run"
    /\ volumes \in SUBSET Versions
    /\ entries \in SUBSET volumes
    /\ {Running} \cap volumes \subseteq entries
    /\ left = {} /\ wasOn = FALSE
    /\ chassisOn \in BOOLEAN
    /\ emptied = {} /\ prsvKept = TRUE
    /\ umounts = {}
    /\ script = "idle" /\ names = {}
    /\ environment \in Environments

(***************************************************************************)
(* The daemon                                                              *)
(***************************************************************************)

\* isVersionFunctional
Functional(v) == v = Running /\ v \in volumes

Begin ==
    /\ daemon = "run"
    /\ daemon' = "deleting"
    /\ left' = entries
    /\ wasOn' = chassisOn
    /\ UNCHANGED <<entries, outside, flash, umounts, cleaning>>

\* The mutant of Erasable: what was read when deleteAll began.
ErasableThen(v) == ~(Functional(v) /\ wasOn)

\* erase looks at the chassis again.
Erasable(v) == ~(Functional(v) /\ chassisOn)

\* Where the loop goes on.
Rest(v) == left \ {v}

\* One turn of the loop.  What the iterator of an erased element leads to is
\* the next element, or the end of the process.
Visit ==
    /\ left # {}
    /\ LET v == CHOOSE x \in left : \A y \in left : x <= y
           erased == {v} \cap {x \in left : ~(Functional(x) /\ wasOn) /\ Erasable(x)}
       IN /\ umounts' = umounts \cup erased
          /\ \/ /\ entries' = entries \ erased
                /\ left' = Rest(v)
                /\ UNCHANGED daemon
             \/ /\ "iterator" \in environment /\ erased # {}
                /\ daemon' = "down" /\ entries' = {} /\ left' = {}
    /\ UNCHANGED <<wasOn, outside, flash, cleaning>>

End ==
    /\ daemon = "deleting"
    /\ left = {}
    /\ daemon' = "run"
    /\ script' = IF script = "idle" THEN "queued" ELSE script
    /\ UNCHANGED <<entries, left, wasOn, outside, flash, umounts, names>>

\* Restart=always; processPNORImage.
Restart ==
    /\ daemon = "down"
    /\ daemon' = "run"
    /\ entries' = volumes
    /\ UNCHANGED <<left, wasOn, outside, flash, umounts, cleaning>>

Upload(v) ==
    /\ "upload" \in environment
    /\ daemon = "run"
    /\ v \notin volumes
    /\ entries' = entries \cup {v}
    /\ UNCHANGED <<daemon, left, wasOn, outside, flash, umounts, cleaning>>

ChassisChange ==
    /\ "chassis" \in environment
    /\ chassisOn' = ~chassisOn
    /\ UNCHANGED <<deleting, environment, flash, umounts, cleaning>>

(***************************************************************************)
(* The jobs                                                                *)
(***************************************************************************)

\* umount_ubi: while the host uses the volumes, umount and ubirmvol fail, and rm -r
\* deletes what it can.
Remove(v) ==
    /\ volumes' = IF v = Running /\ chassisOn THEN volumes ELSE volumes \ {v}
    /\ emptied' = IF v = Running /\ chassisOn THEN emptied \cup ({v} \cap volumes)
                  ELSE emptied \ {v}

UmountJob(v) ==
    /\ v \in umounts
    /\ umounts' = umounts \ {v}
    /\ Remove(v)
    /\ UNCHANGED <<deleting, outside, prsvKept, cleaning>>

\* What busctl shows: it gets no answer from a daemon that is down.
Shown == IF daemon = "down" THEN {} ELSE entries

\* The mutant of Foreign: the volumes of the version shown (grep without -v).
ForeignNot(version) == volumes \cap version

\* The volumes not of the version.
Foreign(version) == volumes \ version

\* ubi_cleanup keeps the last version shown.  With nothing to remove, the array has
\* one element, the empty name.
List ==
    /\ script = "queued"
    /\ daemon # "deleting"
    /\ names' = Foreign({v \in Shown : \A w \in Shown : w <= v})
    /\ script' = IF names' = {} THEN "no name" ELSE "removing"
    /\ UNCHANGED <<deleting, outside, flash, umounts>>

RemoveNamed ==
    /\ script = "removing"
    /\ \E v \in names :
        /\ Remove(v)
        /\ names' = names \ {v}
    /\ script' = IF names' = {} THEN "idle" ELSE script
    /\ UNCHANGED <<deleting, outside, prsvKept, umounts>>

\* umount_ubi with an empty name: rm -r /media/.
RemoveNoName ==
    /\ script = "no name"
    /\ script' = "idle"
    /\ emptied' = volumes
    /\ prsvKept' = FALSE
    /\ UNCHANGED <<deleting, outside, volumes, umounts, names>>

Next ==
    \/ Begin \/ Visit \/ End \/ Restart
    \/ \E v \in Versions : Upload(v) \/ UmountJob(v)
    \/ ChassisChange
    \/ List \/ RemoveNamed \/ RemoveNoName

Spec == Init /\ [][Next]_vars

\* The daemon handles a call to its end, systemd runs its jobs and starts the daemon
\* again.  List has to meet a daemon that is not in a call: clients leave it alone in
\* the end, so it is asked again.
Fairness ==
    /\ WF_vars(Visit) /\ WF_vars(End) /\ WF_vars(Restart)
    /\ \A v \in Versions : WF_vars(UmountJob(v))
    /\ SF_vars(List) /\ WF_vars(RemoveNamed) /\ WF_vars(RemoveNoName)

FairSpec == Spec /\ Fairness

(***************************************************************************)
(* Properties                                                              *)
(***************************************************************************)

\* deleteAll leaves the version the host runs: also when the chassis is switched on
\* after deleteAll has looked at it.
HostKeepsVersion ==
    [][daemon' # "down" /\ chassisOn /\ Running \in entries \cap volumes
       => Running \in entries']_vars

\* "Remove any remaining pnor-ro- or pnor-rw- volumes that do not match the current
\* version": the script removes the volumes of no version the host may run, though it
\* looks when deleteAll may be running again (as long as nothing is uploaded and the
\* daemon stays up).
CurrentKept ==
    environment \subseteq {"chassis"} /\ script = "removing"
        => ~(Running \in names /\ Running \in entries)

\* "Erases any non-active pnor versions": after deleteAll no volume of another version
\* is left in the end.
OthersGo ==
    environment \subseteq {"chassis"} /\ daemon = "deleting"
        ~> volumes \subseteq {Running}
=============================================================================
