---------------------------- MODULE PriorityFiles ---------------------------
(***************************************************************************)
(* The three copies of the priority of one version (ubi/serialize.cpp): a  *)
(* file in /var, a file in the version's read-write volume, and a variable *)
(* of u-boot that a systemd unit sets.  storeToFile and removeFile go from *)
(* one to the next, the process may end in between, and so may the power.  *)
(*                                                                         *)
(* UbiUpdater keeps the first copy only, and takes what the other two give *)
(* for any value.                                                          *)
(***************************************************************************)
EXTENDS Integers, Sequences

CONSTANTS MaxPriority,  \* the default
          MaxJobs,      \* bound: setenv jobs at a time
          Environments  \* bound: what happens in a behaviour

ASSUME BoundsAssumption == {MaxPriority, MaxJobs} \subseteq Nat
ASSUME EnvironmentAssumption ==
    Environments \subseteq
        [events : SUBSET
             {"crash",    \* the process ends and is started again
              "reorder",  \* setenv units end in any order
              "busy",     \* the volume cannot be removed
              "lag"},     \* a version is installed again before its deletion is
                          \* through and in flash
         losses : Nat]    \* how often power is lost at most

None == -1
Torn == -2
Priority == 0 .. MaxPriority
Contents == Priority \cup {None, Torn}
Copies == {"var", "rw", "env"}

VARIABLES copy,    \* what the copies are
          may,     \* what a loss of power may leave of them
          volume,  \* the volumes of the version are there
          umount,  \* the job that removes them
          jobs,    \* the setenv jobs: the values, None to clear the variable
          pc,      \* where storeToFile or removeFile is
          value,   \* what is being stored
          shown,   \* the priority clients have seen, None without an object
          held,    \* the priorities since the volumes were made
          recent,  \* the priorities since the last one that was shown, and that one
          losses,  \* how often power has been lost
          environment  \* which of the Environments this behaviour is in

files == <<copy, may>>
daemon == <<pc, value, shown, held, recent>>
outside == <<losses, environment>>
vars == <<files, volume, umount, jobs, daemon, outside>>

Init ==
    /\ copy = [c \in Copies |-> None]
    /\ may = [c \in Copies |-> {None}]
    /\ volume = FALSE /\ umount = FALSE
    /\ jobs = <<>>
    /\ pc = "idle" /\ value = None /\ shown = None /\ held = {} /\ recent = {}
    /\ losses = 0
    /\ environment \in Environments

TypeOK ==
    /\ copy \in [Copies -> Contents]
    /\ may \in [Copies -> SUBSET Contents]
    /\ \A c \in Copies : copy[c] \in may[c] \cup {None}
    /\ volume \in BOOLEAN /\ umount \in BOOLEAN
    /\ jobs \in Seq(Priority \cup {None})
    /\ pc \in {"idle", "var", "rw", "fill", "env", "close", "unlink"}
    /\ {value, shown} \subseteq Priority \cup {None}
    /\ recent \subseteq held /\ held \subseteq Priority
    /\ pc \notin {"idle", "unlink"} => value \in recent
    /\ environment \in Environments
    /\ losses \in 0 .. environment.losses

(***************************************************************************)
(* storeToFile, removeFile                                                 *)
(***************************************************************************)

\* A file is opened for writing, and empty, written, or removed, in the page cache: any
\* of what it has been since the last write back is in flash, if power is to be lost.
Put(c, content) ==
    /\ copy' = [copy EXCEPT ![c] = content]
    /\ may' = [may EXCEPT ![c] = {content} \cup (IF losses < environment.losses THEN @ ELSE {})]

Flush(c) ==
    /\ may[c] # {copy[c]}
    /\ may' = [may EXCEPT ![c] = {copy[c]}]
    /\ UNCHANGED <<copy, volume, umount, jobs, daemon, outside>>

\* The priority of an active version is set, or a version becomes active.
Store(p) ==
    /\ pc = "idle"
    /\ volume /\ (shown = None => ~umount)
    /\ pc' = "var"
    /\ value' = p
    /\ held' = held \cup {p} /\ recent' = recent \cup {p}
    /\ UNCHANGED <<files, volume, umount, jobs, shown, outside>>

\* The file in /var is opened; it stays empty until the function returns.
StoreVar ==
    /\ pc = "var"
    /\ pc' = "rw"
    /\ Put("var", Torn)
    /\ UNCHANGED <<volume, umount, jobs, value, shown, held, recent, outside>>

\* The file in the read-write volume is opened, if the volume has not gone.
StoreRw ==
    /\ pc = "rw"
    /\ pc' = "fill"
    /\ IF volume THEN Put("rw", Torn) ELSE UNCHANGED files
    /\ UNCHANGED <<volume, umount, jobs, value, shown, held, recent, outside>>

\* Its block ends, and it gets its content, if nobody has removed it.
FillRw ==
    /\ pc = "fill"
    /\ pc' = "env"
    /\ IF copy["rw"] = None THEN UNCHANGED files ELSE Put("rw", value)
    /\ UNCHANGED <<volume, umount, jobs, value, shown, held, recent, outside>>

StoreEnv ==
    /\ pc = "env"
    /\ Len(jobs) < MaxJobs
    /\ pc' = "close"
    /\ jobs' = Append(jobs, value)
    /\ UNCHANGED <<files, volume, umount, value, shown, held, recent, outside>>

\* The function returns: the file in /var gets its content, and clients see the value.
CloseVar ==
    /\ pc = "close"
    /\ pc' = "idle"
    /\ Put("var", value)
    /\ shown' = value /\ recent' = {value}
    /\ UNCHANGED <<volume, umount, jobs, value, held, outside>>

\* erase: the object, the variable, the file, then the volumes.
Erase ==
    /\ pc = "idle"
    /\ shown # None
    /\ Len(jobs) < MaxJobs
    /\ pc' = "unlink"
    /\ jobs' = Append(jobs, None)
    /\ shown' = None
    /\ UNCHANGED <<files, volume, umount, value, held, recent, outside>>

\* The mutant of Unlinked: the file stays.
UnlinkedNot == copy["var"]

Unlinked == None

EraseEnd ==
    /\ pc = "unlink"
    /\ pc' = "idle"
    /\ umount' = TRUE
    /\ Put("var", Unlinked)
    /\ UNCHANGED <<volume, jobs, value, shown, held, recent, outside>>

(***************************************************************************)
(* The jobs                                                                *)
(***************************************************************************)

\* obmc-flash-bmc-setenv@: an instance for each value.
SetEnv ==
    \E i \in 1 .. Len(jobs) :
        /\ i = 1 \/ "reorder" \in environment.events
        /\ jobs' = SubSeq(jobs, 1, i - 1) \o SubSeq(jobs, i + 1, Len(jobs))
        /\ copy' = [copy EXCEPT !["env"] = jobs[i]]
        /\ may' = [may EXCEPT !["env"] = {copy'["env"]}]
        /\ UNCHANGED <<volume, umount, daemon, outside>>

\* rm -r deletes the file also when the volume is in use and stays.
UmountRw ==
    /\ umount
    /\ umount' = FALSE
    /\ copy' = [copy EXCEPT !["rw"] = None]
    /\ may' = [may EXCEPT !["rw"] = {None}]
    /\ volume' = FALSE \/ ("busy" \in environment.events /\ volume' = volume)
    /\ UNCHANGED <<jobs, daemon, outside>>

\* The version is uploaded again, and its volumes made.
Install ==
    /\ ~volume
    /\ pc = "idle" /\ shown = None
    /\ \/ "lag" \in environment.events
       \/ jobs = <<>> /\ \A c \in Copies : may[c] = {copy[c]}
    /\ volume' = TRUE
    /\ held' = {} /\ recent' = {}
    /\ UNCHANGED <<files, umount, jobs, pc, value, shown, outside>>

\* The factory reset empties the read-write volume, this copy with it.
FactoryReset ==
    /\ pc = "idle"
    /\ volume /\ shown # None
    /\ Put("rw", None)
    /\ UNCHANGED <<volume, umount, jobs, daemon, outside>>

(***************************************************************************)
(* restoreFromFile                                                         *)
(***************************************************************************)

\* The mutant of Order: the other way round.
OrderBackwards == <<"env", "rw", "var">>

Order == <<"var", "rw", "env">>

Readable(c) == {i \in 1 .. 3 : c[Order[i]] \in Priority}
First(c) == CHOOSE i \in Readable(c) : \A j \in Readable(c) : i <= j
Restored(c) == IF Readable(c) = {} THEN MaxPriority ELSE c[Order[First(c)]]

\* The daemon is started again with the copies c: processPNORImage makes the object of
\* the version if its volumes are there, which stores the priority again.  A file that
\* is read first and cannot be read is removed.
Discarded(c) == {Order[i] : i \in {j \in 1 .. 3 : /\ c[Order[j]] = Torn
                                               /\ \A k \in Readable(c) : j < k}}

Start(c) ==
    /\ copy' = [d \in Copies |-> IF volume /\ d \in Discarded(c) THEN None ELSE c[d]]
    /\ IF volume
       THEN /\ value' = Restored(c) /\ pc' = "var"
            /\ held' = held \cup {value'} /\ recent' = recent \cup {value'}
            /\ UNCHANGED shown
       ELSE shown' = None /\ pc' = "idle" /\ UNCHANGED <<value, held, recent>>
    /\ UNCHANGED volume

Crash ==
    /\ "crash" \in environment.events
    /\ Start(copy)
    /\ UNCHANGED <<may, umount, jobs, outside>>

PowerLoss ==
    /\ losses < environment.losses
    /\ losses' = losses + 1
    /\ \E c \in [Copies -> Contents] :
        /\ \A d \in Copies : c[d] \in may[d]
        /\ Start(c)
        /\ may' = [d \in Copies |-> {copy'[d]}]
    /\ umount' = FALSE
    /\ jobs' = <<>>
    /\ UNCHANGED environment

Next ==
    \/ \E c \in Copies : Flush(c)
    \/ \E p \in Priority : Store(p)
    \/ StoreVar \/ StoreRw \/ FillRw \/ StoreEnv \/ CloseVar \/ Erase \/ EraseEnd
    \/ SetEnv \/ UmountRw \/ Install \/ FactoryReset
    \/ Crash \/ PowerLoss

Spec == Init /\ [][Next]_vars

(***************************************************************************)
(* Properties                                                              *)
(***************************************************************************)

\* When the process ends at any step and is started again, an active version has the
\* priority it had, or one that has been stored since: with both files empty, between the
\* opening of one and the end of the other, it is in u-boot's variable (as long as power is
\* not lost, and when the setenv jobs have run, in their order).
RestoresLast ==
    [][Crash /\ volume /\ shown # None
       /\ environment.losses = 0
       /\ \/ {copy["var"], copy["rw"]} \cap Priority # {}
          \/ jobs = <<>> /\ "reorder" \notin environment.events
       => value' \in recent]_vars

\* When power is lost once, at any step, an active version gets a priority it has had since
\* it was installed, or the default if none is left: none of its life before a deletion
\* (when that was through before it was installed again).
RestoresHeld ==
    [][PowerLoss /\ volume /\ shown # None
       /\ environment.events = {} /\ environment.losses = 1
       => value' \in held \cup {MaxPriority}]_vars

\* "removeFile() is called in the case of a version being deleted, so the file
\* /media/pnor-rw-[versionId]/[versionId] will also be deleted": with the version
\* deleted and the jobs ended, no copy is left (as long as the process and the power stay
\* and systemd runs the jobs in their order).
DeletedLeavesNone ==
    /\ environment.events \subseteq {"busy", "lag"} /\ environment.losses = 0
    /\ shown = None /\ ~umount /\ jobs = <<>> /\ pc = "idle"
    => \A c \in Copies : copy[c] = None
=============================================================================
