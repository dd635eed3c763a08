---------------------------- MODULE FactoryReset ---------------------------
(***************************************************************************)
(* The factory resets of the host on the static and the UBI layout         *)
(* (ItemUpdater*::reset, GardReset*::reset), which clear what the host has *)
(* stored while the flash server hiomapd is suspended.  A reset waits for  *)
(* the answer to Suspend and to Resume, but not longer than the timeout of *)
(* the bus, and goes on whether hiomapd has accepted the call or not.      *)
(*                                                                         *)
(* What is cleared: the file or directory on UBI (the patches, the         *)
(* read-write volume of a version, the files of pnor-prsv), the partition  *)
(* on the static layout.                                                   *)
(***************************************************************************)
EXTENDS Naturals, Sequences

CONSTANTS Layouts,      \* of "ubi" and "static", those to look at
          Versions,     \* ubi: the versions with an Activation
          Prsv,         \* ubi: the files of the preserved volume
          Partitions,   \* static: the partitions of the table of contents
          Reprovision,  \* static: those with the flag F
          WithEcc,      \* static: those with the flag E
          MaxCalls,     \* bound: calls under way to hiomapd
          Environments  \* bound: the environments to look at, each a set of
                        \* "host"     the host writes
                        \* "lag"      hiomapd takes longer than the timeout
                        \* "refuse"   hiomapd answers with an error
                        \* "mapper"   the mapper does not know hiomapd
                        \* "storage"  a removal or pflash fails
                        \* "crash"    the daemon ends

ASSUME LayoutAssumption ==
    /\ Layouts \subseteq {"ubi", "static"}
    /\ Reprovision \subseteq Partitions /\ WithEcc \subseteq Partitions
    /\ MaxCalls \in Nat

VARIABLES content,  \* "data", or how an item was cleared: "gone", "ecc", "blank"
          server,   \* what hiomapd does: "serving", "suspended"
          calls,    \* the calls under way to hiomapd
          pc,       \* where reset is
          kind,     \* whose reset it is: "host", "gard"
          todo,     \* what it has still to clear
          modified, \* flash has changed since hiomapd was last told so
          refused,  \* hiomapd has refused the last Suspend it has handled
          layout,   \* the layout of the flash
          environment  \* what may happen besides the resets

outside == <<layout, environment>>
hiomapd == <<server, modified, refused>>
vars == <<content, hiomapd, calls, pc, kind, todo, outside>>

Items == IF layout = "ubi" THEN {"patch"} \cup Versions \cup Prsv ELSE Partitions

Init ==
    /\ layout \in Layouts /\ environment \in Environments
    /\ content = [i \in Items |-> "data"]
    /\ server = "serving"
    /\ calls = <<>>
    /\ pc = "idle" /\ kind = "host" /\ todo = {}
    /\ modified = FALSE /\ refused = FALSE

TypeOK ==
    /\ content \in [Items -> {"data"} \cup (IF layout = "ubi" THEN {"gone"}
                                                             ELSE {"ecc", "blank"})]
    /\ server \in {"serving", "suspended"}
    /\ calls \in Seq({"Suspend", "Resume"})
    /\ pc \in {"idle", "suspend", "suspending", "clear", "resuming"}
    /\ kind \in {"host", "gard"}
    /\ todo \subseteq Items
    /\ modified \in BOOLEAN /\ refused \in BOOLEAN
    /\ layout \in Layouts /\ environment \in Environments

(***************************************************************************)
(* The daemon                                                              *)
(***************************************************************************)

\* The mutant of Spared: the keys are cleared with the rest.
SparedNone == {}

\* "except for SECBOOT that contains keys provisioned for the system"
Spared == {"SECBOOT"}

ToClear(k) ==
    IF k = "gard" THEN {"GUARD"} \cap Items
    ELSE IF layout = "static" THEN Reprovision
    ELSE {"patch"} \cup Versions \cup (Prsv \ Spared)

\* The static layout reads the table of contents first, and goes on with none.
Reset(k) ==
    /\ pc = "idle"
    /\ pc' = "suspend" /\ kind' = k
    /\ \/ todo' = ToClear(k)
       \/ layout = "static" /\ k = "host" /\ "storage" \in environment /\ todo' = {}
    /\ UNCHANGED <<content, hiomapd, calls, outside>>

\* The call is made, and the daemon waits.
Send(call) ==
    /\ Len(calls) < MaxCalls
    /\ calls' = Append(calls, call)

\* An exception ends the reset: what it has not done yet is not done.
GiveUp == pc' = "idle" /\ todo' = {}

\* The mutant of Suspend: the service is looked up, the call forgotten.
SuspendNot ==
    /\ pc = "suspend"
    /\ pc' = "clear"
    /\ UNCHANGED <<content, hiomapd, calls, kind, todo, outside>>

\* getService throws when the mapper does not know the service.
Suspend ==
    /\ pc = "suspend"
    /\ \/ Send("Suspend") /\ pc' = "suspending" /\ UNCHANGED todo
       \/ "mapper" \in environment /\ GiveUp /\ UNCHANGED calls
    /\ UNCHANGED <<content, hiomapd, kind, outside>>

\* Where reset goes on after the answer, or without one: an error is only logged.
After == [suspending |-> "clear", resuming |-> "idle"]

TimeOut ==
    /\ "lag" \in environment
    /\ pc \in DOMAIN After
    /\ pc' = After[pc]
    /\ UNCHANGED <<content, hiomapd, calls, kind, todo, outside>>

\* The mutant of Cleared: pnorClear asks for ECC always.
ClearedWithEcc(i) == IF layout = "ubi" THEN "gone" ELSE "ecc"

\* remove_all; pnorClear, for which the gard reset asks for ECC always.
Cleared(i) ==
    IF layout = "ubi" THEN "gone"
    ELSE IF kind = "gard" \/ i \in WithEcc THEN "ecc" ELSE "blank"

Clear(i) ==
    /\ pc = "clear"
    /\ i \in todo
    /\ content' = [content EXCEPT ![i] = Cleared(i)]
    /\ todo' = todo \ {i}
    /\ modified' = TRUE
    /\ UNCHANGED <<server, refused, calls, pc, kind, outside>>

\* A failed removal is an exception, a failed pflash a line in the log.
ClearFails(i) ==
    /\ "storage" \in environment
    /\ pc = "clear"
    /\ i \in todo
    /\ IF layout = "ubi" THEN GiveUp ELSE todo' = todo \ {i} /\ UNCHANGED pc
    /\ UNCHANGED <<content, hiomapd, calls, kind, outside>>

\* The mutant of Resume: nobody resumes.
ResumeNot ==
    /\ pc = "clear" /\ todo = {}
    /\ GiveUp
    /\ UNCHANGED <<content, hiomapd, calls, kind, outside>>

Resume ==
    /\ pc = "clear"
    /\ todo = {}
    /\ \/ Send("Resume") /\ pc' = "resuming" /\ UNCHANGED todo
       \/ "mapper" \in environment /\ GiveUp /\ UNCHANGED calls
    /\ UNCHANGED <<content, hiomapd, kind, outside>>

Crash ==
    /\ "crash" \in environment
    /\ pc # "idle"
    /\ GiveUp
    /\ UNCHANGED <<content, hiomapd, calls, kind, outside>>

(***************************************************************************)
(* hiomapd and the host                                                    *)
(***************************************************************************)

\* The first call is answered.  The one the daemon waits for is the last.
Answer ==
    /\ calls # <<>>
    /\ calls' = Tail(calls)
    /\ pc' = IF calls' = <<>> /\ pc \in DOMAIN After THEN After[pc] ELSE pc
    /\ UNCHANGED <<content, kind, todo, outside>>

\* Resume comes with "PNOR is modified".
Accept ==
    /\ Answer
    /\ IF Head(calls) = "Suspend"
       THEN server' = "suspended" /\ refused' = FALSE /\ UNCHANGED modified
       ELSE server' = "serving" /\ modified' = FALSE /\ UNCHANGED refused

Refuse ==
    /\ "refuse" \in environment
    /\ Answer
    /\ refused' = (refused \/ Head(calls) = "Suspend")
    /\ UNCHANGED <<server, modified>>

HostWrites(i) ==
    /\ "host" \in environment
    /\ server = "serving"
    /\ content' = [content EXCEPT ![i] = "data"]
    /\ UNCHANGED <<hiomapd, calls, pc, kind, todo, outside>>

DaemonStep == Suspend \/ (\E i \in Items : Clear(i) \/ ClearFails(i)) \/ Resume

Next ==
    \/ \E k \in {"host", "gard"} : Reset(k)
    \/ Suspend
    \/ TimeOut
    \/ \E i \in Items : Clear(i) \/ ClearFails(i) \/ HostWrites(i)
    \/ Resume
    \/ Crash
    \/ Accept
    \/ Refuse

Spec == Init /\ [][Next]_vars

\* The daemon runs on, and hiomapd answers its calls.
Fairness == WF_vars(DaemonStep) /\ WF_vars(Accept \/ Refuse)

(***************************************************************************)
(* Properties                                                              *)
(***************************************************************************)

\* What a reset of either kind is to leave cleared.
Promised ==
    IF kind = "gard" THEN {"GUARD"}
    ELSE IF layout = "static" THEN Reprovision
    ELSE Items \ {"SECBOOT"}

\* Nothing fails, and hiomapd accepts its calls in time.
Undisturbed == environment \subseteq {"host"}

\* "Host factory reset - clears PNOR partitions for each Activation D-Bus object": when
\* an undisturbed reset sends Resume, each thing it is to clear is cleared, in the way
\* its partition is flagged, and the host has not written to it again.
EachCleared ==
    [][Undisturbed /\ pc = "clear" /\ pc' = "resuming" =>
         \A i \in Promised :
             content[i] = IF layout = "ubi" THEN "gone"
                          ELSE IF i \in WithEcc THEN "ecc" ELSE "blank"]_vars

\* "Indicate PNOR is modified": hiomapd is told of everything a reset has cleared, and
\* serves the host again, also when it answers too late (with no call refused and nothing
\* else failing).
ServerIsTold ==
    environment \subseteq {"host", "lag"} /\ (modified \/ server = "suspended")
        ~> ~modified /\ server = "serving"

\* With no call under way, hiomapd does not serve what a reset has changed behind it,
\* also after resets that failed or were too late for it, unless it has refused to be
\* suspended, of which the reset takes no notice.
ServedIsFresh == modified /\ server = "serving" => calls # <<>> \/ refused

\* The keys in SECBOOT and the partitions that are not to be reprovisioned outlive any
\* number of resets, however they end.
OthersKept ==
    [][\A i \in Items : content[i] = "data" /\ content'[i] # "data"
          => i # "SECBOOT" /\ (layout = "static" => i \in Reprovision \cup {"GUARD"})]_vars
=============================================================================
