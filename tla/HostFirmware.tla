---------------------------- MODULE HostFirmware ----------------------------
(***************************************************************************)
(* When process-host-firmware ("links") and update-bios-attr-table         *)
(* ("bios") act (functions.cpp, the subcommands of item_updater_main.cpp   *)
(* and their units).  Both need the model of the machine, which entity     *)
(* manager publishes as a Compatible interface some time after boot, and   *)
(* the second one also the BIOS attribute table, which PLDM exposes.  Each *)
(* asks once and otherwise waits for signals; the flash daemon of the host *)
(* starts when the second one ends (Before=mboxd.service, Type=oneshot).   *)
(*                                                                         *)
(* What the two do to the directory is HostFirmwareLinks.                  *)
(***************************************************************************)
EXTENDS Naturals, Sequences, FiniteSets, FiniteSetsExt

CONSTANTS Objects,      \* entity manager's objects: numbers, in path order
          MapperLag,    \* whether the mapper may learn of PLDM's objects only
                        \* after PLDM has taken its name
          MaxRestarts   \* bound: how often entity manager and PLDM stop

\* What the Compatible interface of an object says: it may be absent, lack its
\* property Names, or name a model that extensionMap has or has not.
Kinds == {"absent", "nameless", "unknown", "known"}
Programs == {"links", "bios"}

VARIABLES kind,      \* of every object
          published, \* the objects entity manager has on D-Bus
          em,        \* whether entity manager runs
          pldm,      \* whether PLDM owns its name
          manager,   \* whether the mapper knows of BIOSConfig.Manager
          restarts,  \* how often one of the two has stopped
          phase,     \* of a program
          queue,     \* the signals its matches have received
          visit,     \* the objects its loop has still to visit
          exiting,   \* loop.exit was called
          linked,    \* findLinks has run
          sent,      \* the attribute table was set
          rejected   \* setting it has failed although the mapper knows of it

environment == <<kind, published, em, pldm, manager, restarts>>
vars == <<environment, phase, queue, visit, exiting, linked, sent, rejected>>

Compatible(o) == kind[o] # "absent"

Init ==
    /\ kind \in [Objects -> Kinds]
    /\ published \in {{}, Objects}
    /\ em \in BOOLEAN
    /\ published # {} => em
    /\ pldm \in BOOLEAN
    /\ manager = pldm
    /\ restarts = 0
    /\ phase = [p \in Programs |-> "idle"]
    /\ queue = [p \in Programs |-> <<>>]
    /\ visit = [p \in Programs |-> {}]
    /\ exiting = [p \in Programs |-> FALSE]
    /\ linked = FALSE
    /\ sent = FALSE
    /\ rejected = FALSE

(***************************************************************************)
(* Entity manager, PLDM and the mapper                                     *)
(***************************************************************************)

\* The mutant of Listening: the match is registered after the objects were enumerated.
ListeningLate(p) == phase[p] = "waiting"

\* The matches exist from before the enumeration until the end.
Listening(p) == phase[p] \in {"matched", "enumerating", "waiting", "handling"}

Signal(ps, m) ==
    queue' = [p \in Programs |->
                IF p \in ps /\ Listening(p) THEN Append(queue[p], m) ELSE queue[p]]

EmStart ==
    /\ ~em
    /\ em' = TRUE
    /\ UNCHANGED <<kind, published, pldm, manager, restarts, phase, queue, visit,
                   exiting, linked, sent, rejected>>

Publish ==
    /\ em
    /\ \E o \in Objects \ published :
        /\ published' = published \cup {o}
        /\ Signal(Programs, [type |-> "InterfacesAdded", object |-> o])
    /\ UNCHANGED <<kind, em, pldm, manager, restarts, phase, visit, exiting, linked,
                   sent, rejected>>

EmStop ==
    /\ em
    /\ restarts < MaxRestarts
    /\ restarts' = restarts + 1
    /\ em' = FALSE
    /\ published' = {}
    /\ UNCHANGED <<kind, pldm, manager, phase, queue, visit, exiting, linked, sent,
                   rejected>>

\* PLDM takes its name.  The message goes to the second program only.
PldmStart ==
    /\ ~pldm
    /\ pldm' = TRUE
    /\ manager' \in (IF MapperLag THEN BOOLEAN ELSE {TRUE})
    /\ Signal({"bios"}, [type |-> "NameOwnerChanged", owner |-> TRUE])
    /\ UNCHANGED <<kind, published, em, restarts, phase, visit, exiting, linked,
                   sent, rejected>>

MapperLearns ==
    /\ pldm
    /\ ~manager
    /\ manager' = TRUE
    /\ UNCHANGED <<kind, published, em, pldm, restarts, phase, queue, visit, exiting,
                   linked, sent, rejected>>

PldmStop ==
    /\ pldm
    /\ restarts < MaxRestarts
    /\ restarts' = restarts + 1
    /\ pldm' = FALSE
    /\ manager' = FALSE
    /\ Signal({"bios"}, [type |-> "NameOwnerChanged", owner |-> FALSE])
    /\ UNCHANGED <<kind, published, em, phase, visit, exiting, linked, sent, rejected>>

(***************************************************************************)
(* The programs                                                            *)
(***************************************************************************)

\* The units are ordered; the matches are added first.
Begin(p) ==
    /\ phase[p] = "idle"
    /\ p = "bios" => phase["links"] = "ended"
    /\ phase' = [phase EXCEPT ![p] = "matched"]
    /\ UNCHANGED <<environment, queue, visit, exiting, linked, sent, rejected>>

\* The reply to GetManagedObjects.  The call starts entity manager; where that
\* fails the objects are taken to be none.
Snapshot == IF em THEN published ELSE {}

Enumerate(p) ==
    /\ phase[p] = "matched"
    /\ visit' = [visit EXCEPT ![p] = Snapshot]
    /\ phase' = [phase EXCEPT ![p] = "enumerating"]
    /\ UNCHANGED <<environment, queue, exiting, linked, sent, rejected>>

\* setBiosAttr asks the mapper who has the table, and where it knows, calls Set.
Sets(p, o) == p = "bios" /\ kind[o] = "known" /\ manager

\* The mutant of Fails: the exception of setBiosAttr is not passed on.
FailsNever(p, o, ok) == FALSE

\* setBiosAttr throws where the mapper does not know who has the table, and where
\* Set is not answered or answered with an error (~ok); the links never throw what
\* maybeCall catches.
Fails(p, o, ok) == p = "bios" /\ kind[o] = "known" /\ (~manager \/ ~ok)

\* maybeCall with the callback of the program, for an object whose model is
\* known: its links are made, or its attribute table is set.  A Set that was not
\* answered in time may still have been carried out.
Acts(p, o, ok) ==
    /\ linked' = (linked \/ (p = "links" /\ kind[o] = "known"))
    /\ rejected' = (rejected \/ (Sets(p, o) /\ ~ok))
    /\ \/ Sets(p, o) /\ sent' = TRUE
       \/ (Sets(p, o) => ~ok) /\ UNCHANGED sent

\* What maybeCall returns.
Found(p, o, ok) == Compatible(o) /\ ~Fails(p, o, ok)

\* The program leaves its event loop, and its matches are destroyed.
End(p) ==
    /\ phase' = [phase EXCEPT ![p] = "ended"]
    /\ queue' = [queue EXCEPT ![p] = <<>>]
    /\ visit' = [visit EXCEPT ![p] = {}]

\* The loop over the objects enumerated ends with the first one found.
VisitEnumerated(p) ==
    /\ phase[p] = "enumerating"
    /\ visit[p] # {}
    /\ \E ok \in BOOLEAN : LET o == Min(visit[p]) IN
        /\ Acts(p, o, ok)
        /\ \/ Found(p, o, ok) /\ End(p)
           \/ /\ ~Found(p, o, ok)
              /\ visit' = [visit EXCEPT ![p] = @ \ {o}]
              /\ UNCHANGED <<phase, queue>>
    /\ UNCHANGED <<environment, exiting>>

\* None was found: the matches go to main, which enters the event loop.
Wait(p) ==
    /\ phase[p] = "enumerating"
    /\ visit[p] = {}
    /\ phase' = [phase EXCEPT ![p] = "waiting"]
    /\ UNCHANGED <<environment, queue, visit, exiting, linked, sent, rejected>>

Received(p, type) ==
    /\ phase[p] = "waiting"
    /\ queue[p] # <<>>
    /\ Head(queue[p]).type = type

\* The handler of InterfacesAdded.
ReceiveAdded(p) ==
    /\ Received(p, "InterfacesAdded")
    /\ \E ok \in BOOLEAN : LET o == Head(queue[p]).object IN
        /\ Acts(p, o, ok)
        /\ \/ Found(p, o, ok) /\ End(p)
           \/ /\ ~Found(p, o, ok)
              /\ queue' = [queue EXCEPT ![p] = Tail(@)]
              /\ UNCHANGED <<phase, visit>>
    /\ UNCHANGED <<environment, exiting>>

\* The mutant of NewOwner: the old owner is looked at.
OldOwner(p) == ~Head(queue[p]).owner

NewOwner(p) == Head(queue[p]).owner

\* The handler of NameOwnerChanged enumerates the objects again.
ReceiveOwner(p) ==
    /\ Received(p, "NameOwnerChanged")
    /\ queue' = [queue EXCEPT ![p] = Tail(@)]
    /\ \/ ~NewOwner(p) /\ UNCHANGED <<phase, visit>>
       \/ /\ NewOwner(p)
          /\ phase' = [phase EXCEPT ![p] = "handling"]
          /\ visit' = [visit EXCEPT ![p] = Snapshot]
    /\ UNCHANGED <<environment, exiting, linked, sent, rejected>>

\* Its loop does not stop at the object found.
VisitHandled(p) ==
    /\ phase[p] = "handling"
    /\ visit[p] # {}
    /\ \E ok \in BOOLEAN : LET o == Min(visit[p]) IN
        /\ Acts(p, o, ok)
        /\ exiting' = [exiting EXCEPT ![p] = @ \/ Found(p, o, ok)]
        /\ visit' = [visit EXCEPT ![p] = @ \ {o}]
    /\ UNCHANGED <<environment, phase, queue>>

Handled(p) ==
    /\ phase[p] = "handling"
    /\ visit[p] = {}
    /\ \/ exiting[p] /\ End(p)
       \/ /\ ~exiting[p]
          /\ phase' = [phase EXCEPT ![p] = "waiting"]
          /\ UNCHANGED <<queue, visit>>
    /\ UNCHANGED <<environment, exiting, linked, sent, rejected>>

Step(p) ==
    \/ Begin(p) \/ Enumerate(p) \/ VisitEnumerated(p) \/ Wait(p)
    \/ ReceiveAdded(p) \/ ReceiveOwner(p) \/ VisitHandled(p) \/ Handled(p)

Environment ==
    EmStart \/ Publish \/ EmStop \/ PldmStart \/ MapperLearns \/ PldmStop

Next == Environment \/ (\E p \in Programs : Step(p))

Spec == Init /\ [][Next]_vars

\* The programs and the bus do not stall; the services are started until they
\* stay up, and entity manager publishes what it detects.  Nothing makes them
\* stop.
FairSpec ==
    /\ Spec
    /\ \A p \in Programs : WF_vars(Step(p))
    /\ WF_vars(EmStart) /\ WF_vars(Publish)
    /\ WF_vars(PldmStart) /\ WF_vars(MapperLearns)

(***************************************************************************)
(* Properties                                                              *)
(***************************************************************************)

Messages ==
    [type : {"InterfacesAdded"}, object : Objects]
        \cup [type : {"NameOwnerChanged"}, owner : BOOLEAN]

\* Every variable has its type, only a program that runs has messages waiting,
\* and only the second one is told about PLDM.
TypeOK ==
    /\ kind \in [Objects -> Kinds]
    /\ published \subseteq Objects
    /\ em \in BOOLEAN /\ pldm \in BOOLEAN /\ manager \in BOOLEAN
    /\ linked \in BOOLEAN /\ sent \in BOOLEAN /\ rejected \in BOOLEAN
    /\ restarts \in 0 .. MaxRestarts
    /\ phase \in [Programs -> {"idle", "matched", "enumerating", "waiting", "handling", "ended"}]
    /\ queue \in [Programs -> Seq(Messages)]
    /\ \A p \in Programs : phase[p] \in {"idle", "ended"} => queue[p] = <<>>
    /\ \A i \in DOMAIN queue["links"] : queue["links"][i].type = "InterfacesAdded"
    /\ visit \in [Programs -> SUBSET Objects]
    /\ exiting \in [Programs -> BOOLEAN]

\* The machine has one Compatible interface (inventory has one system object),
\* and extensionMap has its model.
ModelKnown ==
    \E o \in Objects : kind[o] = "known" /\ \A q \in Objects \ {o} : ~Compatible(q)

\* The host's flash daemon, which waits for the second program, finds the links
\* made and the attribute table set, however the publication, the restarts and
\* the mapper interleave with the two programs.
HostIsPrepared == phase["bios"] = "ended" /\ ModelKnown => linked /\ sent

\* "register for a callback in case the Compatible interface has not yet been
\* published" (processHostFirmware): whether it is there at the enumeration,
\* comes during it, or comes later, the first program ends.
LinksEnd == (\E o \in Objects : Compatible(o)) => <>(phase["links"] = "ended")

\* "The BIOS attribute table can only be updated if PLDM is running [...]. Add a
\* match to monitor when the PLDM service starts" (updateBiosAttrTable): if the
\* mapper knows the table whenever PLDM has its name, and no Set is refused (nothing
\* tries that again), the second program ends, whether PLDM and entity manager come
\* first, later, or go and come back.
BiosEnds ==
    /\ \E o \in Objects : Compatible(o)
    /\ [](pldm => manager)
    /\ []~rejected
    => <>(phase["bios"] = "ended")
=============================================================================
