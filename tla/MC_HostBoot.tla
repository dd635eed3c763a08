----------------------------- MODULE MC_HostBoot ----------------------------
(***************************************************************************)
(* What prepares the host of an eMMC BMC at a boot: what the two programs  *)
(* do to the directory and the attribute string (HostFirmwareLinks), and   *)
(* when they do it (HostFirmware).  They are looked at one at a time:      *)
(* component says which takes the steps of a behaviour.                    *)
(***************************************************************************)
EXTENDS HostFirmwareLinks

CONSTANTS Objects, MapperLag, MaxRestarts   \* those of HostFirmware

ASSUME ProgramsAssumption == Objects \subseteq Nat /\ MaxRestarts \in Nat

VARIABLES component,
          kind, published, em, pldm, manager, restarts, stage, queue, visit,
          exiting, linked, sent, rejected

\* No directory and any three elements; or a directory an earlier firmware left, one
\* element, and a BMC that starts again at any step.
AnyElements ==
    [initial |-> {Nothing}, blobs |-> {}, elements |-> 3, restarts |-> FALSE]
AnyDirectory ==
    [initial |-> {Nothing, File, TocLid},
     blobs |-> (Names \X Supported) \cup ((Names \ {Toc}) \X Unsupported),
     elements |-> 1, restarts |-> TRUE]
TwoBounds == {AnyElements, AnyDirectory}

Programs == INSTANCE HostFirmware WITH phase <- stage

programVars == <<kind, published, em, pldm, manager, restarts, stage, queue, visit,
                 exiting, linked, sent, rejected>>
bootVars == <<vars, component, programVars>>

BootInit ==
    /\ component \in {"HostFirmwareLinks", "HostFirmware"}
    /\ Init /\ Programs!Init
    /\ component = "HostFirmwareLinks" =>
           /\ kind = [o \in Objects |-> "absent"]
           /\ published = {} /\ ~em /\ ~pldm
    /\ component = "HostFirmware" =>
           /\ bounds = AnyElements /\ ~tocPresent

OfLinks == component = "HostFirmwareLinks" /\ UNCHANGED <<component, programVars>>
OfPrograms == component = "HostFirmware" /\ UNCHANGED <<component, vars>>

BootNext ==
    \/ LinkToc /\ OfLinks
    \/ LinkBlob /\ OfLinks
    \/ DirectoryError /\ OfLinks
    \/ ReadJson /\ OfLinks
    \/ TakeElement /\ OfLinks
    \/ EndOfElements /\ OfLinks
    \/ FixLink /\ OfLinks
    \/ Finish /\ OfLinks
    \/ Boots /\ OfLinks
    \/ Programs!EmStart /\ OfPrograms
    \/ Programs!Publish /\ OfPrograms
    \/ Programs!EmStop /\ OfPrograms
    \/ Programs!PldmStart /\ OfPrograms
    \/ Programs!MapperLearns /\ OfPrograms
    \/ Programs!PldmStop /\ OfPrograms
    \/ \E p \in {"links", "bios"} :
        \/ Programs!Begin(p) /\ OfPrograms
        \/ Programs!Enumerate(p) /\ OfPrograms
        \/ Programs!VisitEnumerated(p) /\ OfPrograms
        \/ Programs!Wait(p) /\ OfPrograms
        \/ Programs!ReceiveAdded(p) /\ OfPrograms
        \/ Programs!ReceiveOwner(p) /\ OfPrograms
        \/ Programs!VisitHandled(p) /\ OfPrograms
        \/ Programs!Handled(p) /\ OfPrograms

\* The fairness of HostFirmware, for its behaviours.
Run(A) == A /\ OfPrograms

BootSpec ==
    /\ BootInit /\ [][BootNext]_bootVars
    /\ \A p \in {"links", "bios"} : WF_bootVars(Run(Programs!Step(p)))
    /\ WF_bootVars(Run(Programs!EmStart)) /\ WF_bootVars(Run(Programs!Publish))
    /\ WF_bootVars(Run(Programs!PldmStart)) /\ WF_bootVars(Run(Programs!MapperLearns))

\* The host's flash daemon, which waits for the second program, finds the links made and
\* the attribute table set, however the publication, the restarts and the mapper
\* interleave with the two programs.
HostIsPrepared == Programs!HostIsPrepared

\* "register for a callback in case the Compatible interface has not yet been published"
\* (processHostFirmware): whether it is there at the enumeration, comes during it, or
\* comes later, the first program ends.
LinksEnd == Programs!LinksEnd

\* "Add a match to monitor when the PLDM service starts" (updateBiosAttrTable): where the
\* mapper keeps up with PLDM and no Set is refused, the second program ends, whichever of the services comes
\* first or goes and comes back.
BiosEnds == Programs!BiosEnds
=============================================================================
