--------------------------- MODULE MC_UbiDeletion ---------------------------
(***************************************************************************)
(* The two ways versions go on the UBI layout: deleteAll with its clean-up *)
(* script (UbiCleanup), and Object.Delete of one version (VersionDelete).  *)
(* They are looked at one at a time: component says which takes the steps  *)
(* of a behaviour.                                                         *)
(***************************************************************************)
EXTENDS UbiCleanup

CONSTANTS Objects, MaxSignals   \* Versions and MaxSignals of VersionDelete

VARIABLES component,
          versions, deletable, link, power, signals, happening

\* deleteAll while the chassis is switched on and off, and with all that may happen;
\* Object.Delete with nothing else happening, and with all that may happen.
CleanupEnvironments == {{"chassis"}, {"chassis", "upload", "iterator"}}
DeleteEnvironments == {{}, {"restart", "link"}}

Interface == INSTANCE VersionDelete
                 WITH Versions <- Objects, Environments <- DeleteEnvironments,
                      environment <- happening

ASSUME ObjectsAssumption == Interface!None \notin Objects

interfaceVars == <<versions, deletable, link, power, signals, happening>>
deletionVars == <<vars, component, interfaceVars>>

DeletionInit ==
    /\ component \in {"UbiCleanup", "VersionDelete"}
    /\ Init /\ Interface!Init
    /\ component = "UbiCleanup" => happening = {}
    /\ component = "VersionDelete" =>
           volumes = {} /\ ~chassisOn /\ environment = {"chassis"}

OfCleanup == component = "UbiCleanup" /\ UNCHANGED <<component, interfaceVars>>
OfInterface == component = "VersionDelete" /\ UNCHANGED <<component, vars>>

DeletionNext ==
    \/ Begin /\ OfCleanup
    \/ Visit /\ OfCleanup
    \/ End /\ OfCleanup
    \/ Restart /\ OfCleanup
    \/ \E v \in Versions : Upload(v) /\ OfCleanup
    \/ \E v \in Versions : UmountJob(v) /\ OfCleanup
    \/ ChassisChange /\ OfCleanup
    \/ List /\ OfCleanup
    \/ RemoveNamed /\ OfCleanup
    \/ RemoveNoName /\ OfCleanup
    \/ \E v \in Objects : Interface!Create(v) /\ OfInterface
    \/ \E v \in Objects : Interface!DeleteCall(v) /\ OfInterface
    \/ Interface!MoveLink /\ OfInterface
    \/ Interface!PowerChange /\ OfInterface
    \/ Interface!Handle /\ OfInterface
    \/ Interface!Restart /\ OfInterface

DeletionSpec == DeletionInit /\ [][DeletionNext]_deletionVars /\ Fairness

\* While the chassis is not off, once the daemon has handled the power signals,
\* Object.Delete is on every version but the functional one.
DeleteFollows == Interface!DeleteFollows

\* "A functional activation will have no Object.Delete" (version.hpp): the code gives it
\* one, or leaves it, with the chassis off.
FunctionalHasNoDelete == Interface!FunctionalHasNoDelete
=============================================================================
