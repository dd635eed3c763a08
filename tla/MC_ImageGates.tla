---------------------------- MODULE MC_ImageGates ---------------------------
(***************************************************************************)
(* The two judgements of an image: its signatures, before it is activated  *)
(* (ImageVerify), and its version against the minimum ship level, when it  *)
(* is functional (MinimumShipLevel).  They are looked at one at a time:    *)
(* component says which takes the steps of a behaviour.                    *)
(***************************************************************************)
EXTENDS ImageVerify, Integers, TLC

CONSTANTS Numbers, MaxMinimums, WatchLag   \* those of MinimumShipLevel

VARIABLES component,
          text, functional, objects, mins, named, actual, next, rc, verdict

Version(a, b, c) == [major |-> a, minor |-> b, rev |-> c, short |-> FALSE]
Short(a, b) == [major |-> a, minor |-> b, rev |-> 0, short |-> TRUE]

\* No key type and no system key differs from another.
Symmetry == Permutations(KeyTypes) \cup Permutations(SystemKeys)

\* Fields of one, two and three digits, at and above the width of a uint8_t.
Releases ==
    {Version(2, 0, 9), Version(2, 0, 10), Version(2, 1, 255), Version(2, 2, 0), Short(2, 2),
     Version(2, 10, 1), Version(10, 1, 1), Version(2, 256, 5), Short(3, 0)}

Ship == INSTANCE MinimumShipLevel

shipVars == <<text, functional, objects, mins, named, actual, next, rc, verdict>>

\* The component that is not looked at starts, and stays, in one state.
GatesInit ==
    /\ component \in {"ImageVerify", "MinimumShipLevel"}
    /\ \/ /\ component = "ImageVerify" /\ Init
          /\ text = [id \in Ship!Ids |-> Short(3, 0)]
          /\ functional = "current" /\ objects = {"current"} /\ mins = <<>>
          /\ named = Ship!Absent /\ actual = Ship!Absent
          /\ next = 1 /\ rc = 0 /\ verdict = "none"
       \/ /\ component = "MinimumShipLevel" /\ Ship!Init
          /\ config = <<>>
          /\ manifest = [signature |-> None, hash |-> None]
          /\ publickey = [key |-> None, signature |-> None]
          /\ image = [signature |-> None]
          /\ present = TRUE /\ fieldMode = "on"
          /\ pc = "construct" /\ todo = {} /\ current = None /\ outcome = "none"

OfVerify == component = "ImageVerify" /\ UNCHANGED <<component, shipVars>>
OfShip == component = "MinimumShipLevel" /\ UNCHANGED <<component, vars>>

GatesNext ==
    \/ Construct /\ OfVerify
    \/ FindKeyTypes /\ OfVerify
    \/ CheckManifest /\ OfVerify
    \/ CheckPublicKey /\ OfVerify
    \/ CheckImage /\ OfVerify
    \/ AskFieldMode /\ OfVerify
    \/ Discard /\ OfVerify
    \/ Ship!SymlinkHandled /\ OfShip
    \/ Ship!ErasePrevious /\ OfShip
    \/ Ship!ReadAssociations /\ OfShip
    \/ Ship!ReadVersion /\ OfShip
    \/ Ship!CheckMinimum /\ OfShip
    \/ Ship!Decide /\ OfShip

GatesSpec == GatesInit /\ [][GatesNext]_<<vars, component, shipVars>>

\* The verdict is that of the order of releases, for each release with a minimum of its
\* own and for those between, as long as the fields fit and the minimum versions are in
\* the order of their strings.
VerdictIsRightInOrder == Ship!VerdictIsRightInOrder
=============================================================================
