---------------------------- MODULE MC_HostFiles ----------------------------
(***************************************************************************)
(* What the BMC does to what the host has stored: the factory resets on    *)
(* the static and the UBI layout (FactoryReset), and on an eMMC BMC the    *)
(* scripts and the reset of the host firmware directory (MmcHostfw).  They *)
(* are looked at one at a time: component says which takes the steps of a  *)
(* behaviour.                                                              *)
(***************************************************************************)
EXTENDS FactoryReset

CONSTANT MaxBoots   \* that of MmcHostfw

VARIABLES component,
          boot, dir, lids, kept, link, label, prsv, mounted, line, unit, gpio, stored,
          script, reset, undone, boots, written, happening

TwoVersions == {"v1", "v2"}
PrsvFiles == {"SECBOOT", "GUARD", "NVRAM"}
Toc == {"VERSION", "GUARD", "MVPD", "FIRDATA"}
Cleaned == {"GUARD", "MVPD", "FIRDATA"}
Ecc == {"GUARD", "MVPD"}

\* Nothing fails; what fails without delay; a late hiomapd; all of it.
ResetEnvironments == {{"host"},
                      {"host", "refuse", "storage", "mapper", "crash"},
                      {"host", "lag"},
                      {"host", "lag", "refuse", "storage", "mapper", "crash"}}

\* Updates with power lost in mmc_init; resets; all of it.
HostfwEnvironments == {{"init"}, {"reset"},
                       {"init", "rollback", "reset", "gpio", "services", "mount"}}

Hostfw == INSTANCE MmcHostfw
              WITH pc <- line, todo <- undone, environment <- happening,
                   Environments <- HostfwEnvironments

hostfwVars == <<boot, dir, lids, kept, link, label, prsv, mounted, line, unit, gpio, stored,
                script, reset, undone, boots, written, happening>>
filesVars == <<vars, component, hostfwVars>>

FilesInit ==
    /\ component \in {"FactoryReset", "MmcHostfw"}
    /\ Init /\ Hostfw!Init
    /\ component = "FactoryReset" => happening = {"init"}
    /\ component = "MmcHostfw" => layout = "ubi" /\ environment = {"host"}

OfResets == component = "FactoryReset" /\ UNCHANGED <<component, hostfwVars>>
OfHostfw == component = "MmcHostfw" /\ UNCHANGED <<component, vars>>

FilesNext ==
    \/ \E k \in {"host", "gard"} : Reset(k) /\ OfResets
    \/ Suspend /\ OfResets
    \/ TimeOut /\ OfResets
    \/ \E i \in Items : Clear(i) /\ OfResets
    \/ \E i \in Items : ClearFails(i) /\ OfResets
    \/ \E i \in Items : HostWrites(i) /\ OfResets
    \/ Resume /\ OfResets
    \/ Crash /\ OfResets
    \/ Accept /\ OfResets
    \/ Refuse /\ OfResets
    \/ Hostfw!MmcInit /\ OfHostfw
    \/ Hostfw!MakeLinks /\ OfHostfw
    \/ Hostfw!Recover /\ OfHostfw
    \/ Hostfw!HostWrites /\ OfHostfw
    \/ Hostfw!Resetting /\ OfHostfw
    \/ Hostfw!Boots /\ OfHostfw

\* The fairness of FactoryReset: no step of it is enabled in the other's behaviours.
FilesSpec == FilesInit /\ [][FilesNext]_filesVars /\ Fairness

\* mmc_init, "Determine if the running dir contains the running version": when the host may
\* run, the directory holds the whole image of the side that was booted, wherever power
\* was lost before.
HostHasImage == Hostfw!HostHasImage

\* The host never gets lids of the side that was not booted, whatever happens to mmc_init,
\* the resets and the BMC.
NeverOtherSide == Hostfw!NeverOtherSide

\* "Restore the preserved partitions" (obmc-flash-bios): what the host has written is what
\* it finds, after an update or on the other side, until a factory reset, which brings
\* nothing of it back.
PreservedKept == Hostfw!PreservedKept
=============================================================================
