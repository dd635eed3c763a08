----------------------------- MODULE MmcHostfw -----------------------------
(***************************************************************************)
(* The host firmware directory of an eMMC BMC, /media/hostfw/running.      *)
(* Each side of the BMC has a read-only firmware image; mmc_init           *)
(* (mmc/obmc-flash-bios) fills the running directory from the image of the *)
(* side that was booted, once, and keeps the files the image marks as      *)
(* preserved.  After it the links are made (HostFirmwareLinks),            *)
(* recover_pnor_files looks at the sizes, and the host may run.  A factory *)
(* reset (ItemUpdaterMMC::reset) deletes everything and starts mmc_init    *)
(* again; bios_reset_if_needed asks for one when a GPIO has changed.       *)
(*                                                                         *)
(* One lid stands for those that are preserved, by the link that leads to  *)
(* it.  Power may be lost between any two steps.                           *)
(***************************************************************************)
EXTENDS Naturals

CONSTANTS MaxBoots,     \* bound: how often the BMC starts again
          Environments  \* bound: the environments to look at, see below

(***************************************************************************)
(* An environment is a set of                                               *)
(*   "init"      power is lost during mmc_init, or before the links exist, *)
(*               from the removal of the first file on                     *)
(*   "rollback"  the other side boots though mmc_init has not ended        *)
(*   "reset"     a client asks for a factory reset                         *)
(*   "gpio"      the GPIO is changed, once, while the BMC is off; and      *)
(*               power is lost during a reset                              *)
(*   "services"  a service the reset needs is not found                    *)
(*   "mount"     the image cannot be mounted                               *)
(***************************************************************************)
Labels == {"a", "b"}
None == "none"
Contents == {"default", "custom", "torn"}  \* torn: not the size of the image's

VARIABLES boot,    \* the side of the BMC that was booted
          dir,     \* whether the running directory is there
          lids,    \* the image whose lids are in it, None if not all of any
          kept,    \* what is in the preserved lid
          link,    \* whether the link to the preserved lid is there
          label,   \* the file partlabel
          prsv,    \* the preserved lid in the directory prsv
          mounted, \* whether the image is mounted
          pc,      \* the line of mmc_init
          unit,    \* the last unit that has ended: "none", "linked", "ready"
          gpio, stored,  \* the GPIO, and the file reset-gpio-val
          script,  \* bios_reset_if_needed: "start", "calling", "record", "done"
          reset,   \* ItemUpdaterMMC::reset: where it is
          todo,    \* what it has still to delete
          boots,   \* how often the BMC has started again
          written, \* the host has written the preserved lid and no one else
          environment  \* what may happen

running == <<dir, lids, kept, link, label>>
boards == <<boot, gpio, boots, environment>>
resetting == <<stored, script, reset, todo>>
vars == <<boards, running, prsv, mounted, pc, unit, resetting, written>>

Init ==
    /\ environment \in Environments
    /\ boot = "a"
    /\ dir = FALSE /\ lids = None /\ kept = None /\ link = FALSE /\ label = None
    /\ prsv = None
    /\ mounted = FALSE
    /\ pc = "start"
    /\ unit = "none"
    /\ gpio = "0" /\ stored = None
    /\ script = "start"
    /\ reset = "none"
    /\ todo = {}
    /\ boots = 0
    /\ written = FALSE

(***************************************************************************)
(* mmc_init                                                                *)
(***************************************************************************)

Lines == {"start", "clear prsv", "copy prsv", "remove", "copy lids", "restore",
          "drop prsv", "write label", "done"}

Line(from, to) == pc = from /\ pc' = to
OtherThanInit == UNCHANGED <<boards, unit, resetting, written>>

\* Directories, mount and the comparison of the labels.
InitStart ==
    /\ Line("start", IF label = boot THEN "done" ELSE "clear prsv")
    /\ dir' = TRUE
    /\ \/ mounted' = TRUE
       \/ "mount" \in environment /\ mounted' = mounted
    /\ UNCHANGED <<lids, kept, link, label, prsv>>
    /\ OtherThanInit

ClearPrsv ==
    /\ Line("clear prsv", "copy prsv")
    /\ prsv' = None
    /\ UNCHANGED <<running, mounted>>
    /\ OtherThanInit

\* The loop over the lines marked PRESERVED: only a file that a link leads to
\* is found, and only one of the right size is copied.
CopyPrsv ==
    /\ Line("copy prsv", "remove")
    /\ prsv' = IF mounted /\ link /\ kept \in {"default", "custom"} THEN kept ELSE prsv
    /\ UNCHANGED <<running, mounted>>
    /\ OtherThanInit

\* The mutant of LidsRemoved: the lids of the other side stay.
LidsStay == lids

LidsRemoved == None

\* The mutant of LabelRemoved: the label is already the new one.
LabelEarly == IF dir THEN boot ELSE None

LabelRemoved == None

\* rm -f running/* goes by the names: the lids, then the links, then the label;
\* n is how far it has come.
RemoveFiles ==
    /\ pc = "remove"
    /\ \E n \in 1 .. 4 :
        /\ lids' = LidsRemoved
        /\ kept' = IF n > 1 THEN None ELSE kept
        /\ link' = (link /\ n <= 2)
        /\ label' = IF n = 4 THEN LabelRemoved ELSE label
        /\ pc' = IF n = 4 THEN "copy lids" ELSE "remove"
    /\ UNCHANGED <<dir, prsv, mounted>>
    /\ OtherThanInit

\* No command's failure ends the script.
CopyLids ==
    /\ Line("copy lids", "restore")
    /\ IF mounted /\ dir THEN lids' = boot /\ kept' = "default" ELSE UNCHANGED <<lids, kept>>
    /\ UNCHANGED <<dir, link, label, prsv, mounted>>
    /\ OtherThanInit

\* The mutant of Restored: the copy in prsv is forgotten.
RestoredNot == kept

Restored == IF dir /\ prsv # None THEN prsv ELSE kept

Restore ==
    /\ Line("restore", "drop prsv")
    /\ kept' = Restored
    /\ UNCHANGED <<dir, lids, link, label, prsv, mounted>>
    /\ OtherThanInit

DropPrsv ==
    /\ Line("drop prsv", "write label")
    /\ prsv' = None
    /\ UNCHANGED <<running, mounted>>
    /\ OtherThanInit

WriteLabel ==
    /\ Line("write label", "done")
    /\ label' = IF dir THEN boot ELSE None
    /\ UNCHANGED <<dir, lids, kept, link, prsv, mounted>>
    /\ OtherThanInit

MmcInit == \/ InitStart \/ ClearPrsv \/ CopyPrsv \/ RemoveFiles
           \/ CopyLids \/ Restore \/ DropPrsv \/ WriteLabel

(***************************************************************************)
(* The units after it, and the host                                        *)
(***************************************************************************)

\* process-host-firmware and update-bios-attr-table.
MakeLinks ==
    /\ pc = "done"
    /\ unit = "none"
    /\ unit' = "linked"
    /\ link' = (link \/ (dir /\ kept # None))
    /\ UNCHANGED <<boards, dir, lids, kept, label, prsv, mounted, pc, resetting, written>>

\* recover_pnor_files.
Recover ==
    /\ unit = "linked"
    /\ unit' = "ready"
    /\ kept' = IF mounted /\ link /\ kept = "torn" THEN "default" ELSE kept
    /\ UNCHANGED <<boards, dir, lids, link, label, prsv, mounted, pc, resetting, written>>

\* The host changes the preserved file, or is stopped while it does.
HostWrites ==
    /\ unit = "ready"
    /\ link
    /\ kept # None
    /\ \E content \in {"custom", "torn"} :
        /\ kept' = content
        /\ written' = (content = "custom")
    /\ UNCHANGED <<boards, dir, lids, link, label, prsv, mounted, pc, unit, resetting>>

(***************************************************************************)
(* bios_reset_if_needed                                                    *)
(***************************************************************************)

OtherThanReset == UNCHANGED <<boards, mounted>>

MustReset == stored \notin {None, gpio}

BeginReset ==
    /\ reset' = "delete"
    /\ todo' = {"running", "prsv", "stored"}

ScriptStart ==
    /\ script = "start"
    /\ \/ MustReset /\ reset = "none" /\ BeginReset /\ script' = "calling"
       \/ ~MustReset /\ script' = "record" /\ UNCHANGED <<reset, todo>>
    /\ UNCHANGED <<running, prsv, pc, unit, stored, written>>
    /\ OtherThanReset

ScriptAnswered ==
    /\ script = "calling"
    /\ reset \in {"replied", "failed"}
    /\ script' = IF reset = "replied" THEN "record" ELSE "done"
    /\ reset' = "none"
    /\ UNCHANGED <<running, prsv, pc, unit, stored, todo, written>>
    /\ OtherThanReset

\* With an unchanged GPIO the file is as it is.
ScriptRecord ==
    /\ script = "record"
    /\ script' = "done"
    /\ stored' = gpio
    /\ UNCHANGED <<running, prsv, pc, unit, reset, todo, written>>
    /\ OtherThanReset

(***************************************************************************)
(* ItemUpdaterMMC::reset                                                   *)
(***************************************************************************)

ClientResets ==
    /\ "reset" \in environment
    /\ unit = "ready"
    /\ reset = "none"
    /\ script = "done"
    /\ BeginReset
    /\ UNCHANGED <<running, prsv, pc, unit, stored, script, written>>
    /\ OtherThanReset

ClientAnswered ==
    /\ script # "calling"
    /\ reset \in {"replied", "failed"}
    /\ reset' = "none"
    /\ UNCHANGED <<running, prsv, pc, unit, stored, script, todo, written>>
    /\ OtherThanReset

\* remove_all for the entries of /media/hostfw, in the order of the directory.
DeletePrsv ==
    /\ reset = "delete"
    /\ "prsv" \in todo
    /\ todo' = todo \ {"prsv"}
    /\ prsv' = None
    /\ UNCHANGED <<running, pc, unit, stored, script, reset, written>>
    /\ OtherThanReset

DeleteStored ==
    /\ reset = "delete"
    /\ "stored" \in todo
    /\ todo' = todo \ {"stored"}
    /\ stored' = None
    /\ UNCHANGED <<running, prsv, pc, unit, script, reset, written>>
    /\ OtherThanReset

\* The files of the running directory, then the directory.  The files can go in
\* two turns, the label in either.
DeleteRunning ==
    /\ reset = "delete"
    /\ "running" \in todo
    /\ \/ reset' = "delete"  /\ lids' = None /\ UNCHANGED <<kept, link, label, written>>
       \/ reset' = "delete"  /\ label' = None /\ UNCHANGED <<lids, kept, link, written>>
       \/ /\ reset' = "directory"
          /\ lids' = None /\ kept' = None /\ link' = FALSE /\ label' = None
          /\ written' = FALSE
    /\ UNCHANGED <<dir, prsv, pc, unit, stored, script, todo>>
    /\ OtherThanReset

Empty == lids = None /\ kept = None /\ ~link /\ label = None

\* rmdir fails where something has been put in again, and remove_all throws.
DeleteDirectory ==
    /\ reset = "directory"
    /\ \/ Empty /\ dir' = FALSE /\ reset' = "delete" /\ todo' = todo \ {"running"}
       \/ ~Empty /\ reset' = "failed" /\ todo' = {} /\ UNCHANGED dir
    /\ UNCHANGED <<lids, kept, link, label, prsv, pc, unit, stored, script, written>>
    /\ OtherThanReset

\* Error logs, NVRAM, inventory and console.  getService throws an exception
\* that none of them catches.
ResetServices ==
    /\ reset = "delete"
    /\ todo = {}
    /\ \/ reset' = "restart"
       \/ "services" \in environment /\ reset' = "failed"
    /\ UNCHANGED <<running, prsv, pc, unit, stored, script, todo, written>>
    /\ OtherThanReset

\* StartUnit for mmc_init and the units after it; one that is running is not
\* started again.

InitAgain == "start"

RestartUnits ==
    /\ reset = "restart"
    /\ reset' = "replied"
    /\ pc' = IF pc = "done" THEN InitAgain ELSE pc
    /\ unit' = IF pc = "done" THEN "none" ELSE unit
    /\ UNCHANGED <<running, prsv, stored, script, todo, written>>
    /\ OtherThanReset

Resetting ==
    \/ ScriptStart \/ ScriptAnswered \/ ScriptRecord \/ ClientResets \/ ClientAnswered
    \/ DeletePrsv \/ DeleteStored \/ DeleteRunning \/ DeleteDirectory
    \/ ResetServices \/ RestartUnits

(***************************************************************************)
(* The BMC starts again                                                    *)
(***************************************************************************)

Unsaved ==
    \/ pc \in {"copy lids", "restore", "drop prsv", "write label"}
    \/ pc = "remove" /\ lids = None
    \/ pc = "done" /\ unit = "none"

Boots ==
    /\ boots < MaxBoots
    /\ boots' = boots + 1
    /\ Unsaved => "init" \in environment
    /\ reset # "none" => "gpio" \in environment
    /\ boot' \in Labels
    /\ boot' # boot => pc = "done" \/ "rollback" \in environment
    /\ gpio' \in IF "gpio" \in environment THEN {gpio, "1"} ELSE {gpio}
    /\ mounted' = FALSE
    /\ pc' = "start"
    /\ unit' = "none"
    /\ script' = "start"
    /\ reset' = "none"
    /\ todo' = {}
    /\ UNCHANGED <<running, prsv, stored, written, environment>>

Next == MmcInit \/ MakeLinks \/ Recover \/ HostWrites \/ Resetting \/ Boots

Spec == Init /\ [][Next]_vars

(***************************************************************************)
(* Properties                                                              *)
(***************************************************************************)

FilesType ==
    /\ boot \in Labels
    /\ lids \in Labels \cup {None}
    /\ kept \in Contents \cup {None}
    /\ dir \in BOOLEAN /\ link \in BOOLEAN
    /\ label \in Labels \cup {None}
    /\ prsv \in {None, "default", "custom"}
    /\ ~dir => lids = None /\ kept = None /\ ~link /\ label = None

StepsType ==
    /\ mounted \in BOOLEAN /\ written \in BOOLEAN
    /\ unit \in {"none", "linked", "ready"}
    /\ gpio \in {"0", "1"} /\ stored \in {"0", "1", None}
    /\ script \in {"start", "calling", "record", "done"}
    /\ reset \in {"none", "delete", "directory", "restart", "replied", "failed"}
    /\ todo \subseteq {"running", "prsv", "stored"}
    /\ boots \in Nat
    /\ environment \in Environments

\* Every variable has its type, and a directory that is not there has no files.
TypeOK == FilesType /\ StepsType /\ pc \in Lines

\* "Determine if the running dir contains the running version": when the host
\* may run, the directory holds the whole image of the side that was booted,
\* wherever power was lost before.
HostHasImage ==
    \/ environment \subseteq {"init"}
    \/ environment \subseteq {"reset"}
    => (unit = "ready" /\ reset = "none" => dir /\ lids = boot /\ kept # None)

\* The host never gets lids of the side that was not booted, whatever happens.
NeverOtherSide == unit = "ready" => lids \in {None, boot}

\* "Restore the preserved partitions": what the host has written is what it
\* finds, after an update or on the other side, until a factory reset; and a
\* reset brings nothing of it back.
PreservedKept ==
    environment \subseteq {"reset"}
    => (unit # "none" /\ reset = "none" => (written <=> kept = "custom"))
=============================================================================
