------------------------- MODULE MmcHostfw_proofs -------------------------
(***************************************************************************)
(* What holds of the running directory of an eMMC BMC for any number of    *)
(* boots and in any environment.                                           *)
(***************************************************************************)
EXTENDS MC_HostFiles, TLAPS

USE DEF Hostfw!Labels, Hostfw!None, Hostfw!running, Hostfw!boards, Hostfw!resetting,
        Hostfw!OtherThanInit, Hostfw!OtherThanReset, Hostfw!Line

\* A behaviour of the two components is one of the eMMC layout, which takes no step in those
\* of the other.
LEMMA FilesAreHostfw == FilesSpec => Hostfw!Spec
<1>1. FilesInit => Hostfw!Init BY DEF FilesInit
<1>2. [FilesNext]_filesVars => [Hostfw!Next]_Hostfw!vars
  <2> SUFFICES ASSUME [FilesNext]_filesVars PROVE [Hostfw!Next]_Hostfw!vars OBVIOUS
  <2>1. CASE UNCHANGED hostfwVars BY <2>1 DEF hostfwVars, Hostfw!vars
  <2>2. CASE ~UNCHANGED hostfwVars
    <3>1. UNCHANGED filesVars => UNCHANGED hostfwVars BY DEF filesVars
    <3>2. FilesNext BY <2>2, <3>1
    <3>3. ~OfResets BY <2>2 DEF OfResets
    <3> QED BY <3>2, <3>3 DEF FilesNext, OfHostfw, Hostfw!Next
  <2> QED BY <2>1, <2>2
<1> QED BY <1>1, <1>2, PTL DEF FilesSpec, Hostfw!Spec

(***************************************************************************)
(* Types                                                                   *)
(***************************************************************************)

\* No step leaves the lines of mmc_init.
LEMMA LinesOnly == line \in Hostfw!Lines /\ [Hostfw!Next]_Hostfw!vars => line' \in Hostfw!Lines
<1> SUFFICES ASSUME line \in Hostfw!Lines, [Hostfw!Next]_Hostfw!vars
             PROVE  line' \in Hostfw!Lines
  OBVIOUS
<1> USE DEF Hostfw!Lines
<1>1. CASE Hostfw!MmcInit
  BY <1>1 DEF Hostfw!MmcInit, Hostfw!InitStart, Hostfw!ClearPrsv, Hostfw!CopyPrsv,
     Hostfw!RemoveFiles, Hostfw!CopyLids, Hostfw!Restore, Hostfw!DropPrsv, Hostfw!WriteLabel
<1>2. CASE Hostfw!MakeLinks \/ Hostfw!Recover \/ Hostfw!HostWrites
  BY <1>2 DEF Hostfw!MakeLinks, Hostfw!Recover, Hostfw!HostWrites
<1>3. CASE Hostfw!Resetting
  BY <1>3 DEF Hostfw!Resetting, Hostfw!ScriptStart, Hostfw!ScriptAnswered, Hostfw!ScriptRecord,
     Hostfw!ClientResets, Hostfw!ClientAnswered, Hostfw!DeletePrsv, Hostfw!DeleteStored,
     Hostfw!DeleteRunning, Hostfw!DeleteDirectory, Hostfw!ResetServices, Hostfw!RestartUnits,
     Hostfw!InitAgain
<1>4. CASE Hostfw!Boots BY <1>4 DEF Hostfw!Boots
<1>5. CASE UNCHANGED Hostfw!vars BY <1>5 DEF Hostfw!vars
<1> QED BY <1>1, <1>2, <1>3, <1>4, <1>5 DEF Hostfw!Next

\* No step of mmc_init leaves a file or a directory that has no type.
LEMMA MmcInitFiles == Hostfw!FilesType /\ Hostfw!MmcInit => Hostfw!FilesType'
<1> SUFFICES ASSUME Hostfw!FilesType, Hostfw!MmcInit PROVE Hostfw!FilesType' OBVIOUS
<1> USE DEF Hostfw!FilesType, Hostfw!Contents
<1>1. CASE Hostfw!InitStart BY <1>1 DEF Hostfw!InitStart
<1>2. CASE Hostfw!ClearPrsv BY <1>2 DEF Hostfw!ClearPrsv
<1>3. CASE Hostfw!CopyPrsv BY <1>3 DEF Hostfw!CopyPrsv
<1>4. CASE Hostfw!RemoveFiles BY <1>4 DEF Hostfw!RemoveFiles, Hostfw!LidsRemoved,
   Hostfw!LabelRemoved
<1>5. CASE Hostfw!CopyLids BY <1>5 DEF Hostfw!CopyLids
<1>6. CASE Hostfw!Restore BY <1>6 DEF Hostfw!Restore, Hostfw!Restored
<1>7. CASE Hostfw!DropPrsv BY <1>7 DEF Hostfw!DropPrsv
<1>8. CASE Hostfw!WriteLabel BY <1>8 DEF Hostfw!WriteLabel
<1> QED BY <1>1, <1>2, <1>3, <1>4, <1>5, <1>6, <1>7, <1>8 DEF Hostfw!MmcInit

\* Nor does a step of a reset, which only removes.
LEMMA ResettingFiles == Hostfw!FilesType /\ Hostfw!Resetting => Hostfw!FilesType'
<1> SUFFICES ASSUME Hostfw!FilesType, Hostfw!Resetting PROVE Hostfw!FilesType' OBVIOUS
<1> USE DEF Hostfw!FilesType, Hostfw!Contents
<1>1. CASE Hostfw!DeletePrsv BY <1>1 DEF Hostfw!DeletePrsv
<1>2. CASE Hostfw!DeleteRunning
  <2>1. UNCHANGED <<boot, dir, prsv>> BY <1>2 DEF Hostfw!DeleteRunning
  <2>2. CASE lids' = Hostfw!None /\ UNCHANGED <<kept, link, label>> BY <2>1, <2>2
  <2>3. CASE label' = Hostfw!None /\ UNCHANGED <<lids, kept, link>> BY <2>1, <2>3
  <2>4. CASE lids' = Hostfw!None /\ kept' = Hostfw!None /\ link' = FALSE /\ label' = Hostfw!None
    BY <2>1, <2>4
  <2> QED BY <1>2, <2>2, <2>3, <2>4 DEF Hostfw!DeleteRunning
<1>3. CASE Hostfw!DeleteDirectory BY <1>3 DEF Hostfw!DeleteDirectory, Hostfw!Empty
<1>4. CASE UNCHANGED <<Hostfw!running, prsv>> /\ boot' = boot BY <1>4
<1> QED
  BY <1>1, <1>2, <1>3, <1>4 DEF Hostfw!Resetting, Hostfw!ScriptStart, Hostfw!ScriptAnswered,
     Hostfw!ScriptRecord, Hostfw!ClientResets, Hostfw!ClientAnswered, Hostfw!DeleteStored,
     Hostfw!ResetServices, Hostfw!RestartUnits

\* The variables of the script and of a reset.
LEMMA ResettingSteps == Hostfw!StepsType /\ Hostfw!Resetting => Hostfw!StepsType'
<1> SUFFICES ASSUME Hostfw!StepsType, Hostfw!Resetting PROVE Hostfw!StepsType' OBVIOUS
<1> USE DEF Hostfw!StepsType
<1>1. CASE Hostfw!ScriptStart BY <1>1 DEF Hostfw!ScriptStart, Hostfw!BeginReset
<1>2. CASE Hostfw!ScriptAnswered BY <1>2 DEF Hostfw!ScriptAnswered
<1>3. CASE Hostfw!ScriptRecord BY <1>3 DEF Hostfw!ScriptRecord
<1>4. CASE Hostfw!ClientResets BY <1>4 DEF Hostfw!ClientResets, Hostfw!BeginReset
<1>5. CASE Hostfw!ClientAnswered BY <1>5 DEF Hostfw!ClientAnswered
<1>6. CASE Hostfw!DeletePrsv BY <1>6 DEF Hostfw!DeletePrsv
<1>7. CASE Hostfw!DeleteStored BY <1>7 DEF Hostfw!DeleteStored
<1>8. CASE Hostfw!DeleteRunning BY <1>8 DEF Hostfw!DeleteRunning
<1>9. CASE Hostfw!DeleteDirectory BY <1>9 DEF Hostfw!DeleteDirectory
<1>10. CASE Hostfw!ResetServices BY <1>10 DEF Hostfw!ResetServices
<1>11. CASE Hostfw!RestartUnits BY <1>11 DEF Hostfw!RestartUnits
<1> QED
  BY <1>1, <1>2, <1>3, <1>4, <1>5, <1>6, <1>7, <1>8, <1>9, <1>10, <1>11 DEF Hostfw!Resetting

\* Every variable keeps to its type, and a directory that was removed has no files.
THEOREM TypeCorrect == Hostfw!Spec => []Hostfw!TypeOK
<1>1. Hostfw!Init => Hostfw!TypeOK
  <2>1. Hostfw!Init => Hostfw!FilesType BY DEF Hostfw!Init, Hostfw!FilesType
  <2>2. Hostfw!Init => Hostfw!StepsType
    <3> SUFFICES ASSUME Hostfw!Init PROVE Hostfw!StepsType OBVIOUS
    <3>1. boots \in Nat BY DEF Hostfw!Init
    <3> QED BY <3>1 DEF Hostfw!Init, Hostfw!StepsType
  <2>3. Hostfw!Init => line \in Hostfw!Lines BY DEF Hostfw!Init, Hostfw!Lines
  <2> QED BY <2>1, <2>2, <2>3 DEF Hostfw!TypeOK
<1>2. Hostfw!TypeOK /\ [Hostfw!Next]_Hostfw!vars => Hostfw!TypeOK'
  <2> SUFFICES ASSUME Hostfw!FilesType, Hostfw!StepsType, line \in Hostfw!Lines,
                      [Hostfw!Next]_Hostfw!vars
               PROVE  Hostfw!FilesType' /\ Hostfw!StepsType' /\ line' \in Hostfw!Lines
    BY DEF Hostfw!TypeOK
  <2>0. line' \in Hostfw!Lines BY LinesOnly
  <2>1. CASE Hostfw!MmcInit
    <3>1. Hostfw!StepsType'
      <4>1. /\ UNCHANGED <<Hostfw!boards, unit, Hostfw!resetting, written>>
            /\ mounted' \in {mounted, TRUE}
        BY <2>1 DEF Hostfw!MmcInit, Hostfw!InitStart, Hostfw!ClearPrsv, Hostfw!CopyPrsv,
           Hostfw!RemoveFiles, Hostfw!CopyLids, Hostfw!Restore, Hostfw!DropPrsv,
           Hostfw!WriteLabel
      <4> QED BY <4>1 DEF Hostfw!StepsType
    <3> QED BY <2>0, <2>1, <3>1, MmcInitFiles
  <2>2. CASE Hostfw!MakeLinks BY <2>0, <2>2 DEF Hostfw!MakeLinks, Hostfw!FilesType,
     Hostfw!StepsType, Hostfw!Contents
  <2>3. CASE Hostfw!Recover BY <2>0, <2>3 DEF Hostfw!Recover, Hostfw!FilesType,
     Hostfw!StepsType, Hostfw!Contents
  <2>4. CASE Hostfw!HostWrites BY <2>0, <2>4 DEF Hostfw!HostWrites, Hostfw!FilesType,
     Hostfw!StepsType, Hostfw!Contents
  <2>5. CASE Hostfw!Resetting BY <2>0, <2>5, ResettingFiles, ResettingSteps
  <2>6. CASE Hostfw!Boots
    <3>1. boots' \in Nat BY <2>6 DEF Hostfw!Boots, Hostfw!StepsType
    <3>2. Hostfw!StepsType' BY <2>6, <3>1 DEF Hostfw!Boots, Hostfw!StepsType
    <3> QED BY <2>0, <2>6, <3>2 DEF Hostfw!Boots, Hostfw!FilesType
  <2>7. CASE UNCHANGED Hostfw!vars BY <2>0, <2>7 DEF Hostfw!vars, Hostfw!FilesType,
     Hostfw!StepsType
  <2> QED BY <2>1, <2>2, <2>3, <2>4, <2>5, <2>6, <2>7 DEF Hostfw!Next
<1> QED BY <1>1, <1>2, PTL DEF Hostfw!Spec

(***************************************************************************)
(* The host never gets lids of the other side                              *)
(***************************************************************************)

\* The label, where there is one, names the side of the lids; while files are copied
\* there is none, so that an interrupted copy is not taken for a whole one.
LabelNamesLids ==
    /\ label = Hostfw!None \/ lids \in {Hostfw!None, label}
    /\ line \in {"copy lids", "restore", "drop prsv", "write label"} => label = Hostfw!None
    /\ line = "copy lids" => lids = Hostfw!None
    /\ line \in {"restore", "drop prsv", "write label", "done"} => lids \in {Hostfw!None, boot}
    /\ unit # "none" => line = "done"

\* mmc_init keeps label and lids in step, whether the image is mounted or not.
LEMMA MmcInitLabels == Hostfw!TypeOK /\ LabelNamesLids /\ Hostfw!MmcInit => LabelNamesLids'
<1> SUFFICES ASSUME Hostfw!TypeOK, LabelNamesLids, Hostfw!MmcInit PROVE LabelNamesLids' OBVIOUS
<1> USE DEF Hostfw!TypeOK, Hostfw!FilesType, Hostfw!StepsType, LabelNamesLids
<1>1. CASE Hostfw!InitStart BY <1>1 DEF Hostfw!InitStart
<1>2. CASE Hostfw!ClearPrsv BY <1>2 DEF Hostfw!ClearPrsv
<1>3. CASE Hostfw!CopyPrsv BY <1>3 DEF Hostfw!CopyPrsv
<1>4. CASE Hostfw!RemoveFiles BY <1>4 DEF Hostfw!RemoveFiles, Hostfw!LidsRemoved,
   Hostfw!LabelRemoved
<1>5. CASE Hostfw!CopyLids BY <1>5 DEF Hostfw!CopyLids
<1>6. CASE Hostfw!Restore BY <1>6 DEF Hostfw!Restore
<1>7. CASE Hostfw!DropPrsv BY <1>7 DEF Hostfw!DropPrsv
<1>8. CASE Hostfw!WriteLabel BY <1>8 DEF Hostfw!WriteLabel
<1> QED BY <1>1, <1>2, <1>3, <1>4, <1>5, <1>6, <1>7, <1>8 DEF Hostfw!MmcInit

\* A reset only removes, also while mmc_init runs.
LEMMA ResettingLabels == Hostfw!TypeOK /\ LabelNamesLids /\ Hostfw!Resetting => LabelNamesLids'
<1> SUFFICES ASSUME Hostfw!TypeOK, LabelNamesLids, Hostfw!Resetting PROVE LabelNamesLids' OBVIOUS
<1> USE DEF Hostfw!TypeOK, Hostfw!FilesType, Hostfw!StepsType, LabelNamesLids
<1>1. CASE Hostfw!ScriptStart BY <1>1 DEF Hostfw!ScriptStart
<1>2. CASE Hostfw!ScriptAnswered BY <1>2 DEF Hostfw!ScriptAnswered
<1>3. CASE Hostfw!ScriptRecord BY <1>3 DEF Hostfw!ScriptRecord
<1>4. CASE Hostfw!ClientResets BY <1>4 DEF Hostfw!ClientResets
<1>5. CASE Hostfw!ClientAnswered BY <1>5 DEF Hostfw!ClientAnswered
<1>6. CASE Hostfw!DeletePrsv BY <1>6 DEF Hostfw!DeletePrsv
<1>7. CASE Hostfw!DeleteStored BY <1>7 DEF Hostfw!DeleteStored
<1>8. CASE Hostfw!DeleteRunning BY <1>8 DEF Hostfw!DeleteRunning
<1>9. CASE Hostfw!DeleteDirectory BY <1>9 DEF Hostfw!DeleteDirectory
<1>10. CASE Hostfw!ResetServices BY <1>10 DEF Hostfw!ResetServices
<1>11. CASE Hostfw!RestartUnits BY <1>11 DEF Hostfw!RestartUnits, Hostfw!InitAgain
<1> QED
  BY <1>1, <1>2, <1>3, <1>4, <1>5, <1>6, <1>7, <1>8, <1>9, <1>10, <1>11 DEF Hostfw!Resetting

\* The host never gets lids of the side that was not booted: with any number of boots of
\* either side, power losses, resets that race mmc_init, and mounts and services that fail.
THEOREM NeverOtherSideHolds == FilesSpec => []NeverOtherSide
<1>1. Hostfw!Init => LabelNamesLids
  BY DEF Hostfw!Init, LabelNamesLids
<1>2. Hostfw!TypeOK /\ LabelNamesLids /\ [Hostfw!Next]_Hostfw!vars => LabelNamesLids'
  <2> SUFFICES ASSUME Hostfw!TypeOK, LabelNamesLids, [Hostfw!Next]_Hostfw!vars
               PROVE  LabelNamesLids'
    OBVIOUS
  <2>1. CASE Hostfw!MmcInit BY <2>1, MmcInitLabels
  <2>2. CASE Hostfw!MakeLinks BY <2>2 DEF Hostfw!MakeLinks, LabelNamesLids
  <2>3. CASE Hostfw!Recover BY <2>3 DEF Hostfw!Recover, LabelNamesLids
  <2>4. CASE Hostfw!HostWrites BY <2>4 DEF Hostfw!HostWrites, LabelNamesLids
  <2>5. CASE Hostfw!Resetting BY <2>5, ResettingLabels
  <2>6. CASE Hostfw!Boots BY <2>6 DEF Hostfw!Boots, LabelNamesLids
  <2>7. CASE UNCHANGED Hostfw!vars BY <2>7 DEF Hostfw!vars, LabelNamesLids
  <2> QED BY <2>1, <2>2, <2>3, <2>4, <2>5, <2>6, <2>7 DEF Hostfw!Next
<1>3. LabelNamesLids => NeverOtherSide
  BY DEF LabelNamesLids, NeverOtherSide, Hostfw!NeverOtherSide
<1> QED BY <1>1, <1>2, <1>3, FilesAreHostfw, TypeCorrect, PTL DEF Hostfw!Spec

(***************************************************************************)
(* The host gets the whole image                                           *)
(***************************************************************************)

\* What the environments of HostHasImage and PreservedKept have in common: the GPIO does
\* not change, and no mount and no service fails.
Quiet == happening \subseteq {"init"} \/ happening \subseteq {"reset"}

Deleting == reset \in {"delete", "directory", "restart"}

\* The GPIO's file is as it was, so the script asks for no reset; one that a client asked
\* for finds mmc_init and the units ended, and no boot interrupts it.
ResetAlone ==
    /\ gpio = "0"
    /\ stored \in {Hostfw!None, "0"}
    /\ script # "calling"
    /\ reset # "failed"
    /\ Deleting => line = "done" /\ unit = "ready"
    /\ unit # "none" => line = "done"
    /\ reset = "delete" /\ "running" \notin undone => Hostfw!Empty
    /\ reset \in {"directory", "restart"} => Hostfw!Empty

\* Once the label names the side that was booted, its image is there, and it does once
\* mmc_init has ended.
LabelMeansImage ==
    /\ line # "start" => mounted
    /\ line # "start" /\ ~Deleting => dir
    /\ label = boot /\ ~Deleting => dir /\ lids = boot /\ kept # Hostfw!None
    /\ line \in {"clear prsv", "copy prsv", "remove"} => label # boot
    /\ line \in {"copy lids", "restore", "drop prsv", "write label"} => label = Hostfw!None
    /\ line \in {"restore", "drop prsv", "write label"} => lids = boot /\ kept # Hostfw!None
    /\ line = "done" /\ ~Deleting => label = boot

QuietInv == Quiet => ResetAlone /\ LabelMeansImage

\* The steps of mmc_init lead to a label that names lids of the booted side.
LEMMA MmcInitQuiet ==
    Hostfw!TypeOK /\ Quiet /\ ResetAlone /\ LabelMeansImage /\ Hostfw!MmcInit
        => ResetAlone' /\ LabelMeansImage'
<1> SUFFICES ASSUME Hostfw!TypeOK, Quiet, ResetAlone, LabelMeansImage, Hostfw!MmcInit
             PROVE  ResetAlone' /\ LabelMeansImage'
  OBVIOUS
<1> USE DEF Hostfw!TypeOK, Hostfw!FilesType, Hostfw!StepsType, Hostfw!Contents, Quiet, Deleting,
   ResetAlone, LabelMeansImage, Hostfw!Empty
<1>1. CASE Hostfw!InitStart BY <1>1 DEF Hostfw!InitStart
<1>2. CASE Hostfw!ClearPrsv BY <1>2 DEF Hostfw!ClearPrsv
<1>3. CASE Hostfw!CopyPrsv BY <1>3 DEF Hostfw!CopyPrsv
<1>4. CASE Hostfw!RemoveFiles BY <1>4 DEF Hostfw!RemoveFiles, Hostfw!LidsRemoved,
   Hostfw!LabelRemoved
<1>5. CASE Hostfw!CopyLids BY <1>5 DEF Hostfw!CopyLids
<1>6. CASE Hostfw!Restore BY <1>6 DEF Hostfw!Restore, Hostfw!Restored
<1>7. CASE Hostfw!DropPrsv BY <1>7 DEF Hostfw!DropPrsv
<1>8. CASE Hostfw!WriteLabel BY <1>8 DEF Hostfw!WriteLabel
<1> QED BY <1>1, <1>2, <1>3, <1>4, <1>5, <1>6, <1>7, <1>8 DEF Hostfw!MmcInit

\* A factory reset takes the label away with the lids, and mmc_init runs again after it.
LEMMA ResettingQuiet ==
    Hostfw!TypeOK /\ Quiet /\ ResetAlone /\ LabelMeansImage /\ Hostfw!Resetting
        => ResetAlone' /\ LabelMeansImage'
<1> SUFFICES ASSUME Hostfw!TypeOK, Quiet, ResetAlone, LabelMeansImage, Hostfw!Resetting
             PROVE  ResetAlone' /\ LabelMeansImage'
  OBVIOUS
<1> USE DEF Hostfw!TypeOK, Hostfw!FilesType, Hostfw!StepsType, Hostfw!Contents, Quiet, Deleting,
   ResetAlone, LabelMeansImage, Hostfw!Empty
<1>1. CASE Hostfw!ScriptStart BY <1>1 DEF Hostfw!ScriptStart, Hostfw!MustReset
<1>2. CASE Hostfw!ScriptAnswered BY <1>2 DEF Hostfw!ScriptAnswered
<1>3. CASE Hostfw!ScriptRecord BY <1>3 DEF Hostfw!ScriptRecord
<1>4. CASE Hostfw!ClientResets BY <1>4 DEF Hostfw!ClientResets, Hostfw!BeginReset
<1>5. CASE Hostfw!ClientAnswered BY <1>5 DEF Hostfw!ClientAnswered
<1>6. CASE Hostfw!DeletePrsv BY <1>6 DEF Hostfw!DeletePrsv
<1>7. CASE Hostfw!DeleteStored BY <1>7 DEF Hostfw!DeleteStored
<1>8. CASE Hostfw!DeleteRunning BY <1>8 DEF Hostfw!DeleteRunning
<1>9. CASE Hostfw!DeleteDirectory BY <1>9 DEF Hostfw!DeleteDirectory
<1>10. CASE Hostfw!ResetServices BY <1>10 DEF Hostfw!ResetServices
<1>11. CASE Hostfw!RestartUnits BY <1>11 DEF Hostfw!RestartUnits, Hostfw!InitAgain
<1> QED
  BY <1>1, <1>2, <1>3, <1>4, <1>5, <1>6, <1>7, <1>8, <1>9, <1>10, <1>11 DEF Hostfw!Resetting

\* A behaviour stays in its surroundings.
LEMMA SameEnvironment == [Hostfw!Next]_Hostfw!vars => happening' = happening
  BY DEF Hostfw!Next, Hostfw!vars, Hostfw!MmcInit, Hostfw!InitStart, Hostfw!ClearPrsv,
     Hostfw!CopyPrsv, Hostfw!RemoveFiles, Hostfw!CopyLids, Hostfw!Restore, Hostfw!DropPrsv,
     Hostfw!WriteLabel, Hostfw!MakeLinks, Hostfw!Recover, Hostfw!HostWrites, Hostfw!Resetting,
     Hostfw!ScriptStart, Hostfw!ScriptAnswered, Hostfw!ScriptRecord, Hostfw!ClientResets,
     Hostfw!ClientAnswered, Hostfw!DeletePrsv, Hostfw!DeleteStored, Hostfw!DeleteRunning,
     Hostfw!DeleteDirectory, Hostfw!ResetServices, Hostfw!RestartUnits, Hostfw!Boots

\* What is known of quiet surroundings holds in every reachable state.
LEMMA QuietInvHolds == Hostfw!Spec => []QuietInv
<1>1. Hostfw!Init => QuietInv
  BY DEF Hostfw!Init, QuietInv, ResetAlone, LabelMeansImage, Deleting
<1>2. Hostfw!TypeOK /\ QuietInv /\ [Hostfw!Next]_Hostfw!vars => QuietInv'
  <2> SUFFICES ASSUME Hostfw!TypeOK, QuietInv, [Hostfw!Next]_Hostfw!vars, Quiet'
               PROVE  ResetAlone' /\ LabelMeansImage'
    BY DEF QuietInv
  <2>2. Quiet /\ ResetAlone /\ LabelMeansImage
    BY SameEnvironment DEF Quiet, QuietInv
  <2> USE DEF Hostfw!TypeOK, Hostfw!FilesType, Hostfw!StepsType, Hostfw!Contents, Quiet,
     Deleting, ResetAlone, LabelMeansImage, Hostfw!Empty
  <2>3. CASE Hostfw!MmcInit BY <2>2, <2>3, MmcInitQuiet
  <2>4. CASE Hostfw!MakeLinks BY <2>2, <2>4 DEF Hostfw!MakeLinks
  <2>5. CASE Hostfw!Recover BY <2>2, <2>5 DEF Hostfw!Recover
  <2>6. CASE Hostfw!HostWrites BY <2>2, <2>6 DEF Hostfw!HostWrites
  <2>7. CASE Hostfw!Resetting BY <2>2, <2>7, ResettingQuiet
  <2>8. CASE Hostfw!Boots BY <2>2, <2>8 DEF Hostfw!Boots, Hostfw!Unsaved
  <2>9. CASE UNCHANGED Hostfw!vars BY <2>2, <2>9 DEF Hostfw!vars
  <2> QED BY <2>3, <2>4, <2>5, <2>6, <2>7, <2>8, <2>9 DEF Hostfw!Next
<1> QED BY <1>1, <1>2, TypeCorrect, PTL DEF Hostfw!Spec

\* When the host may run, the directory holds the whole image of the side that was booted:
\* with any number of power losses during mmc_init, or any number of updates and resets.
THEOREM HostHasImageHolds == FilesSpec => []HostHasImage
<1>1. QuietInv => HostHasImage
  BY DEF QuietInv, Quiet, HostHasImage, Hostfw!HostHasImage, ResetAlone, LabelMeansImage, Deleting
<1> QED BY <1>1, FilesAreHostfw, QuietInvHolds, PTL

(***************************************************************************)
(* What the host has written stays                                         *)
(***************************************************************************)

OnlyResets == happening \subseteq {"reset"}

\* What the host has written is in its file, where a link leads to it, until files are
\* removed; then in prsv until it is restored.
WrittenKept ==
    /\ line \notin {"remove", "copy lids", "restore"} => (written <=> kept = "custom")
    /\ line \in {"remove", "copy lids", "restore"} => (written <=> prsv = "custom")
    /\ line = "remove" /\ lids # Hostfw!None => (written <=> kept = "custom")
    /\ line = "copy prsv" => prsv = Hostfw!None
    /\ line = "restore" => kept = "default"
    /\ kept = "custom" /\ line \in {"start", "clear prsv", "copy prsv"} => link
    /\ kept = "custom" /\ line = "remove" /\ lids # Hostfw!None => link
    /\ kept = "custom" /\ unit # "none" => link

KeptInv == OnlyResets => WrittenKept

\* mmc_init carries it from one image to the next.
LEMMA MmcInitKept ==
    Hostfw!TypeOK /\ OnlyResets /\ ResetAlone /\ LabelMeansImage /\ WrittenKept /\ Hostfw!MmcInit
        => WrittenKept'
<1> SUFFICES ASSUME Hostfw!TypeOK, OnlyResets, ResetAlone, LabelMeansImage, WrittenKept,
                    Hostfw!MmcInit
             PROVE  WrittenKept'
  OBVIOUS
<1> USE DEF Hostfw!TypeOK, Hostfw!FilesType, Hostfw!StepsType, Hostfw!Contents, Deleting,
   ResetAlone, LabelMeansImage, WrittenKept
<1>1. CASE Hostfw!InitStart BY <1>1 DEF Hostfw!InitStart
<1>2. CASE Hostfw!ClearPrsv BY <1>2 DEF Hostfw!ClearPrsv
<1>3. CASE Hostfw!CopyPrsv BY <1>3 DEF Hostfw!CopyPrsv
<1>4. CASE Hostfw!RemoveFiles BY <1>4 DEF Hostfw!RemoveFiles, Hostfw!LidsRemoved,
   Hostfw!LabelRemoved
<1>5. CASE Hostfw!CopyLids BY <1>5 DEF Hostfw!CopyLids
<1>6. CASE Hostfw!Restore BY <1>6 DEF Hostfw!Restore, Hostfw!Restored
<1>7. CASE Hostfw!DropPrsv BY <1>7 DEF Hostfw!DropPrsv
<1>8. CASE Hostfw!WriteLabel BY <1>8 DEF Hostfw!WriteLabel
<1> QED BY <1>1, <1>2, <1>3, <1>4, <1>5, <1>6, <1>7, <1>8 DEF Hostfw!MmcInit

\* A reset removes the file and the claim that it is the host's together.
LEMMA ResettingKept ==
    Hostfw!TypeOK /\ OnlyResets /\ ResetAlone /\ LabelMeansImage /\ WrittenKept /\ Hostfw!Resetting
        => WrittenKept'
<1> SUFFICES ASSUME Hostfw!TypeOK, OnlyResets, ResetAlone, LabelMeansImage, WrittenKept,
                    Hostfw!Resetting
             PROVE  WrittenKept'
  OBVIOUS
<1> USE DEF Hostfw!TypeOK, Hostfw!FilesType, Hostfw!StepsType, Hostfw!Contents, Deleting,
   ResetAlone, LabelMeansImage, WrittenKept, Hostfw!Empty
<1>1. CASE Hostfw!DeletePrsv BY <1>1 DEF Hostfw!DeletePrsv
<1>2. CASE Hostfw!DeleteRunning BY <1>2 DEF Hostfw!DeleteRunning
<1>3. CASE Hostfw!DeleteDirectory BY <1>3 DEF Hostfw!DeleteDirectory
<1>4. CASE Hostfw!RestartUnits BY <1>4 DEF Hostfw!RestartUnits, Hostfw!InitAgain
<1>5. CASE UNCHANGED <<Hostfw!running, prsv, line, unit, written>> BY <1>5
<1> QED
  BY <1>1, <1>2, <1>3, <1>4, <1>5 DEF Hostfw!Resetting, Hostfw!ScriptStart,
     Hostfw!ScriptAnswered, Hostfw!ScriptRecord, Hostfw!ClientResets, Hostfw!ClientAnswered,
     Hostfw!DeleteStored, Hostfw!ResetServices

\* What the host has written is what it finds, after any number of updates and boots of the
\* other side, until a factory reset, and a reset brings nothing of it back.
THEOREM PreservedKeptHolds == FilesSpec => []PreservedKept
<1>1. Hostfw!Init => KeptInv
  BY DEF Hostfw!Init, KeptInv, WrittenKept
<1>2. Hostfw!TypeOK /\ QuietInv /\ KeptInv /\ [Hostfw!Next]_Hostfw!vars => KeptInv'
  <2> SUFFICES ASSUME Hostfw!TypeOK, QuietInv, KeptInv, [Hostfw!Next]_Hostfw!vars, OnlyResets'
               PROVE  WrittenKept'
    BY DEF KeptInv
  <2>1. OnlyResets BY SameEnvironment DEF OnlyResets
  <2>2. ResetAlone /\ LabelMeansImage /\ WrittenKept
    BY <2>1 DEF OnlyResets, QuietInv, Quiet, KeptInv
  <2> USE DEF Hostfw!TypeOK, Hostfw!FilesType, Hostfw!StepsType, Hostfw!Contents, OnlyResets,
     Deleting, ResetAlone, LabelMeansImage, WrittenKept
  <2>3. CASE Hostfw!MmcInit BY <2>1, <2>2, <2>3, MmcInitKept
  <2>4. CASE Hostfw!MakeLinks BY <2>2, <2>4 DEF Hostfw!MakeLinks
  <2>5. CASE Hostfw!Recover BY <2>2, <2>5 DEF Hostfw!Recover
  <2>6. CASE Hostfw!HostWrites BY <2>2, <2>6 DEF Hostfw!HostWrites
  <2>7. CASE Hostfw!Resetting BY <2>1, <2>2, <2>7, ResettingKept
  <2>8. CASE Hostfw!Boots
    <3>1. ~Hostfw!Unsaved BY <2>1, <2>8 DEF Hostfw!Boots
    <3>2. line \notin {"copy lids", "restore", "drop prsv", "write label"}
          /\ (line = "remove" => lids # Hostfw!None) /\ (line = "done" => unit # "none")
      BY <3>1 DEF Hostfw!Unsaved
    <3>3. (written <=> kept = "custom") /\ (kept = "custom" => link)
      BY <2>2, <3>2 DEF Hostfw!Lines
    <3>4. line' = "start" /\ unit' = "none" /\ UNCHANGED <<Hostfw!running, prsv, written>>
      BY <2>8 DEF Hostfw!Boots
    <3> QED BY <3>3, <3>4
  <2>9. CASE UNCHANGED Hostfw!vars BY <2>2, <2>9 DEF Hostfw!vars
  <2> QED BY <2>3, <2>4, <2>5, <2>6, <2>7, <2>8, <2>9 DEF Hostfw!Next
<1>3. KeptInv /\ QuietInv => PreservedKept
  BY DEF KeptInv, QuietInv, Quiet, OnlyResets, WrittenKept, ResetAlone,
     PreservedKept, Hostfw!PreservedKept
<1> QED BY <1>1, <1>2, <1>3, FilesAreHostfw, TypeCorrect, QuietInvHolds, PTL DEF Hostfw!Spec
=============================================================================
