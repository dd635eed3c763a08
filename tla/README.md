# TLA+ verification of openpower-pnor-code-mgmt

This directory models the host firmware update manager of an OpenPOWER BMC, checks it with
TLC on small instances and proves its main invariants with TLAPS for instances of any size.
File and line references are to `src/`.

## 1. Inventory

`openpower-update-manager` is one D-Bus daemon on an sd-event loop, built for one of three
flash layouts (UBI, static, eMMC). It shows each host firmware version as an *Activation*
object, installs a version when a client asks for it, removes versions to make room, and
keeps the *redundancy priority* of each version: the lowest boots next. Scripts run by
systemd units create and remove the volumes and point symlinks at the version to boot.

| component | state | operations | talks to |
|---|---|---|---|
| UBI updater (`item_updater*.cpp`, `activation*.cpp`, `ubi/`) | `activations`, `versions`, `assocs`; per activation `ubiVolumesCreated`, progress, block, priority | createActivation, requestedActivation, unitStateChange, priority, erase, freeSpace, deleteAll, processPNORImage, reset | image manager (InterfacesAdded), systemd (StartUnit, JobRemoved), files, symlink watch |
| redundancy priorities (`freePriority`, `RedundancyPriority*`) | one number per version | constructor, setter, collision chain | priority files |
| priority persistence (`ubi/serialize.cpp`) | /var file, copy in the rw volume, u-boot variable | storeToFile, restoreFromFile, removeFile | setenv units |
| UBI volume jobs (`ubi/obmc-flash-bios`, units) | UBI volumes, mount points | mount ro/rw/prsv, umount, attach, remount, cleanup | systemd (OnFailure=) |
| active symlink (`vpnor/obmc-vpnor-util`, `ubi/watch.cpp`) | `pnor/ro`, `rw`, `prsv` links | update_symlinks, clear_volatile, Watch::callback | priority files, mount points, daemon |
| version objects (`version.cpp`) | id, Delete interface | getId, delete_, updateDeleteInterface | chassis state, functional association |
| static layout (`static/`) | the one flash, functional id | program, activation, reset | pflash unit |
| eMMC layout (`mmc/`) | running, alternate, patch directories | init, patch, factory reset | mounts, hiomapd |
| process-host-firmware, BIOS table (`functions.cpp`) | symlinks per firmware file, attribute table | choose extensions, write links, wait for the model interface | entity manager |
| signature verification (`image_verify.cpp`) | none | verify, systemLevelVerify, verifyFile | OpenSSL |
| minimum ship level (`msl_verify.cpp`) | log entry | compare, parse, verify | mapper |
| build tools (`generate-tar`, `generate-ubi`) | none on the BMC | | |

**How they interact.** A D-Bus client writes `RequestedActivation`; the daemon makes room
(umount jobs), starts the mount job `obmc-flash-bios-ubimount@<id>` and returns to its loop.
systemd runs the three steps of the job and broadcasts JobRemoved, which *every* activation
of the daemon receives; the one concerned checks that the volumes are there, takes priority
0 (moving the others up), stores the priorities and becomes Active. Before the host's flash
server starts, a script chooses the version with the lowest stored priority and moves the
`ro` symlink; inotify tells the daemon, which updates the functional association.

**What is hard.** The daemon is single-threaded, but everything it waits for is not: jobs of
several versions overlap, a failed job starts umount jobs that race a retry, a JobRemoved
message may arrive after its activation failed, was deleted or was restored by a restart,
`ubiVolumesCreated` makes an activation react to messages of unrelated units, and the
process may end between a job and its signal. Exceptions in a signal or inotify handler end
the process (the unit says `Restart=always`); exceptions in a property setter become an
error reply. `PROJECT.json` lists each such hazard at its line with the properties that
cover it, or the reason why none does.

**What makes the components correct.**

* UBI updater: blocks, progress and priority objects exist exactly while they should; every
  activation ends; the limit is kept, the functional version survives, the newest boots next.
* Priorities: distinct, order-preserving, in range. Persistence: files agree with D-Bus.
* Volume jobs: idempotent, and a failure leaves nothing a later start mistakes for a version.
* Symlinks: never lead to a version being removed; agree with the priorities.
* Version objects: a deletable version is not the one running.
* Static layout: one active version; a failed update releases the host.
* eMMC: no crash between steps loses preserved data; init and patch are idempotent.
* process-host-firmware: acts exactly once; links point at the file of the best extension.
* Signatures: success means every listed file was verified. MSL: order of versions.

## 2. Modules

| module | what it models |
|---|---|
| `ActivationLifecycle` | the abstract specification: the states of a version's activation, when it blocks the host, which other versions a step may remove |
| `PnorPriority` | a version's priority (a `uint8_t`), `freePriority` in closed form, the setters and the constructor |
| `FreePriorityLoop` | the loop of `freePriority`, one step per iteration of its priority queue |
| `UbiUpdater` | the daemon on the UBI layout with the mount and umount jobs, JobRemoved, the `ro` symlink, the chassis, termination and restart; implements `ActivationLifecycle` |
| `UbiCleanup` | `Collection.DeleteAll` and the clean-up script that runs beside the daemon |
| `PriorityFiles` | the three copies of one version's priority, power losses, the setenv and umount units |
| `VersionDelete` | the Delete interface against the power signals and the symlink |
| `StaticUpdater` | the daemon on the static layout with pflash and the one flash; implements `ActivationLifecycle` |
| `FactoryReset` | the resets of the UBI and the static layout between the calls to hiomapd |
| `MmcHostfw` | the running directory of the eMMC layout: `mmc_init`, `recover_pnor_files`, the factory reset, the GPIO, power losses |
| `HostFirmwareLinks` | what `process-host-firmware` and `update-bios-attr-table` do to the directory and the attribute string |
| `HostFirmware` | when they do it: the wait for entity manager, PLDM and the mapper |
| `ImageVerify` | which file of an image is checked with which key, the results and exceptions, field mode |
| `MinimumShipLevel` | the comparison of versions, the loop over the minimum versions and the lookup of the functional version |
| `MC_UbiUpdater`, `MC_StaticUpdater` | the surroundings in which a run checks the module they are named after |
| `MC_HostFiles` | `FactoryReset` and `MmcHostfw`, one at a time |
| `MC_UbiDeletion` | `UbiCleanup` and `VersionDelete` |
| `MC_Priorities` | `PriorityFiles` and `FreePriorityLoop` |
| `MC_HostBoot` | `HostFirmwareLinks` and `HostFirmware` |
| `MC_ImageGates` | `ImageVerify` and `MinimumShipLevel` |
| `UbiUpdater_proofs`, `StaticUpdater_proofs`, `FactoryReset_proofs`, `MmcHostfw_proofs` | theorems and lemmas about the module they are named after |
| `UbiDeletion_proofs`, `Priorities_proofs`, `HostBoot_proofs`, `ImageGates_proofs` | those about the two modules that the `MC_*` module of the same name puts side by side |

The name before `Late`, `Always`, `Never` and the like in definitions marked "mutant" is the
definition they replace: each is the code with one plausible mistake, and shows that a property
depends on that line. They take no part in the specifications.

**How the modules fit together.** `PnorPriority` is used by `UbiUpdater` and `FreePriorityLoop`.
`ActivationLifecycle` is instantiated by both updaters with `state` their `activation` and `blocks`
their `transition`. The other modules take over where an updater abstracts: `PriorityFiles` has the
copies `UbiUpdater` takes for any value, `ImageVerify` the computation behind `SignatureResults`,
`UbiCleanup`, `FactoryReset` and `VersionDelete` operations that go on while the daemon also does other
things; they keep only the state of the updater their question needs, and their heads say what they
hold fixed. `HostFirmware` decides when the steps of `HostFirmwareLinks` happen, after those of `MmcHostfw`.

### ActivationLifecycle

`state` is the Activation property (`None`: no object), `blocks` the versions with
`ActivationBlocksTransition`. `Appear`, `Begin`, `Finish`, `Fail`, `Delete` and `Stop` (the end of the
process) are all that may happen. Removing other versions is part of `Begin`, `Finish` or `Fail` and
touches Active ones only. `FairSpec` adds that an activation that blocks the host ends.
`Lingering` is a difference between the layouts: on the static layout a failed unit goes through the
setter of the base class, and the failed activation goes on blocking the host
(`static/activation_static.cpp:129`); a late success of a former life of the version may still finish it.

### UbiUpdater

A version is a number: only the order of the id strings matters (it decides between equal
priorities, in the queues and in `ls`). `-1` stands for "no object", "no file", "no link".

**State.** `activation`, `requested`, `created` (`ubiVolumesCreated`),
`transition` (the `ActivationBlocksTransition` and `ActivationProgress` objects, which the
code creates and resets together) and `priority` are the fields of the Activation objects.
`active`, `updateable`, `functional` are the association list, kept as sets: its order and
repetitions are not visible to anything else here. `stored` is the priority file in /var, the copy
that `restoreFromFile` reads first and the only one the symlink script reads; when it is
missing the value restored is any of `FallbackPriorities` (the copy in the rw volume, the
u-boot variable, or the default 255: `PriorityFiles` has them step by step). `ro` is a mount point that is absent, empty, or holds an
image with its `pnor.toc`. `mountJob` is the step a mount job has reached, `queued` the versions
whose job the running process started; `signals` the JobRemoved messages of mount jobs in
transit, `pending` the handlers that have still to see the message taken last.

**Steps.** Each client call and each handler is one action, with everything it does to the
objects, files and jobs. The handlers of one message run one after the other, in any order,
with no other message in between, and the jobs and the chassis move between them.
`ReceiveOther` is the JobRemoved message of a unit that is not a mount job: only
activations with a set `ubiVolumesCreated` react to it. A null `activationProgress`, the error
of a second Unsubscribe or another exception in a handler is `Terminate`: memory, messages and
inotify events are lost, files and jobs stay, and `Start` runs `processPNORImage` entry by
entry, in any order.

**Abstractions.**

* Version ids, purpose, extended version and paths are gone; `environment.unlabelled` holds the versions
  whose `pnor.toc` has no extended version, restored as Invalid.
* `processPNORImage` visits a version once; in the code its ro and rw directories are two
  entries, which differ only if an umount job ends between the two.
* "failed" stands for the results failed and dependency. Results such as canceled, which no
  handler acts upon, do not occur.
* systemd broadcasts the end of a job while the connection that started it is there (`queued`)
  or somebody is subscribed; `Owed` is when the daemon can rely on that. To a process that did
  not start the job and is not subscribed the message may or may not come, since some other
  program may be subscribed. A message may be delayed for as long as one likes. A duplicate
  cannot occur: systemd removes a job once.
* Umount jobs succeed. Writing a priority file is one step with its handler (its opening and its content apart: `PriorityFiles`); the BMC itself does not
  lose power, only the daemon ends.
* The Delete interface of a version may be absent in the code while the version is functional
  and the chassis is on; `erase` checks the same again, and that check is the one modelled.
* `pnor/rw` and `pnor/prsv` move with `pnor/ro` and are not kept apart.
* Nobody writes the `Activation` property directly over D-Bus.

### UbiCleanup

`Begin` and `Visit` are the loop of `deleteAll`: it reads the chassis once, visits the activations in the
order of the map, and `erase` reads the chassis again for each. Its end starts
`obmc-flash-bios-cleanup`. `List` is the script's look at D-Bus and at the volumes; it waits for the daemon to leave
its loop. `RemoveNamed` removes what is on the list one by one, `RemoveNoName` is the pass over the
empty name that an empty list becomes. The increment of the erased iterator is undefined behaviour; it goes on
or, in the environment `"iterator"`, ends the process. The ro and rw volumes of a version are taken for one, the symlink
does not move and nothing is activated.

### PriorityFiles

`copy` is what each copy holds now (the file in /var, the file in the rw volume, the u-boot variable),
`may` what a power loss may leave of it: the contents since the last flush, or a torn file. `storeToFile` and
`removeFile` go from one copy to the next in steps; the process may end in between. Opening a file truncates it (`StoreVar`, `StoreRw`), and
its content reaches it when the streams are destroyed: that of the rw volume at the end of its block (`FillRw`), that of /var
when the function returns, after the setenv unit was asked for (`CloseVar`). An empty file is `Torn`, and a restart removes it when it reads it (`Discarded`).
StartUnit is taken to accept the setenv unit. `Restored` is
`restoreFromFile` with the default. setenv units are queued by value; in the environment `"reorder"`
they end in any order, which systemd allows. `shown` is what clients have seen, `held` the priorities
since the volumes were made, `recent` the last one clients have seen and those of stores that have not ended since.

### VersionDelete

`deletable` are the versions with `Object.Delete`. `Create` gives it, `Handle` is `updateDeleteInterface` of all
versions for one signal of the chassis, `MoveLink` the symlink (which moves without a
signal), `Restart` the daemon's start, which gives it to all. `DeleteCall` asks `erase` again whether the version
runs. `"link"` lets the symlink move with the chassis on, which no unit does on its own.

### StaticUpdater

The objects are those of `UbiUpdater` without volumes. `fileFound`, `unitNamed` are the versions whose
`pnorFilePath` and `pnorUpdateUnit` are set, `prioritized` those with a priority object (always 0).
`image` is the upload, `flash` the version of the VERSION partition and `whole` whether all of it
was programmed. The job `openpower-pnor-update@` goes through `PflashStep`: nothing written, VERSION
written, all written. `disturbed` are jobs whose programming another job has overlapped: what they
leave is not whole. `StartError`, `StartRefused` and `StartActivation` are the ways `startActivation` ends
(exception, Failed, unit started); making room needs the chassis off only if there is an active version.
`Finish`, `HandleFailure` and `ReceiveIgnored` are the handler of JobRemoved. The name of the unit contains the path
of the image, so a message concerns at most one activation. `Start` shows what `getPNORVersion`
reads from the flash.

### FactoryReset

`content` says of each item (patch directory, rw volume of a version and files of `pnor-prsv` on UBI;
partitions on the static layout) whether it has data of the host, or how it was cleared. `calls` are Suspend and Resume
under way to hiomapd. A reset waits for the answer in `"suspending"` and `"resuming"` (`call_noreply` sends the call and waits for its outcome). hiomapd answers
each call in its turn: `Accept` does what is asked, `Refuse` is an error reply, and a hiomapd that is late (`"lag"`) answers when the
daemon has given up waiting (`TimeOut`). An error or a timeout is caught and logged, and the reset goes on as after a success (`After`). `refused`
says that hiomapd serves because it has refused the last Suspend. `HostWrites` is possible while hiomapd serves.
A reset clears its items one by one, in any order (the code's order is that of a map or a directory).
hiomapd is outside `src/` and is modelled by what the calls ask of it. Overlap with a static update is not modelled.

### MmcHostfw

`pc` goes through `mmc_init` line by line, `unit` is the last of the units that follow it. One preserved lid
stands for all of them; it is found through its link only, as in the code. `reset` is the factory reset:
`remove_all` deletes the entries of /media/hostfw one by one, the directory last, and throws where
it is not empty. The path `/var/lib/phosphor-software-manager/hostfw/running`, where
`recover_pnor_files` looks, is taken to lead to `/media/hostfw/running`. The GPIO changes once at most; the other
side boots only after `mmc_init` has ended unless `"rollback"` is in the environment.

### HostFirmwareLinks, HostFirmware

`dir` maps the well-known names (of a name: the boot entry and the `_RT` entry) to what is there: nothing, a
file that is no link, a lid, or the blob of an extension. `phase` goes through the functions of the two
programs (`findLinks`: `"toc"`, `"blobs"`; `getBiosAttrStr`: `"elements"`, then `"links"`), one step per entry
or element. `failed` collects the entries an error kept from being made. Power may be lost at any step; the directory stays.

In `HostFirmware` a program is `idle`, then `matched` (its matches exist), `enumerating`, `waiting` in the event loop, `handling`
a signal, or `ended`. Signals wait in `queue` while the program is inside a call. The mapper learns of PLDM's objects
with its name or (`MapperLag`) later. Entity manager may publish before, while or after the
programs ask, and may stop and start again. The Set of the attribute table is answered or not (`ok` in `Acts` and `Fails`), whatever the mapper knows; one that was
not answered may have been carried out. `rejected` says that one has failed.

### ImageVerify

The state of the files (`config`, `manifest`, `publickey`, `image`) is chosen once: a signature names the
key it was made with. `CheckManifest` is one pass of the loop over the key types, then the public key
and the image are checked. `present` may turn false at any step, when the upload goes. The result of a check is
valid, invalid, a failure (caught) or an error (not caught, `outcome` = `"exception"`).

### MinimumShipLevel

A version is its three numbers; `Text` is its string as far as sorting sees it, `Parsed` its fields
as `uint8_t`. One step per element of the loop. The update manager is a functional association that follows
the symlink when it handles the inotify event, and objects that go when a version is deleted.

## 3. Runs

| run | properties | shows |
|---|---|---|
| `ubi_updates` | `PriorityIffActive`, `BlocksWhileActivating`, `PriorityPersisted`, `ProgressPresent`, `LinkNotRemoved`, `LifecycleKept`, `LimitKept`, `NoNeedlessDeletion`, `FunctionalKept`, `NewestBootsNext`, `ActivatedIsMounted` | The UBI updater in six surroundings: one version to which everything happens, three that compete for two places in turn or at once while the host boots, jobs that fail and are retried, restarts at any step. Its objects, priorities, volumes and link stay consistent, and it takes only steps the life cycle allows. |
| `ubi_progress` | `ActivationEnds` | Two versions whose jobs fail and leave umount jobs and stale flags behind, and restarts at any point of two activations: every activation ends. |
| `ubi_unsubscribe` | `FinishIsSafe` (violated: finding 1) | Two activations at once: the second to finish unsubscribes a connection that is no longer subscribed, and the error ends the process. |
| `ubi_priority_wrap` | `DistinctPriorities` (violated: finding 2) | Versions restored at the default priority, the largest value, wrap to 0 and share a priority again. |
| `static_updates` | `OneActive`, `ActiveIsFlashed`, `EndFindsActivation`, `HostKeepsFlash`, `LifecycleEnds` | The static updater in three surroundings: updates that fail and are retried while the chassis is switched, three that overlap on one flash, deletions and restarts. It implements the life cycle with its liveness, and the host never loses the flash it runs from. |
| `static_deleted` | `NoActiveMeansEmpty` (violated: finding 3) | The active version is deleted with the chassis off: its image stays, the host is started from it, and the next update programs over it. |
| `ubi_deletion` | `CurrentKept`, `HostKeepsVersion`, `OthersGo`, `DeleteFollows` | The two ways versions go, deleteAll with its script and Object.Delete, while the chassis is switched, images are uploaded, the link moves and the daemon restarts: the host keeps its version, the others go. |
| `priorities` | `LoopIsFreePriority`, `RestoresLast`, `RestoresHeld`, `DeletedLeavesNone` | The three copies of a priority while the process ends at any step, power is lost, the volumes are busy and jobs overtake each other; and the loop of freePriority against its closed form for every assignment of five priorities to four versions. |
| `ubi_delete_interface` | `FunctionalHasNoDelete` (violated: finding 4) | While the chassis is off a signal leaves the functional version with its Delete interface, or gives it one. |
| `host_files` | `ServedIsFresh`, `EachCleared`, `OthersKept`, `ServerIsTold`, `HostHasImage`, `PreservedKept`, `NeverOtherSide` | What the host finds in its flash on the three layouts: factory resets of both kinds while the host writes, hiomapd is late or refuses, removals fail and the process ends; and four boots of either side of an eMMC BMC with power losses in mmc_init, resets, a changed GPIO and mounts that fail. |
| `host_boot` | `IplWins`, `LinksFollow`, `HostIsPrepared`, `LinksEnd`, `BiosEnds` | Every list of three elements, any directory an earlier boot may have left with errors and power losses, and the two programs beside entity manager, PLDM and the mapper, which start, publish and stop in any order. |
| `image_gates` | `OnlySignedInField`, `VerdictIsRightInOrder` | Every image under every configuration of two key types, its upload removed at any step; and every list of up to three minimum versions against every version. |

Every module is checked in several *surroundings* (sets of events that may happen) by one run: a variable
`environment` (`bounds` in `HostFirmwareLinks`, `layout` in `FactoryReset`) is chosen at the start of a behaviour and never changes, and the `MC_*`
modules list the choices. A property that holds only where some events are absent says so in its own condition. Where
two modules answer one question without sharing state, their `MC_*` module checks them together, and `component` says
which of them a behaviour is about; the other stays in its initial state.

The type invariants of the modules with a state machine of their own are proved (theorems `TypeCorrect`, `ProgramsTypeCorrect`);
no run lists `TypeOK`, and adding it to the configuration of its run checks it.

A run that expects a violation checks one sentence of the repository's own comments; the properties of the other runs hold.

**Surroundings and bounds, and why they are enough.**

* *UbiUpdater* (`MC_UbiUpdater`). `EverythingToOne`: one version with uploads, requests, deletion, re-upload, failing jobs, late signals, symlink updates,
  the chassis and restarts in every order. `UpdateThenBoot`, `UpdatesAndBoots`: three versions take turns in two places, one update after the other or
  overlapping, while the host boots. `FailuresAndRetries`: two activations at once whose jobs fail and are retried while the
  umount jobs of the failure still run. `OneAfterAnother`: the same one at a time, with signatures and bad images. `RestartsAndBoots`: two
  versions, one without an extended version, and a daemon that ends at any step of activations, priority writes or its own scan.
  Two overlapping activations exhibit every race between handlers, because one message reaches all activations; three versions
  are the least for which `freeSpace` has a choice of victims beside the functional version under the limit of 2 that the build sets (`meson.build`).
  `MaxPriority` 3 or 4 instead of 255 keeps the wrap within reach of a few collisions. `MaxSignals` bounds the messages in transit; a job
  waits to end when the queue is full, which is why the mount jobs' fairness is strong. `WrittenPriorities` and
  `FallbackPriorities` contain the values that collide with what activations take (0) and with the default. All events at once with two versions have
  millions of states; that is the proofs' part. The versions of `UpdatesAndBoots` are all unlabelled, so that
  the restart which finding 1 causes restores nothing: what restarts restore is the question of `RestartsAndBoots`.
* *StaticUpdater* (`MC_StaticUpdater`). `FailingUpdates`: two versions one after the other, units that fail, uploads that go, errors out of the setter.
  `OverlappingUpdates`: three at once, one active, one that fails, one that makes room for the other. `OverlapsAndRestarts`: two with deletions, failures and restarts.
* *UbiCleanup, VersionDelete* (`MC_UbiDeletion`). Three versions: one before and one after the running one in the order of the map. deleteAll with the chassis
  switched, and with uploads and a process that ends at the erased iterator. Four power signals: a whole cycle of the chassis may wait in the queue.
  Object.Delete with the symlink moving only while the chassis is off, and with restarts and a symlink that moves at any time.
* *PriorityFiles, FreePriorityLoop* (`MC_Priorities`). Three values: one shown, one being stored, the default. Ends of the process at any step with
  volumes that stay busy, and setenv units in their order or in any; one power loss; deletions and re-installation with late umount jobs. A second power loss could bring
  back a file that was unlinked in a former life, since nothing here flushes a directory, so `RestoresHeld` is about one. The loop: four versions,
  priorities 0..4 (`LoopVersions`, `LoopMax`), every assignment, so that chains of three collisions, duplicates, gaps and the wrap occur.
* *FactoryReset, MmcHostfw* (`MC_HostFiles`). Both layouts with a host that writes and nothing that fails; with refused calls, removals and look-ups that fail and a process that ends; with a
  hiomapd that is late; and with all of it. `MaxCalls` 2: the Resume of one reset and the Suspend of the next. The four partitions have each
  combination of the two flags that occurs and one without either.
  The eMMC BMC: two sides, three more boots: one that is cut short, one that recovers, one that shows what was kept. Power
  losses in `mmc_init`; factory resets and updates; both with a GPIO, the other side booting early, failing mounts and missing services.
* *HostFirmwareLinks, HostFirmware* (`MC_HostBoot`). Two names, one of them `pnor.toc`. No directory and every list of three elements, the least for an ipl
  element, a runtime element and one that comes after both; or any directory an earlier boot may have left and one element, with errors and power
  losses. Entries do not influence one another except through `attr`. Two objects: one that decides and one that is
  passed over, in either order. Two restarts: one of each service or one twice. The mapper may be behind.
* *ImageVerify, MinimumShipLevel* (`MC_ImageGates`). Two key types: one that decides and one that is tried before it; all else is enumerated. Key
  types and system keys are symmetric: no definition names one, and each goes through the sets only. Up to three minimum versions out of nine (`Numbers`), chosen for the
  boundaries: 9/10 and 2/10 in the text order, 255/256 in the width, two fields and three, a later release with a smaller minor number.

**Where a property holds only part of the time**, and what happens elsewhere.

* `ProgressPresent` and `ActivatedIsMounted` need that no job outlives the activation that started it (`Undisturbed`). One does when a version is deleted and uploaded again,
  when the process is killed, when the symlink leads to nothing and `Watch::callback` ends the process (`ubi/watch.cpp`), and when a third activation makes the
  second end the process in `finishActivation` (finding 1): a restart then restores the version, and the message of its old job finds
  an Active one, or Failed and Activating again. `ActivatedIsMounted` holds in all of that as long as no mount fails.
* `LinkNotRemoved` needs updates that neither overlap nor fail, and no re-upload: a daemon that ends in `finishActivation` (finding 1) restores the version
  whose umount jobs it has just queued, a client that raises its priority makes the symlink lead to volumes about
  to be removed, and so does a version that is activated again, after a failure or a new upload, while its own umount jobs wait.
* `NewestBootsNext` is about one update at a time (`OneAtATime`), without deletions by clients or ends of the process: after a restart an unlabelled version is Invalid and keeps its priority
  file, and so does a version that a late message of a former life makes Failed. It is about distinct priorities, since of three that share the value 0 one
  stays there, none of which wraps (`DistinctPriorities`, finding 2), and about one digit: the symlink
  script takes the last character of a priority (`vpnor/obmc-vpnor-util:81`), so that 10 boots before 1.
* `EndFindsActivation`, `ActiveIsFlashed` and `HostKeepsFlash` are about updates one after the other, without deletion and
  restart. Overlapping updates program the same flash, and nothing in the code keeps them apart; `OneActive` and the life cycle hold nevertheless.
  `HostKeepsFlash` (`WholeIsGuarded`) leaves out two more orders. An image whose `pnor.toc` has no extended version is shown as Invalid after a restart, so that no
  version is active and the next update programs it under a running host. And an update whose unit fails before it erases the flash leaves its block; a retry
  with a wrong signature releases the block, the host starts, and the update after that finds no active version.
* `CurrentKept` and `OthersGo` need a clean-up without uploads and an iterator that survives: the script keeps the last version of the daemon's object tree,
  and an image uploaded since has an object too (`ubi/obmc-flash-bios:205`); `deleteAll` erases the element its range-for is at
  (`ubi/item_updater_ubi.cpp:345`). With no volume to remove, the list has one empty name and the script removes `/media/` (`:211`).
* `DeleteFollows` needs a daemon that is not restarted with the host on (`processPNORImage` gives every version the interface, `ubi/item_updater_ubi.cpp:150`)
  and a symlink that moves with the chassis off only. It is about a chassis that is not off: with the chassis off the functional version has the interface too (finding 4).
* `RestoresLast` is about ends of the process, not of the power. Between the opening of the file in /var and the end of `storeToFile` that file is empty (`ubi/serialize.cpp:29`, `:49`), and the one in
  the rw volume too for a part of it or because a factory reset has removed it. A restart then reads u-boot's variable, which still has an older priority while the setenv unit of a later one is
  under way, or ends last: of two setenv units the older may write last (`:43`: the value is part of the unit's name). Hence its second alternative: a file can be read, or no setenv job is left and they ran in their order.
* `RestoresHeld` is about one power loss, and restores from the first copy there is.
* `ServedIsFresh` says "or has refused": a reset takes no notice of a refused Suspend (`utils.cpp:89`) and clears what hiomapd goes on serving. A Suspend that
  is answered too late ends with hiomapd suspended and then told, which both `ServedIsFresh` and `ServerIsTold` cover.
* `EachCleared` is about a hiomapd that accepts its calls in time, since the host may write to what a reset has cleared before Suspend is handled; it and `ServerIsTold` are about resets that
  reach their end. `remove_all` throws where a file cannot be removed, which ends the reset without Resume (`ubi/item_updater_ubi.cpp:234`).
* `HostHasImage` and `PreservedKept` leave out five orders the model has: `rm -f running/*` removes the lids before the label, so that the side the label names finds
  nothing to copy after a power loss (`mmc/obmc-flash-bios:113`); `mmc_init` clears the prsv directory, the only copy after a power loss (`:77`); a reset whose `getService` throws
  does not start the units that refill the directory (`mmc/item_updater_mmc.cpp:80`); a reset that meets `mmc_init` stops at a directory that is
  not empty (`:75`); and the reset deletes the file with the last GPIO value (`mmc/obmc-flash-bios:13`). `NeverOtherSide` holds in all of them.
* `HostIsPrepared` is about a machine whose model is known, `BiosEnds` about a mapper that keeps up with PLDM and a Set that does not fail. The handler of NameOwnerChanged asks the
  mapper at once, which may learn of PLDM's objects later (`functions.cpp:795`), and Set may be refused though the mapper knows the table (`:458`); in both cases `maybeCall` says that nothing was
  found, no other message is waited for, and the program may wait for ever.
* `LinksFollow` leaves out entries whose writing failed, `pnor.toc`, and files that are no symlinks, which the code does not touch.
* `VerdictIsRightInOrder` is about lists whose order as text is the order of the releases and fields up to 255: `std::sort` orders the minimum versions
  as text (`msl_verify.cpp:158`). It judges the version the program read, which may be the one functional before (`:112`).
* `OnlySignedInField` says that what passes is signed, not that what is signed passes: a key type without one of its files ends the verification of an image
  signed for another (`image_verify.cpp:170`, read outside the try block).
* The signature check of an image may throw when the field mode service is missing (`activation.cpp:272`); the activation then stays Activating
  without a job. The runs have the results valid and invalid; the theorems that need this say so.

**Fairness.**

* `UbiUpdater`, `StaticUpdater`: the daemon handles the messages it has been sent, systemd finishes the jobs it
  started, and `Restart=always` brings the daemon back. Strong fairness of `Receive` and of the jobs stands for the one queue in which
  messages wait, which the bound makes full. Nothing is assumed of clients, the chassis, the symlink script or crashes.
* `HostFirmware`: the programs and the mapper take their steps, entity manager and PLDM start in the end (their units are enabled) and entity manager
  publishes. That a service stops is nowhere required. That the machine has a Compatible interface is the hypothesis of the properties.
* `UbiCleanup`: the loop, the script and the jobs go on, a daemon that has ended is started again; strongly fair only for `List`, since the script's
  call waits for a daemon that is free between two calls of `deleteAll`.
* `FactoryReset`: the reset takes its steps and hiomapd answers its calls, in one way or the other.

**Deadlock** is checked in every run of the two updaters, which never stop. It is not checked where a program runs once
and ends (`host_boot`, `image_gates`, the loop in `priorities`), where boots are bounded (`host_files`), and in `ubi_deletion` and `ubi_delete_interface`, where nothing is left to do once
the volumes are gone.

### Findings

1. *The second activation to finish ends the daemon* (`ubi_unsubscribe`, `ubi/activation_ubi.cpp:181`). finishActivation unsubscribes the daemon's connection although another activation may have done so since this one subscribed; the error reply is caught for Subscribe (activation.cpp:53) and not for Unsubscribe (activation.cpp:73), so it leaves the signal handler and the process ends. activation.hpp:202 says "Once the activation process has completed successfully, we can safely unsubscribe from systemd signals."
2. *Default priorities wrap* (`ubi_priority_wrap`, `ubi/item_updater_ubi.cpp:305`). ++value on a uint8_t wraps at the default priority 255 that processPNORImage gives to a version without a stored one (ubi/item_updater_ubi.cpp:135): the third such version restored is moved onto the 0 another one was already moved to. item_updater.hpp:92 says freePriority continues "until there are no more duplicate values".
3. *Deleting the active version lets an update program a running host* (`static_deleted`, `static/item_updater_static.cpp:349`). Deleting the active version with the chassis off removes its objects and leaves its image in the flash. The host can be started from it; the next update finds no Active version, does not ask whether the chassis is on, and programs the flash of a running host. static/item_updater_static.cpp:349 says "No active PNOR means PNOR is empty or corrupted".
4. *The functional version may have a Delete interface* (`ubi_delete_interface`, `version.cpp:167`). updateDeleteInterface withholds the Delete interface from the functional version only while the chassis is not Off; with the chassis off it makes one where there is none, and leaves the one that is there. version.hpp:115 says "A functional activation will have no Object.Delete, while a non-functional activation will have one."

That the connection is no longer subscribed does not by itself keep an activation from ending:
systemd announces the end of a job to the connection that started it in any case.

## 4. Proofs

`tlapm M_proofs.tla` checks a module. The assumptions are those the modules name about their constants, and the hypotheses a theorem states. Every
safety property of the passing runs is the statement of a theorem. What follows is, per module, the inductive invariant and why it is needed.

**UbiUpdater_proofs.** `IInv` is `TypeOK` with

* `ScanFirst`: the start-up scan ends before handlers run, and a version still to be visited has
  no object. Without it the scan could overwrite an object whose priority or flags remain;
* `PriorityIffActive`, which a run checks, `StaleFlagOnlyFailed` and `ActiveAssociated`;
* `BlocksOnlyActivating`: a version that blocks transitions is Activating. It is what makes the
  version of a finishing handler different from every victim of `freeSpace`, which are Active.

`PriorityIffActive` is not inductive alone: `VolumesMissing` sets a version to Failed, and that it
was not Active follows from the other conjuncts only. The first lemmas keep the operators of `PnorPriority` in the range of the type, and
`PersistAgrees` (storing the value of a version and of those it moved keeps all files in step) carries `PrioritiesPersist`.

*Making room.* `Ranked` says that a finite set with a strict total order has exactly k elements that fewer than k precede; the proof builds the bijection
from the finite set. From it `FrontCount` and `RoomMade`, `RoomKept`: `freeSpace` leaves at most, and at least, `MaxActive - 1` active versions. `FinishStep` (only the handler
of a version makes it Active) then gives `LimitKept` and `NoNeedlessDeletion` without an invariant of their own: each activation makes room again when it finishes.

*Jobs.* `Jobs` ties an activation to its job: whoever has a job running, or a message of it in transit or in hand, is waiting for it (`OneJob`), and the volumes
are there when the job says so (`Mounting`). It is not inductive when jobs outlive activations, so it is carried with `Overlaps`: two activations at a time
share one subscription, which the first to end takes away, so the process survives two and not three. That is the condition `Undisturbed` of the properties. `ProcessEnds`
lists what ends the process. `Leads` says the same of the symlink where updates come one by one: volumes queued for removal belong to a version without object and file,
and the link leads to one that has both.

*What boots next.* `Filed`: where updates come one at a time, only active versions have a priority file. With `PriorityPersisted` the files are then the objects' priorities,
and `DistinctTaken` says that 0 is free when it is taken. The same lemma gives `OnlyWrapCollides`: as long as no version has the largest priority, no step makes two
versions share one, so the wrap is the only way to finding 2.

*The refinement* needs `PendingExist` besides: only activations that are still there have a handler to
run, as one that is erased while a message is handled is not called any more.

**StaticUpdater_proofs.** `IInv` is `TypeOK` with `DownIsEmpty`, `AtMostOne`, `SubscribedNoneActive` and `BlockingInv`. The heart is
`SubscribedNoneActive`: the connection is subscribed from the start of an update, which has made room, to the next end, which
unsubscribes. In between no version is active; an end that finds the connection unsubscribed ends the process. This is why overlapping
updates never show two active versions, although `freeSpace` erases only one and nobody checks. Where updates come one after the other, `EndsInv` (there is one activation under way, it is
subscribed, and the end of its unit is announced once), `FlashInv` (the flash holds what the last unit wrote; an active version is there as a whole and is the functional one) and
`GuardInv` (a host on a whole flash is on an active version or on the one about to become active; without a block a whole flash has an active version) make an inductive
invariant: `FlashInv` needs `EndsInv` to know that no second unit writes, and `GuardInv`, which has the condition `WholeIsGuarded`, needs both.

**UbiDeletion_proofs.** `VisitsDeleting` (only `deleteAll` has activations to visit) makes the types inductive. `LeftOver`: what `deleteAll` has visited is erased but for
the running version, and nothing is added before the script ends. `QueueFollows`: the last signal in the queue says what the power is now, and with an empty queue the interfaces are as the code keeps them (`InterfacesRight`).

**Priorities_proofs.** *The files.* `RecentKept` carries `RestoresLast`: a file that can be read has one of the priorities in `recent`, and so has the u-boot variable once its jobs have run in their order (`LastEnv`); what a store has been through has the new value.
`RestoredFile` and `RestoredAny` say what a restart makes of such copies. `NoneLeft`: without an object
no copy is left but what the jobs under way will remove; the last job in the queue decides about the u-boot variable (`LastEnv` again). `CopiesHeld`: whatever a copy holds, may hold after a
power loss, or will hold, the version has had since its volumes were made; a new life of the version starts from `NoneLeft`.
*The loop.* `LoopInv` follows the loop of `freePriority` through its queue: either it is still on the chain (`OnTrack`: every value from the one wanted to the one looked for has collided, and nobody
at that value or above has left the queue) or the chain is broken and all of it has been moved (`Through`). The two together with `MovedInv` say what each
version's priority is at every iteration, which at the end is the closed form of `PnorPriority`. Here no bound on the priorities is needed: the wrap is part of both.

**HostBoot_proofs.** *The links.* `IInv` is `TypeOK`, `IplWins` and `Linked`: while the links are made, those already visited lead where `attr` says. `TakenKeeps`
says that an element changes the entries of its own name only. *The programs.* `Prepared`: where one object decides, a program that ends or is about to has found it, and the second begins only after the first.

**ImageGates_proofs.** `Checked` says what each position of the verification has established (the manifest was signed by the key of the key type, then
the public key by the same one), which does not depend on whether files have gone since. `Loop`: the minimum versions passed are those of older releases, and the loop stops at the first that is not,
whose comparison is the verdict (`Stopped`); `StoppedDecides` shows that the others could not have changed it.

**FactoryReset_proofs.** `WaitingInv`: while items are cleared, hiomapd is suspended, has refused to be, or Suspend is the last call under way to it. `SuspendUnderWay`: what is served has changed behind it only in
the last two cases. `TodoInv`: what is still to be cleared is what a reset of either kind clears. `ClearingInv`: until hiomapd has accepted Suspend an undisturbed reset still has everything to clear, so that the host cannot write to what it has cleared.

**MmcHostfw_proofs.** `FilesAreHostfw`: what the two components of `MC_HostFiles` do is a behaviour of `MmcHostfw`, so its invariants hold there. `LabelNamesLids`: the label, where there is one, names the side of the lids, and there is none while files are copied; it holds among all failures. `ResetAlone` and
`LabelMeansImage`: where nothing else fails, a label with the booted side means its whole image, and a client's reset finds `mmc_init` ended. `WrittenKept` follows the preserved file: in `running` until files are
removed, then in `prsv` until it is restored.

| theorem | says, for every value of the constants |
|---|---|
| `UbiUpdater!TypeCorrect` | Every variable keeps to its type in every reachable state; no priority leaves the range of its type, also when freePriority wraps. |
| `UbiUpdater!PriorityOwnership` (`PriorityIffActive`) | Exactly the Active versions own a RedundancyPriority object, so freeSpace never dereferences a missing one. |
| `UbiUpdater!StaleFlag` | ubiVolumesCreated outlives its handler only in Failed activations without progress and block. |
| `UbiUpdater!AssociationsFollow` | The active associations cover the Active versions and name no deleted one. |
| `UbiUpdater!BlocksReleased` (`BlocksWhileActivating`) | Unless the image check throws, the host's transitions are blocked exactly while an activation is under way. |
| `UbiUpdater!FunctionalVersionKept` (`FunctionalKept`) | With room for two versions or more, making room never deletes the functional one, and a client deletes it only with the chassis off. |
| `UbiUpdater!PrioritiesPersist` (`PriorityPersisted`) | The priority files hold what D-Bus shows after every step of any number of versions, so a restart restores the same order. |
| `UbiUpdater!LimitIsKept` (`LimitKept`) | However many versions there are and however many are activated at a time, none ends active beside as many as the limit allows. Hypothesis: the limit is above 1. |
| `UbiUpdater!NothingDeletedNeedlessly` (`NoNeedlessDeletion`) | Making room leaves at least as many active versions as the limit allows beside a new one, however many there were before. |
| `UbiUpdater!ProgressIsPresent` (`ProgressPresent`) | Where no job outlives its activation (a condition of the property), the end of a job finds the progress object its activation made, however failures and retries of two activations overlap. |
| `UbiUpdater!ActivatedAreMounted` (`ActivatedIsMounted`) | A version becomes active only with its image and its rw volume mounted: where mounts succeed, and where no job outlives its activation. |
| `UbiUpdater!LinkIsNotRemoved` (`LinkNotRemoved`) | In the surroundings the property names, the active symlink never leads to volumes queued for removal, for any number of versions, client priorities and runs of the script. Hypothesis: the limit is above 1. |
| `UbiUpdater!NewestBootsNextHolds` (`NewestBootsNext`) | With one update at a time the symlink script chooses the version that was activated last, for any number of versions, deletions to make room and retries, as long as priorities are distinct and have one digit (conditions of the property). Hypothesis: the limit is above 1. |
| `UbiUpdater!OnlyWrapCollides` | Whatever is written, restored or activated, distinct priorities stay distinct unless one of them is the largest value: the wrap of finding 2 is the only way two versions come to share one. |
| `UbiUpdater!UbiImplementsLifecycle` (`LifecycleKept`) | Every step of the UBI updater maps to a step of the abstract life cycle of versions, or to none. |
| `StaticUpdater!TypeCorrect` | Every variable of the static updater keeps to its type. |
| `StaticUpdater!OneActiveHolds` (`OneActive`) | Any number of overlapping updates, deletions, failures and restarts leave at most one version Active. |
| `StaticUpdater!StaticImplementsLifecycle` | Every step of the static updater maps to a step of the abstract life cycle of versions, or to none. |
| `StaticUpdater!ActiveIsFlashedHolds` (`ActiveIsFlashed`) | With updates one after the other, a version shown as Active is on the flash, all of it, and no unit programs over it, however updates fail or are refused. |
| `StaticUpdater!EndFindsActivationHolds` (`EndFindsActivation`) | With updates one after the other, the end of a unit finds the activation that started it waiting, with its block and progress. |
| `StaticUpdater!HostKeepsFlashHolds` (`HostKeepsFlash`) | Under the condition of the property a host that runs from a whole flash keeps it: updates are refused, or the block keeps the host off until their end was handled. |
| `HostBoot!TypeCorrect` | Every variable of the link programs keeps to its type for any names, lids and lists of elements. |
| `HostBoot!IplWinsHolds` (`IplWins`) | Whatever the order and number of the elements, the last ipl element of a name is the one the host boots with. |
| `HostBoot!LinksFollowHolds` (`LinksFollow`) | Once both programs have run, every link leads where the attribute string says, whatever was in the directory and wherever power was lost. |
| `HostBoot!ProgramsTypeCorrect` | Every variable of the two programs beside the services keeps to its type, for any objects, messages and restarts. |
| `HostBoot!HostIsPreparedHolds` (`HostIsPrepared`) | For any objects of entity manager, in whatever order they and the services come and go, and whatever Set answers, the host's flash daemon finds links and attribute table made. |
| `ImageGates!OnlySignedHolds` (`OnlySignedInField`) | In field mode only an image signed all through passes, for any key types and any files that go while they are checked. |
| `ImageGates!VerdictIsRightHolds` (`VerdictIsRightInOrder`) | For minimum versions of any number, one per release and in the order of releases, and fields that fit a byte, the loop decides as comparing with each of them would. |
| `FactoryReset!TypeCorrect` | Every variable keeps to its type, and an item is cleared only in one of the ways of its layout. |
| `FactoryReset!ServedIsFreshHolds` (`ServedIsFresh`) | Once the calls are handled hiomapd does not serve what a reset has changed behind it, unless it has refused the last Suspend: for any order of answers, timeouts, failures, ends of the daemon and writes of the host. |
| `FactoryReset!OthersKeptHolds` (`OthersKept`) | The keys and the partitions without the flag outlive any number of resets. Hypothesis: SECBOOT is no version id and has no flag F. |
| `FactoryReset!EachClearedHolds` (`EachCleared`) | An undisturbed reset has cleared all it promises when it asks hiomapd to resume, in the way each partition is flagged. Hypothesis: there is a GUARD partition with the flags P and E. |
| `UbiDeletion!TypeCorrect` | Every variable of the clean-up keeps to its type, and deleteAll visits only objects that are there. |
| `UbiDeletion!HostKeepsVersionHolds` (`HostKeepsVersion`) | deleteAll never erases the version of a host that is on. |
| `UbiDeletion!CurrentKeptHolds` (`CurrentKept`) | Without uploads and without the step from an erased element, the clean-up script never lists the volumes of the running version while it has its object. |
| `UbiDeletion!DeleteFollowsHolds` (`DeleteFollows`) | With the chassis on and the signals handled the Delete interface is at every version but the functional one, if the symlink moves with the chassis off and the daemon does not restart. |
| `Priorities!TypeCorrect` | Every copy of a priority is one, torn or none, for any range of priorities and any number of setenv jobs. |
| `Priorities!RestoresLastHolds` (`RestoresLast`) | A process that ends at any step of a store, with a file opened, emptied or not yet filled, restores the priority last shown or the one of a store that did not end, as long as power stays and a file can be read or no setenv job is left. |
| `Priorities!RestoresHeldHolds` (`RestoresHeld`) | After one loss of power at any step the priority is one the version has held since it was installed, or the default. |
| `Priorities!DeletedLeavesNoneHolds` (`DeletedLeavesNone`) | A version that was deleted leaves no copy of its priority to the next one with its id, when its jobs are done and process and power stayed (conditions of the property). |
| `Priorities!LoopIsFreePriorityHolds` (`LoopIsFreePriority`) | For any number of versions, any largest priority and any assignment, the loop of freePriority computes the closed form UbiUpdater uses: it moves the first version at each priority of the unbroken chain of collisions. |
| `MmcHostfw!TypeCorrect` | Every variable of the eMMC layout keeps to its type, for any number of boots and losses of power. |
| `MmcHostfw!NeverOtherSideHolds` (`NeverOtherSide`) | The host never gets the lids of the side that was not booted. |
| `MmcHostfw!HostHasImageHolds` (`HostHasImage`) | With power losses, or with resets, and nothing else, the host finds the whole image of the booted side, for any number of boots. |
| `MmcHostfw!PreservedKeptHolds` (`PreservedKept`) | What the host has written is what it finds on whichever side boots, until a factory reset, and a reset brings nothing of it back, for any number of boots. |

Hypotheses beside those named: `BlocksReleased` and `UbiImplementsLifecycle` assume that the image check does not throw (`SignatureResults` without "error"; with it an activation stays Activating without
a block, as a hazard in `PROJECT.json` says); `FunctionalVersionKept`, that the limit is above 1 (with a limit of 1 the code removes the functional version on purpose, and `UbiUpdater` allows both).

*Only model-checked:*

* liveness and everything under fairness, which the prover cannot do: `ActivationEnds`, `LifecycleEnds` (the refinement is proved for the
  safety part, `LifecycleKept`, of both updaters), `LinksEnd`, `BiosEnds`, `OthersGo`, `ServerIsTold`;
* what is false: `FinishIsSafe`, `DistinctPriorities`, `NoActiveMeansEmpty` and `FunctionalHasNoDelete`, the findings, whose counterexamples TLC gives.

## 5. Not modelled

* `rebootHost` (`item_updater.cpp`, `functions.cpp`): one call without a state of its own.
* `getId`, `getVersions`, `getBMCMachine`: texts computed from a file. What the daemon does with a missing value is in the updaters.
* `attach_ubi`, `remount_ubi`, the patch volume, `mmc_patch` and `GardResetMMC`: sequences of tools without a choice of their own, or for developers' patches.
* The rw, prsv and eMMC links of `update_symlinks`, which follow the ro link in the same run of the script, and `clear_volatile`.
* The eMMC updater object, whose operations are empty.
* A factory reset during a static update; uploads during the removal of a failed activation's image.
* The build tools `generate-tar` and `generate-ubi`: they run on the build host. Tests and build files.
* hiomapd, entity manager, PLDM, the mapper, the image manager and systemd appear as what this code asks of them and hears from them.

Possible next steps: the effect of priorities with two digits on which version boots, as a property of the build's limit of two versions; the rw and prsv links beside the ro link.
