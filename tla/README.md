# Verification of android_build

TLA+ models of the core of `android_build`'s host tools, the TLC
configurations that check them on small instances, and TLAPS proofs of what
matters most for every size. The models are translated from the code; `map` in
`PROJECT.json` says which lines each definition stands for.

## 1. The system and its parts

The repository is the Android build system: makefiles, product configuration,
and the host tools that a build runs. Most of it is declarative or transforms
one file into another. Two groups of tools have logic of their own that is
hard to test, and these are modelled: those that keep state over many steps or
several actors (the license reader, the block update, the edit monitor), and
the release tools, whose state is the package they edit in many passes and the
device that installs it.

| part | source | state | operations | what is hard |
|---|---|---|---|---|
| license metadata reader | `tools/compliance/readgraph.go` | the mutex-guarded targets map, the task pool and results channels, a WaitGroup, `recv.results` | `ReadLicenseGraph`, `readFile`, `addDependencies` | goroutines that spawn goroutines, channels closed by another goroutine, a field read without the mutex, errors that leave readers running |
| order of block transfers | `tools/releasetools/blockimgdiff.py` 830-1081 | the dependency graph, its destructive copies, scores, order, stashes | `FindSequenceForTransfers` and its four passes | incremental bookkeeping, edges reversed in place, a second sort after the stashes are fixed, a second call on used objects |
| transfer list of a block update | `tools/releasetools/blockimgdiff.py` 333-828, 1204-1273 | styles, stashes and their reference counts, blocks touched, the list | `Compute`, `ReviseStashSize`, `SelectAndConvertDiffTransfersToNew`, `ComputePatches`, `AssertSequenceGood`, `WriteTransfers` | stashes shared by content, a size limit two functions account for differently, a device that overwrites what it reads |
| edit monitor, daemon managers | `tools/edit_monitor/daemon_manager.py`, `main.py` | pidfile, setup lock, block sign, signals, the forked daemon | `start`, `monitor_daemon`, `stop`, `reboot`, `cleanup`, `main` | processes that replace and kill each other, files in several steps, timeouts, crashes, `execv` |
| edit monitor, logging of edits | `tools/edit_monitor/edit_monitor.py` | the pending list, its lock, the scheduled thread | `_log_edit_event`, `_log_clearcut_events`, `flushall`, `start` | three kinds of thread, a field used with and without the lock, SIGTERM in the main thread |
| non-A/B packages | `non_ab_ota.py`, `edify_generator.py`, `DynamicPartitionsDifference` and recovery patches of `common.py` | the script; on the device the partitions, `super`, `/boot`, `/recovery`, the stage | `WriteFullOTAPackage`, `WriteBlockIncrementalOTAPackage` | power loss between and inside commands, three stages that boot two systems, partitions that shrink and grow within group limits |
| A/B packages and metadata | `ota_from_target_files.py`, `ota_utils.py`, `payload_signer.py`, `BuildInfo` of `common.py` | OPTIONS, the edited target files, payloads, the zip and the strings that describe it | `main`, `GenerateAbOtaPackage`, the rewriting of target files, `FinalizeMetadata` | options that override each other, two builds with different abilities, a file that contains its own offsets |
| images of target files | `add_img_to_target_files.py`, `build_image.py`, `verity_utils.py` | the directory or zip, the info dictionary shared by threads | `AddImagesToTargetFiles`, `BuildImage`, `AddVBMeta` | derived files that must follow what they are derived from, sizes that depend on each other, threads in one dictionary |
| merging of target files | `merge/*.py`, `check_target_files_vintf.py`, `find_shareduid_violation.py` | the merged package | `create_merged_package`, `merge_meta_files`, `rebuild_image_with_sepolicy`, `generate_missing_images` | two builds that disagree, images rebuilt after others describe them |
| signing of target files | `sign_target_files_apks.py`, `apex_utils.py` | key tables, the package | `BuildKeyMap`, `GetApexKeys`, `ProcessTargetFiles`, `ReplaceAvbSigningKeys` | one pass over the entries in which some depend on entries signed later |
| merging of OTA packages | `merge_ota.py` | payloads and manifests | `MergePayloads`, `MergeManifests` | offsets into data that moves |

(The release tools are under `tools/releasetools/`.)

How they interact. The transfer order is a call of `Compute`, and its result
is the plan that the transfer list is written from; `BlockUpdate` uses the
abstract specification `TransferSequence` that `TransferOrder` implements.
`Compute`'s output is read by the updater on the device, which is external
and modelled as the runner of the commands. The daemon manager forks the
logger as its daemon and ends it by SIGTERM, then by SIGKILL; the two share
nothing else, so each is modelled with the other as its environment. The
license reader shares nothing with the rest of the build; its graph is the
input of the policy resolution. A non-A/B package holds one block update per
partition, which `NonAbInstall` takes as one command that may be interrupted;
that it installs the target is what `BlockUpdate` shows. The programs that make
target files call each other: merging and signing end with
`add_img_to_target_files`, so `Packages` composes the three, and the
package `ota_from_target_files` starts from is their result.

What makes each one correct:

* license reader: no runtime panic, no more open files than the pool allows,
  each file read once, an answer that is exactly the reachable graph or a
  justified error, and a call that returns;
* transfer order: a permutation, an acyclic graph, exactly the stashes that
  the order needs, an end;
* transfer list: every read finds the source's blocks, the device ends with
  the target image and within the announced stash size, no assertion fails;
* daemon managers: one daemon at a time, findable, never orphaned by a manager
  that ends in an orderly way; a cleanup that lasts; a start that works and
  does not wait for ever;
* logging: every edit is logged once, and before the process ends;
* non-A/B packages: a device that the package is for ends with the target
  whenever the power fails, any other device is left alone;
* A/B packages: the device accepts the package, can do what it asks for, and
  finds each part where the package says;
* target files: images agree with the files they are made of, with what
  describes them and with the keys they must carry; a merged package takes each
  thing from the build it belongs to.

Parts that are not modelled are in section 8.

## 2. Modules

| module | models | rests on |
|---|---|---|
| `LicenseGraphRead` | what `ReadLicenseGraph` promises: one answer in one step | |
| `ReadGraph` | the reader itself, one action per step between two shared operations | `LicenseGraphRead` (refinement) |
| `ReadGraphMC`, `ReadGraph.cfg` | instance | |
| `ReadGraphProofs` | theorems about `ReadGraph` | |
| `TransferSequence` | what `FindSequenceForTransfers` promises in one step | |
| `TransferOrder` | its passes, step by step | `TransferSequence` (refinement) |
| `TransferOrderMC`, `TransferOrder.cfg` | instance | |
| `TransferOrderProofs` | theorems about `TransferOrder` | |
| `BlockUpdate` | `Compute` from the transfers to the device | `TransferSequence` (as its first step) |
| `BlockUpdateMC`, `BlockUpdate.cfg` | instance | |
| `BlockUpdateProofs` | theorems about `BlockUpdate` | |
| `DaemonManager` | all processes of one edit monitor binary | |
| `DaemonManagerMC`, `Daemon*.cfg` | instances | |
| `DaemonManagerProofs` | theorems about `DaemonManager` | |
| `EditEvents` | the threads of the daemon | |
| `EditEventsMC`, `EditEvents*.cfg` | instances | |
| `EditEventsProofs` | theorems about `EditEvents` | |
| `DynamicPartitions` | the operations on `super` and the device's way to run them | |
| `NonAbOta` | the scripts of non-A/B packages, as sequences of commands | `DynamicPartitions` |
| `NonAbInstall` | making, installing and resuming | `NonAbOta` |
| `NonAbInstallMC`, `NonAbInstall.cfg` | instance | |
| `NonAbInstallProofs` | theorems about `NonAbInstall` | |
| `BuildInfo` | properties, fingerprints and what a build says of itself | |
| `OtaMetadata` | the zip and its property-files strings | |
| `AbOta` | `ota_from_target_files`, from options to the signed package | `BuildInfo`, `OtaMetadata` |
| `AbOtaMC`, `AbOta.cfg` | instance | |
| `AbOtaProofs` | theorems about `AbOta` | |
| `TargetFiles` | target-files packages and the info dictionary | |
| `BuildImage` | properties and sizes of an image, hash trees | `TargetFiles` |
| `AddImages` | `add_img_to_target_files` with its threads | `BuildImage` |
| `MergeTargetFiles` | the merge of two builds and its checks | `AddImages` |
| `SignTargetFiles` | the re-signing of a package | `AddImages` |
| `MergeOta` | the merge of partial OTA packages | `TargetFiles` |
| `Packages` | the four programs together, with the properties | `MergeTargetFiles`, `SignTargetFiles`, `MergeOta` |
| `PackagesMC`, `Packages.cfg`, `SignContainerKeys.cfg` | instances | |
| `PackagesProofs` | theorems about `MergeOta`, `SignTargetFiles` and `MergeTargetFiles`, as parts of `Packages`, and about the steps of `AddImages` they rest on | |

Definitions whose comment begins with "Mutant:" are plausible mistakes. No
specification uses them; the `mutants` of `PROJECT.json` put each one in the
place of the correct definition to show that a property notices.

### State and actions against the code

**ReadGraph.** Goroutine 0 is the anonymous function that schedules the roots
(`readFiles`), goroutines 1..n are those `readFile` spawns, `closer` waits for
the WaitGroup and closes the channels, `main` is the caller. `task` counts the
tokens in the buffered channel, `results` holds the unread results,
`resultsNil` is the assignment `recv.results = nil` in the caller's loop,
which a reader may see before any of its sends. An action ends where the code
touches something shared. Opening, reading and parsing are one question,
`f \in bad`, because the three error paths are alike. A panic of the Go
runtime (send on a closed channel, close of a closed or nil channel, negative
counter) is a value of `panic`, never a missing action.

**TransferOrder.** A transfer is a model value, a range set is a set of
blocks. `before` are the edges of `goes_before`/`goes_after` (the two are
mirrors and change together), `inc`, `out` and `score` the destructive copies
of `FindVertexSequence`, `G` the vertices left. The order of an `OrderedDict`
and ties of the heap are free choices, which includes what Python does.
`Convert` is what `Compute` does before its second call.

**BlockUpdate.** `ReviseStashSize` takes one step per stash of a transfer and
one for the rest of the loop; `WriteTransfers` one step per transfer, and the
commands of the list are records of the blocks read, written, stashed and
freed. SHA-1 is the sequence of contents, so that equal ranges share a stash
slot as in the code. The device refuses a command whose source is not the
source image's content, as its hash check does. Left out: splitting `new` and
`zero` at 1024 blocks, and the bytes of patches.

**DaemonManager.** `at[p]` is the statement that manager `p` runs next,
`ctx[p]` the method it is in, which decides where an exception leads.
`_terminate_process` is one piece of code with four callers, told apart by
`ctx`. `lockers` are the processes that share the locked open file: a forked
daemon shares it, `LOCK_UN` of either frees it. A SIGTERM waits in `signal`
until the manager takes it and becomes a `SystemExit` wherever the manager
is; before `signal.signal` runs and while the interpreter exits it simply
ends the process. The feature flag, cpu, memory and time thresholds are free
choices. `Failures` names the system calls that may fail.

**EditEvents.** One thread for the observer, one per timer, and the main
thread. The steps inside `_pending_events_lock` are separate actions, because
`flushall()` does not take that lock when it reads and clears
`_scheduled_log_thread`. A second SIGTERM raises in the middle of
`flushall()`. A dry run, which logs nothing, is left out.

**NonAbOta, NonAbInstall.** A script is the sequence of commands that the
methods of `EdifyGenerator` append, each with the branch of
`if get_stage() == ...` it stands in. The device (external) runs one command
at a time; a write may be cut off and leaves the image `"mix"`. After a power
loss the device boots what the BCB names, if that is a complete recovery
system (`Bootable`), and runs the script from its start.
`update_dynamic_partitions` refuses an operation that breaks a group's limit
or the size of `super`. Block differences of a device-specific module replace
those of the loop in `GetBlockDifferences` in their place; new partitions it
adds (`specific`) come last, and are ones that the target files do not hold.

**AbOta.** `o` is OPTIONS as `main` and the generators rewrite it, `tf` the
extracted target files as they are edited, `payloads` what `brillo_update_payload`
was asked for. The signer may reorder the entries of the zip and change their
extra fields; offsets are computed with real lengths, since the number of
digits decides whether the reserved room is enough.

**Packages.** A package is a function from `<<directory, name>>` to a value.
An image is a record of what it was made from: the files and their contexts,
size, key, descriptors. `AddImages` has one thread per partition when it
writes a directory (a `ThreadPoolExecutor` in the code) and one step per
partition when it writes a zip. The merge is one action per function that
`merge_target_files` calls, the signing one per kind of entry. Tools that the
programs call (mkfs, avbtool, signapk, lpmake, checkvintf) are functions of
their inputs. What the init verifiers, `secilc` and the treble labeling tests
find is a free choice, since the model has no text of scripts and policies.

## 3. Runs

All runs end by themselves within two and a half minutes with two workers.

| run | shows |
|---|---|
| `readgraph` | every interleaving for 3 files, 27 graphs, all sets of bad files, 4 lists of roots, a pool of 2: `NoPanic`, `PoolConserved`, `ReadOnce`, `AbstractSafe` (the refinement of `LicenseGraphRead`) and `Returns` |
| `transfer_order` | four transfers, cycles of up to four, edges of weight 0 to 2, self-overlaps, a `__ZERO` transfer, both calls: `BookkeepingExact`, `HalfKept`, `ImplementsTransferSequence`, `Terminates` |
| `block_update` | three transfers in every order, limits of 1 to 3 blocks: `RevisedCovers`, `Updated`, `AnnouncedSizeCovers`, and `Installed`, which says that no assertion fails and no read meets a wrong block |
| `daemon` | three processes that start, replace each other and reboot without end, one of which may be a forced cleanup: `OneDaemon`, `NoStartFails`, `CleanupLasts` |
| `daemon_failures` | two processes, one of which may be a cleanup, with SIGKILL, SIGTERM and failing calls at every step: `MonitorRecorded`, `NoOrphan`, and under fairness `StartEnds` |
| `daemon_crashed_pidfile` | *violation*: a crash between creating and writing the pidfile makes every later start fail (`NoStartFails`) |
| `edit_events` | three edits, three timers, two signals: `InOnePlace`, `LoggedAtExit`, `EventuallyLogged` |
| `edit_events_flush` | *violation*: a timer between the two reads of `_scheduled_log_thread` makes `flushall()` raise (`FlushesAll`) |
| `non_ab_install` | every pair of valid layouts of two partitions in two groups, and every combination of options with one of them, up to two power losses at any point: `PatchFits`, `UnfitUntouched`, `Resumable`, `InstalledTarget`, `EventuallyInstalled` |
| `ab_ota` | families of options, builds, lists of partitions and zip layouts: `DeviceAccepts`, `InstallerUnderstands`, `ListsAgree`, `PackageDescribesItself` |
| `target_files` | 1681 calls of the four programs: `VbmetaDescribesImages`, `ImagesMatchTree`, `MetaDescribesImages`, `RecoveryPatchFits`, `SizesFit`, `OneBuild`, `SignedWithMappedKeys`, `BootOtasInstallImages`, `OwnBlobs` |
| `sign_container_keys` | *violation*: `-k` and `-d` do not reach the keys of APEX containers (`ContainerKeysMapped`) |

### Bounds, and why they are enough to be of interest

* *readgraph*: three files give a cycle, a self-dependency, a shared
  dependency and a root that is also a dependency; two tokens let two readers
  run while a third waits. Roots may be named twice, or not at all.
* *transfer_order*: four vertices are the least number on which the heuristic
  meets a graph that has neither sink nor source after it has placed one. `t3`
  and `t4` read from at most one other transfer each; `t1` and `t2` from any.
* *block_update*: three transfers, seven blocks. Two of the images give
  stashes that share their content, one block is only in the source, one is
  read but not in the target's care map, one is `extended`. `Slack` is the
  1024 of `Compute`, made 1 so that both sides of the comparison happen.
* *daemon*: three processes that may each reboot without bound, `p3` also as a
  cleanup; the state space is finite because a process keeps its pid. In `daemon_failures` two
  processes have every failure at every step.
* *edit_events*: `MaxEvents` 3 and `Threshold` 2, so that a batch is empty,
  logged one by one or aggregated; `MaxSignals` 2, since the second SIGTERM is
  the one that interrupts the cleanup.
* *non_ab_install*: two partitions and two groups, sizes of 0 to 2, limits of
  0 (none) and 2 in a `super` of 3: partitions are added, removed, moved,
  shrunk and grown, each in the way of another. `MaxLosses` is 2,
  the least number at which a two-step install can break (section 4); the
  theorems hold for any number.
* *ab_ota*: two partitions with a build.prop and one whose name contains, and
  ends with, the name of another; dates of two and three digits and cow versions of
  one and two, so that the order of strings is not that of numbers; sizes at which an offset
  gains a digit. Each family of jobs
  varies what one part of the tool looks at.
* *target_files*: each family of jobs varies one part: sizes around the
  points where the hash tree grows (100 to 140, 1000 to 1010 blocks), chained
  and custom vbmeta images, images that are already there, builds that
  disagree, a framework package that is itself merged, every kind of key
  option, boot OTAs with and without a rebuild by the vendor's tools, payloads
  with empty operations. `Three` has three threads in one directory. Custom
  vbmeta images have the names `cust` and `oem`; there are none, one, or two of
  which the second describes the first. `TrebleLabeling` stands for the platform
  versions from 202604 on.

Symmetry is used in `daemon` only, which checks no liveness, and only between
`p1` and `p2`, which have equal roles.

Deadlock is checked in every run but `ab_ota`: each specification has a
stuttering final step (`AllDead`, `Final` and the like) that is enabled
only where the system really is at its end, so every other state without a
successor would be reported. `ab_ota` models one invocation of a program that
ends, with a package or with an error, and its cfg turns the check off.

### Fairness

* `ReadGraph`: weak fairness of the caller, of the closing goroutine, of
  `readFiles` and of the readers together, which the Go scheduler gives to
  runnable goroutines; a call takes finitely many steps, so fairness to all
  readers is fairness to each. A channel operation that cannot proceed is not
  enabled.
* `TransferOrder`, `BlockUpdate`: weak fairness of the single program's next
  step (and of the device's); a sequential program that can go on does.
* `DaemonManager`: weak fairness of each manager's own steps and of its
  signal handler, by the operating system's scheduler. Nothing is assumed of
  the daemons: one that ignores SIGTERM stays, and the manager's timeout and
  SIGKILL must deal with it. Nobody has to launch, crash or interrupt.
* `EditEvents`: weak fairness of the observer, of the main thread and of each
  timer (its interval passes). No edit and no signal has to come.
* `NonAbInstall`: weak fairness of the tool and of the device's next step. A
  power loss is never due, and there are at most `MaxLosses` of them.

`AbOta` and `Packages` state safety only: they are programs without loops
that could run on.

## 4. What the runs show that a test would hardly reach

* The caller of `ReadLicenseGraph` returns at the first error while readers go
  on: they send to `recv.results`, which the caller has set to nil, and a
  reader that failed keeps its token and its count in the WaitGroup for ever.
  `NoPanic`, `PoolConserved` and `Returns` hold for all of these tails.
* `addDependencies` decides under the mutex who reads a file, and `wg.Add`
  happens before the scheduling goroutine's `Done`, which is why the closing
  goroutine never sees a zero too early (theorems `WaitGroupSettles` and
  `TailIsQuiet`; in the run `NoPanic` and `AbstractSafe` depend on it).
* `StashExact` (theorem `SequenceGood`) holds after the second sort of `ImproveVertexSequence`: stashes
  are fixed before it, and it keeps exactly the pairs the reversed edges order.
* `ReviseStashSize` counts the stashes of converted transfers to the end and
  `WriteTransfers` does not, so the first is an upper bound of the second
  (`RevisedCovers`) and the assertion on the limit cannot fail
  (`Installed`).
* The new manager waits for the end of the old one, which ends its own daemon
  first; a timeout that kills the old one in between leaves an orphan, and only
  then (`OneDaemon`, `NoOrphan`).
* `CleanupLasts` is the reason to place the sign *before* listing instances: a
  start that passed the check earlier is on the list.
* A two-step install that loses power in any command of any stage resumes and
  ends with the target: whenever the power fails, the partition that the BCB
  points to holds a complete recovery system (`Resumable`,
  `EventuallyInstalled`). There is one window, which `InStep` names:
  `set_stage` and `reboot_now` are two commands, and a loss between them makes
  the device run the next stage from the partition that this stage overwrites.
  That run ends well too, unless the power fails a second time while it writes
  that partition.
* The operations that `DynamicPartitionsDifference` writes are accepted by
  `super` for every valid pair of layouts (`PatchFits`): what shrinks or goes
  makes room first, and a partition that changes its group waits in `default`.
* The strings of a package describe that package although they change the
  offsets they describe; the fifteen characters reserved for a token are enough
  in every layout of the run (`PackageDescribesItself`).
* Signing and merging rebuild images after others were derived from them. The
  top-level vbmeta, the care map and the recovery patch of the result are those
  of the final images. Chained vbmeta images and boot OTAs are so with the
  exceptions of section 5, which `VbmetaDescribesImages` and
  `BootOtasInstallImages` name.

Where these properties stop. `OneDaemon` and `NoStartFails` are checked
without user signals, and up to the moment a cleanup places the block sign: a
SIGTERM between the fork (`daemon_manager.py:307`) and the assignment of
`daemon_process` (310) lets `stop()` finish without the daemon, which then
lives until the interpreter's exit ends it, and a next manager may fork in
that time; a signal of the cleanup between the creation of the pidfile and its
write leaves an empty file as a crash does. `NoOrphan` therefore speaks of the
end of the process. Both leave out managers that were killed. A daemon
inherits the locked file at 307, so a manager that dies before `LOCK_UN` (130)
leaves the lock to its daemon, and later starts report "Another edit monitor is
starting" (120) for as long as it lives; a fork that fails with EAGAIN is an
`IOError` with the errno that line 118 takes for a held lock. Both are in the
model, and no property says otherwise.

## 5. Findings

* `daemon_manager.py:291`: the pidfile exists before it has content. A crash in
  between leaves an empty file, `int('')` raises in every later start; the test
  at `daemon_manager_test.py:109` expects a start to succeed when the earlier
  instance is dead (run `daemon_crashed_pidfile`).
* `edit_monitor.py:84`: `flushall()` tests `_scheduled_log_thread` and uses it
  in a second read, outside the lock; a timer that fires in between makes it
  call `None.cancel()`, and the client is not flushed, against "Stop the edit
  monitor and flush all events" of `edit_monitor_test.py:77` (run
  `edit_events_flush`). No edit is lost to the client (`LoggedAtExit`): the
  timer that won the race has the list.
* `sign_target_files_apks.py:1889`: `GetApexKeys` gets the table of APK
  certificates as its `key_map`, which maps file names and not keys; "Apply the
  key remapping to container keys" (360) never finds a key, and a container
  keeps its development key unless an option names it (run
  `sign_container_keys`).

Cases in which the code does not keep a promise that it keeps otherwise. The
models follow the code here and the jobs of the runs reach each case; the
property states the promise with the case as a named exception, and without
the exception TLC reports it violated.

* *Dates as strings* (`DeviceAccepts`). `ota_from_target_files.py:963-964` and
  731 take `max` of two dates that are strings. `main` compares them as
  integers, so without `--downgrade` and its relatives the target's date is the
  later one and the code writes it; in a downgrade the greater of two *strings*
  is written, and of two dates of different lengths this may be the older,
  which the device refuses. Dates in seconds have had ten digits since 2001.
* *Versions as strings* (`InstallerUnderstands`). Lines 816 and 833 compare
  versions of the cow format as strings; nothing is said where the versions
  have different lengths.
* *VABC* (`InstallerUnderstands`). Lines 795-798 disable VABC when the source
  build lacks it, but this only sets `OPTIONS.disable_vabc`, which no argument
  of the payload generator follows: the payload keeps the compression flag of
  the target's files. What holds is that the source supports VABC where it was
  not disabled, and that XOR compression is off where it was.
* *Postinstall by suffix* (`ListsAgree`). The filter of a partial update
  (660-669) keeps each key that ends with `_` and an updated partition: an
  update of `boot` alone keeps the configuration of `vendor_boot`.
  `merge_meta.py:82` filters the vendor's lines in the same way and drops those
  of a partition such as `my_product`; no property is about the result there.
* *Given vbmeta images* (`VbmetaDescribesImages`). An image that is in the
  package is not made anew. A merge that rebuilds `vendor` for dexpreopt or for
  the combined policy leaves out the old `vbmeta` only
  (`merge_utils.py:259-261`), so a chained `vbmeta_vendor.img` goes on
  describing the old image; the same happens when images are added to a package
  that has a vbmeta image and lacks an image it describes. For packages that
  are signed, and for the top-level `vbmeta` of merged ones, there is no
  exception.
* *A merged framework package* (`OneBuild`). `merge_meta.py:187-190` names the
  case. The dictionary of such a package names file contexts for the vendor's
  partitions too, and 348-350 let the framework's entries win: a vendor image
  that is made anew gets the framework's file contexts.
* *Boot OTAs after a rebuild by the vendor's tools*
  (`BootOtasInstallImages`). `sign_target_files_apks.py:664-668` makes the boot
  OTAs from the signed `boot.img`; where the vendor's tools then rebuild
  recovery, 1656-1661 write the `boot.img` they built over it. `dtbo` has no
  such exception.
* *A recovery fstab without `/boot` or `/recovery`* (`InstalledTarget`). The
  script `install-recovery.sh` needs the devices of both, and
  `MakeRecoveryPatch` returns without writing it when the fstab lacks one
  (`common.py:3857-3858`): the updated system then boots without renewing the
  recovery.

Met while reading, not stated as properties:

* `add_img_to_target_files.py:956-959` makes the recovery patch against the
  last of several boot images. No job has several of them together with a
  recovery, so `RecoveryPatchFits` says nothing of that case.
* For `userdata.img` and `cache.img`, `add_img_to_target_files.py:655` and 717
  give `CheckSize` (`common.py:2587`) the *name* of the image's file where it
  expects its data, so that the length of a name is compared with the limit. What
  remains, and is modelled, is the lookup of the mount point, which may fail.
* `blockimgdiff.py:645` takes a stash limit of 0 for no limit; the docstring
  at 588 says that the stash size is kept within the limit.
* `ota_from_target_files.py:760-761` refuses to disable VABC on a release
  build, but `is_release_key` (`common.py:474-477`) looks for `release-key`
  where the tag is `release-keys`, so the check never fires and the model leaves
  it out; 878-881 speaks of an intersection and computes `set(a) and set(b)`;
  623 does not join the image directory; `--no_signing` with a non-A/B package copies a file onto itself
  (`ota_utils.py:149-151`); an A/B target without dynamic partitions fails in
  `ModifyTargetFilesDynamicPartitionInfo`.
* `add_img_to_target_files` with a directory: `build_image.py:668-678` walks
  the dictionary that other threads insert keys into, and a walk fails when
  its size changes. `build_image.py:912` strips characters, not a suffix, by
  `rstrip(".img")`; 590 reads the headroom from the wrong dictionary.
* `merge_target_files` with directories as input: the framework's keys are not
  found (303), and `merge_meta.py:368-369` dereferences None. With the
  vendor's tools and no odm directory the check of init.rc files raises a
  KeyError (`merge_compatibility_checks.py:121`); with odm in `VENDOR/odm`
  they rebuild `vendor` with the vendor build's own
  `vendor_filesystem_config.txt` (`merge_target_files.py:318-332`), without
  the entries `merge_dexopt.py:155-158` appends to the merged one.
* `merge_ota.py:133-134` extends a list of messages by a message, which raises
  for several payloads with APEXes; `partitions[-0:]` (64) shifts all
  operations for a payload without partitions.
* `sign_target_files_apks`: `RegenerateBootOTA` writes nothing for a package that is
  not a boot OTA or not an incremental 16k one, and the signer gets an empty
  file (675-689, 831-834); boot OTAs are signed with the
  unmapped default key; `pvmfw.img`, its embedded key and
  `system_other.avbpubkey` are dropped in some combinations (899-964);
  `ReplaceCerts` applies chained `-k` mappings one after the other where the
  APK keys are mapped once; 1146 compares a descriptor with itself;
  `apex_utils.py:368-369` compares a string with 0.

The jobs of `PackagesMC` keep out of the combinations of this second list: the
programs stop, or produce what nobody claims to be right.

## 6. Proofs

Each proof module extends the component's module, and its theorems hold for
every value of the constants that meets the named assumptions. TLC evaluates
each assumption in the run of its component:

* `FilesAssumption`: dependency and root lists are sequences of files;
  `PoolAssumption`: the pool size is an integer, also 0 or negative, which the
  code refuses;
* `TransfersAssumption`, `TgtAssumption`, `SrcAssumption` (order of transfers)
  and `BlocksAssumption`, `RangesAssumption` (transfer list): finitely many
  transfers and blocks, no block that two transfers write, sources that are
  sets of blocks;
* `LimitsAssumption`, `TargetAssumption`: limits are natural numbers of
  blocks; every transfer writes something, inside the image and outside the
  extended blocks. The code computes a limit as a fraction, which compares with whole
  blocks like its integer part; a positive limit of less than one block is not
  modelled;
* `PidsAssumption`: an empty pidfile, no pidfile and a pid are told apart;
* `BoundsAssumption`: the bounds of `EditEvents` are natural numbers, of any
  size;
* `JobsAssumption`: the options and builds of an A/B job have the fields the
  code reads; dates, levels and versions are numbers. The code compares dates
  and versions of the cow format partly as integers and partly as strings; the
  model writes a string of digits without leading zeros as its number and
  compares as the code does at each place (`StringLess`, `MaxString`,
  `MinString`). A compression method of a build is one that
  `VABC_COMPRESSION_PARAM_SUPPORT` lists, since the code indexes it; a build
  that states a version of the cow format states at least 2 ("supported since
  day 1", `ota_from_target_files.py:841`); the signer's order of the entries
  has a place for each, since signapk copies every entry;
* `PartitionNamesAssumption`: a sequence of different names;
  `PackagesAssumption`: the options of a non-A/B package have their types, an
  update touches blocks of the source only where there is a source, and each of
  the two layouts of `super` is one that `super` can have (sizes within the
  limits of groups that exist); `SuperSizeAssumption`, `MaxLossesAssumption`:
  natural numbers of any size;
* `PayloadsAssumption`: a payload to merge has a partition, and the data of its
  operations, where they have any, are in their order and do not overlap, as the
  payload generator (not in this repository) writes them and `TotalDataLength`
  takes for granted; `KindsAssumption`: a job is a call of one of the four
  programs;
* `SigningAssumption`, of the packages to sign: the files to sign are in the
  directories of partitions, not among the images and lists that the tool
  drops and makes anew; a compressed APK is listed in `apkcerts.txt` with its
  extension, without which the code takes it for some other file; no key that
  replaces another is itself replaced, since `ReplaceCerts` follows such
  chains and the table of APK keys does not; boot OTAs hold `boot` and `dtbo`,
  as `RegenerateBootOTA` does;
* `MergingAssumption`, of the builds to merge, which may be merged packages
  themselves: a build has its dictionary, its lists of keys and the file
  contexts of its partitions (`file_contexts`, or `framework_file_contexts` and
  `vendor_file_contexts` in a merged package), which its images were made with
  and which its dictionary names for each partition it has, as the build and
  the merge write it. Of the vendor's partitions in a framework package nothing
  is assumed. File contexts are named in `misc_info.txt`, not in
  `dynamic_partitions_info.txt`; the vendor's build has a directory `vendor`; a list of items that
  the caller gives, if the code accepts the two lists, names the partitions of its own
  build, and images one by one. The lists the code infers need no assumption.

| theorem | says |
|---|---|
| `ReadGraphProofs!TypeCorrect` | `Spec => []TypeOK` |
| `ReadGraphProofs!PanicFree` | `Spec => []NoPanic` |
| `ReadGraphProofs!TailIsQuiet` | `Spec => []QuietTail` |
| `ReadGraphProofs!WaitGroupSettles` | `Spec => WaitGroupSettled` |
| `ReadGraphProofs!AnswerIsSound` | `Spec => []AnswerSound` |
| `ReadGraphProofs!Refines` | `Spec => AbstractSafe`: the reader implements `LicenseGraphRead` |
| `ReadGraphProofs!PoolIsConserved` | `Spec => []PoolConserved` |
| `ReadGraphProofs!EachReadOnce` | `Spec => []ReadOnce` |
| `TransferOrderProofs!AssertionHolds` | `Spec => []NoCycleLeft` |
| `TransferOrderProofs!SequenceGood` | `Spec => []StashExact` |
| `TransferOrderProofs!Refinement` | `Spec => ImplementsTransferSequence` |
| `TransferOrderProofs!WalkIsExact` | `Spec => []BookkeepingExact` |
| `TransferOrderProofs!HeuristicKeepsHalf` | `Spec => []HalfKept` |
| `BlockUpdateProofs!UpdateIsExact` | `Spec => []Updated` |
| `BlockUpdateProofs!AnnouncedIsEnough` | `Spec => []AnnouncedSizeCovers` |
| `BlockUpdateProofs!RevisedIsEnough` | `Spec => []RevisedCovers` |
| `BlockUpdateProofs!AssertionsHold` | `Spec => []NoFault`: no assertion fails and the device refuses nothing, except for a limit of 0 |
| `EditEventsProofs!OnePlace` | `Spec => []InOnePlace` |
| `EditEventsProofs!NeverInVain` | `Spec => []SomeoneTakes` |
| `EditEventsProofs!NothingMissing` | `Spec => []LoggedAtExit` |
| `DaemonManagerProofs!SetupIsExclusive` | two managers are never both in the part of `start()` that the setup lock protects |
| `DaemonManagerProofs!MonitorIsRecorded` | `Spec => []MonitorRecorded`, with every crash, signal and failing call |
| `DaemonManagerProofs!NoDaemonIsOrphaned` | `Spec => []NoOrphan`, likewise |
| `DaemonManagerProofs!CleanupIsFinal` | `CleanupWorks` implies `Spec => []CleanupLasts` |
| `DaemonManagerProofs!OneDaemonAtATime` | `Undisturbed` implies `Spec => []OneDaemon` |
| `DaemonManagerProofs!StartsSucceed` | `Undisturbed`, and writes, removals and forks that work, imply `Spec => []NoStartFails` |
| `AbOtaProofs!Accepted` | `Spec => []DeviceAccepts`, with dates as strings and the exception of section 5 |
| `AbOtaProofs!Understood` | `Spec => []InstallerUnderstands`: compression, cow version, minor version, XOR and lz4diff are within what the installing build can do, VABC where it was not disabled |
| `AbOtaProofs!Agreeing` | `Spec => []ListsAgree`, with the filter of postinstall lines by suffix |
| `AbOtaProofs!Describing` | `Spec => []PackageDescribesItself` as long as the reserved room does not run out (`pc # "insufficient"`), for every layout and every order of the signer |
| `NonAbInstallProofs!ResumableAlways` | `Spec => []Resumable` |
| `NonAbInstallProofs!UnfitUntouchedAlways` | `Spec => []UnfitUntouched` |
| `NonAbInstallProofs!InstalledTargetAlways` | `Spec => []InstalledTarget` |
| `NonAbInstallProofs!ComputeReachesTarget` | the list of operations on `super` is accepted whole, and yields the target's layout |
| `NonAbInstallProofs!PatchFitsAlways` | `Spec => []PatchFits` |
| `NonAbInstallProofs!FitRunsOnAlways` | a device that the package is for never aborts it, also without dynamic partitions |
| `PackagesProofs!MergedFindTheirData` | `Spec => []OwnBlobs`, for any number of payloads, partitions and operations |
| `PackagesProofs!KeysAreMapped` | `Spec => []SignedWithMappedKeys`, for any package, key mappings and options |
| `PackagesProofs!BootOtasFit` | `Spec => []BootOtasInstallImages`, for any package and options: both kinds of boot OTA; where the vendor's tools rebuild recovery, for `dtbo` only |
| `PackagesProofs!MergedOfOneBuild` | `Spec => []OneBuild`, for any two builds, merged ones too, lists of items and options; a rebuilt image of the vendor may have the framework's file contexts where the framework's dictionary names some for it |

Each component but `Packages` (whose proofs have `OtaInv`, `SignInv` and `MergeInv`) also has the theorem
`Inductive`, `Spec => []IInv` for the invariant that the others follow from. No property but the simplest is inductive as it stands. TLC has
checked each `IInv` on the instance of the component's run before it was
proved, except that of `NonAbInstall`, whose sets of commands mix values that
TLC does not compare, and `Layout` of `AbOta`, which says that some earlier zip
exists; there TLC has checked the properties that follow from it.

**ReadGraph.** The invariant `IInv` has
ten parts: `TypeOK`; `Shape` (where in its list a goroutine is at each of its
steps); `Fresh` (before `readFiles` has marked the roots nothing has
happened); `Counting` (the WaitGroup's counter is the number of goroutines that
have yet to call `Done`); `Closing` (channels are closed only after `Wait` has
returned); `Results` (what is in the channel, or known to the caller, comes from a
reader that got that far); `NilIsPending` (a target that is
nil is still to be scheduled, being read, or in the channel); `Scheduling` (what is scheduled is reachable, and
whatever is listed before a goroutine's index is scheduled); `Tail0` (what the
caller indexes has no nil target) and
`NoPanic`. `Counting` is the centre: while some goroutine can send or call
`Add`, the counter is positive, so `Wait` blocks and no channel is closed.
`AnswerIsSound` then shows that the nodes are a closed set that holds the
roots (`Scheduling`, `NilIsPending`), and that every node is reachable, hence
equal to `Reach`. `Refines` maps the return of the caller to `Answer` and
every other step to a stutter. `PoolIsConserved` and `EachReadOnce` add three
parts that count: `Pool` (tokens in the channel and tokens that readers hold
add up to the pool's size), `Once` (a file that is no root has one reader or
one goroutine that asks for it, and only `readFiles` asks for a root) and
`AsNamed` (a root has a reader for each place in the list that is done).

**TransferOrder.** `IInv` says for each phase what the vertices placed so far
look like: `Positions` (left and right ends of the sequence fill from both
sides, each position once), `Unreversed` and `Oriented` (before
`ReverseBackwardEdges` the edges are the overlaps, after it every edge points
forward in the order of the first sort, and reversed edges are exactly the
stashes), `Sorting` (what the second sort has placed is closed under
predecessors), `Finally` and `NoCycleLeft`. The assertion cannot fail because
some unplaced vertex is first in the first order (lemma `Smallest`), and
everything that goes before it is placed already, so it is ready (`SomeReady`).
`WalkIsExact` adds `Rounds`, `Degrees` and `Scores`: the degree sets and
scores that the walk updates vertex by vertex are those of the graph that is
left. `HeuristicKeepsHalf` adds `Half`: the edges violated so far are worth at
most half of the edges decided so far. Only taking the vertex with the best
score violates edges, and that score is not negative, since each edge leaves
one vertex and enters one, so that not every vertex can lose more than it
saves (lemma `Losses`). The weight of a set of edges is the cardinality of
a set in `TransferOrder`, which the theorems on finite sets speak of, so that
sums need no induction.

**BlockUpdate.** The first part of the proof goes up to `WriteTransfers`, the
second from there to the device. The difficulty is that
the same stashes have three accounts, kept by three pieces of code, and `IInv`
relates them: the reference counts of `ReviseStashSize` and `WriteTransfers`
(`Accounts`: the first at least, the second exactly the number of stashes of a
content that are counted and not released), what is alive at each transfer
(`Peaks`: the maximum a pass has seen bounds it, also after later
conversions, since a converted transfer only gives up what it needs), and the
device's slots at each command of the list (`Runnable`: what a command
reads is in a slot or untouched since the source image; `Fits`: the slots fit
into the announced size). `Ordered` carries the result of the sequence and
`Styled` the styles, `Written` says which block is written by whom or still to
be written. `HeldIn` gives the slots after `k` commands in closed form, as
what was stored and not freed since; this replaces a recursion over the list.
The instance TLC has checked `IInv` on also had the limit 0. `NoFault` has one
exception: `ReviseStashSize` takes 0 for no limit, `WriteTransfers` asserts it.

**EditEvents.** `IInv` adds to the properties: `Fresh` (timers start once),
`OwnEdits` (only a thread that logs has edits of its own), `FirstSignal` (before a signal the main thread holds nothing),
`Attribute` (what `_scheduled_log_thread` may name in each step of each
thread), `EarlyTaken` and `Joined`. `Attribute` is the heart: it is what
survives although `flushall()` ignores the lock. The attribute names a thread
that will take the list, except while `flushall()` is between cancelling it
and clearing the attribute, and there `flushall()` is about to take the list
itself.

**DaemonManager.** The theorems hold for any number of managers, where the
runs have two and three. `IInv` needs no hypothesis: `Shape` (which statements
belong to which method), `Victims` (whom a manager ends: the one of the
pidfile, or its own daemon), `Lock` (past `flock()` the manager has the lock,
and no second one has), `File` and `Own` (what a manager may rely on of the
pidfile, although others remove and rewrite it without the lock).
`CleanupIsFinal` adds `Cleaning`: each manager that has or may still get a
daemon is on the list of a cleanup at work. It assumes `CleanupWorks`, that the
cleanup can place the sign, run `ps` and send signals: a cleanup whose `ps`
fails is done without having stopped anyone. `OneDaemonAtATime` and
`StartsSucceed` add `Peace`: who is told to stop is waited for by the manager
that takes over, and who has a daemon is in the pidfile. They assume
`Undisturbed` (no SIGKILL, no SIGTERM from users, signals that arrive), because
of the windows described at the end of section 4; the run `daemon` has the
same hypotheses, and `daemon_crashed_pidfile` shows that without them
`NoStartFails` is false.

**AbOta.** The runs have families of jobs; the theorems speak of every job.
The program is a pipeline that rewrites OPTIONS and the target files, and
`IInv` says for each part what is known from the step on that makes it:
`OptionsKept` (options that nothing rewrites), `Admitted` (what `main` has not
refused, and the source's list as it filtered it), `PartialKept` (the partial
list is the one that filter used, unless the builds supplied it), `Resolved`
(the features, in terms of the command line and the two builds), `Edited` (one
list of partitions which groups, care map and postinstall follow), `Described`
(the downgrade flag equals the comparison of dates, and the metadata holds the
states of both builds) and `Generated` (the payloads are a function of all
these). The hard point of `Accepted` is that `HandleDowngradeMetadata` looks
at the partitions of the *source's* list as `main` has filtered it, and the
timestamp flags at those of the *target's* edited list, while a third place
may replace the partial list in between; `Admitted`, `PartialKept` and
`Edited` together give that every partition with a flag that the source build
has was looked at. Where nothing is downgraded, the dates in order as integers
make the code write the target's date, and no comparison of strings comes into
it; in a downgrade `MaxString` is the maximum for dates of one length.

`Describing` needs a second invariant on top, `Layout`: after the preliminary
signing the zip is the result of signing some zip whose metadata held strings
of the lengths that the strings have *now*, and once they are filled in they
describe it. `FinalizeString` keeps each length by padding, so the entry sizes
that `WriteMetadata` computes do not change. `SameZip` then says that deleting
the metadata, writing it again and signing gives back the very same zip,
entries, order and extra fields: what the strings say of the zip before is true
of the zip after, and `Verify` cannot fail. The lemmas under it (`AmongElements`,
`KeepsExists`, `SignedZip`) are about the filter that keeps some entries of a
sequence in their order, and are proved with the induction `UpTo` described
below.

**NonAbInstall.** The theorems hold for every list of partitions, every
package and any number of power losses. What the device does next depends on
the commands that are left, so `IInv` speaks of these: `Has` (a command is
still to come), `Before` and `After` (each command of one kind has one of
another kind before it, or after it), `NoneAfter` and `Free`. For each branch of the script, lemmas
(`ProgramOne`, `ProgramTwo`, `ProgramThree`) derive such facts from the loops
that write it; a step takes the first command off, which either keeps a fact
or leaves its trace on the device. The parts of `IInv` are `TypeInv`,
`StageInv` (which stage, boot target and contents of `/boot` and `/recovery`
go together between two runs), `RunInv` (the same while a branch runs, with
what is left of it), `LossInv` (what a loss between `set_stage` and
`reboot_now` leaves), `UnfitInv` (a command that stops an unfit device comes
before any that writes) and `DoneInv` (what the end requires is done or still
to come).

`PatchFits` needs a second invariant on top, `PatchInv`: images are patched
before or after the resize as they shrink or not, and `super` has the source's
layout or the target's. Its core is `ComputeReachesTarget`. The list of
`_Compute` is a sequence of loops, and each is shown to lead from one layout
to the next (`Leads`, `LoopLeads`): what leaves its group or shrinks, the
groups that shrink, those that grow, what enters or grows. Until the groups have
their new limits no partition is larger than in the source, and after that
none is larger than in the target, so no sum exceeds what it has in one of
the two layouts. Sums, and the results of loops, are defined by recursion over
numbers; facts about them are proved with `UpTo`, an induction over a *set* of
numbers that follows from the least element of a set, where the library's
induction over an operator cannot be used.

**MergeOta.** `OtaInv` says of a merge that its packages are those of the job,
and of its output that it is what `MergeManifests` and, at the end,
`ConcatBlobs` make of them. Both loops are unfolded to recursive functions of the number of
payloads (`MergeUnfolds`, `ConcatUnfolds`), and `AllOwn` goes up these numbers
with `UpTo`: after `n` payloads the partitions are in the order of their data again,
every operation finds its data in the blob, and `TotalDataLength` of the
partitions is the length of the blob. `OwnStep` is the step: the new
operations are shifted by `TotalDataLength` of the partitions so far, and the
new data starts there. It needs the new payload to have a partition. Without
one, `partitions[-len(new_partitions):]` is the whole list and every earlier
operation is shifted; this is why `PayloadsAssumption` asks for one. A
payload without data is no exception.

**Signing.** What is signed is in the output zip long before the package is
finished: afterwards `add_img_to_target_files` runs on the package, once, or
twice with a vendor's tools in between. `AddFrame` says what none of its steps
does, whichever thread takes it: replace a file outside of `IMAGES`, `OTA` and
`META` (a recovery patch aside), or a boot or dtbo image that is there, on
disk (`t`) or in the zip (`zip`). `SignInv` carries the rest from step to step:
the keys `LoadKeys` has read are the mapped ones (`KeysLoaded`), each entry
`ProcessTargetFiles` writes has them and each boot OTA ends in an image already
in the zip (`EntriesMade`), `ReplaceOtaKeys` has left no certificate that is to
be replaced (`OutMade`), and package and zip agree with that output on
everything `AddFrame` keeps (`AgreeBoth`), but for a boot image that the
vendor's tools replace (`KeptBoots`). While the vendor's tools work on a
partial copy (`nested`) nothing is said of the copy, since `TakeVendorImages`
takes only images and a patch from it. Dictionaries are put together with `++`
and `<:` of `TargetFiles`, since the prover has no definitions of the operators
of module TLC that do the same.

**Merging.** A merged package is put together in four places: the lists decide
which file comes from which build, `MergeMetaFiles` writes the dictionary and
the keys, the steps after it compile and copy what needs both builds, and
`add_img_to_target_files` builds what is missing, once in the merged package
and before that, with the vendor's tools, in a partial copy. `MergeInv` says of
the package at each of these places what holds already: `Collected` (files,
directories and images are of their build), then `Whole` (so are the keys, and
the dictionary names for each partition the contexts of its build:
`DictNames`). `Harmless` is what the later steps add. For the steps of
`add_img_to_target_files`, `Grew` and `Fresh` say what a step may add at all,
and that an image a thread adds was made with the contexts in the shared
dictionary at that moment; `InfoNames` says that these are the right ones
although other threads write to the dictionary meanwhile, and `ThreadsOwned`
that a thread only builds a partition that has a directory. While the vendor's
tools work (`mg.nested`) the same is said of the partitions of the vendor only
(`Counted`), and `Whole` of the package put aside. The copy has the vendor's
own dictionary, where the name of the contexts is another one, which is why
`DictNames` speaks of what the name leads to. `Fcs` is the set of contexts an
image of a partition may have: those of its build and, where the framework's
dictionary names some for it, the framework's, which is the exception of
`OneBuild`.

### Only model-checked

* Liveness (`Returns`, `Terminates`, `Installed`, `StartEnds`,
  `EventuallyLogged`, `EventuallyInstalled`): fairness and ENABLED are out of the prover's reach.
* That the fifteen characters reserved for a metadata token are always enough,
  or that a second pass is (`pc # "insufficient"`, a part of
  `PackageDescribesItself`): it depends on the number of digits of every offset
  in two layouts, and the comment at `ota_utils.py:631` bounds them only by what
  a package has in practice.
* `VbmetaDescribesImages`, `ImagesMatchTree`, `MetaDescribesImages`,
  `RecoveryPatchFits` and `SizesFit` of `Packages`. They follow one
  package through the programs that build images, each of which rewrites most of its entries, and what they need of
  the package at the start (a certificate for each APK, properties for each
  partition, lists that name what exists) is not stated by the code in one place. `SizesFit`
  also rests on the search for a minimal size, for which the size of an image
  would have to grow with its content in a way `verity_utils.py` only samples.

## 7. Plan

1. Proofs: `RecoveryPatchFits`, which follows the boot images from `boots` to
   the patch and can use `Grew`; then `ImagesMatchTree`.
2. `FindTransfers` (`blockimgdiff.py` 1275-1613): matching, splitting large
   files, with the loop of `AddSplitTransfersWithFixedSizeChunks` that makes no
   progress when `max_blocks_per_transfer` is 0; the worker threads of
   `SplitLargeApks` (1479-1539) and `ComputePatchesForInputList` (1105-1202);
   and `rangelib.py` below them. Its result would replace the free input of
   `BlockUpdate`.
3. Policy resolution over the license graph (`policy_resolve.go`,
   `policy_walk.go`, `policy_policy.go`): the two walks against a reference by
   paths, composed with `LicenseGraphRead`.
4. `projectmetadata.Index`: the concurrent cache of METADATA files.
5. aconfig's storage tables.

## 8. Not modelled

* *releasetools*: `FindTransfers`, range sets, sparse images and the worker
  pools of `blockimgdiff.py`; the checkers and small tools that read a package
  and report. Of the modelled tools: the bytes of images and payloads,
  parsing of command lines and files, messages; hooks of device-specific
  modules beyond added block differences; the content of the images of userdata, cache and
  the partition table; directories as input of a merge.
* *compliance*: policy, walks and the metadata index are planned; the reports
  only format.
* *aconfig*: code generators and a binary format.
* *make, product configuration, shell environment, finalization scripts*:
  declarative files and scripts without lasting state.
* *zip, copy, file system tools, signapk, checkers and report writers, ci,
  tool event logger*: sequential conversions of files.

`PROJECT.json` lists each of them with its sources and the reason.
