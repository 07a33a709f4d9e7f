# Disks: a verification project

`disks` builds small Linux images ("disks") that a provisioning server,
Contractor, boots on a machine to do one job: test its drives, update its
firmware, install an operating system, identify it. This directory models the
programs on those images in TLA+, checks the models with TLC and proves theorems
about them with TLAPS.

Paths below are relative to the repository (`src/` in `PROJECT.json`).

## 1. The system

### How a disk runs

```
 kernel + initrd
   init -> rootfs/etc/init.d/do_task  ----- udhcpc (one per interface, background)
             |  network, media, job configuration
             v
           /do_task  of the disk (disks/<name>/root/do_task)
             |  drivetest, firmware.py, bootstrap.py, installer, ...
             |        |                         |
             |        |  child processes        |  HTTP (contractor client)
             |        v                         v
             |     drives, BMC, flash        Contractor / Plato
             v
      exit code: 0 power off, 20 reboot, 10 prompt, other: alert and prompt
```

Everything on a disk is sequential Python, C or shell, so what is hard is what
runs *beside* the program: child processes with deadlines, DHCP clients that
write a file when they like, a server whose calls are lost, late or executed
without an answer, hardware that fails, and boots that start the same job again
from what the last one left behind.

### Components

| component | state | operations | hard behaviour | correct when |
|---|---|---|---|---|
| **disk-test: drive lists** `disk-test/root/pylib/DriveManager.py` | `all_list`, `good_list`, `bad_reasons`, `skip_reasons` | `prune`, `pruneAllready*`, `skipUnThrashable`, `skipDrivesWithFilesystems` | pruning while a loop goes over a copy of the list | every drive is in exactly one list |
| **disk-test: drivetest** `disk-test/root/*` | working list, children, mounts, labels, Plato's record | the steps of `drivetest`, `runOnEachDrive`, `runOnEachDriveWait`, `evaluate`, `doSaveResults`, `doLightupDrives`, mark and store | children that hang or exit around the deadline, a server call that raises anywhere, two drives on one block device, reboots | only a drive that came through everything is labelled PASS, marked and good |
| **firmware** `firmware/root/*` | flash, running versions, handler and target at hand, dirty | `setup`, `getTargets`, `findStep`, `beforeUpdates`, `updateTarget`, `afterUpdates`, exit codes | updates that need a reboot, fail half way, or have no effect | right version, right order, `complete` only when it is true, the reboots end |
| **rootfs** `rootfs/etc/init.d/do_task`, `rootfs/lib/udhcpc/script` | options, interface, `/tmp/dhcp-interface`, clients | network set-up, media, configuration, task, exit code | leases lost while the script looks; `set -e` | the interface taken leads to Contractor; the task runs only when it is ready |
| **bootstrap** `bootstrap/root/*` | call at hand, boot sectors | login, register, lookup, hardware report, `setIdMap`, wipe, done | retries without end over a network that loses and delays | steps in order, wipe only accepted hardware |
| **Contractor client** `src/contractor` | session, retry | request loop, paging, job cookies | calls executed twice or late | at least once, in order |
| **linux-installer** `linux-installer/root/*` | planned partitions, devices made, `filesystem_list`, mounts, diverts | recipes, `partition`, `mkfs`, `mount`, `remount`, `unmount`, `writefstab`, packages | drives that come late, programs that unmount things, processes left behind, a command failing at any step | partitions fit, a device has one use and exists, mounts are in order, a complete system is whole |
| **libdrive: wipedrive** `src/libdrive/wipedrive.c`, `disk.c`, `ata.c`, `scsi.c` | the chunk, page or poll at hand; the drive's own wipe | trim, SCT WRITE SAME with status and cancel, WRITE SAME in chunks | a wipe that goes on in the drive, signals between polls, two processes on one drive, the last short range | only what was asked for is erased, and all of it when it says so |
| **libdrive: drives** `src/libdrive/libdrive.py` | `port_list`, `drive_list`, `unknown_list`, `block_map`, `port_map`; what each drive told of itself | scan of the ports family by family, capabilities, SMART counters, fault lights | disks that come and go while sysfs is read | each disk is one drive at one port, and none that was there all the time is missing |
| **libdrive: other tools** `src/libdrive` | a copy or self test in progress | `diskcopy`, `selftest`, `muncher` | I/O errors, the last short block | every block is copied or reported |
| **disk-test: evaluation** `disk-test/root/pylib/Evaluator.py` | counters of the first scan, bad drives | first and later scans, thresholds, reports | counters that creep up, or are missing at first | a drive whose counters are out of bounds is bad, lit and reported |
| **firmware handlers** `firmware/root/firmware/{manager,handler}.py`, `handlers/` | the output of a tool | `getHandlers`, `_execute`, targets, updates | two pipes read in turn | firmware.py is told what the tool said and did |
| **libconfig**, **config-curator** `src/libconfig/libconfig.py`, `src/config-curator` | database of values, hashes and times; the files | `updateCacheFromContractor`, `configPackage`, `_getTargets`, `_renderTemplate` | values, templates and files change meanwhile; processes end in between | a change is noticed, only what was asked for is written |
| **libconfig: jinja2** `src/libconfig/jinja2` | templates in a cache, bytecode on disk; symbols of frames at compile time | `get_template`, `select_template`, `compile_templates`; `FrameSymbolVisitor`, code of names | edits during a load, two callers, deaths in a write; branches that set a name | what is loaded is what stands there; a name shows what the template says |
| **libhardware** `src/libhardware`, inventory of **bootstrap** | tables of DMI, list of VPD entries | `dmiInfo`, `pciInfo`, `getLLDP`, `getPlatform` | a list that is filled for one device after the other | every device is told with what is its own |
| **bios-cfg** `bios-cfg/root` | settings, boot order, count of boots | a round of `bioscfg` by `syscfg` or `sum`, reboot | items that show only when others are on, failures on the way | done means as wanted, and the reboots end |
| **new system** `linux-installer/root/installer/{bootstrap,packaging,users,config,misc}.py` | repositories, packages, diverted services, users, files | the commands in the new system | commands that rely on each other in six modules | the system is what profile and configuration make of it |
| **ttytee** `src/ttytee` | buffers of a terminal and its copies | the select loop | short writes, a reader that goes away | nothing is lost or reordered |
| other disks, **build** `Makefile`, `scripts`, `deps` | none of their own; offline | one command each | | |

## 2. What is modelled

### `DriveManager`, `DiskTest`: the disk test

`DriveManager` is the class: its lists are the four variables, `prune` is `Prune`,
and the loops of `prune` in the scans are `PruneAll` and `SkipAll`. `DiskTest` is
`drivetest` and all it calls. `Program(options)` is the text of `drivetest` as a
sequence of steps for the options it was started with; `step` is the place in it
and `pc` the place inside a step:

* a loop over the sorted working list (`evaluate`, an immediate command, marking,
  storing) is `BeginLoop`, one action per drive and outcome, `EndLoop`;
* `runOnEachDriveWait` is `BeginWait`, `StartChild` per drive, `AllStarted`,
  `StopWaiting` (all gone, or the deadline), then the check of the results in
  order: `CheckPassed`, `CheckFailed`, or `CheckLate` - `Terminate` - `Reap`.
  `ChildExit` is a process of its own and may happen between any two of these,
  also after `drivetest` died;
* every call to Plato may raise, before or after it was heard (`PlatoRaises`, the
  second disjuncts of `PruneAndReport`, `Mark`, `Store`), which ends `drivetest`;
* `Reboot` happens at any moment: Plato's records and the labels survive it.

`failed`, `passed` and `marked` are history variables: nothing in the guards of the
code's actions reads them. `Certified(d)` says with them what "good" should mean:
nothing failed on the drive, and every command of the program so far that it could
not be passed over for ran on it to the end with exit code 0.

### `FirmwarePromise`, `Firmware`: firmware updates

`FirmwarePromise` is the abstract specification: a target goes only from another
version to the wanted one, and `complete` is told only when every target is there.
`Firmware` is `firmware.py` (handlers by priority, the first handler with updates
ends the boot), `planner.findStep`, the exit codes through the disk's `do_task` and
the rootfs, and the boots. `flashed` is what is in flash memory and `running` what
the device reports: they may differ until the reboot. A handler is its four calls, any
of which may fail. `KeepsPromise` is the refinement, checked as a property with
`want` and `flashed` mapped to themselves restricted to the targets of the job.

### `BootTask`: the rootfs

The `do_task` of the rootfs from the options to the exit code of the disk's own
task, beside the DHCP clients. `pc = "dead"` is an end under `set -e` without a prompt.
`DropInterface` leaves the clients alone, because the kill of line 427 does: the `ps` of busybox is built
without `CONFIG_DESKTOP` (`configs/busybox`) and its second column is the user, so `kill` fails and
`|| true` goes on. So each pass through the list starts one more `udhcpc` on every interface with a link: `held[i]`
counts those with a lease and `seeking[i]` those that have lost it and look for another (`LoseLease`,
`RegainLease`, which are the `deconfig` and `bound` of their script). `routes` are the interfaces with the address and the default
route of a lease, which `nslookup` and `ping` go by. `again` records that a client found a lost lease again; see section 4.

### `Bootstrap`: bootstrap.py and its calls

`Order` is the sequence of calls of `bootstrap.py`; `After` its branches. `Answered`,
`TimesOut` and `Raises` are the outcomes of the request loop of
`src/contractor/contractor/client.py` with the retry count of each call; a call that is
given up may be lost, executed, or stay on its way (`late`) to be executed beside the
calls that follow. The server is not in the repository: it is modelled by what the
client relies on only.

### `Partitions`, `Mounts`, `Installer`: installing Linux

`Partitions` is `partition()`: a recipe is a sequence of items of several kinds, and the
function goes through it once for each kind; `phase` is the loop, `n` the place in the recipe from
which on the next item of that kind is looked for (`NextOf`, `NoneLeft`). Recipes are
the constants of the code (`Single`, `Mirror`, ...) written as records, and the ones of a
configuration come in through `Jobs`. The target items are only *planned* (`partition_pos`,
`parted_task_map`, `filesystem_list`); what parted makes of the plan is in `Inside` and
`Apart`, from the positions it is given, where a negative one counts from the end of the drive.
Arrays, bcache devices and volumes are made as their items come; the tools that make them refuse
what there is already.

`Mounts` is `mount`, `remount` and `unmount` over the list of mounts the kernel has, in
their order. The functions order by the length of a path, which is the constant
`PathLength`: what the code relies on, that a path is longer than its parents, is the
assumption `PathLengthAssumption`.

`Installer` composes the two: `Program` is the sequence of `installer.py`, most of whose
steps are one action (`RunStep`) that may leave processes behind; `Fails` ends it at any
of them. Beside it the kernel finds drives (`DriveComes`), programs of the new system unmount
what they find (`OthersInterfere`, in the six steps that install something, `Unmounters`), and processes end (`HolderEnds`).
`installer.py` mounts anew after the first two of these steps only; what is missing after the others makes `umount` fail in the
end (`UmountFails`). Its `do_task` tells Contractor.

### `Erasure`, `WipeDrive`: erasing a drive

`Erasure` is what a drive gets to see: the ranges a TRIM page, an UNMAP or a WRITE SAME stands for,
built as the code builds them (a page keeps the entries of the page before; the count of WRITE
SAME(16) is taken from the bytes the code puts it into). `Capacity` is the number of sectors, `LBACount(proto)` what identifying the
drive takes for it, which is one less on a SCSI drive (`scsi.c:552` stores the last address READ CAPACITY(16) returns): `TrimLength`
goes by the second, `WriteLength`, which the drive works out, by the first. The widths, 65535 sectors per entry, 63
entries per page, 256 values per byte, 2^64 of a length, are the constants `EntryMax`, `PageLength`,
`ByteValues`, `WordValues`.
`sct` is the wipe an ATA drive goes on with by itself (`DriveWorks`), until a SMART or IDENTIFY
command ends it, as the comments of `wipedrive.c:151` and `:574` have it. `media[s]` records whose
command has erased a sector: a history variable that no guard reads.

`WipeDrive` is `wipedrive`: any number of processes on one drive, each started with its own options
(`job`). `pc` follows `main` into `doTrimWipe`, `doSCSIWipe` or `doATAWipe` with `doStatus` and
`doCancel`; each command to the drive is one action and may fail (`CommandFails`, `ChunkFails`). A
signal is remembered in `cont` by the handler while `doATAWipe` is at work and kills the process
anywhere else. `-s` and `-c` open the drive without identifying it, so that nothing is known about
it (`Ident`).

### `Config`: libconfig and its database

One process of `libconfig.py` at a time: `pc` follows it from opening the database (`_checkDB`, whose
statements are committed one by one: `Open`, `FillControl`, `CreateTables`, `MarkVersion`) through
`updateCacheFromContractor` (`Fetch`, `StoreValues`) and `configPackage` (`NextTemplate`, `Check` per target,
`RenderTemplate`, `OpenTarget` and `WriteTarget` per target, `Record`). It may end anywhere (`Dies`). Beside it the values
change at Contractor, packages change templates, and somebody edits files. A rendered file is what it
was rendered from (template, version, version of the values), so that equal hashes are equal contents. The
clock counts half seconds, because `CURRENT_TIMESTAMP` of SQLite has whole ones and Contractor has not.

### The libraries

Nine libraries that the programs call. Each has a module with its own variables, `Init` and `Next`;
`MCLibraries` gives them their instances and runs one of them in each behaviour (`library`).

| module | what it models |
|---|---|
| `Drives` | `DriveManager.rescan` of `libdrive.py`: one action per family of ports (`getIDEPorts`, ... `getMegaRAIDPorts`), between which disks come and go; what a drive tells and keeps of itself (`_loadInfo`) |
| `Health` | `Evaluator.py` over several scans, with the SMART attributes of `libdrive.py` and the fault lights; the reports to Plato |
| `CInP` | `URI.build`, `split` and `extractIds`, as sequences of tokens; the checks of a request; the loop of tries; `getFilteredURIs`, `getFilteredObjects` and `getMulti` over a list that changes between pages |
| `Handlers` | `getHandlers`; the loop of `_execute` over stdout and stderr beside a tool that writes to them, and the cut to the last 5000 characters of what it returns (`KeptLines`, `Latest`: a tool writes up to `MaxChatter` lines that nobody looks for); targets and updates of saa, mellanox and harddrive |
| `Bios` | `bioscfg` over boots, each with a job of Plato or without one (then it keeps no count and goes on, line 48): password, items in the order of the configuration, boot order by `SYSCfg.py` or `SUM.py`, reboot. `AsWanted` is the comparison of the orders with its loop that deletes from the list it goes through (`ClassAlone`) |
| `Inventory` | the tables of DMI; the VPD of the PCI devices through one list whose slots are written over and, but for the first, not cleared: an entry is an id and, for each letter of its value, the device that wrote it (`Over`); the platform, LLDP, and what is sent |
| `NewSystem` | the functions of the installer as the sequences of commands they execute in the new system, for a profile and the values of Contractor. A key of a repository without a file is used by apt only (`IsUsed`); a `postinstall_script` cannot be written and ends the installation (`Impossible`) |
| `Templates` | the loaders (file system, package, dictionary, function, prefix, choice, zip, modules): a loader within loaders is the sequence of the branches it tries, each with its kind, its folder and the prefixes above it; `LRUCache`; `is_up_to_date`; bytecode caches; compiling to a folder; two callers, editors, deaths |
| `Scopes` | `idtracking.py` with the frames of `compiler.py`: `Run` is what the generated code does, `Meaning` what the template says |

`Scopes` is a pure algorithm against a reference definition: `Write` builds a template statement by statement and
`RenderProgram` renders it, for every context. `Meaning` knows scopes only and nothing of symbols, levels or loads. The names it speaks of leave
out three kinds of templates where the two differ, which `ReadTooEarly`, `SetOnSomePaths` and `BlockReadsLoop` describe; each
of the three is needed (see section 4).

## 3. Runs

| run | instance | what it asks |
|---|---|---|
| `DiskTestPlato` | 2 drives, own blocks, `quick` and `medium` jobs, 2 boots | lists, children, labels, marks and reports under failures, hangs and raises |
| `DiskTestLocal` | 3 drives: two share a block, one has none; an `epic` job that writes nothing and a `conveyance` job that writes; 1 boot | certification of shared drives, and that the test ends |
| `FirmwareJob` | 2 handlers, 3 targets, 4 jobs, 1 reset, one target whose updates may have no effect | hooks, priority, promise, verdict |
| `BootSearch` | 3 interfaces, 5 networks, 9 option sets, 2 lost leases, 4 passes | the interface taken, the others, readiness, the search ends |
| `BootStray` | the same networks, default options, 1 lost lease, 2 passes | *violation*: is the interface taken one that was pinged through? |
| `BootstrapCalls` | 2 boots, 1 late call, 2 sessions | order, acceptance before the wipe, the boot ends |
| `InstallRun` | 4 drives, 22 jobs, 1 extra mount, 1 process left behind | room, use and existence of devices, order of mounts, the chroot, fstab, the end |
| `InstallPoints` | a recipe with bcache, one with two volumes | *violation*: does every mount point get a file system? |
| `WipeRun` | a drive of 7 sectors of 6 kinds, 2 processes, 28 and 6 sets of options | what is erased, what is said of it, what runs on, the end |
| `ConfigRuns` | one template whose versions have one or two targets, 2 further versions of the values, 4 half seconds, one edit, one death; 5 sets of options | is a change noticed, do values go back, is only what was asked for written |
| `LibraryRuns` | nine small instances, one library at a time (below) | what each library promises to the programs that call it |
| `WipeCount` | a SCSI drive, `--count 1`, bytes of 256 values | *violation*: is only that sector erased? |

A run states at most one invariant of each kind of question; where a property is a conjunction, its conjuncts are
definitions with a comment each. The type invariants are theorems (section 5).

### Why these bounds

* *Drives.* The loops treat drives one by one; drives meet only through a shared
  block device (two drives suffice), through the order of the loop (two) and through
  the death of `drivetest` in the middle of a loop (two: one done, one not).
  The third drive of `DiskTestLocal` is the one without a block device. The proofs
  have no bound.
* *Options.* `quick` and `medium` have every kind of step that `short`, `long` and `epic`
  have, in Plato's destructive form; `epic` brings the rounds without a deadline,
  `conveyance` the short wipe. The options of the local run turn on the flags
  Plato's jobs never set (`thrasher`, `partition_check`, `lightup`).
* `MaxBoots = 2`: what survives a boot (Plato's records, the labels) is read by the next one.
* *Firmware.* Two handlers for the priority order, two targets of one handler for the rest of
  `target_list` after an update, versions `1`, `1.0`, `2` so that a pattern can match more
  than its version. The jobs: all is there; firmware missing for a handler or a model; an update
  in two steps with a way back; a version no file leads from. `MaxResets = 1` besides the reboots,
  which are not bounded.
* *Interfaces.* Three: one before, one at, one after the one that is taken. The networks have an
  interface without a link, with a link but no DHCP server, and with DHCP but no
  Contractor. `MaxLosses = 2` lets a lease be lost, obtained and lost again. The bound on the passes hides nothing of the
  search: where it should end it does so within `MaxPasses = 4` (at the bound it would stand still, which `SearchEnds` forbids).
* *Calls.* One late call at a time can overtake every later call; `MaxSessions` only stops the
  count.

* *Installations.* The 23 jobs of `MCInstaller` are all seven shipped recipes with the default sizes;
  GPT with and without EFI and `msdos`; a swap size that is odd, larger than `/boot`, or
  nearly as large as a drive; target drives that are named, that match several drives, and that
  never come; and recipes of a configuration that the code has to refuse or that use its
  remaining branches. Four drives are what the largest recipe needs, one of them smaller.
  `MaxHolders = 1`: the signals do not depend on the number of processes. One extra mount beside
  `/`, `/boot`, `/boot/efi` and `/var` is enough: the order of mounts needs one below another, which `/boot/efi` is. The proofs have no bound.

* *Erasing.* Entries of 2 sectors, pages of 2 entries, UNMAP of 3: 7 sectors need two pages of which the
  second is short, three UNMAPs of which the last is short, and chunks that do not divide them. The areas
  start within, at and past the end of the drive; lengths are 0, short, and beyond the end. Two processes,
  so that one finds the wipe of the other and cancels it. Of a SCSI drive one area begins at the sector libdrive does not know of.

* *Configuration.* One template: templates meet only in the queue of a call, which is taken in any order, and in the
  tables, where every statement is for one template. Two targets: one that is built and one that is
  not. Values in three versions: one that was fetched, one that was rendered before, one that comes while
  a call is at work. Four instants: within one second and across two. The proofs have no bound.
* *Drives.* A disk at every kind of place (IDE, SCSI with one and two disks on a port, SAS, two expanders of one enclosure, NVMe,
  a USB host that is passed over, with two units at one target). Two disks come or go, which is one that moves.
* *CInP.* Requests of all combinations of up to two namespaces, model, action and ids, with empty ids at
  any place. Five records in pages of two: a short last page. Two records come, and as many are deleted.
* *Handlers.* Five archives of plugins, two lines of noise on stderr, so that the loop over stderr is
  entered, left and entered again; two lines are kept and up to two follow the one a handler looks for, so that it is returned or cut off.
* *Bios.* Three items, one of which is shown only while another is on; four devices of two classes, three of them of one, so that the loop
  that deletes passes over one; orders by device, by class, in part, of a device that is not there. `MaxAttempts = 5` is the constant of the code.
* *Inventory.* Devices with more, with fewer and with no VPD entries in turn, with longer, shorter and empty texts, and one without the first of its slots.
* *NewSystem.* The four kinds of profiles the repository ships, and values that add repositories of either manager, packages of
  either, users that share a group, a package that does not exist, repositories of both kinds with and without keys, with and without files
  for them and with a key they share, and a script.
* *Templates.* Two callers, two folders, two stems, three events (a question, an edit or a death). A cache of one template evicts at the second,
  one of two only at a third.
* *Health.* Two drives, three scans: a first one, one that compares, and one after a counter was missing. Values below, at and above a limit.
* *Scopes.* Up to three statements, the middle one of every kind with bodies two deep: 269 018 templates are rendered, of which 133 046
  are outside of the three kinds that are left out.

### Fairness

* `DiskTest`: weak fairness of `drivetest` as a whole (a sequential program that is
  not stopped; its prompts are answered; commands that are run one at a time end),
  and of the exit of a child only while it has **no** deadline. A child that has one may
  hang for ever: that the test ends all the same is what `Terminates` shows.
* `Firmware`: weak fairness of the machine; the operator may never come. Strong fairness
  of an update taking effect: nothing in `firmware.py` counts the boots (the line is
  commented out), so a target that never takes its update makes the machine reboot
  for ever; `Verdict` holds only under the assumption that repeated updates work in the end.
* `BootTask`: weak fairness of the script only. Leases need not come back.
* `Installer`: weak fairness of `installer.py`, a sequential program whose commands end, and of
  the end of a process that was sent SIGKILL. Drives need not come, arrays need not
  synchronise, and processes may ignore SIGTERM.
* `WipeDrive`: weak fairness of each process, where a command that fails is not owed to it, and of a drive that
  has begun a wipe. Signals need not come, and a wipe may stop for another reason.
* `Config` and the libraries state safety only: `libconfig.py` is called when somebody wants it, and each library ends
  when its caller has its answer.
* `Bootstrap`: strong fairness of the answer to a call with `retry_count = -1` (it is
  repeated until answered), weak fairness of the program, and that somebody matches the machine. Calls that
  are not repeated need not be answered.

## 4. What the checks show

* A drive that ends up good, labelled PASS or marked with Plato came through
  everything, whichever of its commands hung, exited just after the deadline or
  was left behind by an exception (`GoodIsCertified`, `MarkedIsCertified`, `PassIsCertified`,
  `NoChildLeftBehind`).
* The lists stay a partition (`Accounted`, proved); a file system that could not be unmounted is not
  written underneath (`RawOnlyUnmounted`).
* Plato hears of every bad drive unless `drivetest` dies, and no drive it has flagged is
  marked (`BadIsReported`, `MarkedNotDead`).
* Firmware is flashed in the order of the priorities, between the hooks of its own
  handler, and only to the wanted version; `complete` is true when it is told, and
  the reboots end (`PriorityOrder`, `HooksAround`, `KeepsPromise`, `Verdict`).
* The interface the rootfs takes is one Contractor was pinged through, and no other one has the address or the route of a
  lease, or is up unless a lease was lost (`TakenAnswered`, `OthersDown`): also when leases are lost between the ping and
  the next look at the file, for then the file is gone and the search goes on. Both leave out a client that has lost its lease
  and finds another (`again`): the clients of interfaces that were passed over run on, and such a one writes the file and its route
  whenever it likes (disagreement 3 below). The task runs only with its configuration, media and address
  (`TaskReady`), and a search in a network that has a way to Contractor and no link without
  DHCP ends (`SearchEnds`).
* `bootstrap.py` is past a call only if the server executed it in this boot; drives
  are cleared and the entry marked done only after `setIdMap` was accepted; every
  boot ends once the machine is matched (`PastIsExecuted`, `WipedIsAccepted`, `BootEnds`).

* Whatever the order of the items in a shipped recipe, the partitions of a drive that is large enough
  follow one another inside of it (`ShippedFits`); no device is used twice, and what is used was
  made (`OneUse`, `UsedIsMade`); every drive that carries the file system the machine boots from
  has the boot loader and room for it (`RoomForBoot`).
* A mount never covers an earlier one, also when programs of the new system took some away
  (`NothingHidden`); commands in the new system find everything mounted (`ChrootIsWhole`); fstab
  names what was mounted where, though `/boot/efi` may be listed once per boot drive
  (`FstabIsMounted`).
* `complete` is told only of a whole system, and every installation ends (`CompleteIsWhole`,
  `InstallEnds`).

* `wipedrive` never erases a sector that it was not asked for, except by WRITE SAME on SCSI drives (below); exit 0
  of a trim and "Wipe is completed." mean that every sector that was asked for is erased, but for the last one of a SCSI drive that is trimmed to
  its end (`scsi.c:552`, below); exit 0 leaves no wipe of the
  process running, and every process ends (`StaysInside`, `ReportedIsErased`, `ZeroIsStopped`, `WipeEnds`).
  "Wipe is completed." is only relied on when nobody has begun another wipe since: a second `wipedrive` that
  identifies the drive ends the wipe of the first, which then reads the status of the second. Exit 0 of
  itself says less than that, for an interrupted wipe has it too.

* A change of the values at Contractor is noticed by the next `configPackage` whatever process ended in between, no file and no row is
  newer than the database, and only a run that was asked for it writes a file or moves one away
  (`ChangeIsNoticed`, `NothingIsNewer`, `OnlyAsAsked`).
* A scan gives every disk that was attached throughout as one drive at one port, and what a drive tells of itself
  is of one load (`ScansAreTrue`), but for two SAS enclosures on one host (below).
* A drive stays in the test only while its counters are within their bounds, counted from the first scan; the lights are on at the bad drives
  only, and Plato knows of each (`HealthIsTold`).
* URIs are taken apart into what they were put together from (`URIsAreRead`, a part of `AlgorithmsAreRight`); a request that may not be sent is not; a
  list from which nothing is deleted is read whole, whatever is added (`AnswersAreTrue`).
* The log of a tool has every line once and in order. Its handler gets lines of its stdout only: the last 5000 characters if nothing is written on
  stderr, and a part of them otherwise; no handler invents a target, those of mellanox and harddrive miss none, saa may miss a line that was cut off,
  and what is reported done was carried out (`HandlersAreTrue`).
* bios-cfg is done with everything as it is wanted only, and after `MaxAttempts + 2` boots with a job of Plato at the latest it has ended; without a job it counts none, and may reboot
  for ever, as its own warning says (`BiosIsAsWanted`). An order that names all the devices class by class is the one the machine boots
  with (`OrderIsKept`), and one that is taken for the wanted order has the devices it names in their order, also by class (`OrderIsReached`; both are
  parts of `AlgorithmsAreRight`).
* Of every device all of its own VPD is told, each text under its id and to its last letter. What else is told of it, slots it does not write and
  the tails of values that are longer than its own, is of the last device before it that wrote that slot, or that letter, and there is none of it
  in the first slot (`InventoryIsKept`; `pci.c:105`, below).
* In the new system no service starts while apt installs, nothing of profile and configuration is forgotten but keys that yum and zypper are given
  without a file, each key is there once, repositories of yum are those of
  the profile if it has a template for them, and the name server is that of the installer, but for an image that is unpacked once (`SystemIsWhole`).
* What an environment loads is what its loaders find there, but for files that were edited while they were read
  and loaders that cannot tell; the cache holds the latest templates (`TemplatesAreCurrent`).
* A name in a template shows what the template says, but for the three kinds below (`NamesAreTrue`, a part of `AlgorithmsAreRight`).

### Disagreements

Shown by a violation run and listed under `findings`:

1. `filesystem.py:676` describes the logical volumes of a recipe; lines 709-730, which make a
   volume, stand behind the loop, so only the last one is made, and none if it has `mkfs_options`
   (`InstallPoints`).
2. `wipedrive.c:46` gives `--count` as the number of LBAs; `scsi.c:202-205` puts its bytes into the wrong
   places of WRITE SAME(16), so a SCSI drive reads a count below 256 as 0, up to its last sector
   (`WipeCount`). The `mbr` mode of disk-wipe relies on such counts.
3. `README.rst:143` says that with `any` the rootfs takes the first interface that is successful at pinging. The client of an
   interface that was passed over is to be killed by `do_task:427`, which gives `kill` a user name; when it finds a lost lease again after the ping through a
   later interface, its interface is in the file and is taken (`BootStray`).

`InstallPoints` stops at the shorter trace, the one of the volumes. Its first job alone, the shipped
recipe `bcache-var`, violates the property as well: `filesystem.py:644` lists the file system of a
bcache device without `mkfs_options`, and `mkfs` raises.

Read, and followed in the models, without a run of their own:

* `rootfs/etc/init.d/do_task:562` says exit code 10 means `signalAlert` was run; the `do_task` of bootstrap
  exits with 10 for every failure of `bootstrap.py` without it.
* `wipedrive.c:65` says to use `-c` to stop a wipe; `-c` does not identify the drive (`disk.c:31` clears what is known of it),
  and `smartStatus` (`disk.c:606`) then refuses: a running wipe is never cancelled this way.
  `-c --trim` divides by a sector size of 0 (`wipedrive.c:591`).
* A wipe that was interrupted, or ended for another reason, has exit code 0 (`wipedrive.c:298-303`).
* `README_firmware.rst:9` has the planner build a list of files; `planner.py:26` returns one file.
* `README.rst:143` says that without the option `interface` it will assume `eth0`; `do_task:10` assumes `any`.
* `README.rst:152` says `no_ip` implies `no_config`; `do_task:512-515` makes it an error
  unless `no_config` or a local configuration is given.
* `filesystem.py:739` says arrays may synchronise to 2 % or for 10 minutes; lines 745-746 wait for
  0.5 % or 300 seconds.
* `filesystem.py:503` computes a size in percent from `drive_map[..].drive`, which a drive does not
  have: any percentage but 100 % raises.
* `README_linux-installer.rst` names the options `mounting_options` and `postinstall_commands`;
  the code reads `default_mounting_options` and `postinstall_command_list`.
* `DriveManager.py:59` compares `/dev/sdX` with names without `/dev/`: no drive is ever skipped as 'Is Mounted'.
* `README_firmware.rst:7` says a `from` pattern matches the whole version; `planner.py:18` anchors its beginning only.
* `README.rst:143` says `any` tries all the interfaces; `do_task:401` ends under `set -e` at the first that has a link and
  gets no lease. `SearchEnds` speaks of networks without such a link.
* `wipedrive.c:46` says that a count of 0 means the end of the disk; `scsi.c:552` stores the address of the last sector as the number of sectors, and
  lines 1154-1156 cut an UNMAP to that: `--trim` of a whole SCSI drive leaves the last sector, with exit 0.
* `config-curator:45` says that `--force` is needed to overwrite local changes; `libconfig.py:445` asks for it only when
  one of the targets needs to be built by what the loop has seen so far. A template that is new, modified
  or re-generated is decided after that, and its targets are overwritten.
* `pci.c:105` says "make sure all the strings are \0 teminated"; its `sizeof` is that of one entry, so only the first is cleared, and the `strncpy`
  of line 185 ends no text: in the other entries a shorter value goes on with the end of the longer one before it.
* The clients of `do_task:401` are never stopped and one more is started on each interface with a link in every pass: they pile up while the search
  goes on (`TypeCorrect` of `BootTaskProofs` has the bound, one for each pass).
* After the last remount (`installer.py:107`) packages, utilities and updates are still installed; what one of their scripts unmounts is missing for the commands that
  follow, and `umount` fails on it, so that the installation ends in an alert (`UmountFails`).
* A drive whose PASS cannot be written becomes bad after bad drives were labelled and keeps its old label (`miscutils.py:50`). Of two drives on one block
  device the second is passed over by every command and passes, and its PASS overwrites the FAIL of the first (`procutils.py:105`). When Plato raises at the report of a late drive,
  its child is not terminated (`procutils.py:262`).
* A bad drive is never unmounted, and FAIL is written to the raw device below its file system (`miscutils.py:21`); an `umount` has no deadline
  (`procutils.py:58`).

Of the libraries:

* *libdrive.* Two SAS enclosures on one host have the same locations, and `port_map` keeps one drive of two (`libdrive.py:947, 1116`), as it does of the units of one SCSI
  target (1084). A namespace of NVMe behind more bridges than the three patterns of 582 to 590 have is neither a drive nor unknown. An error while
  a drive is decoded leaves a part of its information, and the rest is a `KeyError` for ever (193-205). MegaRAID output is bytes that no pattern of text
  matches (672-744). `unknown_list` is sorted by an attribute it has not (1112).
* *Evaluation.* `SMART_ATTRIBS` has no `Samsung` and no `Intel SSD`: such a drive ends the test with a `KeyError` (`Evaluator.py:175`). SCSI
  attributes are numbers where tuples are read, so that every SCSI drive is bad (`libdrive.py:238`, `Evaluator.py:164`). A report may fail after the drive was pruned.
* *libconfig.* A process that ends between `CREATE TABLE control` and its row lets no later one in (101-109). A target that was inserted without
  `lastBuilt` (487) raises at 428 the next time. A new target of a known template is never recorded (511). A template is read again when it is
  rendered (405, 227). A target is truncated before it is rendered (68).
* *Contractor client.* A timeout while a body is read is not retried (`client.py:188`); `getFilteredObjects` gives the first page (444); a walk passes over records when earlier
  ones are deleted (446-456); empty ids at the ends of a list are lost (29).
* *Firmware handlers.* Lines of stdout that come while stderr is read are logged but not returned (`handler.py:168, 191`), and of what is returned only the last 5000
  characters are kept (156, 180). afudos and megaraid do not load: `NAME` is not the name
  of their class (`manager.py:24`). A BIOS update of saa ends by its reboot or as a failure after 600 seconds (`saa.py:85-89`).
* *bios-cfg.* A password that could not be changed is taken for empty from then on (`bioscfg:56-60`). The file for SUM keeps lines that failed (`SUM.py:93-105`). An order that mixes classes never equals what
  the BIOS shows, and the comparison deletes from the list it goes through (134-144), so that of three devices of a class that is named alone one stays: the machine then reboots until the count ends it.
  Without a job of Plato nothing is counted (48-49).
* *Inventory.* VPD entries of an earlier device stay in the list (`pci.c:107`); one VPD that cannot be read ends bootstrap
  (`libhardware.py:102`); of LLDP's neighbours only those are told that were heard when the first was (`lib.py:50-56`).
* *Installer.* A second repository with the URI of the first and another key keeps the first key (`packaging.py:28-46`); `yum` may be asked to install an empty list
  (92-101), and the key of a repository without `key_file` is fetched for yum and zypper and not used (36-46); a `postinstall_script` is opened for text and
  written as bytes, which raises (`misc.py:15`); two users with one group fail at the second `groupadd` (`users.py:31`); `base_templates` of CentOS are separated by spaces where commas are
  read (`profiles/centos/7/profile:32`, `config.py:67`); an image is unpacked over the files copied before it (`bootstrap.py:27-57`).
* *jinja2.* `FileSystemLoader` takes the time of a file after its text (`loaders.py:174-179`): an edit between is never noticed. A new file in an earlier folder is not noticed
  (181-186). A reader of a bytecode file that is being written gets an `EOFError` (`bccache.py:79-96`). Three kinds of templates show nothing for a
  name that the context has: one that reads the name in a frame before it sets it outside (`idtracking.py:93`), one with an `if` all of whose parts set
  it, but not before it is read on every path (117-119), and a `loop` that only a scoped block reads (`compiler.py:1033`).

## 5. What is proved

`DiskTestProofs` proves for every set of drives and blocks, every assignment of
one to the other, every set of options and every number of boots:

| theorem | statement |
|---|---|
| `TypeCorrect` | `Spec => []TypeOK` |
| `ListsPartition` | `Spec => []Accounted` |
| `ChildrenAccounted` | `Spec => []NoChildLeftBehind` |
| `GoodCertified` | `Spec => []GoodIsCertified` |
| `MarkedCertified` | `Spec => []MarkedIsCertified` |
| `PassCertified` | `Spec => PassIsCertified` |
| `BadReported` | `Spec => []BadIsReported` |
| `MarkedAlive` | `Spec => MarkedNotDead` |
| `RawUnmounted` | `Spec => RawOnlyUnmounted` |

They rest on the assumptions on the constants named in `DriveManager` and `DiskTest`
(drives are natural numbers, `NoBlock` is no block, options have their type), which TLC
evaluates on every run, and on nothing else.

**The argument.** None of the properties is inductive. That a good drive is certified
between two steps depends on what the loop has already done *inside* the step,
which drives have their turn still to come, and which children count. The inductive
invariant `IInv` is the conjunction of

* `TypeOK` and `Accounted`;
* `Places`: which steps of the program each place inside a step belongs to, and which drives
  the loop there has still to visit (good ones, and not those already started);
* `Children`: a running child is in `drive_list` while children are started and awaited, and still
  to be checked afterwards; a signalled child is on a bad drive;
* `Failures`: a failed drive is no longer good - or is one whose child has just failed and
  that is still to be checked;
* `Passed`: a good drive that is alone on its block device has passed every command it cannot be
  passed over for of the earlier steps, and of the current one when its turn is over;
* `InProgram`: `step` stays inside the program;
* `Marked`: once a drive is marked no command and no evaluation is still to come, and the
  marked drives are good and certified;
* `BadIsReported` and `Unflagged`: Plato knows of every bad drive, and past the first scan no good drive is one it
  has flagged, in this boot or an earlier one. So what `mark` marks is not dead;
* `MountsAreOpen`: a good drive is mounted only between the program's `mount` and its next `umount`, or while
  the loop of `umount` is still to come to it. A failed `umount` prunes its drive, which is why nothing is said of the bad ones;
  no program has a command for the raw device between the two.

There is one lemma per conjunct (`TypeStep`, `AccountedStep`, `PlacesStep`, ...), with one
step per action. Nothing is assumed about the program but what `ProgramEnds` proves of every
`Program(options)`: its one `exit` is its last step, and after `mark` come only the last steps. The three facts `Init => IInv`,
`IInv /\ [Next]_vars => IInv'` and `IInv => P` are combined by PTL; `PassCertified`, `MarkedAlive` and
`RawUnmounted` are action properties from the same invariant.

`FirmwareProofs` proves for every set of handlers, targets, versions, files, jobs and resets:

| theorem | statement |
|---|---|
| `TypeCorrect` | `Spec => []TypeOK` |
| `HooksKept` | `Spec => []HooksAround` |
| `PriorityKept` | `Spec => PriorityOrder` |
| `PromiseKept` | `Spec => KeepsPromise`: `Firmware` implements `FirmwarePromise` |

It assumes that every target has one handler of the list, and `JobsAssumption`: what a job
wants is a version. A report of `getTargets` is older than the decision it leads to, so
the invariant says what it is still worth at each place: `Reported` (the targets of the handler
at hand were read in this boot, and only its own updates came in between), `EarlierDone`
(the handlers before it had nothing to do, and none of their targets has changed since),
`PassedOver` (so had the targets of the handler before the one at hand), with `Hooks` and
`AtHand`, which tie the handler and its target list to the place in `firmware.py`. For the
refinement, `complete` is reachable only past the last handler, where `EarlierDone` speaks of all
the targets.

`BootTaskProofs` proves for every set of interfaces, networks, options and lost leases:

| theorem | statement |
|---|---|
| `TypeCorrect` | `Spec => []TypeOK` |
| `TakenIsAnswered` | `Spec => []TakenAnswered` |
| `OthersAreDown` | `Spec => []OthersDown` |
| `TaskIsReady` | `Spec => []TaskReady` |

It assumes that the names `any` and "none" are not interfaces and that options have their
type. The invariant says how many clients an interface may have (`Counted`: at most one for each pass, and fewer while its turn in a pass is still
to come), where its address, route and file may be as long as no client has found a lost lease again (`Sole`: nothing but the
interface the loop stands at), and that the interface in the file was pinged through once the loop comes
back to it (`Pinged`); `Ready` says what was obtained at each place after the search.

`WipeDriveProofs` proves for every drive and its size, every width of entries, pages and bytes, every number of
processes and every set of options:

| theorem | statement |
|---|---|
| `TypeCorrect` | `Spec => []TypeOK` |
| `OnlyWhatWasAsked` | `Spec => []StaysInside` |
| `NothingRunsOn` | `Spec => []ZeroIsStopped` |
| `ReportedErased` | `Spec => []ReportedIsErased` |

It assumes that the sizes are positive, and that drives and options have their type. `StaysInside` is not inductive:
what a process will erase next stands in its chunk, its page and the drive's own wipe. The invariant adds
`Placed` (which options lead to each place, and that `cur` is not before the start), `Ranged` (the range
still to be trimmed and every entry of the page, those of the page before included, were asked for) and
`Background` (so was what the drive has still to do; and whoever waits for it is at a place where it
can still stop it, or has failed). The arithmetic of a page is in the lemma `FilledInside`, that of the loops in
`LeftInside` and `CoveredInside`. `ReportedErased` is the converse: nothing that was asked for is left out. Its invariant `AllReported`
says, of the sectors libdrive knows of (`Known`), what is erased at each place: below `cur` and before the range at hand of a trim (`Trimmed`), and before the position of the drive's own wipe
for the process that waits for it (`Followed`); `NothingBetween` is the lemma that a page leaves no gap before the next one.

`ConfigProofs` proves for every set of templates and targets, every number of versions, and every set of options:

| theorem | statement |
|---|---|
| `TypeCorrect` | `Spec => []TypeOK` |
| `ChangesAreNoticed` | `Spec => []ChangeIsNoticed` |
| `NothingNewer` | `Spec => []NothingIsNewer` |
| `CallsAreKept` | `Spec => OnlyAsAsked` |

What the database says of a template is read at the start of a loop over its targets and used at its end, while values, templates
and files go on changing. The invariant adds to the types what the process holds at each place: `Placed` (where a template, a call and a
target are at hand), `Fresh` (until the tables are in place there is nothing to lose: no values, no files of its own, no rows), `Fetched` (what
was fetched is a version Contractor has had, with the time it became one, and no older than what is kept) and `Allowed` (without `--force`
the loop over the targets lets only those pass that are missing or as they were recorded).

`BootstrapProofs` proves for every set of disks, every number of retries and every behaviour of the network:

| theorem | statement |
|---|---|
| `TypeCorrect` | `Spec => []TypeOK` |
| `PastExecuted` | `Spec => []PastIsExecuted` |
| `WipedAccepted` | `Spec => WipedIsAccepted` |

The invariant is `TypeOK`, `Finite` (the calls on their way are finitely many), `Past` (each call before the one at hand was executed, and the
branches that were taken explain the ones that were not made) and `Accepted` (past the lookup, the machine is accepted). `Order` is a literal
sequence, so where `After` leads is a lemma of its own (`OrderIs`).

`InstallerProofs` proves for every recipe, set of drives and set of mount points, whatever fails and whatever others unmount:

| theorem | statement |
|---|---|
| `TypeCorrect` | `Spec => []TypeOK` |
| `PathsTrue` | `Spec => []PathsAreTrue` |
| `InstalledWhole` | `Spec => []InstalledIsWhole` |
| `UsesSound` | `Spec => []UsesAreSound` |
| `DrivesLaidOut` | `Spec => []DrivesAreLaidOut` |

It assumes that a mount point is a sequence of names and is longer than those above it (`PathLengthAssumption`), that drives are finitely
many, have a capacity, and are not named like a kind of device that is made (`DrivesAssumption`), and that recipes are of the form the functions
read (`JobsAssumption`, `Stated`: sizes are numbers, an array has one of the groups, only file systems have mount points, and what is left blank
has no size of the swap or counted from the end).
`NothingHidden` speaks of the order of the mounts, which a program of the new system upsets when it unmounts something. It is inductive
only with `Uncovered`: whatever of `mount_list` is no longer mounted has nothing mounted below it, because a busy mount stays; so
`remount` never mounts over something. `MountsPlaced` says how far the loops have come: while `mount` is at work all that
is mounted is no longer than what is still to come. For the end, `Moves` and `Frame` say by which step each part of
the program is entered and each part of the state is changed; `FstabKept` and `Meant` tie the lines of fstab to the file systems of the
plan, `EndKept` the services, processes and boot loaders to the place in the program, and `ToldKept` collects them when Contractor is told.
`UsesSound` goes through all loops of `partition()` for any recipe at all, also one that no configuration should hold. That a device has one
use is inductive with `Planned`, which says where used devices come from: while partitions are planned each is one that parted will be
asked for (`Asked`), so the next one of a drive is new; from the arrays on each is one that was made, so an array or a bcache device that is
made now is new; and no volume was made before the last step. A step adds one use at most (`NewUse`), whichever list it is in: the
lemmas `FileSystemIsUse`, `MemberIsUse` and those that follow from them.

`DrivesLaidOut` is about numbers and about the boot. Its invariant has two parts. `LInv` says where what is planned lies: how far `boot_size`
and `swap_size` have moved from what was asked for (`Sized`), that one item of a drive may take the rest of it (`Filled`), and that all of a
roomy drive's partitions lie inside of it, apart, and behind the next position (`Fits`, `Ahead`). That the shipped recipes are of the kind this
holds for is a lemma for each (`SingleOrderly`, ..., together `ShippedOrderly`). `RInv` says which drives carry the file system the machine boots
from, and that each has room for the boot loader: the boot drives are those of the items with that mount point (`Anchored`); a file system in the
list is the partition of an item or its array (`Traced`), and every item that was dealt with has one (`Found`); the members of an array are partitions
of its items (`Joined`); a boot drive whose turn is over has `bios_grub` as its first partition, or starts behind the boot sector (`Roomed`); and what
parted has made lies inside of its drive and apart (`Cut`). Where the code keeps the last item with a mount point, the proof takes a
greatest number (`LastOf`, from the well-founded order of the numbers). `Roomy` asks for twice the room of a boot loader: in the recipe `dual-lvm` the
volume group 0 has the number of the array 0, so each drive is listed twice as one to boot from, and the room is kept twice.

`LibraryProofs` proves of eight libraries, each by itself, for all values of their constants:

| theorem | statement | the inductive invariant |
|---|---|---|
| `HealthTold` | `HealthSpec => []HealthIsTold` | `HealthInv`: what is remembered of the first scan is what the drives gave in it; the lights that are left while DriveManager takes them away are at ports still to come |
| `BiosWanted` | `BiosSpec => []BiosIsAsWanted` | `BiosInv`: the items before the one at hand are as wanted, or were set in this boot (`RightSoFar`, `SetSoFar`); how boots and their count go together |
| `AnswersTrue` | `CInPSpec => []AnswersAreTrue` | `RequestInv`, `RecordsInv` and `WalkInv`: a record that was there all along was given, is in the page at hand, or is past the position (`URIsInv`); no record comes twice in one page (`ObjectsInv`) |
| `InventoryKept` | `InventorySpec => []InventoryIsKept` | what the one list of VPD entries holds after each device, slot by slot and letter by letter (`Holds`, with `OverIs` for a value that is written over another and `FilledHolds` for a device), the neighbours heard and told |
| `HandlersTrue` | `HandlersSpec => []HandlersAreTrue` | `ReadSoFar`: what the tool was to write is what was read, what is in the pipe and what it has still to write, in this order, the log holds what was read, and the lines are the end of it (`Latest`); `HonestInv`: which command comes next and what was found so far |
| `ScansTrue` | `DrivesSpec => []ScansAreTrue` | `DrivesInv`: which families of ports the list has at each step of a scan (`Families`), and that the disks of NVMe are drives once their turn is over |
| `TemplatesTrue` | `TemplatesSpec => []TemplatesAreCurrent` | `TemplatesInv`: each call holds what was read from one of the places of its name, at a time when it stood there (`CallInv`, `HoldInv`); what nobody edited since is what is there now, and names that were passed over are nowhere (`QuietInv`); the names that are to be compiled are listed, or done (`CompileInv`); cached templates are from places of their names (`MapInv`), bytecode is that of its checksum (`BytecodeInv`), and the queue of the cache is the end of the names that were used, each once (`CacheInv`) |
| `SystemWhole` | `NewSystemSpec => []SystemIsWhole` | `NewSystemInv`: for each thing a part of the installer brings about, it is there or its command is still to come (`PackagesInv`, `UsersInv`, `KeysInv`, `DivertInv`, `WrittenInv`), and stays once the part is behind; a file of the installer is copied after the last image that has one (`CopiesLast`); behind each command that may bring repositories of others there is one that removes them, and behind that the one that writes those of the configuration (`WritesLast`); a line of sudo comes right behind its user (`SudoNext`) |

They assume of the constants what the modules name (`HealthAssumption`, `BiosAssumption`, `CInPAssumption`, `InventoryAssumption`,
`HandlersAssumption`, `PlaceAssumption`, `TemplatesAssumption`, `NewSystemAssumption`): bounds are natural numbers, pages are not empty, records, names of ports and places differ, the
items of a BIOS are listed; a profile is of one of the kinds `bootstrap` knows, and yum, which does not tell of a package of the base it does not find
(packaging.py:57-73 asks for none of them afterwards, as installOtherPackages does), finds all of them. So the pages, the lists, the number of devices and hosts, and what a tool writes have no bound here, where
the run has five records, four devices, four hosts and two lines of noise;
of the templates any number of callers, loaders, prefixes, folders and edits, and a cache of any size; of the new system any lists of
packages, repositories, users and services. The work is in lemmas on sequences that grow,
shrink and are put together: `HoldingSaid` and `HoldingNoise` (a log that holds what was said does so when both get more, or it gets noise),
`WrittenOn` (the pipe), `Removed` and `ChunkIsKept` (a list and its pages), `NumbersGrow` (the ports of a host have
numbers above those of the hosts before it), `TouchedOld`, `TouchedNew` and `RestMoves` (the queue of a cache when a name is used again, or for the
first time, and when the oldest is dropped).
The commands of a part are lists of lists put together, and `FlattenSeq` is a recursive function of the community modules: that there is such a
function is no library fact for a function that reads its own earlier values, and the theorem for induction takes an operator. `UpTo` is the
induction with a set instead (the set of the numbers it holds for has no smallest number outside of it, `WFMin`), `FollowingExists` makes the function
with it, and `FlattenIs` says what comes out: every list one for one, at a place of its own. `KeyCommandsAre`, `UserCommandsAre` and
`BootstrapCommandsAre` are what the invariant needs of it; `SetToSeq`, in whose order services are diverted, has each of them because an
injection between sets of one size is onto (`EachIs`).

**Only model-checked:**

* all liveness (`Terminates`, `Verdict`, `SearchEnds`, `BootEnds`, `InstallEnds`, `WipeEnds`): out of the prover's reach;
* of `AlgorithmsAreRight` the part `NamesAreTrue`: statements within statements are read by `RECURSIVE` operators, and what these compute for every
  input is an induction over data;
* the parts `URIsAreRead`, `OrderIsKept` and `OrderIsReached` of `AlgorithmsAreRight`: what tokens a split at a separator gives, what a sequence sorted in groups is, and what
  a loop leaves that deletes from its list, are folds over a sequence.

## 6. What is not modelled, and why

* Texts and logs; the thresholds of counters are three values around the limit.
* The byte level of libdrive (command blocks, ioctls, the tables drives send) but for the commands that erase, and that of `libhardware`:
  no state of their own; what they return is an input.
* `libenclosure.py`: every call hands a text to a `char*` parameter and raises. The functions for ESX, `prep` of the platforms, AFULNX
  and the handlers of afudos and megaraid are never reached, or never loaded. In the MegaRAID ports, the status of units and batteries is left out.
* Firmware tools in a virtual machine (`_execute_quemu`): what is executed is outside of the repository.
* In wipedrive: NVMe drives, negative sizes, the value that is written, the time that is displayed.
* In the rootfs: BMC interfaces, host names, proxies, the `ip_prompt` dialogue.
* The end of the `do_task` of the disk test: it is that of `firmware`, which is modelled.
* In the linux-installer: options of mkfs and mount, the values handed to templates, downloads and keys (each a step that may fail).
* libconfig's `getTargetStatus`, and listing and differences of config-curator: they only read. `getFile`, sessions and job files of the Contractor client.
* In jinja2: texts to trees (lexer, parser), filters, macros, imports, inheritance, async, sandbox, overlays of an environment. A template that
  uses them is rendered by libconfig as any other: `Config` knows it by its version.
* Build scripts, kernel configurations: no behaviour of the running system.
* Planned, below: libdrive's other tools, ttytee, storage-config.

## 7. Plan

What is here, and what is left, in the order of its worth.

1. `DriveManager`, `DiskTest`, `DiskTestProofs` - the core, with the only data at stake.
2. `FirmwarePromise`, `Firmware`, `FirmwareProofs`.
3. `BootTask`, `BootTaskProofs`.
4. `Bootstrap`, `BootstrapProofs`, `CInP` (proved in `LibraryProofs`).
5. `Partitions`, `Mounts`, `Installer`, `InstallerProofs`, `NewSystem` (proved in `LibraryProofs`).
6. `Erasure`, `WipeDrive`, `WipeDriveProofs`. Left: the modes of disk-wipe over `WipeDrive`.
7. `Config`, `ConfigProofs`; `Templates` and `Scopes` below it.
8. `Drives`, `Health`, `Handlers`, `Bios`, `Inventory`, in one run, and `LibraryProofs`.
9. Left: `SelfTest` (a poll loop like that of wipedrive), `DiskCopy` (block arithmetic and error skipping of `diskcopy.c`; every block of the
   range is copied or counted as an error), `TtyTee` (the select loop and its buffers; each copy is a prefix).
