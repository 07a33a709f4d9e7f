-------------------------------- MODULE Installer --------------------------------
(***************************************************************************)
(* The linux-installer disk: installer.py from its configuration to the    *)
(* unmounted system (disks/linux-installer/root/installer.py, installer/), *)
(* and its do_task, which tells Contractor how it ended.                   *)
(*                                                                         *)
(* installer.py is a sequence of steps; a command that fails raises, and   *)
(* nothing is undone.  Partitions and Mounts are the steps with a state of *)
(* their own.  Programs run in the new system may leave processes behind   *)
(* (holders), which keep /target busy until they are killed.               *)
(***************************************************************************)
EXTENDS Partitions, Mounts

CONSTANTS
  Extras,       \* the points of extra_mount_* in the profile, with their devices
  Diverts,      \* the commands of the new system that are diverted
  MaxHolders    \* bound on the processes left behind

ASSUME MaxHoldersAssumption == MaxHolders \in Nat

VARIABLES
  pc,
  apt,          \* manager_type is apt
  retry,        \* tries of apt-get update, rounds of signals
  formatted,    \* devices whose new file system has a UUID in filesystem_list
  fstab,        \* the lines of fstab: [point, device], with NoMount for swap
  diverted,
  grubbed,      \* drives the boot loader was installed on
  holders, signal,
  told          \* what Contractor has heard

systemVars == <<fstab, diverted, grubbed>>
vars == <<partitionVars, mountVars, pc, apt, retry, formatted, systemVars, holders,
          signal, told>>

Program == <<"profile", "configure", "partition", "mkfs", "mount", "bootstrap", "remount",
             "fstab", "sources", "baseConfig", "divert", "preBase", "installBase",
             "remountAgain", "users", "boot", "packages", "utils", "update", "fullConfig",
             "postInstall", "undivert", "clean", "unmount", "lsof", "umount", "complete">>
After(step) == Program[1 + CHOOSE i \in 1..Len(Program) - 1 : Program[i] = step]
Ended == {"exit0", "exit1", "exit10", "dead"}

OnlyStep == UNCHANGED <<partitionVars, mountVars, apt, retry, formatted, systemVars,
                        holders, signal, told>>

-----------------------------------------------------------------------------
(* Steps without a state of their own.                                     *)

\* Under `set -e' do_task fetches the profile; an error ends it with exit code 1.
Profile ==
  /\ pc = "profile"
  /\ pc' \in {After(pc), "exit1"}
  /\ OnlyStep

\* Steps that run commands in the new system; each may leave processes behind.
Chrooted == {"baseConfig", "preBase", "installBase", "users", "packages", "utils",
             "fullConfig", "postInstall", "clean"}
Plain == {"configure", "bootstrap"} \cup Chrooted
RunStep ==
  /\ pc \in Plain
  /\ pc' = After(pc)
  /\ holders' \in IF pc \in Chrooted THEN holders..MaxHolders ELSE {holders}
  /\ UNCHANGED <<partitionVars, mountVars, apt, retry, formatted, systemVars, signal, told>>

\* Any command may fail, and installer.py ends.
Fails ==
  /\ pc \in Plain \cup {"mkfs", "mounting", "remounting", "remountingAgain", "fstab", "sources",
                        "divert", "boot", "update", "undivert", "unmount", "lsof", "unmounting"}
  /\ pc' = "alert"
  /\ diverted' \in CASE pc = "divert" /\ apt -> SUBSET Diverts
                     [] pc = "undivert" -> SUBSET diverted
                     [] OTHER -> {diverted}
  /\ UNCHANGED <<partitionVars, mountVars, apt, retry, formatted, fstab, grubbed, holders,
                 signal, told>>

\* apt-get update is repeated ten times while it ends with 100.
UpdateLists ==
  /\ pc \in {"sources", "update"}
  /\ \/ /\ pc' = After(pc) /\ retry' = 0
        /\ holders' \in holders..MaxHolders
     \/ /\ apt
        /\ retry' = IF retry = 9 THEN 0 ELSE retry + 1
        /\ pc' = IF retry = 9 THEN "alert" ELSE pc
        /\ UNCHANGED holders
  /\ UNCHANGED <<partitionVars, mountVars, apt, formatted, systemVars, signal, told>>

\* Services of the new system are replaced by /bin/true while it is installed.
Divert ==
  /\ pc = "divert"
  /\ pc' = After(pc)
  /\ diverted' = IF apt THEN Diverts ELSE {}
  /\ UNCHANGED <<partitionVars, mountVars, apt, retry, formatted, fstab, grubbed, holders,
                 signal, told>>

Undivert ==
  /\ pc = "undivert"
  /\ pc' = After(pc)
  /\ diverted' = IF apt THEN diverted \ Diverts ELSE diverted
  /\ UNCHANGED <<partitionVars, mountVars, apt, retry, formatted, fstab, grubbed, holders,
                 signal, told>>

\* installBoot: the boot loader goes to every boot drive.  The profiles of a distribution
\* all have a bootloader_install.
InstallBoot ==
  /\ pc = "boot"
  /\ pc' = After(pc)
  /\ grubbed' = Range(boot_drives)
  /\ holders' \in holders..MaxHolders
  /\ UNCHANGED <<partitionVars, mountVars, apt, retry, formatted, fstab, diverted, signal,
                 told>>

-----------------------------------------------------------------------------
(* Partitions and file systems.                                            *)

PartitionStep ==
  /\ pc = "partition" /\ phase \notin {"done", "raised"}
  /\ Partition
  /\ UNCHANGED <<mountVars, pc, apt, retry, formatted, systemVars, holders, signal, told>>

PartitionFails ==
  /\ pc = "partition"
  /\ CommandFails
  /\ UNCHANGED <<mountVars, pc, apt, retry, formatted, systemVars, holders, signal, told>>

PartitionEnds ==
  /\ pc = "partition" /\ phase \in {"done", "raised"}
  /\ pc' = IF phase = "done" THEN After(pc) ELSE "alert"
  /\ OnlyStep

DriveComes ==
  /\ \E d \in Drives : DriveFound(d)
  /\ UNCHANGED <<mountVars, pc, apt, retry, formatted, systemVars, holders, signal, told>>

\* The command of mkfs is formatted with mkfs_options, which the one of a bcache device lacks.
HasOptions(fs) == fs.type = "swap" \/ fs.device[1] # "bcache"

\* mkfs: the file systems of the list.  blkid prints a UUID of each; if it does not, it
\* is writefstab that fails (Fails).
Mkfs ==
  /\ pc = "mkfs" /\ n <= Len(filesystem_list)
  /\ n' = n + 1
  /\ LET fs == filesystem_list[n]
     IN IF HasOptions(fs) /\ fs.device \in made
          THEN formatted' = formatted \cup {fs.device} /\ UNCHANGED pc
          ELSE pc' = "alert" /\ UNCHANGED formatted
  /\ UNCHANGED <<job, present, phase, tries, planVars, groupVars, filesystem_list, made,
                 mountVars, apt, retry, systemVars, holders, signal, told>>

MkfsDone ==
  /\ pc = "mkfs" /\ n > Len(filesystem_list)
  /\ pc' = After(pc)
  /\ OnlyStep

\* Of two file systems with one mount point the last one counts.
MountPointsOf(list) == {list[i].mount : i \in DOMAIN list} \ {NoMount}
DeviceAt(p) ==
  LET i == CHOOSE i \in DOMAIN filesystem_list :
             /\ filesystem_list[i].mount = p
             /\ \A j \in DOMAIN filesystem_list : filesystem_list[j].mount = p => j <= i
  IN filesystem_list[i].device

\* mount(): the extra mounts of the profile and the file systems.
MountBegins ==
  /\ pc = "mount"
  /\ pc' = "mounting"
  /\ LET own == MountPointsOf(filesystem_list)
     IN mount_points' = [p \in own \cup DOMAIN Extras |-> IF p \in own THEN DeviceAt(p) ELSE Extras[p]]
  /\ going' = DOMAIN mount_points'
  /\ UNCHANGED <<partitionVars, mount_list, mounts, apt, retry, formatted, systemVars,
                 holders, signal, told>>

Mounting(p) ==
  /\ pc = "mounting"
  /\ MountNext(p)
  /\ UNCHANGED <<partitionVars, pc, apt, retry, formatted, systemVars, holders, signal, told>>

MountDone ==
  /\ pc = "mounting" /\ going = {}
  /\ pc' = After("mount")
  /\ OnlyStep

\* remount() after the bootstrap and after the base packages.
Remount ==
  /\ pc \in {"remount", "remountAgain"}
  /\ pc' = IF pc = "remount" THEN "remounting" ELSE "remountingAgain"
  /\ RemountBegins
  /\ UNCHANGED <<partitionVars, apt, retry, formatted, systemVars, holders, signal, told>>

Remounting(p) ==
  /\ pc \in {"remounting", "remountingAgain"}
  /\ RemountNext(p)
  /\ UNCHANGED <<partitionVars, pc, apt, retry, formatted, systemVars, holders, signal, told>>

RemountDone ==
  /\ pc \in {"remounting", "remountingAgain"} /\ going = {}
  /\ pc' = IF pc = "remounting" THEN After("remount") ELSE After("remountAgain")
  /\ OnlyStep

\* debootstrap and the scripts of packages unmount what they have mounted themselves,
\* and what was there already.
Unmounters == {"bootstrap", "installBase", "boot", "packages", "utils", "update"}
OthersInterfere ==
  /\ pc \in Unmounters
  /\ \E p \in Mounted \ {Root} : OthersUnmount(p)
  /\ UNCHANGED <<partitionVars, pc, apt, retry, formatted, systemVars, holders, signal, told>>

\* writefstab: swap, and the mount points by length.
SwapLines == {[point |-> NoMount, device |-> filesystem_list[i].device] :
                i \in {i \in DOMAIN filesystem_list : filesystem_list[i].type = "swap"}}
MountLines == {[point |-> p, device |-> DeviceAt(p)] : p \in MountPointsOf(filesystem_list)}
WriteFstab ==
  /\ pc = "fstab"
  /\ IF \A line \in SwapLines \cup MountLines : line.device \in formatted
       THEN fstab' = SwapLines \cup MountLines /\ pc' = After(pc)
       ELSE pc' = "alert" /\ UNCHANGED fstab
  /\ UNCHANGED <<partitionVars, mountVars, apt, retry, formatted, grubbed, diverted, holders,
                 signal, told>>

-----------------------------------------------------------------------------
(* The end.                                                                *)

\* unmount() writes etc/mtab first.
WriteMtab ==
  /\ pc = "unmount"
  /\ pc' = After(pc)
  /\ OnlyStep

\* Mutant: it stays with SIGTERM.
SignalsTerm ==
  /\ pc = "lsof" /\ holders > 0
  /\ signal' = "TERM"
  /\ UNCHANGED <<partitionVars, mountVars, pc, apt, retry, formatted, systemVars, holders, told>>

\* The processes lsof finds get a SIGTERM three times, and then a SIGKILL every time.
Signals ==
  /\ pc = "lsof" /\ holders > 0
  /\ signal' = IF retry < 3 THEN "TERM" ELSE "KILL"
  /\ retry' = IF retry < 3 THEN retry + 1 ELSE retry
  /\ UNCHANGED <<partitionVars, mountVars, pc, apt, formatted, systemVars, holders, told>>

NothingHeld ==
  /\ pc = "lsof" /\ holders = 0
  /\ pc' = "unmounting"
  /\ retry' = 0
  /\ UnmountBegins
  /\ UNCHANGED <<partitionVars, apt, formatted, systemVars, holders, signal, told>>

\* A process ends by itself, because of SIGTERM, or is killed.
HolderEnds ==
  /\ holders > 0 /\ holders' = holders - 1
  /\ UNCHANGED <<partitionVars, mountVars, pc, apt, retry, formatted, systemVars, signal, told>>
HolderKilled == signal = "KILL" /\ HolderEnds

Unmounting(p) ==
  /\ pc = "unmounting" /\ holders = 0
  /\ UnmountNext(p)
  /\ UNCHANGED <<partitionVars, pc, apt, retry, formatted, systemVars, holders, signal, told>>

\* What the scripts of a package have unmounted since the last remount, umount cannot.
UmountFails ==
  /\ pc = "unmounting" /\ holders = 0
  /\ \E p \in Longest(going) : p \notin Mounted
  /\ pc' = "alert"
  /\ OnlyStep

UnmountDone ==
  /\ pc = "unmounting" /\ going = {}
  /\ pc' = "complete"
  /\ OnlyStep

\* do_task tells Contractor; the call itself may fail, which ends do_task under `set -e'.
SignalComplete ==
  /\ pc = "complete"
  /\ \/ pc' = "exit0" /\ told' = "complete"
     \/ pc' = "dead" /\ told' \in {told, "complete"}
  /\ UNCHANGED <<partitionVars, mountVars, apt, retry, formatted, systemVars, holders, signal>>

SignalAlert ==
  /\ pc = "alert"
  /\ \/ pc' = "exit10" /\ told' = "alert"
     \/ pc' = "dead" /\ told' \in {told, "alert"}
  /\ UNCHANGED <<partitionVars, mountVars, apt, retry, formatted, systemVars, holders, signal>>

-----------------------------------------------------------------------------
Init ==
  /\ PartitionInit /\ MountInit
  /\ pc = "profile" /\ apt \in BOOLEAN /\ retry = 0
  /\ formatted = {} /\ fstab = {} /\ diverted = {} /\ grubbed = {}
  /\ holders = 0 /\ signal = "none" /\ told = "nothing"

Install ==
  \/ Profile \/ RunStep \/ UpdateLists \/ Divert \/ Undivert \/ InstallBoot
  \/ PartitionStep \/ PartitionEnds \/ Mkfs \/ MkfsDone \/ MountBegins
  \/ (\E p \in Points : Mounting(p) \/ Remounting(p) \/ Unmounting(p))
  \/ MountDone \/ Remount \/ RemountDone \/ WriteFstab \/ WriteMtab \/ Signals
  \/ NothingHeld \/ UmountFails \/ UnmountDone \/ SignalComplete \/ SignalAlert

\* A command need not fail, so fairness is that of the rest of installer.py.
Next == Install \/ Fails \/ PartitionFails \/ DriveComes \/ OthersInterfere \/ HolderEnds

Spec == Init /\ [][Next]_vars /\ WF_vars(Install) /\ WF_vars(HolderKilled)

-----------------------------------------------------------------------------
(* Properties.                                                             *)

\* The state is what installer.py can make of it (installer.py, filesystem.py mkfs).
TypeOK ==
  /\ pc \in Range(Program) \cup Ended
            \cup {"alert", "mounting", "remounting", "remountingAgain", "unmounting"}
  /\ apt \in BOOLEAN /\ retry \in 0..9 /\ holders \in 0..MaxHolders
  /\ mount_list \subseteq Points /\ going \subseteq DOMAIN mount_points
  /\ formatted \subseteq made /\ diverted \subseteq Diverts
  /\ signal \in {"none", "TERM", "KILL"} /\ told \in {"nothing", "complete", "alert"}

\* Partitioning is given to parted only when, for a recipe that is shipped and drives that
\* are large enough, the partitions of each drive follow one another inside of it,
\* whatever the order the recipe has them in (filesystem.py _addPartition).
Roomy(d) == Capacity[d] > 2 * Rsvd + Jobs[job].boot_size + Jobs[job].swap_size
ShippedFits ==
  phase = "parted" /\ Jobs[job].recipe \in Range(partition_recipes) =>
    \A d \in DOMAIN parted_task_map : Roomy(d) => Inside(d) /\ Apart(d)

\* A device has one use: one file system or swap, one array, volume group or bcache
\* (filesystem.py partition: the loops hand devices on through their variables).
Groupings == [md |-> md_list, pv |-> pv_list, cache |-> bcache_cache_list, backing |-> bcache_backing_list]
InGroups == UNION {{<<kind, g, i>> : i \in DOMAIN Groupings[kind][g]} : kind \in DOMAIN Groupings, g \in Groups}
AsFileSystems == {<<"fs", 0, i>> : i \in DOMAIN filesystem_list}
Uses == InGroups \cup AsFileSystems
DeviceOf(use) ==
  IF use[1] = "fs" THEN filesystem_list[use[3]].device ELSE Groupings[use[1]][use[2]][use[3]]
OneUse == \A p, q \in Uses : DeviceOf(p) = DeviceOf(q) => p = q

\* What is used exists: nothing is made on a partition that parted was not asked for, or
\* on an array that was not created in this installation (filesystem.py partition, mkfs).
UsedIsMade == phase \in {"vg", "lv", "sync", "done"} => \A use \in Uses : DeviceOf(use) \in made

\* Every drive that holds /boot, or / if there is no /boot, alone or as a member of an array,
\* gets the boot loader and has room for it: its first partition is a bios_grub one, or it
\* begins behind the MBR
\* ("bios grub partitions will be auto added to any drives holding /boot or / if there is no /boot").
DrivesOf(device) ==
  IF device[1] = "md" THEN {md_list[device[2]][i][1] : i \in DOMAIN md_list[device[2]]}
  ELSE {device[1]} \cap Drives
BootPoint == IF Boot \in MountPointsOf(filesystem_list) THEN Boot ELSE Root
RoomForBoot ==
  phase = "done" =>
    \A d \in DrivesOf(DeviceAt(BootPoint)) :
      /\ d \in Range(boot_drives)
      /\ IF Jobs[job].table = "gpt" THEN parted_task_map[d][1].kind = "bios_grub"
         ELSE \A i \in DOMAIN parted_task_map[d] : From(d, i) >= 5

\* Commands run in the new system find all of its file systems and /proc, /sys, ... mounted,
\* from a remount to the next step that installs packages (installer.py: remount after the
\* bootstrap and after the base packages; after the others there is none).
ChrootIsWhole ==
  pc \in {"sources", "baseConfig", "divert", "preBase", "users"} => DOMAIN mount_points \subseteq Mounted

\* fstab names the devices that the installation had mounted at its mount points, all of
\* them, and each has a new file system (filesystem.py mount, writefstab).
FstabIsMounted ==
  \A line \in fstab :
    /\ line.device \in formatted
    /\ line.point # NoMount => mount_points[line.point] = line.device

\* Contractor hears of a complete installation only when the system is whole: nothing of it
\* is mounted, its services are not diverted, it has an fstab for all of its file systems
\* and a boot loader on every boot drive (installer.py, do_task).
CompleteIsWhole ==
  told = "complete" =>
    /\ mounts = <<>> /\ diverted = {} /\ holders = 0
    /\ grubbed = Range(boot_drives) /\ grubbed # {}
    /\ {line.point : line \in fstab} \ {NoMount} = MountPointsOf(filesystem_list)

\* Every installation ends: drives that do not come, arrays that do not synchronise and
\* processes that ignore SIGTERM only delay it.
InstallEnds == <>(pc \in Ended)

\* Every mount point of a recipe gets a file system, and one that mkfs can make
\* ("{ 'lv': < volume group #>, 'name': <lv name>, 'mount_point': <mount point>, ...",
\* "{ 'bcache': <group #>, ... 'mount_point': '<mount point>' }").
MountPointsOfRecipe ==
  {Jobs[job].recipe[i].mount : i \in DOMAIN Jobs[job].recipe} \ {NoMount}
PointsHaveFileSystems ==
  phase = "done" =>
    \A p \in MountPointsOfRecipe :
      \E i \in DOMAIN filesystem_list :
        filesystem_list[i].mount = p /\ HasOptions(filesystem_list[i])

\* A drive that is given to parted takes its partitions, and, if it is to boot, its
\* boot loader (filesystem.py partition).
DrivesAreLaidOut == ShippedFits /\ RoomForBoot

\* Each device of the plan is made, before it is used and for one use
\* (filesystem.py partition, mkfs).
UsesAreSound == OneUse /\ UsedIsMade

\* A path of the new system means what it does after the boot, in every command that
\* is run in it (filesystem.py remount, installer.py).
PathsAreTrue == NothingHidden /\ ChrootIsWhole

\* The system that Contractor is told of comes up with its file systems
\* (filesystem.py writefstab, do_task).
InstalledIsWhole == FstabIsMounted /\ CompleteIsWhole
=============================================================================
