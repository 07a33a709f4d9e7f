------------------------------- MODULE Partitions -------------------------------
(***************************************************************************)
(* partition() of the linux-installer (installer/filesystem.py): from a    *)
(* recipe to partitions, arrays, bcache devices, volumes and the list of   *)
(* file systems to make on them.                                           *)
(*                                                                         *)
(* The recipe is gone through once per kind of item.  What becomes of the  *)
(* target items is only planned (pos, tasks) and then given to parted in   *)
(* one go per drive; arrays, bcache devices and volumes are made as their  *)
(* items come.  Any command may fail, which raises (phase = "raised").     *)
(*                                                                         *)
(* A device is <<name, number>>: a partition of a drive, or an array,      *)
(* bcache device or logical volume by its number.  Sizes are in M; int()   *)
(* at their use makes the division of swap_size a whole one.  Options of   *)
(* mkfs and mount, trim and priorities are left out.                       *)
(***************************************************************************)
EXTENDS Integers, FiniteSets, Sequences, SequencesExt

CONSTANTS
  Drives,       \* names of the block devices, see also DriveOrder
  DriveOrder,   \* the drives in the order of block_list
  Capacity,     \* the size of each drive
  Jobs,         \* what installations are asked for, by number, see Job
  Groups,       \* group numbers of the recipes
  NoMount       \* the mount point of a file system that is not mounted

\* The drives are not named like what is made of them, and have a size.
ASSUME DrivesAssumption ==
  /\ Drives \cap {"md", "bcache", "vg", "lv"} = {} /\ IsFiniteSet(Drives)
  /\ Capacity \in [Drives -> Nat]

VARIABLES
  job,          \* the number of this installation's job
  present,      \* drives the kernel has found so far; of no interest once they are chosen
  phase,        \* the loop partition() is in
  n,            \* the next item of that loop
  tries,        \* rounds of waiting, for drives and for arrays
  target_drives, boot_drives,
  swap_size, boot_size,
  partition_pos,
  parted_task_map,  \* the partitions asked of each drive, in order
  md_list, pv_list, bcache_cache_list, bcache_backing_list,
  filesystem_list,
  made          \* devices that exist on the drives

planVars == <<target_drives, boot_drives, swap_size, boot_size, partition_pos,
              parted_task_map>>
groupVars == <<md_list, pv_list, bcache_cache_list, bcache_backing_list>>
partitionVars == <<job, present, phase, n, tries, planVars, groupVars,
                   filesystem_list, made>>

-----------------------------------------------------------------------------
(* Recipes.                                                                *)

Blank == [in |-> "target", at |-> 0, type |-> "fs", size |-> "end", m |-> 0,
          group |-> 0, as |-> "none", level |-> 0, mount |-> NoMount,
          mkfs_options |-> FALSE]

Part(target, type, size) ==
  [Blank EXCEPT !.at = target, !.type = type, !.size = size]
Member(target, type, group, size) == [Part(target, type, size) EXCEPT !.group = group]
FsPart(target, mount, size) == [Part(target, "fs", size) EXCEPT !.mount = mount]
Cache(target, group, as) ==
  [Member(target, "bcache", group, "end") EXCEPT !.as = as]
Array(group, level, mount) ==
  [Blank EXCEPT !.in = "md", !.at = group, !.level = level, !.mount = mount]
BCache(group, mount) == [Blank EXCEPT !.in = "bcache", !.at = group, !.mount = mount]
VolumeGroup(group) == [Blank EXCEPT !.in = "vg", !.at = group]
Volume(group, name, mount) ==
  [Blank EXCEPT !.in = "lv", !.at = group, !.m = name, !.mount = mount, !.size = "percent"]

\* An item that computes the size of /boot or of a swap partition anew.
RefSize(of) == [Blank EXCEPT !.in = "ref_size", !.as = of]

Root == <<>>
Boot == <<"boot">>
Efi == <<"boot", "efi">>
Var == <<"var">>

Single == <<FsPart(0, Boot, "boot"), FsPart(0, Root, "- swap"), Part(0, "swap", "end")>>
Mirror ==
  <<Member(0, "md", 0, "boot"), Member(1, "md", 0, "boot"),
    Member(0, "md", 1, "- swap"), Member(1, "md", 1, "- swap"),
    Part(0, "swap", "end"), Part(1, "swap", "end"), Array(0, 1, Boot), Array(1, 1, Root)>>
FourDrives(level) ==
  <<Member(0, "md", 0, "boot"), Member(1, "md", 0, "boot"),
    Part(2, "swap", "swap"), Part(3, "swap", "swap"),
    Member(0, "md", 1, "end"), Member(1, "md", 1, "end"),
    Member(2, "md", 1, "end"), Member(3, "md", 1, "end"),
    Array(0, 1, Boot), Array(1, level, Root), RefSize("boot"), RefSize("swap")>>
SingleLVM == <<FsPart(0, Boot, "boot"), Member(0, "pv", 0, "- swap"),
               Part(0, "swap", "end"), VolumeGroup(0), Volume(0, 0, Root)>>
DualLVM ==
  <<Member(0, "md", 0, "boot"), Member(1, "md", 0, "boot"),
    Member(0, "pv", 0, "- swap"), Part(0, "swap", "end"),
    Member(1, "pv", 0, "- swap"), Part(1, "swap", "end"),
    Array(0, 1, Boot), VolumeGroup(0), Volume(0, 0, Root)>>
BCacheVar ==
  <<FsPart(0, Boot, "boot"), FsPart(0, Root, "- swap"), Part(0, "swap", "end"),
    Cache(1, 0, "cache"), Cache(2, 0, "backing"), BCache(0, Var)>>

partition_recipes ==
  <<Single, Mirror, FourDrives(10), FourDrives(6), SingleLVM, DualLVM, BCacheVar>>

\* What the configuration and the machine say of an installation: a recipe, the
\* partition table, sizes, and the drives each name of target_drives stands
\* for, the one it is resolved to first coming first (none: all drives, in order).
Job(recipe, table, efi, swap, boot, names) ==
  [recipe |-> recipe, table |-> table, efi |-> efi, swap_size |-> swap,
   boot_size |-> boot, names |-> names]

\* What the recipes may say: numbers are numbers, arrays have a group, a mount point is that
\* of a file system ("'mount_point' ... if type is a fs type"), and what is left blank is not
\* counted from the end of the drive.
Stated(item) ==
  /\ item.at \in Nat /\ item.m \in Nat /\ (item.in = "md" => item.at \in Groups)
  /\ item.in \in {"target", "md"} /\ item.mount # NoMount => item.type = "fs"
  /\ item.type = "blank" => item.size \notin {"- boot", "- swap", "swap"}

ASSUME JobsAssumption ==
  /\ NoMount \notin {Root, Boot, Efi, Var}
  /\ \A number \in DOMAIN Jobs :
       LET asked == Jobs[number]
       IN /\ asked.table \in {"gpt", "msdos"} /\ asked.swap_size \in Nat /\ asked.boot_size \in Nat
          /\ Len(asked.names) \in Nat /\ DOMAIN asked.names = 1..Len(asked.names)
          /\ Len(asked.recipe) \in Nat /\ DOMAIN asked.recipe = 1..Len(asked.recipe)
          /\ \A i \in DOMAIN asked.recipe : Stated(asked.recipe[i])

Rsvd == IF Jobs[job].table = "gpt" THEN 100 ELSE 5
Recipe == Jobs[job].recipe

\* The items of a kind, by their places in the recipe.
ItemsOf(in) == {i \in DOMAIN Recipe : Recipe[i].in = in}

-----------------------------------------------------------------------------
Enter(next) == phase' = next /\ n' = 1
Raise == phase' = "raised" /\ UNCHANGED n

\* A loop goes through places in their order: the next one, and the end.
NextOf(places) == {i \in places : n <= i /\ \A j \in places : n <= j => i <= j}
NoneLeft(places) == \A i \in places : i < n
LoopEnds(in) == phase = in /\ NoneLeft(ItemsOf(in))
GoOn(i) == n' = i + 1 /\ UNCHANGED phase

-----------------------------------------------------------------------------
(* The target drives.                                                      *)

DriveFound(d) ==
  /\ phase = "drives" /\ d \notin present
  /\ present' = present \cup {d}
  /\ UNCHANGED <<job, phase, n, tries, planVars, groupVars, filesystem_list, made>>

\* The drive a name is resolved to: the first one it stands for that is there.
ResolvedTo(name) ==
  {d \in present : \E k \in DOMAIN name : name[k] = d /\ \A j \in 1..(k - 1) : name[j] \notin present}
Resolved == \A i \in DOMAIN Jobs[job].names : ResolvedTo(Jobs[job].names[i]) # {}

Before(d, e) == \E i, j \in DOMAIN DriveOrder : i < j /\ DriveOrder[i] = d /\ DriveOrder[j] = e
AllPresent ==
  {drives \in [1..Cardinality(present) -> present] :
     \A i, j \in DOMAIN drives : i < j => Before(drives[i], drives[j])}
AllNamed ==
  {drives \in [DOMAIN Jobs[job].names -> present] :
     \A i \in DOMAIN drives : drives[i] \in ResolvedTo(Jobs[job].names[i])}

FindDrives ==
  /\ phase = "drives" /\ Resolved
  /\ target_drives' \in IF Jobs[job].names = <<>> THEN AllPresent ELSE AllNamed
  /\ Enter("prepare")
  /\ present' = {}
  /\ UNCHANGED <<job, tries, boot_drives, swap_size, boot_size, partition_pos,
                 parted_task_map, groupVars, filesystem_list, made>>

\* MissingDrives: ten times, with six seconds in between.
WaitForDrives ==
  /\ phase = "drives" /\ ~Resolved
  /\ tries' = tries + 1
  /\ IF tries' >= 10 THEN Raise ELSE UNCHANGED <<phase, n>>
  /\ UNCHANGED <<job, present, planVars, groupVars, filesystem_list, made>>

-----------------------------------------------------------------------------
(* Where to boot from, and room for the boot loader.                       *)

LastMounted(mount, in) ==
  {i \in ItemsOf(in) : /\ Recipe[i].mount = mount
                       /\ \A j \in ItemsOf(in) : Recipe[j].mount = mount => j <= i}

HasGroup(item) == item.type \in {"md", "pv", "bcache"}

\* The target items that carry a mount point: those in the group of its array,
\* whatever kind of group it is, or the one it is the mount point of.
TargetsWithMount(mount) ==
  IF LastMounted(mount, "md") = {} THEN LastMounted(mount, "target")
  ELSE {i \in ItemsOf("target") :
          HasGroup(Recipe[i]) /\ \E j \in LastMounted(mount, "md") : Recipe[i].group = Recipe[j].at}

Confused(mount) == LastMounted(mount, "md") # {} /\ LastMounted(mount, "target") # {}

BootTargets == IF TargetsWithMount(Boot) # {} THEN TargetsWithMount(Boot) ELSE TargetsWithMount(Root)

\* The drive of a target item.
DriveOf(i) == target_drives[Recipe[i].at + 1]

EnoughDrives == \A i \in ItemsOf("target") : Recipe[i].at < Len(target_drives)
Swaps == {i \in DOMAIN Recipe : Recipe[i].in \in {"target", "md", "bcache", "lv"} /\ Recipe[i].type = "swap"}

Prepare ==
  /\ phase = "prepare"
  /\ IF \/ ~EnoughDrives \/ Confused(Boot) \/ BootTargets = {}
        \/ (TargetsWithMount(Boot) = {} /\ Confused(Root))
       THEN Raise /\ UNCHANGED <<boot_drives, swap_size, parted_task_map>>
       ELSE /\ boot_drives' = [i \in BootTargets |-> DriveOf(i)]
            /\ swap_size' = IF Swaps = {} THEN 0 ELSE Jobs[job].swap_size \div Cardinality(Swaps)
            /\ parted_task_map' = [d \in {DriveOf(i) : i \in ItemsOf("target")} |-> <<>>]
            /\ Enter("grub")
  /\ UNCHANGED <<job, present, tries, target_drives, boot_size, partition_pos, groupVars,
                 filesystem_list, made>>

Start(d) == IF d \in DOMAIN partition_pos THEN partition_pos[d] ELSE 0
Full(d) == d \in DOMAIN partition_pos /\ partition_pos[d] = 0
\* Mutant: where the last partition began is forgotten.
NextPosForgets(d, size) == size

NextPos(d, size) == IF size <= 0 THEN size ELSE Start(d) + size
NewDevice(d) == <<d, Len(parted_task_map[d]) + 1>>

\* _addPartition, when the drive is not full.  A blank one only takes its room.
AddPartition(d, kind, size) ==
  /\ partition_pos' = [e \in DOMAIN partition_pos \cup {d} |->
                         IF e = d THEN NextPos(d, size) ELSE partition_pos[e]]
  /\ parted_task_map' =
       IF kind = "blank" THEN parted_task_map
       ELSE [parted_task_map EXCEPT
               ![d] = Append(@, [kind |-> kind, start |-> Start(d), size |-> size])]

\* A swap area has no mount point.
AddFileSystem(mount, type, device) ==
  filesystem_list' = Append(filesystem_list,
    [mount |-> IF type = "swap" THEN NoMount ELSE mount, type |-> type, device |-> device])

\* A bios_grub partition, which is also the one of EFI, or room for the MBR.
GrubPartition ==
  /\ phase = "grub"
  /\ \E i \in NextOf(DOMAIN boot_drives) :
       LET d == boot_drives[i]
       IN /\ AddPartition(d, IF Jobs[job].table = "gpt" THEN "bios_grub" ELSE "blank", Rsvd)
          /\ IF Jobs[job].table = "gpt"
               THEN AddFileSystem(IF Jobs[job].efi THEN Efi ELSE NoMount, "vfat", NewDevice(d))
               ELSE UNCHANGED filesystem_list
          /\ GoOn(i)
  /\ UNCHANGED <<job, present, tries, target_drives, boot_drives, swap_size, boot_size,
                 groupVars, made>>

GrubDone ==
  /\ phase = "grub" /\ NoneLeft(DOMAIN boot_drives)
  /\ Enter("ref_size")
  /\ UNCHANGED <<job, present, tries, planVars, groupVars, filesystem_list, made>>

\* The two lambdas of the recipes with four drives: /boot grows to the size of a
\* swap partition, which shrinks to /boot without the room for the boot loader.
Larger == IF swap_size > boot_size THEN swap_size ELSE boot_size
ChangeSize ==
  /\ phase = "ref_size"
  /\ \E i \in NextOf(ItemsOf("ref_size")) :
       /\ boot_size' = IF Recipe[i].as = "boot" THEN Larger ELSE boot_size
       /\ swap_size' = IF Recipe[i].as = "swap" THEN Larger - Rsvd ELSE swap_size
       /\ GoOn(i)
  /\ UNCHANGED <<job, present, tries, target_drives, boot_drives, partition_pos,
                 parted_task_map, groupVars, filesystem_list, made>>

ChangeSizeDone ==
  /\ LoopEnds("ref_size")
  /\ Enter("target")
  /\ UNCHANGED <<job, present, tries, planVars, groupVars, filesystem_list, made>>

-----------------------------------------------------------------------------
(* The partitions of the recipe.                                           *)

SizeOf(item) ==
  CASE item.size = "end" -> 0
    [] item.size = "boot" -> boot_size
    [] item.size = "- boot" -> -boot_size
    [] item.size = "swap" -> swap_size
    [] item.size = "- swap" -> -swap_size
    [] OTHER -> item.m

\* A percentage other than 100 % asks a drive for its drive, which raises.
BadSize(item) == item.size = "percent"

Add(list, g, device) == [list EXCEPT ![g] = Append(@, device)]

\* A part of a bcache device takes the place of the one there was.
UseInBCache(item, device) ==
  /\ bcache_cache_list' = IF item.as = "cache" THEN [bcache_cache_list EXCEPT ![item.group] = <<device>>]
                          ELSE bcache_cache_list
  /\ bcache_backing_list' = IF item.as = "backing" THEN [bcache_backing_list EXCEPT ![item.group] = <<device>>]
                            ELSE bcache_backing_list
  /\ UNCHANGED <<md_list, pv_list, filesystem_list>>

UseAsFileSystem(item, device) ==
  /\ AddFileSystem(item.mount, item.type, device)
  /\ UNCHANGED groupVars

\* Mutant: a member of an array is a file system as well.
UseDeviceTwice(item, device) ==
  /\ md_list' = IF item.type = "md" THEN Add(md_list, item.group, device) ELSE md_list
  /\ UNCHANGED <<pv_list, bcache_cache_list, bcache_backing_list>>
  /\ AddFileSystem(item.mount, item.type, device)

\* What a partition is for: a group it joins, a file system, or nothing.
UseDevice(item, device) ==
  \/ /\ item.type = "md" /\ md_list' = Add(md_list, item.group, device)
     /\ UNCHANGED <<pv_list, bcache_cache_list, bcache_backing_list, filesystem_list>>
  \/ /\ item.type = "pv" /\ pv_list' = Add(pv_list, item.group, device)
     /\ UNCHANGED <<md_list, bcache_cache_list, bcache_backing_list, filesystem_list>>
  \/ item.type = "bcache" /\ UseInBCache(item, device)
  \/ item.type \in {"fs", "swap"} /\ UseAsFileSystem(item, device)
  \/ item.type \in {"blank", "empty"} /\ UNCHANGED <<groupVars, filesystem_list>>

TargetItem ==
  /\ phase = "target"
  /\ \E i \in NextOf(ItemsOf("target")) :
       IF BadSize(Recipe[i]) \/ Full(DriveOf(i))
         THEN Raise /\ UNCHANGED <<partition_pos, parted_task_map, groupVars, filesystem_list>>
         ELSE /\ AddPartition(DriveOf(i), Recipe[i].type, SizeOf(Recipe[i]))
              /\ UseDevice(Recipe[i], NewDevice(DriveOf(i)))
              /\ GoOn(i)
  /\ UNCHANGED <<job, present, tries, target_drives, boot_drives, swap_size, boot_size, made>>

TargetsDone ==
  /\ LoopEnds("target")
  /\ Enter("parted")
  /\ UNCHANGED <<job, present, tries, planVars, groupVars, filesystem_list, made>>

-----------------------------------------------------------------------------
(* The commands.                                                           *)

\* Where on the drive parted puts a position: a negative one counts from the end.
Place(d, x) == IF x < 0 THEN Capacity[d] + x ELSE x
From(d, i) == Place(d, parted_task_map[d][i].start)
To(d, i) ==
  LET task == parted_task_map[d][i]
  IN IF task.size = 0 THEN Capacity[d]
     ELSE Place(d, IF task.size < 0 THEN task.size ELSE task.start + task.size)

Inside(d) ==
  \A i \in DOMAIN parted_task_map[d] :
    0 <= From(d, i) /\ From(d, i) < To(d, i) /\ To(d, i) <= Capacity[d]
Apart(d) ==
  \A i, j \in DOMAIN parted_task_map[d] : i < j => To(d, i) <= From(d, j)

\* parted makes a new table, <<d, 0>>, and the partitions of one drive; it refuses
\* what is not on the drive and what is taken.
RunParted(d) ==
  /\ phase = "parted" /\ d \in DOMAIN parted_task_map /\ <<d, 0>> \notin made
  /\ IF Inside(d) /\ Apart(d)
       THEN made' = made \cup {<<d, i>> : i \in 0..Len(parted_task_map[d])} /\ UNCHANGED <<phase, n>>
       ELSE Raise /\ UNCHANGED made
  /\ UNCHANGED <<job, present, tries, planVars, groupVars, filesystem_list>>

PartedDone ==
  /\ phase = "parted" /\ \A d \in DOMAIN parted_task_map : <<d, 0>> \in made
  /\ Enter("md")
  /\ UNCHANGED <<job, present, tries, planVars, groupVars, filesystem_list, made>>

\* A command of the loops that follow fails.
CommandFails ==
  /\ phase \in {"parted", "md", "bcache", "vg", "lv"}
  /\ Raise
  /\ UNCHANGED <<job, present, tries, planVars, groupVars, filesystem_list, made>>

Even(k) == k % 2 = 0
RightCount(level, count) ==
  /\ level \in {1, 10} => Even(count)
  /\ level \in {5, 6} => count >= 3

\* What an array or a bcache device is for: a swap area, or, with a mount point, a
\* file system, or nothing.
UseVolume(item, device) ==
  IF item.type = "swap" \/ item.mount # NoMount THEN UseAsFileSystem(item, device)
  ELSE UNCHANGED <<groupVars, filesystem_list>>

\* _addRAID, and what the array is for.  mdadm refuses an array that there is, and
\* with it the members it has.
MdItem ==
  /\ phase = "md"
  /\ \E i \in NextOf(ItemsOf("md")) :
       LET item == Recipe[i]
           members == md_list[item.at]
           array == <<"md", item.at>>
       IN IF members = <<>> \/ ~RightCount(item.level, Len(members)) \/ array \in made
            THEN Raise /\ UNCHANGED <<made, groupVars, filesystem_list>>
            ELSE /\ made' = made \cup {array}
                 /\ IF item.type = "bcache" THEN UseInBCache(item, array) ELSE UseVolume(item, array)
                 /\ GoOn(i)
  /\ UNCHANGED <<job, present, tries, planVars>>

MdDone ==
  /\ LoopEnds("md")
  /\ Enter("bcache")
  /\ UNCHANGED <<job, present, tries, planVars, groupVars, filesystem_list, made>>

\* _addBCache; the devices are registered in the order of the items.  make-bcache
\* refuses devices that are in use already.
BCacheItem ==
  /\ phase = "bcache"
  /\ \E i \in NextOf(ItemsOf("bcache")) :
       LET item == Recipe[i]
           device == <<"bcache", item.at>>
       IN IF \/ bcache_backing_list[item.at] = <<>> \/ bcache_cache_list[item.at] = <<>>
             \/ device \in made
            THEN Raise /\ UNCHANGED <<made, groupVars, filesystem_list>>
            ELSE made' = made \cup {device} /\ UseVolume(item, device) /\ GoOn(i)
  /\ UNCHANGED <<job, present, tries, planVars>>

\* Without physical volumes the items of volumes are passed over.
BCacheDone ==
  /\ LoopEnds("bcache")
  /\ Enter(IF \A g \in Groups : pv_list[g] = <<>> THEN "sync" ELSE "vg")
  /\ tries' = 0
  /\ UNCHANGED <<job, present, planVars, groupVars, filesystem_list, made>>

\* vgcreate refuses physical volumes that are in a group already.
VgItem ==
  /\ phase = "vg"
  /\ \E i \in NextOf(ItemsOf("vg")) :
       LET group == <<"vg", Recipe[i].at>>
       IN IF pv_list[Recipe[i].at] = <<>> \/ group \in made
            THEN Raise /\ UNCHANGED made
            ELSE made' = made \cup {group} /\ GoOn(i)
  /\ UNCHANGED <<job, present, tries, planVars, groupVars, filesystem_list>>

VgDone ==
  /\ LoopEnds("vg")
  /\ Enter("lv")
  /\ UNCHANGED <<job, present, tries, planVars, groupVars, filesystem_list, made>>

\* The loop over the volumes only computes their sizes: what follows it is done once,
\* for the last one, and only if it has no mkfs_options.  Without a volume
\* lvcreate is called for the volume group, and fails.
NoGroup(i) == <<"vg", Recipe[i].at>> \notin made
LastVolume == {i \in ItemsOf("lv") : \A j \in ItemsOf("lv") : j <= i}
MakeVolume ==
  /\ phase = "lv"
  /\ \/ /\ \/ ItemsOf("lv") = {}
           \/ \E i \in ItemsOf("lv") : Recipe[i].size = "percent" /\ NoGroup(i)
           \/ \E i \in LastVolume : ~Recipe[i].mkfs_options /\ NoGroup(i)
        /\ Raise /\ UNCHANGED <<made, filesystem_list>>
     \/ \E i \in LastVolume :
          /\ \A j \in ItemsOf("lv") : Recipe[j].size = "percent" => ~NoGroup(j)
          /\ Enter("sync")
          /\ \/ Recipe[i].mkfs_options /\ UNCHANGED <<made, filesystem_list>>
             \/ /\ ~Recipe[i].mkfs_options /\ ~NoGroup(i)
                /\ made' = made \cup {<<"lv", Recipe[i].m>>}
                /\ AddFileSystem(Recipe[i].mount, Recipe[i].type, <<"lv", Recipe[i].m>>)
  /\ UNCHANGED <<job, present, tries, planVars, groupVars>>

\* The arrays get 300 seconds, in rounds of 30, to come to 0.5 %.
SyncRounds == 11
WaitForSync ==
  /\ phase = "sync" /\ (\E g \in Groups : md_list[g] # <<>>) /\ tries < SyncRounds
  /\ tries' = tries + 1
  /\ UNCHANGED <<job, present, phase, n, planVars, groupVars, filesystem_list, made>>

PartitionDone ==
  /\ phase = "sync"
  /\ Enter("done")
  /\ UNCHANGED <<job, present, tries, planVars, groupVars, filesystem_list, made>>

-----------------------------------------------------------------------------
PartitionInit ==
  /\ job \in DOMAIN Jobs
  /\ present \in SUBSET Drives
  /\ phase = "drives" /\ n = 1 /\ tries = 0
  /\ target_drives = <<>> /\ boot_drives = <<>>
  /\ swap_size = Jobs[job].swap_size /\ boot_size = Jobs[job].boot_size
  /\ partition_pos = <<>> /\ parted_task_map = <<>>
  /\ md_list = [g \in Groups |-> <<>>] /\ pv_list = [g \in Groups |-> <<>>]
  /\ bcache_cache_list = [g \in Groups |-> <<>>]
  /\ bcache_backing_list = [g \in Groups |-> <<>>]
  /\ filesystem_list = <<>>
  /\ made = {}

Partition ==
  \/ FindDrives \/ WaitForDrives \/ Prepare \/ GrubPartition \/ GrubDone \/ ChangeSize
  \/ ChangeSizeDone \/ TargetItem \/ TargetsDone \/ (\E d \in Drives : RunParted(d)) \/ PartedDone
  \/ MdItem \/ MdDone \/ BCacheItem \/ BCacheDone \/ VgItem \/ VgDone \/ MakeVolume
  \/ WaitForSync \/ PartitionDone
=============================================================================
