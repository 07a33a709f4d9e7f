------------------------------ MODULE DriveManager ------------------------------
(***************************************************************************)
(* The drive lists of the disk test (disks/disk-test/root/pylib/           *)
(* DriveManager.py): every drive that could be identified is good, skipped *)
(* or bad, and prune() is the only way out of good_list.                   *)
(*                                                                         *)
(* A drive is its position in the sorted list of drives.  block_name maps  *)
(* it to its block device.  Some drives have none (the members of a RAID   *)
(* volume), and nothing in the lists keeps two drives from sharing one:    *)
(* the loops of procutils.py look for that themselves.                     *)
(* The texts of bad_reasons and skip_reasons are left out: the two         *)
(* dictionaries are the sets of their keys.  The fault light of a drive is *)
(* lit exactly when its key enters bad_reasons and is not modelled apart.  *)
(***************************************************************************)
EXTENDS Naturals

CONSTANTS
  Drives,       \* positions in the sorted drive list
  Blocks,       \* names of block devices
  NoBlock,      \* the block_name of a drive without a block device (None)
  block_name    \* the block device of each drive

ASSUME DrivesAssumption == Drives \subseteq Nat
ASSUME BlockAssumption ==
  /\ NoBlock \notin Blocks
  /\ block_name \in [Drives -> Blocks \cup {NoBlock}]

VARIABLES
  all_list,
  good_list,
  bad_reasons,
  skip_reasons

dmVars == <<all_list, good_list, bad_reasons, skip_reasons>>

HasBlock(d) == block_name[d] # NoBlock

\* No other drive stands on the block device of d.
Alone(d) == \A e \in Drives \ {d} : HasBlock(d) => block_name[e] # block_name[d]

\* The constructor keeps the drives whose model can be read.
LoadDrives(readable) ==
  /\ all_list' = readable
  /\ good_list' = readable
  /\ bad_reasons' = {}
  /\ skip_reasons' = {}

\* prune( drive, reason, skip=False ), the reporting call left to the caller.
Prune(d) ==
  /\ good_list' = good_list \ {d}
  /\ bad_reasons' = bad_reasons \cup {d}
  /\ UNCHANGED <<all_list, skip_reasons>>

\* A loop of prune( drive, reason, False, True ) over the drives of S.
SkipAll(S) ==
  /\ good_list' = good_list \ S
  /\ skip_reasons' = skip_reasons \cup S
  /\ UNCHANGED <<all_list, bad_reasons>>

\* A loop of prune( drive, reason, False ) over the drives of S.
PruneAll(S) ==
  /\ good_list' = good_list \ S
  /\ bad_reasons' = bad_reasons \cup S
  /\ UNCHANGED <<all_list, skip_reasons>>

\* What skipUnThrashable compares: the paths of drives with the names left
\* once '/dev/' is cut from the lines of /etc/mtab.
BlockPath(b) == [form |-> "path", device |-> b]
MountList(mtab) == {[form |-> "name", device |-> b] : b \in mtab}

\* skipUnThrashable skips a drive as 'Is Mounted' when its path is in the list.
IsMounted(d, mtab) == HasBlock(d) /\ BlockPath(block_name[d]) \in MountList(mtab)

DMTypeOK ==
  /\ all_list \subseteq Drives
  /\ good_list \subseteq Drives
  /\ bad_reasons \subseteq Drives
  /\ skip_reasons \subseteq Drives

\* Every drive that was listed is in exactly one of the three lists: no drive
\* is lost between them and no verdict is given twice (prune removes from
\* good_list what it enters elsewhere).
Accounted ==
  /\ all_list = good_list \cup bad_reasons \cup skip_reasons
  /\ good_list \cap bad_reasons = {}
  /\ good_list \cap skip_reasons = {}
  /\ bad_reasons \cap skip_reasons = {}
=============================================================================
