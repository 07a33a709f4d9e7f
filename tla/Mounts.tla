--------------------------------- MODULE Mounts ---------------------------------
(***************************************************************************)
(* mount(), remount() and unmount() of the linux-installer                 *)
(* (installer/filesystem.py) over the mounts of the kernel.                *)
(*                                                                         *)
(* A mount point is the sequence of its names below install_root, so <<>>  *)
(* is /target itself.  The three functions go by the length of the paths,  *)
(* which the constant PathLength stands for: points of the same length may *)
(* come in any order.  Bootstrapping and installing packages run programs  *)
(* that unmount what they find under /target.                              *)
(***************************************************************************)
EXTENDS Naturals, Sequences, SequencesExt

CONSTANTS
  Points,       \* mount points
  PathLength    \* the length of each as a string

\* "the string length of a dependant mount point is allways longer than it's parent"
ASSUME PathLengthAssumption ==
  /\ Points \subseteq Seq(STRING) /\ PathLength \in [Points -> Nat]
  /\ \A p, q \in Points : IsStrictPrefix(p, q) => PathLength[p] < PathLength[q]

VARIABLES
  mount_points, \* what is to be mounted: mount_points[p] is the device at p
  mount_list,   \* the points mount() has mounted
  going,        \* the points the loop at hand has still to come to
  mounts        \* the mounts of the kernel under /target, in their order

mountVars == <<mount_points, mount_list, going, mounts>>

Mounted == {mounts[i].point : i \in DOMAIN mounts}
Shortest(S) == {p \in S : \A q \in S : PathLength[p] <= PathLength[q]}
Longest(S) == {p \in S : \A q \in S : PathLength[p] >= PathLength[q]}

DoMount(p) == mounts' = Append(mounts, [point |-> p, device |-> mount_points[p]])

\* The loop of mount().
MountNext(p) ==
  /\ p \in Shortest(going)
  /\ DoMount(p)
  /\ mount_list' = mount_list \cup {p}
  /\ going' = going \ {p}
  /\ UNCHANGED mount_points

\* remount() reads /proc/mounts once and mounts what is missing in the order of the list.
RemountBegins ==
  /\ going' = mount_list \ Mounted
  /\ UNCHANGED <<mount_points, mount_list, mounts>>

\* Mutant: the list is gone through from its end.
RemountNextLast(p) ==
  /\ p \in Longest(going)
  /\ DoMount(p)
  /\ going' = going \ {p}
  /\ UNCHANGED <<mount_points, mount_list>>

RemountNext(p) ==
  /\ p \in Shortest(going)
  /\ DoMount(p)
  /\ going' = going \ {p}
  /\ UNCHANGED <<mount_points, mount_list>>

\* unmount() goes through the list from its longest path.
UnmountBegins ==
  /\ going' = mount_list
  /\ UNCHANGED <<mount_points, mount_list, mounts>>

\* umount takes the last mount at a point off, unless something is mounted below it.
Busy(p) == \E q \in Mounted : IsStrictPrefix(p, q)
TopAt(p) == CHOOSE i \in DOMAIN mounts :
              /\ mounts[i].point = p
              /\ \A j \in DOMAIN mounts : mounts[j].point = p => j <= i
Umount(p) ==
  /\ p \in Mounted /\ ~Busy(p)
  /\ mounts' = RemoveAt(mounts, TopAt(p))

\* Mutant: umount may fail.
UnmountNextAnyway(p) ==
  /\ p \in Longest(going)
  /\ Umount(p) \/ UNCHANGED mounts
  /\ going' = going \ {p}
  /\ UNCHANGED <<mount_points, mount_list>>

UnmountNext(p) ==
  /\ p \in Longest(going)
  /\ Umount(p)
  /\ going' = going \ {p}
  /\ UNCHANGED <<mount_points, mount_list>>

\* A program of the bootstrap, or of a package, unmounts something.
OthersUnmount(p) ==
  /\ Umount(p)
  /\ UNCHANGED <<mount_points, mount_list, going>>

MountInit ==
  /\ mount_points = <<>> /\ mount_list = {} /\ going = {} /\ mounts = <<>>

-----------------------------------------------------------------------------
\* Nothing is mounted over something that was mounted below it before, so every file
\* written to a path goes to the file system the path is on
\* (filesystem.py mount, remount).
NothingHidden ==
  \A i, j \in DOMAIN mounts :
    i < j => ~IsPrefix(mounts[j].point, mounts[i].point)
=============================================================================
