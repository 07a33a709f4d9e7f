------------------------------- MODULE MCDiskTest -------------------------------
(***************************************************************************)
(* Instances of DiskTest for TLC.                                          *)
(***************************************************************************)
EXTENDS DiskTest, TLC

CONSTANTS b1, b2

\* Two drives with a block device each.
OwnBlocks == 1 :> b1 @@ 2 :> b2
\* Two drives on one block device and the member of a RAID volume.
SharedAndMember == 1 :> b1 @@ 2 :> b1 @@ 3 :> NoBlock

\* A job from Plato: one of each family of lengths.
PlatoJobs == {PlatoOptions(l) : l \in {"quick", "medium"}}

\* From the kernel command line, without Plato: a test that writes nothing and
\* whose rounds have no time limit, a short one that writes.
LocalJobs ==
  LET Job(l, w) == [length |-> l, destructive |-> w, report |-> FALSE,
                    thrasher |-> TRUE, partition_check |-> TRUE, lightup |-> TRUE]
  IN  {Job("epic", FALSE), Job("conveyance", TRUE)}
=============================================================================
