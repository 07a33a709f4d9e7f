------------------------------ MODULE MCInstaller ------------------------------
(***************************************************************************)
(* Instances of Installer for TLC.                                         *)
(***************************************************************************)
EXTENDS Installer

AllDrives == <<"sda", "sdb", "sdc", "sdd">>
Large == [d \in Drives |-> IF d = "sdd" THEN 2000 ELSE 4000]

Proc == <<"proc">>
AllPoints == {Root, Boot, Efi, Var, Proc}
Lengths == (Root :> 1) @@ (Boot :> 5) @@ (Efi :> 9) @@ (Var :> 4) @@ (Proc :> 5)
SomeExtras == (Proc :> <<"proc", 0>>)

\* AllOfThem drives, named drives, and names that match more than one drive.
AllOfThem == <<>>
Named == <<<<"sdb">>, <<"sda">>>>
Vague == <<<<"sda", "sdb">>, <<"sda", "sdb">>>>
Missing == <<<<"sde">>>>

TwoVolumes == SubSeq(SingleLVM, 1, 4) \o <<Volume(0, 0, Root), Volume(0, 1, Var)>>
NoVolume == SubSeq(SingleLVM, 1, 4)
\* Recipes of a configuration that go wrong: a drive filled twice, a percentage, an array
\* of three, no place to boot from.
Overfull == <<FsPart(0, Root, "end"), Part(0, "swap", "swap")>>
Percent == <<FsPart(0, Root, "percent")>>
Odd == <<Member(0, "md", 0, "end"), Member(1, "md", 0, "end"), Member(2, "md", 0, "end"), Array(0, 1, Root)>>
Nowhere == <<Part(0, "swap", "end")>>
BothWays == Single \o <<Array(0, 1, Boot)>>
Empty == <<Part(0, "blank", "boot"), FsPart(0, Root, "- swap"), Part(0, "empty", "end")>>

ShippedJobs ==
  [i \in DOMAIN partition_recipes |->
     Job(partition_recipes[i], "gpt", FALSE, 512, 512, AllOfThem)]
OtherJobs ==
  <<Job(Mirror, "gpt", TRUE, 1025, 256, AllOfThem), Job(Mirror, "gpt", TRUE, 1025, 256, Named),
    Job(FourDrives(10), "gpt", TRUE, 1025, 256, AllOfThem),
    Job(Mirror, "gpt", FALSE, 512, 512, Vague), Job(Single, "gpt", FALSE, 512, 512, Missing),
    Job(Single, "msdos", FALSE, 4000, 512, AllOfThem), Job(Mirror, "msdos", FALSE, 512, 512, Named)>>
\* An array that is asked for twice, and a volume with options of its own, which is not made.
Doubled == <<Member(0, "md", 0, "end"), Member(1, "md", 0, "end"), Array(0, 1, Root), Array(0, 1, Var)>>
Optioned == SubSeq(SingleLVM, 1, 4) \o <<[Volume(0, 0, Root) EXCEPT !.mkfs_options = TRUE]>>
Custom == <<NoVolume, Overfull, Percent, Odd, Nowhere, BothWays, Empty, Doubled, Optioned>>
CustomJobs == [i \in DOMAIN Custom |-> Job(Custom[i], "gpt", TRUE, 512, 512, AllOfThem)]
SomeJobs == ShippedJobs \o OtherJobs \o CustomJobs
\* Two that lose a mount point: a shipped recipe, and one with two volumes.
LosingJobs == <<Job(BCacheVar, "gpt", FALSE, 512, 512, AllOfThem),
                Job(TwoVolumes, "gpt", FALSE, 512, 512, AllOfThem)>>
=============================================================================
