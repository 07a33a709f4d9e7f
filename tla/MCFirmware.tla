------------------------------- MODULE MCFirmware -------------------------------
(***************************************************************************)
(* Instances of Firmware for TLC: a RAID card (handler 1) and two disks of *)
(* different models (handler 2).                                           *)
(***************************************************************************)
EXTENDS Firmware, TLC

CONSTANTS card, disk, ssd, m1, m2, m3

CardAndDisks == {card, disk, ssd}
HandlerOf == card :> 1 @@ disk :> 2 @@ ssd :> 2
ModelOf == card :> m1 @@ disk :> m2 @@ ssd :> m3

v1 == <<1>>
v10 == <<1, 0>>
v2 == <<2>>
ThreeVersions == {v1, v10, v2}

Entry(name, from, to) == [file |-> name, from |-> from, to |-> to]
Anything == << >>

\* Everything has its firmware, from wherever it is.
AllWanted ==
  [targets  |-> 1 :> (m1 :> v2) @@ 2 :> (m2 :> v10 @@ m3 :> v2),
   firmware |-> 1 :> (m1 :> {Entry("a", Anything, v2)})
             @@ 2 :> (m2 :> {Entry("b", v1, v10), Entry("c", v2, v10)}
                   @@ m3 :> {Entry("d", Anything, v2), Entry("e", v10, v2),
                             Entry("f", v1, v10)})]

\* A handler without firmware, a model without firmware.
Gaps ==
  [targets  |-> 1 :> (m1 :> v10) @@ 2 :> (m2 :> v2 @@ m3 :> v1),
   firmware |-> 2 :> (m2 :> {Entry("b", v1, v2)})]

\* Two steps lead from 2 to 10, and there is a way back.
TwoSteps ==
  [targets  |-> 2 :> (m2 :> v10),
   firmware |-> 2 :> (m2 :> {Entry("b", v2, v1), Entry("c", v1, v10),
                          Entry("d", v1, v2)})]

\* A file for version 1 only.
FromOne ==
  [targets  |-> 2 :> (m2 :> v2),
   firmware |-> 2 :> (m2 :> {Entry("b", v1, v2)})]

AllJobs == {AllWanted, Gaps, TwoSteps, FromOne}
=============================================================================
