----------------------------- MODULE InstallerProofs -----------------------------
(***************************************************************************)
(* What the linux-installer keeps of its mounts, what a complete           *)
(* installation is, what becomes of the devices that are made, and where   *)
(* partitions lie on the drives, for every recipe, set of drives and of    *)
(* mount points.                                                           *)
(***************************************************************************)
EXTENDS Installer, TLAPS, FiniteSetTheorems, WellFoundedInduction

-----------------------------------------------------------------------------
(* The steps of installer.py.                                              *)

\* Where installer.py goes on behind each step.
LEMMA AfterIs ==
  /\ After("profile") = "configure" /\ After("configure") = "partition"
  /\ After("partition") = "mkfs" /\ After("mkfs") = "mount" /\ After("mount") = "bootstrap"
  /\ After("bootstrap") = "remount" /\ After("remount") = "fstab" /\ After("fstab") = "sources"
  /\ After("sources") = "baseConfig" /\ After("baseConfig") = "divert" /\ After("divert") = "preBase"
  /\ After("preBase") = "installBase" /\ After("installBase") = "remountAgain"
  /\ After("remountAgain") = "users" /\ After("users") = "boot" /\ After("boot") = "packages"
  /\ After("packages") = "utils" /\ After("utils") = "update" /\ After("update") = "fullConfig"
  /\ After("fullConfig") = "postInstall" /\ After("postInstall") = "undivert"
  /\ After("undivert") = "clean" /\ After("clean") = "unmount" /\ After("unmount") = "lsof"
<1> DEFINE Position(step) == CHOOSE i \in 1..Len(Program) - 1 : Program[i] = step
<1>1. Len(Program) = 27
  BY DEF Program
<1>2. \A i \in 1..26 : Position(Program[i]) = i
  <2> SUFFICES ASSUME NEW i \in 1..26 PROVE Position(Program[i]) = i
    OBVIOUS
  <2>1. \A j \in 1..26 : Program[j] = Program[i] => j = i
    BY DEF Program
  <2> QED  BY <1>1, <2>1
<1>3. \A i \in 1..26 : After(Program[i]) = Program[1 + i]
  BY <1>2 DEF After
<1> HIDE DEF Position
<1>4. /\ After(Program[1]) = Program[2] /\ After(Program[2]) = Program[3] /\ After(Program[3]) = Program[4]
      /\ After(Program[4]) = Program[5] /\ After(Program[5]) = Program[6] /\ After(Program[6]) = Program[7]
      /\ After(Program[7]) = Program[8] /\ After(Program[8]) = Program[9] /\ After(Program[9]) = Program[10]
      /\ After(Program[10]) = Program[11] /\ After(Program[11]) = Program[12] /\ After(Program[12]) = Program[13]
  BY <1>3
<1>5. /\ After(Program[13]) = Program[14] /\ After(Program[14]) = Program[15] /\ After(Program[15]) = Program[16]
      /\ After(Program[16]) = Program[17] /\ After(Program[17]) = Program[18] /\ After(Program[18]) = Program[19]
      /\ After(Program[19]) = Program[20] /\ After(Program[20]) = Program[21] /\ After(Program[21]) = Program[22]
      /\ After(Program[22]) = Program[23] /\ After(Program[23]) = Program[24] /\ After(Program[24]) = Program[25]
  BY <1>3
<1> QED  BY <1>4, <1>5 DEF Program

-----------------------------------------------------------------------------
(* The mounts.                                                             *)

\* A sequence without one of its elements has the others in their order.
LEMMA WithoutOne ==
  ASSUME NEW S, NEW s \in Seq(S), NEW i \in 1..Len(s)
  PROVE  /\ RemoveAt(s, i) \in Seq(S) /\ Len(RemoveAt(s, i)) = Len(s) - 1
         /\ \A j \in 1..(Len(s) - 1) : RemoveAt(s, i)[j] = IF j < i THEN s[j] ELSE s[j + 1]
<1> DEFINE front == SubSeq(s, 1, i - 1)  back == SubSeq(s, i + 1, Len(s))
<1>1. front \in Seq(S) /\ Len(front) = i - 1 /\ \A j \in 1..(i - 1) : front[j] = s[j]
  OBVIOUS
<1>2. back \in Seq(S) /\ Len(back) = Len(s) - i /\ \A j \in 1..(Len(s) - i) : back[j] = s[i + j]
  OBVIOUS
<1>3. RemoveAt(s, i) = front \o back
  BY DEF RemoveAt
<1> HIDE DEF front, back
<1>4. /\ front \o back \in Seq(S) /\ Len(front \o back) = Len(s) - 1
      /\ \A j \in 1..(Len(s) - 1) :
           (front \o back)[j] = IF j <= i - 1 THEN front[j] ELSE back[j - (i - 1)]
  BY <1>1, <1>2
<1>5. \A j \in 1..(Len(s) - 1) : RemoveAt(s, i)[j] = IF j < i THEN s[j] ELSE s[j + 1]
  BY <1>1, <1>2, <1>3, <1>4
<1> QED  BY <1>3, <1>4, <1>5

\* What stands at a mount point: a device that was meant for one of them.
Entries == [point: Points, device: {mount_points[p] : p \in DOMAIN mount_points}]

\* What is no longer mounted has nothing below it that is: a program can take a mount
\* off, but not from under another.
Uncovered == \A p \in mount_list \ Mounted : \A q \in Mounted : ~IsStrictPrefix(p, q)

\* Something is mounted at each point once, and nothing over it.
LEMMA OnceEach ==
  ASSUME mounts \in Seq(Entries), NothingHidden
  PROVE  \A i, j \in DOMAIN mounts : mounts[i].point = mounts[j].point => ~(i < j)
<1> SUFFICES ASSUME NEW i \in DOMAIN mounts, NEW j \in DOMAIN mounts,
                    mounts[i].point = mounts[j].point, i < j
             PROVE  FALSE
  OBVIOUS
<1>1. mounts[i].point \in Seq(STRING)
  <2>1. mounts[i] \in Entries
    OBVIOUS
  <2>2. mounts[i].point \in Points
    BY <2>1 DEF Entries
  <2>3. Points \subseteq Seq(STRING)
    BY PathLengthAssumption
  <2> QED  BY <2>2, <2>3
<1>2. \A point \in Seq(STRING) : IsPrefix(point, point)
  BY DEF IsPrefix
<1>3. IsPrefix(mounts[j].point, mounts[i].point)
  BY <1>1, <1>2
<1> QED  BY <1>3 DEF NothingHidden

\* What is mounted is above nothing that was.
LEMMA MountAdds ==
  ASSUME mounts \in Seq(Entries), NothingHidden, NEW p \in Points, p \in DOMAIN mount_points,
         p \notin Mounted, \A q \in Mounted : ~IsStrictPrefix(p, q), DoMount(p), UNCHANGED mount_points
  PROVE  mounts' \in Seq(Entries') /\ Mounted' = Mounted \cup {p} /\ NothingHidden'
<1> DEFINE entry == [point |-> p, device |-> mount_points[p]]
<1>1. entry \in Entries /\ Entries' = Entries
  BY DEF Entries
<1>2. mounts' = Append(mounts, entry)
  BY DEF DoMount
<1>3. /\ mounts' \in Seq(Entries) /\ Len(mounts') = Len(mounts) + 1
      /\ DOMAIN mounts = 1..Len(mounts) /\ DOMAIN mounts' = 1..(Len(mounts) + 1)
      /\ \A i \in 1..Len(mounts) : mounts'[i] = mounts[i]
      /\ mounts'[Len(mounts) + 1] = entry
  BY <1>1, <1>2
<1> HIDE DEF entry
<1>4. Mounted' = Mounted \cup {p}
  BY <1>3 DEF Mounted, entry
<1>5. NothingHidden'
  <2> SUFFICES ASSUME NEW i \in 1..(Len(mounts) + 1), NEW j \in 1..(Len(mounts) + 1), i < j
               PROVE  ~IsPrefix(mounts'[j].point, mounts'[i].point)
    BY <1>3 DEF NothingHidden
  <2>1. CASE j \in 1..Len(mounts)
    BY <1>3, <2>1 DEF NothingHidden
  <2>2. CASE j = Len(mounts) + 1
    <3>1. i \in 1..Len(mounts) /\ mounts'[i] = mounts[i] /\ mounts[i].point \in Mounted /\ mounts'[j].point = p
      BY <1>3, <2>2 DEF Mounted, entry
    <3>2. ~IsStrictPrefix(p, mounts[i].point) /\ p # mounts[i].point
      BY <3>1
    <3> QED  BY <3>1, <3>2 DEF IsStrictPrefix
  <2> QED  BY <2>1, <2>2
<1> QED  BY <1>1, <1>3, <1>4, <1>5

\* What is taken off was mounted once, and had nothing below it.
LEMMA UmountTakes ==
  ASSUME mounts \in Seq(Entries), NothingHidden, NEW p \in Points, Umount(p), UNCHANGED mount_points
  PROVE  /\ mounts' \in Seq(Entries') /\ Mounted' = Mounted \ {p} /\ NothingHidden'
         /\ \A q \in Mounted' : ~IsStrictPrefix(p, q)
<1> DEFINE top == TopAt(p)
<1>1. Entries' = Entries /\ DOMAIN mounts = 1..Len(mounts) /\ Len(mounts) \in Nat
  BY DEF Entries
<1>2. PICK k \in DOMAIN mounts : mounts[k].point = p
  BY DEF Umount, Mounted
<1>3. \A j \in DOMAIN mounts : mounts[j].point = p => j = k
  BY <1>1, <1>2, OnceEach
<1>4. top = k
  <2>1. mounts[k].point = p /\ \A j \in DOMAIN mounts : mounts[j].point = p => j <= k
    BY <1>1, <1>2, <1>3
  <2> QED  BY <1>3, <2>1 DEF TopAt
<1>5. /\ mounts' \in Seq(Entries) /\ Len(mounts') = Len(mounts) - 1
      /\ \A j \in 1..(Len(mounts) - 1) : mounts'[j] = IF j < k THEN mounts[j] ELSE mounts[j + 1]
  BY <1>1, <1>4, WithoutOne DEF Umount
<1> HIDE DEF top
<1>6. DOMAIN mounts' = 1..(Len(mounts) - 1)
  BY <1>5
<1>7. Mounted' = Mounted \ {p}
  <2>1. ASSUME NEW q \in Mounted' PROVE q \in Mounted \ {p}
    <3>1. PICK j \in 1..(Len(mounts) - 1) : mounts'[j].point = q
      BY <1>6 DEF Mounted
    <3>2. PICK i \in 1..Len(mounts) : i # k /\ mounts[i].point = q
      <4>1. CASE j < k
        <5>1. j \in 1..Len(mounts) /\ mounts[j].point = q
          BY <1>1, <1>5, <3>1, <4>1
        <5> QED  BY <1>1, <4>1, <5>1
      <4>2. CASE ~(j < k)
        <5>1. j + 1 \in 1..Len(mounts) /\ mounts[j + 1].point = q /\ j + 1 # k
          BY <1>1, <1>5, <3>1, <4>2
        <5> QED  BY <5>1
      <4> QED  BY <4>1, <4>2
    <3> QED  BY <1>1, <1>3, <3>2 DEF Mounted
  <2>2. ASSUME NEW q \in Mounted \ {p} PROVE q \in Mounted'
    <3>1. PICK i \in 1..Len(mounts) : mounts[i].point = q
      BY <1>1 DEF Mounted
    <3>2. i # k
      BY <1>2, <3>1
    <3>3. CASE i < k
      <4>1. i \in 1..(Len(mounts) - 1) /\ mounts'[i] = mounts[i]
        BY <1>1, <1>2, <1>5, <3>3
      <4> QED  BY <1>6, <3>1, <4>1 DEF Mounted
    <3>4. CASE i > k
      <4>1. i - 1 \in 1..(Len(mounts) - 1) /\ mounts'[i - 1] = mounts[i]
        BY <1>1, <1>2, <1>5, <3>4
      <4> QED  BY <1>6, <3>1, <4>1 DEF Mounted
    <3> QED  BY <1>1, <1>2, <3>2, <3>3, <3>4
  <2> QED  BY <2>1, <2>2
<1>8. NothingHidden'
  <2> SUFFICES ASSUME NEW i \in 1..(Len(mounts) - 1), NEW j \in 1..(Len(mounts) - 1), i < j
               PROVE  ~IsPrefix(mounts'[j].point, mounts'[i].point)
    BY <1>6 DEF NothingHidden
  <2>1. PICK x \in 1..Len(mounts), y \in 1..Len(mounts) : x < y /\ mounts'[i] = mounts[x] /\ mounts'[j] = mounts[y]
    BY <1>1, <1>2, <1>5
  <2> QED  BY <1>1, <2>1 DEF NothingHidden
<1>9. \A q \in Mounted' : ~IsStrictPrefix(p, q)
  BY <1>7 DEF Umount, Busy
<1> QED  BY <1>1, <1>5, <1>7, <1>8, <1>9

\* A longer path is above none that is not longer.
LEMMA LongerIsBelow ==
  ASSUME NEW p \in Points, NEW q \in Points, PathLength[q] <= PathLength[p]
  PROVE  ~IsStrictPrefix(p, q)
<1>1. PathLength[p] \in Nat /\ PathLength[q] \in Nat
  BY PathLengthAssumption
<1> QED  BY <1>1, PathLengthAssumption

-----------------------------------------------------------------------------
(* The invariant.                                                          *)

\* installer.py in its parts: before anything is mounted, up to the base packages
\* with everything mounted, and after them.
Early == {"profile", "configure", "partition", "mkfs", "mount"}
Setup == {"fstab", "sources", "baseConfig", "divert", "preBase"}
Filling == {"users", "boot", "packages", "utils", "update", "fullConfig", "postInstall", "undivert"}
Leaving == {"clean", "unmount", "lsof", "unmounting", "complete"}
PastMount == {"bootstrap", "remount", "remounting", "installBase", "remountAgain", "remountingAgain"}
             \cup Setup \cup Filling \cup Leaving
PastFstab == {"installBase", "remountAgain", "remountingAgain"} \cup (Setup \ {"fstab"}) \cup Filling \cup Leaving
PastBoot == (Filling \ {"users", "boot"}) \cup Leaving
Whole == Setup \cup {"users"}

\* What is mounted was meant to be, is where it was meant to be, and hides nothing.
MountsKept ==
  /\ mounts \in Seq(Entries)
  /\ Mounted \subseteq mount_list /\ mount_list \subseteq Points
  /\ mount_list \subseteq DOMAIN mount_points /\ going \subseteq DOMAIN mount_points
  /\ NothingHidden /\ Uncovered

\* How far the loops of mount, remount and unmount have come.
MountsPlaced ==
  /\ pc \in Early => mounts = <<>> /\ mount_list = {}
  /\ pc = "mounting" =>
       /\ mount_list = Mounted /\ going = DOMAIN mount_points \ mount_list
       /\ \A q \in Mounted : \A r \in going \cap Points : PathLength[q] <= PathLength[r]
  /\ pc \in PastMount => mount_list = DOMAIN mount_points
  /\ pc \in {"remounting", "remountingAgain"} => going = mount_list \ Mounted
  /\ pc \in Whole => mount_list \subseteq Mounted
  /\ pc = "unmounting" => Mounted \subseteq going
  /\ pc = "complete" => mounts = <<>>

\* Untouched mounts stay as they are, and the loops where they are.
LEMMA MountsUntouched ==
  ASSUME MountsKept, UNCHANGED mountVars
  PROVE  MountsKept' /\ Mounted' = Mounted
BY DEF MountsKept, mountVars, Entries, Mounted, NothingHidden, Uncovered

LEMMA PlaceUntouched ==
  ASSUME MountsPlaced, UNCHANGED mountVars, pc' = pc
  PROVE  MountsPlaced'
BY DEF MountsPlaced, mountVars, Mounted

\* An end, or the alert, is no place of the loops.
LEMMA PlaceLeft ==
  ASSUME pc' \in Ended \cup {"alert"}
  PROVE  MountsPlaced'
BY DEF MountsPlaced, Ended, Early, PastMount, Whole, Setup, Filling, Leaving

\* Every step keeps the mounts in order.
LEMMA MountsStep ==
  ASSUME MountsKept, MountsPlaced, [Next]_vars
  PROVE  MountsKept'
<1>1. CASE MountBegins
  <2>1. mounts' = <<>> /\ mount_list' = {} /\ going' = DOMAIN mount_points' /\ Mounted' = {}
    BY <1>1 DEF MountBegins, MountsPlaced, Early, Mounted
  <2> QED  BY <2>1 DEF MountsKept, NothingHidden, Uncovered
<1>2. ASSUME NEW p \in Points, Mounting(p) PROVE MountsKept'
  <2>1. /\ pc = "mounting" /\ p \in Shortest(going) /\ DoMount(p) /\ mount_list' = mount_list \cup {p}
        /\ going' = going \ {p} /\ UNCHANGED mount_points
    BY <1>2 DEF Mounting, MountNext
  <2>2. /\ p \in going /\ p \in DOMAIN mount_points /\ p \notin Mounted
        /\ \A q \in Mounted : q \in Points /\ PathLength[q] <= PathLength[p]
    BY <2>1 DEF MountsPlaced, MountsKept, Shortest
  <2>3. mounts' \in Seq(Entries') /\ Mounted' = Mounted \cup {p} /\ NothingHidden'
    BY <2>1, <2>2, MountAdds, LongerIsBelow DEF MountsKept
  <2>4. mount_list' = Mounted'
    BY <2>1, <2>3 DEF MountsPlaced
  <2> QED  BY <2>1, <2>2, <2>3, <2>4 DEF MountsKept, Uncovered
<1>3. ASSUME NEW p \in Points, Remounting(p) PROVE MountsKept'
  <2>1. /\ pc \in {"remounting", "remountingAgain"} /\ p \in Shortest(going) /\ DoMount(p)
        /\ going' = going \ {p} /\ UNCHANGED <<mount_points, mount_list>>
    BY <1>3 DEF Remounting, RemountNext
  <2>2. /\ going = mount_list \ Mounted /\ p \in going /\ p \in DOMAIN mount_points
        /\ \A q \in Mounted : ~IsStrictPrefix(p, q)
        /\ \A r \in going : PathLength[p] <= PathLength[r]
    BY <2>1 DEF MountsPlaced, MountsKept, Uncovered, Shortest
  <2>3. mounts' \in Seq(Entries') /\ Mounted' = Mounted \cup {p} /\ NothingHidden'
    BY <2>1, <2>2, MountAdds DEF MountsKept
  <2>4. \A r \in mount_list \ Mounted' : ~IsStrictPrefix(r, p)
    BY <2>2, <2>3, LongerIsBelow DEF MountsKept
  <2>5. Uncovered'
    BY <2>1, <2>3, <2>4 DEF Uncovered, MountsKept
  <2> QED  BY <2>1, <2>2, <2>3, <2>5 DEF MountsKept
<1>4. ASSUME NEW p \in Points, Umount(p), UNCHANGED <<mount_points, mount_list>>, going' \subseteq going
      PROVE  MountsKept'
  <2>1. /\ mounts' \in Seq(Entries') /\ Mounted' = Mounted \ {p} /\ NothingHidden'
        /\ \A q \in Mounted' : ~IsStrictPrefix(p, q)
    BY <1>4, UmountTakes DEF MountsKept
  <2>2. Uncovered'
    BY <1>4, <2>1 DEF Uncovered, MountsKept
  <2> QED  BY <1>4, <2>1, <2>2 DEF MountsKept
<1>5. CASE OthersInterfere
  <2>1. PICK p \in Mounted \ {Root} : OthersUnmount(p)
    BY <1>5 DEF OthersInterfere
  <2> QED  BY <2>1, <1>4 DEF OthersUnmount, MountsKept
<1>6. ASSUME NEW p \in Points, Unmounting(p) PROVE MountsKept'
  BY <1>6, <1>4 DEF Unmounting, UnmountNext
<1>7. CASE Remount \/ NothingHeld
  <2>1. going' \subseteq mount_list /\ UNCHANGED <<mount_points, mount_list, mounts>>
    BY <1>7 DEF Remount, RemountBegins, NothingHeld, UnmountBegins
  <2> QED  BY <2>1 DEF MountsKept, Entries, Mounted, NothingHidden, Uncovered
<1>8. CASE Profile \/ RunStep \/ UpdateLists \/ Divert \/ Undivert \/ InstallBoot
  BY <1>8, MountsUntouched DEF Profile, RunStep, UpdateLists, Divert, Undivert, InstallBoot, OnlyStep
<1>9. CASE PartitionStep \/ PartitionEnds \/ Mkfs \/ MkfsDone \/ MountDone \/ RemountDone \/ WriteFstab \/ WriteMtab
  BY <1>9, MountsUntouched DEF PartitionStep, PartitionEnds, Mkfs, MkfsDone, MountDone, RemountDone, WriteFstab, WriteMtab, OnlyStep
<1>10. CASE Signals \/ UmountFails \/ UnmountDone \/ SignalComplete \/ SignalAlert \/ Fails \/ PartitionFails \/ DriveComes \/ HolderEnds
  BY <1>10, MountsUntouched DEF Signals, UmountFails, UnmountDone, SignalComplete, SignalAlert, Fails,
     PartitionFails, DriveComes, HolderEnds, OnlyStep
<1>11. CASE UNCHANGED vars
  BY <1>11, MountsUntouched DEF vars
<1> QED
  BY <1>1, <1>2, <1>3, <1>5, <1>6, <1>7, <1>8, <1>9, <1>10, <1>11 DEF Next, Install

\* Every step keeps the loops where the steps of installer.py need them.
LEMMA PlacedStep ==
  ASSUME MountsKept, MountsPlaced, [Next]_vars
  PROVE  MountsPlaced'
<1> USE DEF Early, PastMount, Whole, Setup, Filling, Leaving
<1>1. CASE MountBegins
  <2>1. mounts' = <<>> /\ mount_list' = {} /\ going' = DOMAIN mount_points' /\ Mounted' = {} /\ pc' = "mounting"
    BY <1>1 DEF MountBegins, MountsPlaced, Mounted
  <2> QED  BY <2>1 DEF MountsPlaced
<1>2. ASSUME NEW p \in Points, Mounting(p) PROVE MountsPlaced'
  <2>1. /\ pc = "mounting" /\ p \in Shortest(going) /\ DoMount(p) /\ mount_list' = mount_list \cup {p}
        /\ going' = going \ {p} /\ UNCHANGED mount_points /\ pc' = pc
    BY <1>2 DEF Mounting, MountNext
  <2>2. /\ p \in going /\ p \in DOMAIN mount_points /\ p \notin Mounted
        /\ going = DOMAIN mount_points \ mount_list
        /\ \A q \in Mounted : q \in Points /\ \A r \in going \cap Points : PathLength[q] <= PathLength[r]
        /\ \A r \in going : PathLength[p] <= PathLength[r]
    BY <2>1 DEF MountsPlaced, MountsKept, Shortest
  <2>3. mounts' \in Seq(Entries') /\ Mounted' = Mounted \cup {p} /\ NothingHidden'
    BY <2>1, <2>2, MountAdds, LongerIsBelow DEF MountsKept
  <2>4. \A q \in Mounted' : \A r \in going' \cap Points : PathLength[q] <= PathLength[r]
    BY <2>1, <2>2, <2>3
  <2>5. mount_list' = Mounted' /\ going' = DOMAIN mount_points' \ mount_list'
    BY <2>1, <2>2, <2>3 DEF MountsPlaced
  <2> QED  BY <2>1, <2>4, <2>5 DEF MountsPlaced
<1>3. CASE MountDone
  <2>1. pc = "mounting" /\ going = {} /\ pc' = "bootstrap" /\ UNCHANGED mountVars
    BY <1>3, AfterIs DEF MountDone, OnlyStep
  <2>2. mount_list \subseteq DOMAIN mount_points /\ DOMAIN mount_points \ mount_list = {}
    BY <2>1 DEF MountsPlaced, MountsKept
  <2>3. mount_list' = DOMAIN mount_points'
    BY <2>1, <2>2 DEF mountVars
  <2> QED  BY <2>1, <2>3 DEF MountsPlaced
<1>4. CASE Remount
  <2>1. /\ pc \in PastMount /\ pc' \in {"remounting", "remountingAgain"} /\ going' = mount_list \ Mounted
        /\ UNCHANGED <<mount_points, mount_list, mounts>>
    BY <1>4 DEF Remount, RemountBegins
  <2> QED  BY <2>1 DEF MountsPlaced, Mounted
<1>5. ASSUME NEW p \in Points, Remounting(p) PROVE MountsPlaced'
  <2>1. /\ pc \in {"remounting", "remountingAgain"} /\ p \in Shortest(going) /\ DoMount(p) /\ pc' = pc
        /\ going' = going \ {p} /\ UNCHANGED <<mount_points, mount_list>>
    BY <1>5 DEF Remounting, RemountNext
  <2>2. /\ going = mount_list \ Mounted /\ p \in going /\ p \in DOMAIN mount_points
        /\ \A q \in Mounted : ~IsStrictPrefix(p, q)
    BY <2>1 DEF MountsPlaced, MountsKept, Uncovered, Shortest
  <2>3. Mounted' = Mounted \cup {p}
    BY <2>1, <2>2, MountAdds DEF MountsKept
  <2>4. going' = mount_list' \ Mounted' /\ mount_list' = DOMAIN mount_points'
    BY <2>1, <2>2, <2>3 DEF MountsPlaced
  <2> QED  BY <2>1, <2>4 DEF MountsPlaced
<1>6. CASE RemountDone
  <2>1. /\ pc \in {"remounting", "remountingAgain"} /\ going = {} /\ pc' \in {"fstab", "users"} /\ UNCHANGED mountVars
    BY <1>6, AfterIs DEF RemountDone, OnlyStep
  <2>2. mount_list \subseteq Mounted /\ mount_list = DOMAIN mount_points
    BY <2>1 DEF MountsPlaced
  <2>3. mount_list' \subseteq Mounted' /\ mount_list' = DOMAIN mount_points'
    BY <2>1, <2>2 DEF mountVars, Mounted
  <2> QED  BY <2>1, <2>3 DEF MountsPlaced
<1>7. CASE NothingHeld
  <2>1. pc = "lsof" /\ pc' = "unmounting" /\ going' = mount_list /\ UNCHANGED <<mount_points, mount_list, mounts>>
    BY <1>7 DEF NothingHeld, UnmountBegins
  <2> QED  BY <2>1 DEF MountsPlaced, MountsKept, Mounted
<1>8. ASSUME NEW p \in Points, Unmounting(p) PROVE MountsPlaced'
  <2>1. /\ pc = "unmounting" /\ pc' = pc /\ Umount(p) /\ going' = going \ {p} /\ UNCHANGED <<mount_points, mount_list>>
    BY <1>8 DEF Unmounting, UnmountNext
  <2>2. Mounted' = Mounted \ {p}
    BY <2>1, UmountTakes DEF MountsKept
  <2> QED  BY <2>1, <2>2 DEF MountsPlaced
<1>9. CASE UnmountDone
  <2>1. pc = "unmounting" /\ going = {} /\ pc' = "complete" /\ UNCHANGED mountVars
    BY <1>9 DEF UnmountDone, OnlyStep
  <2>2. Mounted = {} /\ mounts \in Seq(Entries)
    BY <2>1 DEF MountsPlaced, MountsKept
  <2>3. mounts = <<>>
    <3>1. \A i \in DOMAIN mounts : mounts[i].point \in Mounted
      BY DEF Mounted
    <3>2. Len(mounts) = 0
      <4>1. Len(mounts) \in Nat /\ DOMAIN mounts = 1..Len(mounts)
        BY <2>2
      <4>2. 1 \notin DOMAIN mounts
        BY <2>2, <3>1
      <4> QED  BY <4>1, <4>2
    <3> QED  BY <2>2, <3>2
  <2>4. mounts' = <<>> /\ mount_list' = DOMAIN mount_points'
    BY <2>1, <2>3 DEF MountsPlaced, mountVars
  <2> QED  BY <2>1, <2>4 DEF MountsPlaced
<1>10. CASE OthersInterfere
  <2>1. PICK p \in Mounted \ {Root} : OthersUnmount(p)
    BY <1>10 DEF OthersInterfere
  <2> QED  BY <1>10, <2>1 DEF OthersInterfere, Unmounters, OthersUnmount, MountsPlaced
<1>11. CASE Profile
  BY <1>11, AfterIs DEF Profile, OnlyStep, mountVars, MountsPlaced
<1>12. CASE RunStep
  <2>1. pc \in Plain /\ pc' = After(pc) /\ UNCHANGED mountVars
    BY <1>12 DEF RunStep
  <2>2. CASE pc \in {"configure", "bootstrap", "baseConfig", "preBase", "installBase"}
    BY <2>1, <2>2, AfterIs DEF mountVars, MountsPlaced, Mounted
  <2>3. CASE pc \in {"users", "packages", "utils", "fullConfig", "postInstall", "clean"}
    BY <2>1, <2>3, AfterIs DEF mountVars, MountsPlaced, Mounted
  <2> QED  BY <2>1, <2>2, <2>3 DEF Plain, Chrooted
<1>13. CASE UpdateLists
  BY <1>13, AfterIs DEF UpdateLists, mountVars, MountsPlaced, Mounted
<1>14. CASE Divert
  BY <1>14, AfterIs DEF Divert, mountVars, MountsPlaced, Mounted
<1>15. CASE Undivert
  BY <1>15, AfterIs DEF Undivert, mountVars, MountsPlaced, Mounted
<1>16. CASE InstallBoot
  BY <1>16, AfterIs DEF InstallBoot, mountVars, MountsPlaced, Mounted
<1>17. CASE PartitionEnds
  BY <1>17, AfterIs DEF PartitionEnds, OnlyStep, mountVars, MountsPlaced
<1>18. CASE Mkfs
  BY <1>18, PlaceUntouched, PlaceLeft DEF Mkfs
<1>19. CASE MkfsDone
  BY <1>19, AfterIs DEF MkfsDone, OnlyStep, mountVars, MountsPlaced
<1>20. CASE WriteFstab
  BY <1>20, AfterIs DEF WriteFstab, mountVars, MountsPlaced, Mounted
<1>21. CASE WriteMtab
  BY <1>21, AfterIs DEF WriteMtab, OnlyStep, mountVars, MountsPlaced
<1>22. CASE SignalComplete \/ SignalAlert \/ UmountFails \/ Fails
  BY <1>22, PlaceLeft DEF SignalComplete, SignalAlert, UmountFails, Fails, Ended
<1>23. CASE PartitionStep \/ PartitionFails \/ DriveComes \/ Signals \/ HolderEnds
  BY <1>23, PlaceUntouched DEF PartitionStep, PartitionFails, DriveComes, Signals, HolderEnds
<1>24. CASE UNCHANGED vars
  BY <1>24, PlaceUntouched DEF vars
<1>25. CASE Install
  BY <1>25, <1>1, <1>2, <1>3, <1>4, <1>5, <1>6, <1>7, <1>8, <1>9, <1>11, <1>12, <1>13, <1>14, <1>15, <1>16,
     <1>17, <1>18, <1>19, <1>20, <1>21, <1>22, <1>23 DEF Install
<1> QED  BY <1>10, <1>22, <1>23, <1>24, <1>25 DEF Next

MInv == MountsKept /\ MountsPlaced

LEMMA MountsInvariance == Spec => []MInv
<1>1. Init => MInv
  BY DEF Init, MountInit, MInv, MountsKept, MountsPlaced, Mounted, NothingHidden, Uncovered, Early, PastMount,
         Whole, Setup, Filling, Leaving
<1>2. MInv /\ [Next]_vars => MInv'
  BY MountsStep, PlacedStep DEF MInv
<1> QED  BY <1>1, <1>2, PTL DEF Spec

\* A path of the new system means what it does after the boot: nothing is mounted over
\* something else, and commands in the new system find everything mounted from a
\* remount to the next step that installs packages, whatever a bootstrap or a package
\* unmounts (filesystem.py mount, remount, unmount).
THEOREM PathsTrue == Spec => []PathsAreTrue
<1>1. MInv => PathsAreTrue
  BY DEF MInv, MountsKept, MountsPlaced, PathsAreTrue, ChrootIsWhole, PastMount, Whole, Setup, Filling,
         Leaving
<1> QED  BY <1>1, MountsInvariance, PTL

-----------------------------------------------------------------------------
(* The system that is installed.                                           *)

\* Partitioning only adds to what exists on the drives.
LEMMA MadeGrows == ASSUME Partition PROVE made \subseteq made'
BY DEF Partition, FindDrives, WaitForDrives, Prepare, GrubPartition, GrubDone, ChangeSize, ChangeSizeDone,
       TargetItem, TargetsDone, RunParted, PartedDone, MdItem, MdDone, BCacheItem, BCacheDone, VgItem, VgDone,
       MakeVolume, WaitForSync, PartitionDone

\* Between the steps the counters and the processes are what they may be.
STypes ==
  /\ apt \in BOOLEAN /\ retry \in 0..9 /\ holders \in 0..MaxHolders
  /\ formatted \subseteq made /\ diverted \subseteq Diverts
  /\ signal \in {"none", "TERM", "KILL"} /\ told \in {"nothing", "complete", "alert"}

LEMMA STypesStep ==
  ASSUME STypes, [Next]_vars
  PROVE  STypes'
<1>1. CASE Profile \/ PartitionEnds \/ MkfsDone \/ MountDone \/ RemountDone \/ WriteMtab \/ UmountFails \/ UnmountDone
  BY <1>1 DEF Profile, PartitionEnds, MkfsDone, MountDone, RemountDone, WriteMtab, UmountFails, UnmountDone, OnlyStep,
              STypes, systemVars, partitionVars
<1>2. CASE RunStep
  <2>1. holders' \in 0..MaxHolders
    BY <1>2, MaxHoldersAssumption DEF RunStep, STypes
  <2> QED  BY <1>2, <2>1 DEF RunStep, STypes, systemVars, partitionVars
<1>3. CASE UpdateLists
  <2>1. holders' \in 0..MaxHolders
    BY <1>3, MaxHoldersAssumption DEF UpdateLists, STypes
  <2>2. retry' \in 0..9
    BY <1>3 DEF UpdateLists, STypes
  <2> QED  BY <1>3, <2>1, <2>2 DEF UpdateLists, STypes, systemVars, partitionVars
<1>4. CASE Divert \/ Undivert \/ Fails
  <2>1. diverted' \subseteq Diverts
    BY <1>4 DEF Divert, Undivert, Fails, STypes
  <2> QED  BY <1>4, <2>1 DEF Divert, Undivert, Fails, STypes, partitionVars
<1>5. CASE InstallBoot
  <2>1. holders' \in 0..MaxHolders
    BY <1>5, MaxHoldersAssumption DEF InstallBoot, STypes
  <2> QED  BY <1>5, <2>1 DEF InstallBoot, STypes, partitionVars
<1>6. CASE PartitionStep \/ PartitionFails \/ DriveComes
  <2>1. made \subseteq made'
    BY <1>6, MadeGrows DEF PartitionStep, PartitionFails, DriveComes, CommandFails, DriveFound
  <2> QED  BY <1>6, <2>1 DEF PartitionStep, PartitionFails, DriveComes, STypes, systemVars
<1>7. CASE Mkfs
  <2>1. formatted' \subseteq made' /\ UNCHANGED <<apt, retry, holders, signal, told, diverted>>
    BY <1>7 DEF Mkfs, STypes, systemVars
  <2> QED  BY <2>1 DEF STypes
<1>8. CASE MountBegins \/ Remount \/ OthersInterfere \/ \E p \in Points : Mounting(p) \/ Remounting(p) \/ Unmounting(p)
  BY <1>8 DEF MountBegins, Remount, OthersInterfere, Mounting, Remounting, Unmounting, STypes, systemVars, partitionVars
<1>9. CASE WriteFstab
  BY <1>9 DEF WriteFstab, STypes, partitionVars
<1>10. CASE Signals
  <2>1. retry' \in 0..9
    BY <1>10 DEF Signals, STypes
  <2> QED  BY <1>10, <2>1 DEF Signals, STypes, systemVars, partitionVars
<1>11. CASE NothingHeld
  BY <1>11 DEF NothingHeld, STypes, systemVars, partitionVars
<1>12. CASE HolderEnds
  <2>1. holders' \in 0..MaxHolders
    BY <1>12, MaxHoldersAssumption DEF HolderEnds, STypes
  <2> QED  BY <1>12, <2>1 DEF HolderEnds, STypes, systemVars, partitionVars
<1>13. CASE SignalComplete \/ SignalAlert
  BY <1>13 DEF SignalComplete, SignalAlert, STypes, systemVars, partitionVars
<1>14. CASE UNCHANGED vars
  BY <1>14 DEF vars, STypes, systemVars, partitionVars
<1> QED
  BY <1>1, <1>2, <1>3, <1>4, <1>5, <1>6, <1>7, <1>8, <1>9, <1>10, <1>11, <1>12, <1>13, <1>14 DEF Next, Install

\* Where a step of installer.py may lead, and by which step a part of it is entered.
Steps == Early \cup {"mounting"} \cup PastMount \cup Ended \cup {"alert"}
Moves ==
  /\ pc \in Steps => pc' \in Steps
  /\ pc' \in {"mkfs", "mount", "mounting"} \cup PastMount =>
       pc \in {"mkfs", "mount", "mounting"} \cup PastMount \/ PartitionEnds
  /\ pc' \in {"mounting"} \cup PastMount => pc \in {"mounting"} \cup PastMount \/ MountBegins
  /\ pc' \in PastFstab => pc \in PastFstab \/ WriteFstab
  /\ pc \in PastFstab \cup Ended \cup {"alert"} => pc' \in PastFstab \cup Ended \cup {"alert"}
  /\ pc' \in PastBoot => pc \in PastBoot \/ InstallBoot
  /\ pc' \in Leaving => pc \in Leaving \/ Undivert
  /\ pc' \in {"unmounting", "complete"} => pc \in {"unmounting", "complete"} \/ NothingHeld
  /\ pc \in {"exit0", "dead"} => pc' = pc

LEMMA MovesStep == ASSUME [Next]_vars PROVE Moves
<1> USE DEF Steps, Early, PastMount, PastFstab, PastBoot, Whole, Setup, Filling, Leaving, Ended
<1>1. ASSUME pc' = pc PROVE Moves
  BY <1>1 DEF Moves
<1>2. CASE Profile
  BY <1>2, AfterIs DEF Profile, Moves
<1>3. CASE RunStep
  <2>1. pc \in Plain /\ pc' = After(pc)
    BY <1>3 DEF RunStep
  <2>2. CASE pc \in {"configure", "bootstrap", "baseConfig", "preBase", "installBase"}
    BY <2>1, <2>2, AfterIs DEF Moves
  <2>3. CASE pc \in {"users", "packages", "utils", "fullConfig", "postInstall", "clean"}
    BY <2>1, <2>3, AfterIs DEF Moves
  <2> QED  BY <2>1, <2>2, <2>3 DEF Plain, Chrooted
<1>4. CASE UpdateLists
  <2>1. pc \in {"sources", "update"} /\ pc' \in {pc, "alert", "baseConfig", "fullConfig"}
    BY <1>4, AfterIs DEF UpdateLists
  <2>2. pc = "sources" => pc' # "fullConfig"
    BY <1>4, AfterIs DEF UpdateLists
  <2> QED  BY <2>1, <2>2 DEF Moves
<1>5. CASE Divert
  BY <1>5, AfterIs DEF Divert, Moves
<1>6. CASE Undivert
  BY <1>6, AfterIs DEF Undivert, Moves
<1>7. CASE InstallBoot
  BY <1>7, AfterIs DEF InstallBoot, Moves
<1>8. CASE PartitionEnds
  BY <1>8, AfterIs DEF PartitionEnds, Moves
<1>9. CASE Mkfs
  BY <1>9, <1>1 DEF Mkfs, Moves
<1>10. CASE MkfsDone
  BY <1>10, AfterIs DEF MkfsDone, Moves
<1>11. CASE MountBegins
  BY <1>11 DEF MountBegins, Moves
<1>12. CASE MountDone
  BY <1>12, AfterIs DEF MountDone, Moves
<1>13. CASE Remount
  BY <1>13 DEF Remount, Moves
<1>14. CASE RemountDone
  BY <1>14, AfterIs DEF RemountDone, Moves
<1>15. CASE WriteFstab
  BY <1>15, AfterIs DEF WriteFstab, Moves
<1>16. CASE WriteMtab
  BY <1>16, AfterIs DEF WriteMtab, Moves
<1>17. CASE NothingHeld
  BY <1>17 DEF NothingHeld, Moves
<1>18. CASE UmountFails \/ UnmountDone
  BY <1>18 DEF UmountFails, UnmountDone, Moves
<1>19. CASE SignalComplete \/ SignalAlert
  BY <1>19 DEF SignalComplete, SignalAlert, Moves
<1>20. CASE Fails
  BY <1>20 DEF Fails, Plain, Chrooted, Moves
<1>21. CASE PartitionStep \/ PartitionFails \/ DriveComes \/ Signals \/ HolderEnds \/ OthersInterfere
  BY <1>21, <1>1 DEF PartitionStep, PartitionFails, DriveComes, Signals, HolderEnds, OthersInterfere
<1>22. CASE \E p \in Points : Mounting(p) \/ Remounting(p) \/ Unmounting(p)
  BY <1>22, <1>1 DEF Mounting, Remounting, Unmounting
<1>23. CASE UNCHANGED vars
  BY <1>23, <1>1 DEF vars
<1>24. CASE Install
  BY <1>24, <1>2, <1>3, <1>4, <1>5, <1>6, <1>7, <1>8, <1>9, <1>10, <1>11, <1>12, <1>13, <1>14, <1>15, <1>16,
     <1>17, <1>18, <1>19, <1>21, <1>22 DEF Install
<1> QED  BY <1>20, <1>21, <1>23, <1>24 DEF Next

\* By which step each part of the system is changed.
Frame ==
  /\ apt' = apt /\ formatted \subseteq formatted'
  /\ (boot_drives' = boot_drives /\ filesystem_list' = filesystem_list) \/ pc = "partition"
  /\ phase = "done" => phase' = "done"
  /\ mount_points' = mount_points \/ MountBegins
  /\ fstab' = fstab \/ WriteFstab
  /\ grubbed' = grubbed \/ InstallBoot
  /\ diverted' \subseteq diverted \/ Divert \/ (Fails /\ apt /\ pc' = "alert")
  /\ pc \in {"unmounting", "complete", "exit0", "dead"} /\ holders = 0 => holders' = 0
  /\ told' = told \/ SignalComplete \/ SignalAlert
  /\ pc \in {"complete", "exit0", "dead"} => mounts' = mounts

LEMMA FrameStep == ASSUME STypes, [Next]_vars PROVE Frame
<1> USE DEF systemVars, partitionVars, planVars, mountVars, OnlyStep
<1>1. CASE Profile \/ PartitionEnds \/ MkfsDone \/ MountDone \/ RemountDone \/ WriteMtab \/ UmountFails \/ UnmountDone
  BY <1>1 DEF Profile, PartitionEnds, MkfsDone, MountDone, RemountDone, WriteMtab, UmountFails, UnmountDone, Frame
<1>2. CASE RunStep
  BY <1>2 DEF RunStep, Plain, Chrooted, Frame
<1>3. CASE UpdateLists
  BY <1>3 DEF UpdateLists, Frame
<1>4. CASE Divert \/ Undivert
  BY <1>4 DEF Divert, Undivert, Frame
<1>5. CASE Fails
  <2>1. diverted' \subseteq diverted \/ (apt /\ pc' = "alert")
    BY <1>5 DEF Fails
  <2>2. pc \notin {"complete", "exit0", "dead"}
    BY <1>5 DEF Fails, Plain, Chrooted
  <2> QED  BY <1>5, <2>1, <2>2 DEF Fails, Frame
<1>6. CASE InstallBoot
  BY <1>6 DEF InstallBoot, Frame
<1>7. CASE PartitionStep \/ PartitionFails
  BY <1>7 DEF PartitionStep, PartitionFails, CommandFails, Raise, Frame
<1>8. CASE DriveComes
  BY <1>8 DEF DriveComes, DriveFound, Frame
<1>9. CASE Mkfs
  BY <1>9 DEF Mkfs, Frame
<1>10. CASE MountBegins \/ Remount
  BY <1>10 DEF MountBegins, Remount, RemountBegins, Frame
<1>11. CASE OthersInterfere
  BY <1>11 DEF OthersInterfere, Unmounters, OthersUnmount, Frame
<1>12. CASE \E p \in Points : Mounting(p) \/ Remounting(p) \/ Unmounting(p)
  BY <1>12 DEF Mounting, MountNext, Remounting, RemountNext, Unmounting, UnmountNext, Frame
<1>13. CASE WriteFstab
  BY <1>13 DEF WriteFstab, Frame
<1>14. CASE Signals \/ NothingHeld
  BY <1>14 DEF Signals, NothingHeld, UnmountBegins, Frame
<1>15. CASE HolderEnds
  BY <1>15 DEF HolderEnds, Frame
<1>16. CASE SignalComplete \/ SignalAlert
  BY <1>16 DEF SignalComplete, SignalAlert, Frame
<1>17. CASE UNCHANGED vars
  BY <1>17 DEF vars, Frame
<1> QED
  BY <1>1, <1>2, <1>3, <1>4, <1>5, <1>6, <1>7, <1>8, <1>9, <1>10, <1>11, <1>12, <1>13, <1>14, <1>15, <1>16,
     <1>17 DEF Next, Install

\* The plan of the file systems is made before they are, with a drive to boot from.
Chosen == phase \notin {"drives", "prepare", "raised"} => Range(boot_drives) # {}
Built == pc \in {"mkfs", "mount", "mounting"} \cup PastMount => phase = "done"

LEMMA ChosenStep == ASSUME Chosen, [Next]_vars PROVE Chosen'
<1>1. ASSUME boot_drives' = boot_drives,
             phase \notin {"drives", "prepare", "raised"} \/ phase' = phase \/ phase' \in {"drives", "prepare", "raised"}
      PROVE  Chosen'
  BY <1>1 DEF Chosen, Range
<1>2. CASE PartitionStep
  <2>1. CASE Prepare
    <3>1. CASE phase' = "raised"
      BY <3>1 DEF Chosen
    <3>2. CASE phase' # "raised"
      <4>1. BootTargets # {} /\ boot_drives' = [i \in BootTargets |-> DriveOf(i)]
        BY <2>1, <3>2 DEF Prepare, Raise
      <4> QED  BY <4>1 DEF Chosen, Range
    <3> QED  BY <3>1, <3>2
  <2>2. CASE FindDrives \/ WaitForDrives \/ GrubPartition \/ GrubDone \/ ChangeSize \/ ChangeSizeDone
    BY <2>2, <1>1 DEF FindDrives, WaitForDrives, GrubPartition, GrubDone, ChangeSize, ChangeSizeDone, Enter, Raise,
                      GoOn, LoopEnds, planVars
  <2>3. CASE TargetItem \/ TargetsDone \/ (\E d \in Drives : RunParted(d)) \/ PartedDone
    BY <2>3, <1>1 DEF TargetItem, TargetsDone, RunParted, PartedDone, LoopEnds, planVars
  <2>4. CASE MdItem \/ MdDone \/ BCacheItem \/ BCacheDone \/ VgItem \/ VgDone \/ MakeVolume \/ WaitForSync \/ PartitionDone
    BY <2>4, <1>1 DEF MdItem, MdDone, BCacheItem, BCacheDone, VgItem, VgDone, MakeVolume, WaitForSync, PartitionDone,
                      LoopEnds, planVars
  <2> QED  BY <1>2, <2>1, <2>2, <2>3, <2>4 DEF PartitionStep, Partition
<1>3. CASE PartitionFails \/ DriveComes
  BY <1>3, <1>1 DEF PartitionFails, CommandFails, Raise, DriveComes, DriveFound, planVars
<1>4. CASE UNCHANGED <<boot_drives, phase>>
  BY <1>4, <1>1
<1>5. CASE Install /\ ~PartitionStep
  <2>1. UNCHANGED <<boot_drives, phase>>
    BY <1>5 DEF Install, Profile, RunStep, UpdateLists, Divert, Undivert, InstallBoot, PartitionEnds, Mkfs, MkfsDone,
       MountBegins, Mounting, Remounting, Unmounting, MountDone, Remount, RemountDone, WriteFstab, WriteMtab, Signals,
       NothingHeld, UmountFails, UnmountDone, SignalComplete, SignalAlert, OnlyStep, partitionVars, planVars
  <2> QED  BY <2>1, <1>4
<1>6. CASE Fails \/ OthersInterfere \/ HolderEnds \/ UNCHANGED vars
  BY <1>6, <1>4 DEF Fails, OthersInterfere, HolderEnds, vars, partitionVars, planVars
<1> QED  BY <1>2, <1>3, <1>5, <1>6 DEF Next

LEMMA BuiltStep == ASSUME Built, STypes, [Next]_vars PROVE Built'
<1>1. Moves /\ Frame
  BY MovesStep, FrameStep
<1>2. PartitionEnds /\ pc' # "alert" => phase' = "done"
  BY DEF PartitionEnds, OnlyStep, partitionVars
<1>3. "alert" \notin {"mkfs", "mount", "mounting"} \cup PastMount
  BY DEF PastMount, Setup, Filling, Leaving
<1> QED  BY <1>1, <1>2, <1>3 DEF Built, Moves, Frame

\* The file systems of the plan: where they are mounted, and their lines of fstab.
Lines == SwapLines \cup MountLines
Meant == \A p \in MountPointsOf(filesystem_list) : mount_points[p] = DeviceAt(p)
MeantKept == pc \in {"mounting"} \cup PastMount => Meant
FstabKept ==
  \/ fstab = {}
  \/ /\ fstab = Lines /\ Meant
     /\ pc \in PastFstab \cup Ended \cup {"alert"}
     /\ \A line \in fstab : line.device \in formatted
FstabWritten == pc \in PastFstab => fstab = Lines

LEMMA PlanUntouched ==
  ASSUME UNCHANGED filesystem_list
  PROVE  Lines' = Lines /\ (mount_points' = mount_points /\ Meant => Meant')
<1>1. ASSUME NEW p PROVE DeviceAt(p)' = DeviceAt(p)
  BY DEF DeviceAt
<1>2. MountPointsOf(filesystem_list)' = MountPointsOf(filesystem_list)
  BY DEF MountPointsOf
<1>3. SwapLines' = SwapLines
  BY DEF SwapLines
<1>4. MountLines' = MountLines
  BY <1>1, <1>2 DEF MountLines
<1>5. ASSUME mount_points' = mount_points, Meant PROVE Meant'
  BY <1>1, <1>2, <1>5 DEF Meant
<1> QED  BY <1>3, <1>4, <1>5 DEF Lines

LEMMA MeantStep == ASSUME MeantKept, STypes, [Next]_vars PROVE MeantKept'
<1>1. Moves /\ Frame
  BY MovesStep, FrameStep
<1>2. CASE MountBegins
  <2>1. /\ UNCHANGED filesystem_list
        /\ \A p \in MountPointsOf(filesystem_list) : mount_points'[p] = DeviceAt(p)
    BY <1>2 DEF MountBegins, partitionVars
  <2>2. MountPointsOf(filesystem_list)' = MountPointsOf(filesystem_list) /\ \A p : DeviceAt(p)' = DeviceAt(p)
    BY <2>1 DEF MountPointsOf, DeviceAt
  <2>4. Meant'
    BY <2>1, <2>2 DEF Meant
  <2> QED  BY <2>4 DEF MeantKept
<1>3. CASE ~MountBegins
  <2>1. pc' \in {"mounting"} \cup PastMount => pc \in {"mounting"} \cup PastMount /\ mount_points' = mount_points
    BY <1>1, <1>3 DEF Moves, Frame
  <2>2. "partition" \notin {"mounting"} \cup PastMount
    BY DEF PastMount, Setup, Filling, Leaving
  <2> QED  BY <1>1, <2>1, <2>2, PlanUntouched DEF MeantKept, Frame
<1> QED  BY <1>2, <1>3

LEMMA FstabStep ==
  ASSUME FstabKept, FstabWritten, MeantKept, STypes, [Next]_vars
  PROVE  FstabKept' /\ FstabWritten'
<1> USE DEF PastFstab, PastMount, Setup, Filling, Leaving, Ended
<1>1. Moves /\ Frame
  BY MovesStep, FrameStep
<1>2. CASE WriteFstab
  <2>1. pc = "fstab" /\ UNCHANGED <<filesystem_list, mount_points, formatted>>
    BY <1>2 DEF WriteFstab, partitionVars, mountVars
  <2>2. Lines' = Lines /\ Meant' /\ fstab = {}
    BY <2>1, PlanUntouched DEF MeantKept, FstabKept
  <2>3. \/ fstab' = Lines /\ (\A line \in Lines : line.device \in formatted) /\ pc' = "sources"
        \/ fstab' = {} /\ pc' = "alert"
    BY <1>2, <2>2, AfterIs DEF WriteFstab, Lines
  <2>4. CASE fstab' = {} /\ pc' = "alert"
    BY <2>4 DEF FstabKept, FstabWritten
  <2>5. CASE fstab' = Lines /\ (\A line \in Lines : line.device \in formatted) /\ pc' = "sources"
    <3>1. FstabWritten'
      BY <2>2, <2>5 DEF FstabWritten
    <3>2. fstab' = Lines' /\ Meant' /\ \A line \in fstab' : line.device \in formatted'
      BY <2>1, <2>2, <2>5
    <3> QED  BY <2>5, <3>1, <3>2 DEF FstabKept
  <2> QED  BY <2>3, <2>4, <2>5
<1>3. CASE MountBegins
  <2>1. pc = "mount" /\ pc' = "mounting" /\ fstab' = fstab
    BY <1>3 DEF MountBegins, systemVars
  <2> QED  BY <2>1 DEF FstabKept, FstabWritten
<1>4. CASE ~WriteFstab /\ ~MountBegins
  <2>1. fstab' = fstab /\ mount_points' = mount_points /\ formatted \subseteq formatted'
    BY <1>1, <1>4 DEF Frame
  <2>2. CASE fstab = {} /\ pc \notin PastFstab
    BY <1>1, <1>4, <2>1, <2>2 DEF FstabKept, FstabWritten, Moves
  <2>3. CASE pc \in PastFstab \cup Ended \cup {"alert"}
    <3>1. filesystem_list' = filesystem_list
      BY <1>1, <2>3 DEF Frame
    <3>2. Lines' = Lines /\ (Meant => Meant')
      BY <2>1, <3>1, PlanUntouched
    <3>3. pc' \in PastFstab => pc \in PastFstab
      BY <1>1, <1>4 DEF Moves
    <3>4. pc' \in PastFstab \cup Ended \cup {"alert"}
      BY <1>1, <2>3 DEF Moves
    <3>5. FstabWritten'
      BY <2>1, <3>2, <3>3 DEF FstabWritten
    <3>6. CASE fstab = {}
      BY <2>1, <3>5, <3>6 DEF FstabKept
    <3>7. CASE fstab # {}
      <4>1. fstab' = Lines' /\ Meant' /\ \A line \in fstab' : line.device \in formatted'
        BY <2>1, <3>2, <3>7 DEF FstabKept
      <4> QED  BY <3>4, <3>5, <4>1 DEF FstabKept
    <3> QED  BY <3>5, <3>6, <3>7
  <2> QED  BY <2>2, <2>3 DEF FstabKept, FstabWritten
<1> QED  BY <1>2, <1>3, <1>4

\* The end: nothing runs in the new system, its services are its own, and it can boot.
EndKept ==
  /\ pc \in {"unmounting", "complete"} => holders = 0
  /\ ~apt => diverted = {}
  /\ pc \in Leaving => diverted = {}
  /\ pc \in PastBoot => grubbed = Range(boot_drives)
ToldKept ==
  told = "complete" =>
    /\ pc \in {"exit0", "dead"}
    /\ mounts = <<>> /\ diverted = {} /\ holders = 0
    /\ grubbed = Range(boot_drives) /\ grubbed # {} /\ fstab = Lines

LEMMA EndStep == ASSUME EndKept, STypes, [Next]_vars PROVE EndKept'
<1> USE DEF PastBoot, Filling, Leaving
<1>1. Moves /\ Frame
  BY MovesStep, FrameStep
<1>2. pc' \in {"unmounting", "complete"} => holders' = 0
  <2>1. NothingHeld => holders' = 0
    BY DEF NothingHeld
  <2> QED  BY <1>1, <2>1 DEF EndKept, Moves, Frame
<1>3. ~apt' => diverted' = {}
  <2>1. Divert /\ ~apt => diverted' = {}
    BY DEF Divert
  <2> QED  BY <1>1, <2>1 DEF EndKept, Frame
<1>4. pc' \in Leaving => diverted' = {}
  <2>1. Undivert => diverted' = {}
    BY <1>3 DEF Undivert, EndKept, STypes
  <2>2. Divert => pc' = "preBase"
    BY AfterIs DEF Divert
  <2> QED  BY <1>1, <2>1, <2>2 DEF EndKept, Moves, Frame
<1>5. pc' \in PastBoot => grubbed' = Range(boot_drives)'
  <2>1. InstallBoot => grubbed' = Range(boot_drives) /\ boot_drives' = boot_drives
    BY DEF InstallBoot, partitionVars, planVars
  <2>2. CASE InstallBoot
    BY <2>1, <2>2
  <2>3. CASE ~InstallBoot
    BY <1>1, <2>3 DEF EndKept, Moves, Frame
  <2> QED  BY <2>2, <2>3
<1> QED  BY <1>2, <1>3, <1>4, <1>5 DEF EndKept

LEMMA ToldStep ==
  ASSUME ToldKept, EndKept, FstabWritten, Chosen, Built, MountsPlaced, STypes, [Next]_vars
  PROVE  ToldKept'
<1> USE DEF PastBoot, PastMount, PastFstab, Filling, Leaving, Setup
<1>1. Moves /\ Frame
  BY MovesStep, FrameStep
<1>2. CASE SignalComplete
  <2>1. /\ pc = "complete" /\ pc' \in {"exit0", "dead"}
        /\ UNCHANGED <<mounts, diverted, holders, grubbed, fstab, boot_drives, filesystem_list>>
    BY <1>2 DEF SignalComplete, partitionVars, planVars, mountVars, systemVars
  <2>2. /\ mounts = <<>> /\ diverted = {} /\ holders = 0 /\ grubbed = Range(boot_drives) /\ fstab = Lines
    BY <2>1 DEF MountsPlaced, EndKept, FstabWritten
  <2>3. grubbed # {}
    BY <2>1, <2>2 DEF Chosen, Built
  <2> QED  BY <2>1, <2>2, <2>3, PlanUntouched DEF ToldKept
<1>3. CASE SignalAlert
  BY <1>3 DEF SignalAlert, ToldKept
<1>4. CASE ~SignalComplete /\ ~SignalAlert
  <2>1. told' = told
    BY <1>1, <1>4 DEF Frame
  <2>2. CASE told = "complete"
    <3>1. pc \in {"exit0", "dead"} /\ pc' = pc
      BY <1>1, <2>2 DEF ToldKept, Moves
    <3>2. ~WriteFstab /\ ~InstallBoot /\ ~Divert /\ ~Fails
      BY <3>1 DEF WriteFstab, InstallBoot, Divert, Fails, Plain, Chrooted
    <3>3. /\ mounts' = mounts /\ diverted' \subseteq diverted /\ fstab' = fstab /\ grubbed' = grubbed
          /\ UNCHANGED <<boot_drives, filesystem_list>> /\ (holders = 0 => holders' = 0)
      BY <1>1, <3>1, <3>2 DEF Frame
    <3> QED  BY <2>2, <3>1, <3>3, PlanUntouched DEF ToldKept
  <2> QED  BY <2>1, <2>2 DEF ToldKept
<1> QED  BY <1>2, <1>3, <1>4

-----------------------------------------------------------------------------
(* The theorems of the installation.                                       *)

PcKept == pc \in Steps
SInv == STypes /\ PcKept /\ Chosen /\ Built /\ MeantKept /\ FstabKept /\ FstabWritten /\ EndKept /\ ToldKept

LEMMA SystemInvariance == Spec => [](MInv /\ SInv)
<1>1. Init => MInv /\ SInv
  <2>1. Init => MInv
    BY DEF Init, MountInit, MInv, MountsKept, MountsPlaced, Mounted, NothingHidden, Uncovered, Early, PastMount,
           Whole, Setup, Filling, Leaving
  <2>2. Init => STypes
    BY MaxHoldersAssumption DEF Init, STypes
  <2>3. Init => PcKept /\ Chosen /\ Built /\ MeantKept /\ FstabKept /\ FstabWritten /\ EndKept /\ ToldKept
    BY DEF Init, PartitionInit, PcKept, Steps, Chosen, Built, MeantKept, FstabKept, FstabWritten, EndKept, ToldKept,
           Early, PastMount, PastFstab, PastBoot, Setup, Filling, Leaving
  <2> QED  BY <2>1, <2>2, <2>3 DEF SInv
<1>2. MInv /\ SInv /\ [Next]_vars => (MInv /\ SInv)'
  <2> SUFFICES ASSUME MInv, SInv, [Next]_vars PROVE MInv' /\ SInv'
    OBVIOUS
  <2>1. MInv'
    BY MountsStep, PlacedStep DEF MInv
  <2>2. STypes' /\ PcKept'
    BY STypesStep, MovesStep DEF SInv, PcKept, Moves
  <2>3. Chosen' /\ Built' /\ MeantKept'
    BY ChosenStep, BuiltStep, MeantStep DEF SInv
  <2>4. FstabKept' /\ FstabWritten' /\ EndKept' /\ ToldKept'
    BY FstabStep, EndStep, ToldStep DEF SInv, MInv
  <2> QED  BY <2>1, <2>2, <2>3, <2>4 DEF SInv
<1> QED  BY <1>1, <1>2, PTL DEF Spec

\* The state is of its types.
THEOREM TypeCorrect == Spec => []TypeOK
<1>1. MInv /\ SInv => TypeOK
  <2> SUFFICES ASSUME MInv, SInv PROVE TypeOK
    OBVIOUS
  <2>1. \A i \in 1..27 : Program[i] \in Range(Program)
    BY DEF Program, Range
  <2>2. Early \cup (PastMount \ {"remounting", "remountingAgain", "unmounting"}) \subseteq {Program[i] : i \in 1..27}
    <3>1. /\ Program[1] = "profile" /\ Program[2] = "configure" /\ Program[3] = "partition" /\ Program[4] = "mkfs"
          /\ Program[5] = "mount" /\ Program[6] = "bootstrap" /\ Program[7] = "remount" /\ Program[8] = "fstab"
          /\ Program[9] = "sources" /\ Program[10] = "baseConfig" /\ Program[11] = "divert" /\ Program[12] = "preBase"
          /\ Program[13] = "installBase" /\ Program[14] = "remountAgain"
      BY DEF Program
    <3>2. /\ Program[15] = "users" /\ Program[16] = "boot" /\ Program[17] = "packages" /\ Program[18] = "utils"
          /\ Program[19] = "update" /\ Program[20] = "fullConfig" /\ Program[21] = "postInstall"
          /\ Program[22] = "undivert" /\ Program[23] = "clean" /\ Program[24] = "unmount" /\ Program[25] = "lsof"
          /\ Program[26] = "umount" /\ Program[27] = "complete"
      BY DEF Program
    <3>3. Early \cup Setup \cup {"bootstrap", "remount", "installBase", "remountAgain"} \subseteq {Program[i] : i \in 1..27}
      BY <3>1 DEF Early, Setup
    <3>4. Filling \cup {"clean", "unmount", "lsof", "complete"} \subseteq {Program[i] : i \in 1..27}
      BY <3>2 DEF Filling
    <3> QED  BY <3>3, <3>4 DEF PastMount, Leaving
  <2>3. pc \in Range(Program) \cup Ended \cup {"alert", "mounting", "remounting", "remountingAgain", "unmounting"}
    BY <2>1, <2>2 DEF SInv, PcKept, Steps
  <2>4. mount_list \subseteq Points /\ going \subseteq DOMAIN mount_points
    BY DEF MInv, MountsKept
  <2> QED  BY <2>3, <2>4 DEF TypeOK, SInv, STypes
<1> QED  BY <1>1, SystemInvariance, PTL

\* The installation that Contractor is told of is whole: all is unmounted, no service is
\* diverted, every boot drive has a boot loader, and fstab names what was formatted and
\* mounted (installer.py, filesystem.py writefstab, do_task).
THEOREM InstalledWhole == Spec => []InstalledIsWhole
<1>1. MInv /\ SInv => InstalledIsWhole
  <2> SUFFICES ASSUME SInv PROVE FstabIsMounted /\ CompleteIsWhole
    BY DEF InstalledIsWhole
  <2>1. \A line \in Lines : line.point # NoMount => line.point \in MountPointsOf(filesystem_list) /\ line.device = DeviceAt(line.point)
    BY DEF Lines, SwapLines, MountLines
  <2>2. FstabIsMounted
    BY <2>1 DEF SInv, FstabKept, Meant, FstabIsMounted
  <2>3. {line.point : line \in Lines} \ {NoMount} = MountPointsOf(filesystem_list)
    <3>1. ASSUME NEW p \in MountPointsOf(filesystem_list) PROVE p # NoMount /\ \E line \in Lines : line.point = p
      <4>1. [point |-> p, device |-> DeviceAt(p)] \in Lines
        BY DEF Lines, MountLines
      <4>2. p # NoMount
        BY DEF MountPointsOf
      <4> QED  BY <4>1, <4>2
    <3> QED  BY <2>1, <3>1
  <2>4. CompleteIsWhole
    BY <2>3 DEF SInv, ToldKept, CompleteIsWhole
  <2> QED  BY <2>2, <2>4
<1> QED  BY <1>1, SystemInvariance, PTL
-----------------------------------------------------------------------------
(* The uses of devices.                                                    *)

Kinds == {"md", "pv", "cache", "backing"}
IsSequence(s) == s \in Seq(Range(s))

\* What a sequence is that one element is added to.
LEMMA Appended ==
  ASSUME NEW s, IsSequence(s), NEW e
  PROVE  /\ IsSequence(Append(s, e)) /\ DOMAIN s = 1..Len(s) /\ Len(s) \in Nat
         /\ DOMAIN Append(s, e) = 1..(Len(s) + 1) /\ Len(Append(s, e)) = Len(s) + 1
         /\ \A i \in 1..Len(s) : Append(s, e)[i] = s[i]
         /\ Append(s, e)[Len(s) + 1] = e
<1> DEFINE S == Range(s) \cup {e}
           t == Append(s, e)
<1>1. s \in Seq(Range(s)) /\ DOMAIN s = 1..Len(s) /\ Len(s) \in Nat
  BY DEF IsSequence
<1>2. \A i \in 1..Len(s) : s[i] \in Range(s)
  BY <1>1 DEF Range
<1>3. s \in Seq(S)
  BY <1>1, <1>2
<1>4. /\ t \in Seq(S) /\ DOMAIN t = 1..(Len(s) + 1) /\ Len(t) = Len(s) + 1
      /\ \A i \in 1..Len(s) : t[i] = s[i]
      /\ t[Len(s) + 1] = e
  BY <1>1, <1>3
<1> HIDE DEF S, t
<1>5. \A i \in 1..Len(t) : t[i] \in Range(t)
  BY <1>1, <1>4 DEF Range
<1>6. t \in Seq(Range(t))
  BY <1>1, <1>4, <1>5
<1> QED  BY <1>1, <1>4, <1>6 DEF IsSequence, t

\* What a sequence of one element, and one of none, is.
LEMMA OneAlone ==
  ASSUME NEW e
  PROVE  IsSequence(<<e>>) /\ IsSequence(<<>>) /\ DOMAIN <<e>> = {1} /\ <<e>>[1] = e /\ DOMAIN <<>> = {}
<1>1. <<e>> \in Seq({e}) /\ DOMAIN <<e>> = {1} /\ <<e>>[1] = e
  OBVIOUS
<1>2. Range(<<e>>) = {e}
  BY <1>1 DEF Range
<1>3. <<>> \in Seq(Range(<<>>)) /\ DOMAIN <<>> = {}
  OBVIOUS
<1> QED  BY <1>1, <1>2, <1>3 DEF IsSequence

\* The uses, one by one: the members of the groups, and the file systems.
OneByOne ==
  /\ \A use \in Uses : use = <<use[1], use[2], use[3]>>
  /\ \A kind, g, i :
       <<kind, g, i>> \in Uses <=>
         \/ kind \in Kinds /\ g \in Groups /\ i \in DOMAIN Groupings[kind][g]
         \/ kind = "fs" /\ g = 0 /\ i \in DOMAIN filesystem_list

LEMMA UsesAre == OneByOne
<1>1. DOMAIN Groupings = Kinds
  BY DEF Groupings, Kinds
<1>2. InGroups = UNION {{<<kind, g, i>> : i \in DOMAIN Groupings[kind][g]} : kind \in Kinds, g \in Groups}
  BY <1>1 DEF InGroups
<1>3. ASSUME NEW use \in InGroups
      PROVE  \E kind \in Kinds, g \in Groups : \E i \in DOMAIN Groupings[kind][g] : use = <<kind, g, i>>
  BY <1>2
<1>4. ASSUME NEW kind \in Kinds, NEW g \in Groups, NEW i \in DOMAIN Groupings[kind][g]
      PROVE  <<kind, g, i>> \in InGroups
  <2> DEFINE In(k, h) == {<<k, h, j>> : j \in DOMAIN Groupings[k][h]}
  <2>1. <<kind, g, i>> \in In(kind, g) /\ In(kind, g) \in {In(k, h) : k \in Kinds, h \in Groups}
    OBVIOUS
  <2>2. InGroups = UNION {In(k, h) : k \in Kinds, h \in Groups}
    BY <1>2
  <2> HIDE DEF In
  <2>3. <<kind, g, i>> \in UNION {In(k, h) : k \in Kinds, h \in Groups}
    BY <2>1
  <2> QED  BY <2>2, <2>3
<1>5. \A use \in AsFileSystems : \E i \in DOMAIN filesystem_list : use = <<"fs", 0, i>>
  BY DEF AsFileSystems
<1>6. \A i \in DOMAIN filesystem_list : <<"fs", 0, i>> \in AsFileSystems
  BY DEF AsFileSystems
<1>7. \A use \in Uses : use = <<use[1], use[2], use[3]>>
  BY <1>3, <1>5 DEF Uses
<1>8. ASSUME NEW kind, NEW g, NEW i, <<kind, g, i>> \in Uses
      PROVE  \/ kind \in Kinds /\ g \in Groups /\ i \in DOMAIN Groupings[kind][g]
             \/ kind = "fs" /\ g = 0 /\ i \in DOMAIN filesystem_list
  <2>1. CASE <<kind, g, i>> \in InGroups
    BY <1>3, <2>1
  <2>2. CASE <<kind, g, i>> \in AsFileSystems
    BY <1>5, <2>2
  <2> QED  BY <1>8, <2>1, <2>2 DEF Uses
<1> QED  BY <1>4, <1>6, <1>7, <1>8 DEF Uses, OneByOne

\* They are so in the next state too.
LEMMA UsesAreThen == OneByOne'
BY UsesAre, PTL
\* The lists are sequences, one for each group.
Listed ==
  /\ \A kind \in Kinds : DOMAIN Groupings[kind] = Groups /\ \A g \in Groups : IsSequence(Groupings[kind][g])
  /\ IsSequence(filesystem_list)

\* A device gets at most one use more, and the other uses stay.
NewUse(device) ==
  \E last : \A use \in Uses' :
    IF use = last THEN DeviceOf(use)' = device ELSE use \in Uses /\ DeviceOf(use)' = DeviceOf(use)

\* A device that had no use has one then.
LEMMA UseIsOne ==
  ASSUME OneUse, NEW device, NewUse(device), \A use \in Uses : DeviceOf(use) # device
  PROVE  /\ OneUse'
         /\ \A use \in Uses' : DeviceOf(use)' = device \/ \E old \in Uses : DeviceOf(use)' = DeviceOf(old)
<1>1. PICK last : \A use \in Uses' : IF use = last THEN DeviceOf(use)' = device
                                     ELSE use \in Uses /\ DeviceOf(use)' = DeviceOf(use)
  BY DEF NewUse
<1>2. ASSUME NEW p \in Uses', NEW q \in Uses', DeviceOf(p)' = DeviceOf(q)' PROVE p = q
  <2>1. CASE p = last /\ q # last
    BY <1>1, <1>2, <2>1
  <2>2. CASE p # last /\ q = last
    BY <1>1, <1>2, <2>2
  <2>3. CASE p # last /\ q # last
    <3>1. p \in Uses /\ q \in Uses /\ DeviceOf(p) = DeviceOf(q)
      BY <1>1, <1>2, <2>3
    <3> QED  BY <3>1 DEF OneUse
  <2> QED  BY <2>1, <2>2, <2>3
<1>3. OneUse'
  BY <1>2 DEF OneUse
<1> QED  BY <1>1, <1>3

\* Where the lists stay, the uses do.
LEMMA UsesStay ==
  ASSUME UNCHANGED <<groupVars, filesystem_list>>
  PROVE  Uses' = Uses /\ (\A use \in Uses : DeviceOf(use)' = DeviceOf(use)) /\ (OneUse => OneUse') /\ (Listed => Listed')
<1>1. Groupings' = Groupings /\ filesystem_list' = filesystem_list
  BY DEF groupVars, Groupings
<1>2. Uses' = Uses
  BY <1>1 DEF Uses, InGroups, AsFileSystems
<1>3. \A use \in Uses : DeviceOf(use)' = DeviceOf(use)
  BY <1>1 DEF DeviceOf
<1>4. OneUse => OneUse'
  BY <1>2, <1>3 DEF OneUse
<1>5. Listed => Listed'
  BY <1>1 DEF Listed
<1> QED  BY <1>2, <1>3, <1>4, <1>5

\* A device becomes a file system.
LEMMA FileSystemIsUse ==
  ASSUME Listed, NEW mount, NEW type, NEW device, AddFileSystem(mount, type, device), UNCHANGED groupVars
  PROVE  NewUse(device) /\ Listed'
<1> DEFINE fs == [mount |-> IF type = "swap" THEN NoMount ELSE mount, type |-> type, device |-> device]
           last == Len(filesystem_list) + 1
<1>1. Groupings' = Groupings /\ filesystem_list' = Append(filesystem_list, fs)
  BY DEF groupVars, Groupings, AddFileSystem
<1>2. IsSequence(filesystem_list)
  BY DEF Listed
<1>3. /\ IsSequence(filesystem_list') /\ DOMAIN filesystem_list' = 1..last /\ Len(filesystem_list) \in Nat
      /\ DOMAIN filesystem_list = 1..Len(filesystem_list) /\ filesystem_list'[last] = fs
      /\ \A i \in 1..Len(filesystem_list) : filesystem_list'[i] = filesystem_list[i]
  BY <1>1, <1>2, Appended
<1>4. Listed'
  BY <1>1, <1>3 DEF Listed
<1>5. ASSUME NEW use \in Uses'
      PROVE  IF use = <<"fs", 0, last>> THEN DeviceOf(use)' = device ELSE use \in Uses /\ DeviceOf(use)' = DeviceOf(use)
  <2>1. use = <<use[1], use[2], use[3]>>
    BY UsesAreThen DEF OneByOne
  <2>2. CASE use[1] \in Kinds
    <3>1. use[1] # "fs"
      BY <2>2 DEF Kinds
    <3>2. use[2] \in Groups /\ use[3] \in DOMAIN Groupings[use[1]][use[2]]
      BY <1>1, <2>1, <3>1, UsesAreThen DEF OneByOne
    <3>3. use \in Uses
      BY <2>1, <2>2, <3>2, UsesAre DEF OneByOne
    <3>4. DeviceOf(use)' = DeviceOf(use)
      BY <1>1, <3>1 DEF DeviceOf
    <3> QED  BY <2>1, <3>1, <3>3, <3>4
  <2>3. CASE use[1] \notin Kinds
    <3>1. use[1] = "fs" /\ use[2] = 0 /\ use[3] \in 1..last
      BY <1>3, <2>1, <2>3, UsesAreThen DEF OneByOne
    <3>2. DeviceOf(use)' = filesystem_list'[use[3]].device
      BY <3>1 DEF DeviceOf
    <3>3. CASE use[3] = last
      <4>1. use = <<"fs", 0, last>>
        BY <2>1, <3>1, <3>3
      <4>2. DeviceOf(use)' = device
        BY <1>3, <3>2, <3>3
      <4> QED  BY <4>1, <4>2
    <3>4. CASE use[3] # last
      <4>1. use[3] \in 1..Len(filesystem_list)
        BY <1>3, <3>1, <3>4
      <4>2. use # <<"fs", 0, last>>
        BY <2>1, <3>4
      <4>3. use \in Uses
        BY <1>3, <2>1, <3>1, <4>1, UsesAre DEF OneByOne
      <4>4. DeviceOf(use)' = DeviceOf(use)
        BY <1>3, <3>1, <3>2, <4>1 DEF DeviceOf
      <4> QED  BY <4>2, <4>3, <4>4
    <3> QED  BY <3>3, <3>4
  <2> QED  BY <2>2, <2>3
<1> QED  BY <1>4, <1>5 DEF NewUse

\* In the group g the sequence is s now, the same but for the device at `last'.
Joins(kind, g, s, last, device) ==
  /\ kind \in Kinds /\ filesystem_list' = filesystem_list
  /\ \A k \in Kinds : DOMAIN Groupings'[k] = Groups
  /\ \A k \in Kinds : \A h \in Groups :
       Groupings'[k][h] = IF k = kind /\ h = g THEN s ELSE Groupings[k][h]
  /\ g \in Groups =>
       /\ IsSequence(s)
       /\ \A i \in DOMAIN s : IF i = last THEN s[i] = device
                              ELSE i \in DOMAIN Groupings[kind][g] /\ s[i] = Groupings[kind][g][i]

\* A device joins a group, behind the others or in the place of another.
LEMMA MemberIsUse ==
  ASSUME Listed, NEW device, NEW kind, NEW g, NEW s, NEW last, Joins(kind, g, s, last, device)
  PROVE  NewUse(device) /\ Listed'
<1> USE DEF Joins
<1>1. Listed'
  BY DEF Listed
<1>2. ASSUME NEW use \in Uses'
      PROVE  IF use = <<kind, g, last>> THEN DeviceOf(use)' = device ELSE use \in Uses /\ DeviceOf(use)' = DeviceOf(use)
  <2>1. use = <<use[1], use[2], use[3]>>
    BY UsesAreThen DEF OneByOne
  <2>2. CASE use[1] \in Kinds
    <3>1. use[1] # "fs"
      BY <2>2 DEF Kinds
    <3>2. use[2] \in Groups /\ use[3] \in DOMAIN Groupings'[use[1]][use[2]]
      BY <2>1, <3>1, UsesAreThen DEF OneByOne
    <3>3. DeviceOf(use)' = Groupings'[use[1]][use[2]][use[3]] /\ DeviceOf(use) = Groupings[use[1]][use[2]][use[3]]
      BY <3>1 DEF DeviceOf
    <3>4. CASE use[1] = kind /\ use[2] = g
      <4>1. Groupings'[use[1]][use[2]] = s /\ g \in Groups
        BY <3>2, <3>4
      <4>2. CASE use[3] = last
        BY <2>1, <3>2, <3>3, <3>4, <4>1, <4>2
      <4>3. CASE use[3] # last
        <5>1. use[3] \in DOMAIN Groupings[kind][g] /\ s[use[3]] = Groupings[kind][g][use[3]]
          BY <3>2, <4>1, <4>3
        <5>2. use \in Uses
          BY <2>1, <3>4, <4>1, <5>1, UsesAre DEF OneByOne
        <5>3. use # <<kind, g, last>>
          BY <2>1, <4>3
        <5> QED  BY <3>3, <3>4, <4>1, <5>1, <5>2, <5>3
      <4> QED  BY <4>2, <4>3
    <3>5. CASE ~(use[1] = kind /\ use[2] = g)
      <4>1. Groupings'[use[1]][use[2]] = Groupings[use[1]][use[2]]
        BY <2>2, <3>2, <3>5
      <4>2. use \in Uses
        BY <2>1, <2>2, <3>2, <4>1, UsesAre DEF OneByOne
      <4>3. use # <<kind, g, last>>
        BY <2>1, <3>5
      <4> QED  BY <3>3, <4>1, <4>2, <4>3
    <3> QED  BY <3>4, <3>5
  <2>3. CASE use[1] \notin Kinds
    <3>1. use[1] = "fs" /\ use[2] = 0 /\ use[3] \in DOMAIN filesystem_list
      BY <2>1, <2>3, UsesAreThen DEF OneByOne
    <3>2. use \in Uses
      BY <2>1, <3>1, UsesAre DEF OneByOne
    <3>3. DeviceOf(use)' = DeviceOf(use) /\ use # <<kind, g, last>>
      BY <2>1, <2>3, <3>1 DEF DeviceOf
    <3> QED  BY <3>2, <3>3
  <2> QED  BY <2>2, <2>3
<1> QED  BY <1>1, <1>2 DEF NewUse
\* A device without a use changes nothing.
LEMMA NoUseIsUse ==
  ASSUME Listed, NEW device, UNCHANGED <<groupVars, filesystem_list>>
  PROVE  NewUse(device) /\ Listed'
<1>1. Uses' = Uses /\ (\A use \in Uses : DeviceOf(use)' = DeviceOf(use)) /\ Listed'
  BY UsesStay
<1>2. <<"none", 0, 0>> \notin Uses
  BY UsesAre DEF OneByOne, Kinds
<1>3. \A use \in Uses' : use # <<"none", 0, 0>> /\ use \in Uses /\ DeviceOf(use)' = DeviceOf(use)
  BY <1>1, <1>2
<1> QED  BY <1>1, <1>3 DEF NewUse

\* A device becomes a part of a bcache device.
LEMMA PartIsUse ==
  ASSUME Listed, NEW item, NEW device, UseInBCache(item, device)
  PROVE  NewUse(device) /\ Listed'
<1> DEFINE g == item.group
<1>1. /\ DOMAIN Groupings = Kinds /\ DOMAIN md_list = Groups /\ DOMAIN pv_list = Groups
      /\ DOMAIN bcache_cache_list = Groups /\ DOMAIN bcache_backing_list = Groups
  BY DEF Listed, Groupings, Kinds
<1>2. IsSequence(<<device>>) /\ DOMAIN <<device>> = {1} /\ <<device>>[1] = device
  BY OneAlone
<1>3. CASE item.as = "cache"
  <2>1. /\ bcache_cache_list' = [bcache_cache_list EXCEPT ![g] = <<device>>] /\ filesystem_list' = filesystem_list
        /\ UNCHANGED <<md_list, pv_list, bcache_backing_list>>
    BY <1>3 DEF UseInBCache
  <2>2. \A k \in Kinds : DOMAIN Groupings'[k] = Groups
    BY <1>1, <2>1 DEF Kinds, Groupings
  <2>3. \A k \in Kinds : \A h \in Groups :
          Groupings'[k][h] = IF k = "cache" /\ h = g THEN <<device>> ELSE Groupings[k][h]
    BY <1>1, <2>1 DEF Kinds, Groupings
  <2>4. \A i \in DOMAIN <<device>> : IF i = 1 THEN <<device>>[i] = device
                                     ELSE i \in DOMAIN Groupings["cache"][g] /\ <<device>>[i] = Groupings["cache"][g][i]
    BY <1>2
  <2>5. "cache" \in Kinds
    BY DEF Kinds
  <2>6. Joins("cache", g, <<device>>, 1, device)
    BY <1>2, <2>1, <2>2, <2>3, <2>4, <2>5 DEF Joins
  <2> QED  BY <2>6, MemberIsUse
<1>4. CASE item.as = "backing"
  <2>1. /\ bcache_backing_list' = [bcache_backing_list EXCEPT ![g] = <<device>>] /\ filesystem_list' = filesystem_list
        /\ UNCHANGED <<md_list, pv_list, bcache_cache_list>>
    BY <1>4 DEF UseInBCache
  <2>2. \A k \in Kinds : DOMAIN Groupings'[k] = Groups
    BY <1>1, <2>1 DEF Kinds, Groupings
  <2>3. \A k \in Kinds : \A h \in Groups :
          Groupings'[k][h] = IF k = "backing" /\ h = g THEN <<device>> ELSE Groupings[k][h]
    BY <1>1, <2>1 DEF Kinds, Groupings
  <2>4. \A i \in DOMAIN <<device>> : IF i = 1 THEN <<device>>[i] = device
                                     ELSE i \in DOMAIN Groupings["backing"][g] /\ <<device>>[i] = Groupings["backing"][g][i]
    BY <1>2
  <2>5. "backing" \in Kinds
    BY DEF Kinds
  <2>6. Joins("backing", g, <<device>>, 1, device)
    BY <1>2, <2>1, <2>2, <2>3, <2>4, <2>5 DEF Joins
  <2> QED  BY <2>6, MemberIsUse
<1>5. CASE item.as \notin {"cache", "backing"}
  <2>1. UNCHANGED <<groupVars, filesystem_list>>
    BY <1>5 DEF UseInBCache, groupVars
  <2> QED  BY <2>1, NoUseIsUse
<1> QED  BY <1>3, <1>4, <1>5

\* A device joins an array, or a volume group.
LEMMA JoinIsUse ==
  ASSUME Listed, NEW g, NEW device, UNCHANGED <<bcache_cache_list, bcache_backing_list, filesystem_list>>,
         \/ md_list' = Add(md_list, g, device) /\ pv_list' = pv_list
         \/ pv_list' = Add(pv_list, g, device) /\ md_list' = md_list
  PROVE  NewUse(device) /\ Listed'
<1>1. /\ DOMAIN md_list = Groups /\ DOMAIN pv_list = Groups
      /\ DOMAIN bcache_cache_list = Groups /\ DOMAIN bcache_backing_list = Groups
      /\ g \in Groups => IsSequence(md_list[g]) /\ IsSequence(pv_list[g])
  BY DEF Listed, Groupings, Kinds
<1>2. ASSUME NEW s, IsSequence(s)
      PROVE  /\ IsSequence(Append(s, device))
             /\ \A i \in DOMAIN Append(s, device) :
                  IF i = Len(s) + 1 THEN Append(s, device)[i] = device
                  ELSE i \in DOMAIN s /\ Append(s, device)[i] = s[i]
  BY <1>2, Appended
<1>3. CASE md_list' = Add(md_list, g, device) /\ pv_list' = pv_list
  <2> DEFINE s == Append(md_list[g], device)
  <2>1. md_list' = [md_list EXCEPT ![g] = s]
    BY <1>3 DEF Add
  <2> HIDE DEF s
  <2>2. \A k \in Kinds : DOMAIN Groupings'[k] = Groups
    BY <1>1, <1>3, <2>1 DEF Kinds, Groupings
  <2>3. \A k \in Kinds : \A h \in Groups : Groupings'[k][h] = IF k = "md" /\ h = g THEN s ELSE Groupings[k][h]
    BY <1>1, <1>3, <2>1 DEF Kinds, Groupings
  <2>4. "md" \in Kinds /\ Groupings["md"] = md_list
    BY DEF Kinds, Groupings
  <2>5. g \in Groups => IsSequence(s) /\ \A i \in DOMAIN s : IF i = Len(md_list[g]) + 1 THEN s[i] = device
                                       ELSE i \in DOMAIN Groupings["md"][g] /\ s[i] = Groupings["md"][g][i]
    BY <1>1, <1>2, <2>4 DEF s
  <2>6. Joins("md", g, s, Len(md_list[g]) + 1, device)
    BY <2>2, <2>3, <2>4, <2>5 DEF Joins
  <2> QED  BY <2>6, MemberIsUse
<1>4. CASE pv_list' = Add(pv_list, g, device) /\ md_list' = md_list
  <2> DEFINE s == Append(pv_list[g], device)
  <2>1. pv_list' = [pv_list EXCEPT ![g] = s]
    BY <1>4 DEF Add
  <2> HIDE DEF s
  <2>2. \A k \in Kinds : DOMAIN Groupings'[k] = Groups
    BY <1>1, <1>4, <2>1 DEF Kinds, Groupings
  <2>3. \A k \in Kinds : \A h \in Groups : Groupings'[k][h] = IF k = "pv" /\ h = g THEN s ELSE Groupings[k][h]
    BY <1>1, <1>4, <2>1 DEF Kinds, Groupings
  <2>4. "pv" \in Kinds /\ Groupings["pv"] = pv_list
    BY DEF Kinds, Groupings
  <2>5. g \in Groups => IsSequence(s) /\ \A i \in DOMAIN s : IF i = Len(pv_list[g]) + 1 THEN s[i] = device
                                       ELSE i \in DOMAIN Groupings["pv"][g] /\ s[i] = Groupings["pv"][g][i]
    BY <1>1, <1>2, <2>4 DEF s
  <2>6. Joins("pv", g, s, Len(pv_list[g]) + 1, device)
    BY <2>2, <2>3, <2>4, <2>5 DEF Joins
  <2> QED  BY <2>6, MemberIsUse
<1> QED  BY <1>3, <1>4

\* What a partition is for is one use at most.
LEMMA DeviceIsUse ==
  ASSUME Listed, NEW item, NEW device, UseDevice(item, device)
  PROVE  NewUse(device) /\ Listed'
<1>1. CASE md_list' = Add(md_list, item.group, device)
           /\ UNCHANGED <<pv_list, bcache_cache_list, bcache_backing_list, filesystem_list>>
  BY <1>1, JoinIsUse
<1>2. CASE pv_list' = Add(pv_list, item.group, device)
           /\ UNCHANGED <<md_list, bcache_cache_list, bcache_backing_list, filesystem_list>>
  BY <1>2, JoinIsUse
<1>3. CASE UseInBCache(item, device)
  BY <1>3, PartIsUse
<1>4. CASE UseAsFileSystem(item, device)
  BY <1>4, FileSystemIsUse DEF UseAsFileSystem
<1>5. CASE UNCHANGED <<groupVars, filesystem_list>>
  BY <1>5, NoUseIsUse
<1> QED  BY <1>1, <1>2, <1>3, <1>4, <1>5 DEF UseDevice

\* So is what an array or a bcache device is for.
LEMMA VolumeIsUse ==
  ASSUME Listed, NEW item, NEW device, UseVolume(item, device)
  PROVE  NewUse(device) /\ Listed'
<1>1. CASE UseAsFileSystem(item, device)
  BY <1>1, FileSystemIsUse DEF UseAsFileSystem
<1>2. CASE UNCHANGED <<groupVars, filesystem_list>>
  BY <1>2, NoUseIsUse
<1> QED  BY <1>1, <1>2 DEF UseVolume
\* Partitions that parted was asked for.
Asked == UNION {{<<d, i>> : i \in 1..Len(parted_task_map[d])} : d \in DOMAIN parted_task_map}

Tasked == \A d \in DOMAIN parted_task_map : IsSequence(parted_task_map[d])
Planning == {"grub", "ref_size", "target"}
Building == {"md", "bcache", "vg", "lv"}

\* Where the devices in use come from: first they are partitions that will be asked for,
\* then each is made before it is used, and the volume comes last.
Planned ==
  /\ phase \in {"drives", "prepare"} => Uses = {}
  /\ phase \in Planning \cup {"drives", "prepare"} => made = {}
  /\ phase \in Planning =>
       /\ DOMAIN parted_task_map = {DriveOf(i) : i \in ItemsOf("target")}
       /\ \A i \in DOMAIN boot_drives : boot_drives[i] \in DOMAIN parted_task_map
  /\ phase \in Planning \cup {"parted"} => Tasked /\ \A use \in Uses : DeviceOf(use) \in Asked
  /\ phase = "parted" =>
       /\ \A device \in made : device[1] \in Drives
       /\ \A d \in DOMAIN parted_task_map : <<d, 0>> \in made =>
            d \in Drives /\ \A i \in 1..Len(parted_task_map[d]) : <<d, i>> \in made
  /\ phase \in Building \cup {"sync", "done"} => \A use \in Uses : DeviceOf(use) \in made
  /\ phase \in Building => \A device \in made : device[1] # "lv"

UInv == Listed /\ OneUse /\ Planned

\* What is asked of parted, one by one.
LEMMA AskedIs ==
  ASSUME NEW d, NEW i
  PROVE  <<d, i>> \in Asked <=> d \in DOMAIN parted_task_map /\ i \in 1..Len(parted_task_map[d])
<1> DEFINE Of(e) == {<<e, j>> : j \in 1..Len(parted_task_map[e])}
<1>1. \A e : <<d, i>> \in Of(e) <=> e = d /\ i \in 1..Len(parted_task_map[d])
  OBVIOUS
<1>2. Asked = UNION {Of(e) : e \in DOMAIN parted_task_map}
  BY DEF Asked
<1> HIDE DEF Of
<1> QED  BY <1>1, <1>2

\* The next partition of a drive was not asked for, and is then.
LEMMA PartitionAdded ==
  ASSUME Tasked, NEW d \in DOMAIN parted_task_map, NEW kind, NEW size, AddPartition(d, kind, size)
  PROVE  /\ Tasked' /\ DOMAIN parted_task_map' = DOMAIN parted_task_map
         /\ Asked \subseteq Asked' /\ NewDevice(d) \notin Asked
         /\ kind # "blank" => NewDevice(d) \in Asked'
<1> DEFINE task == [kind |-> kind, start |-> Start(d), size |-> size]
<1>1. IsSequence(parted_task_map[d])
  BY DEF Tasked
<1>2. /\ IsSequence(Append(parted_task_map[d], task)) /\ Len(parted_task_map[d]) \in Nat
      /\ Len(Append(parted_task_map[d], task)) = Len(parted_task_map[d]) + 1
  BY <1>1, Appended
<1>3. NewDevice(d) = <<d, Len(parted_task_map[d]) + 1>>
  BY DEF NewDevice
<1>4. NewDevice(d) \notin Asked
  BY <1>2, <1>3, AskedIs
<1>5. CASE kind = "blank"
  <2>1. parted_task_map' = parted_task_map
    BY <1>5 DEF AddPartition
  <2> QED  BY <1>4, <1>5, <2>1 DEF Tasked, Asked
<1>6. CASE kind # "blank"
  <2>1. parted_task_map' = [parted_task_map EXCEPT ![d] = Append(parted_task_map[d], task)]
    BY <1>6 DEF AddPartition
  <2>2. /\ DOMAIN parted_task_map' = DOMAIN parted_task_map
        /\ \A e \in DOMAIN parted_task_map :
             parted_task_map'[e] = IF e = d THEN Append(parted_task_map[d], task) ELSE parted_task_map[e]
    BY <2>1
  <2> HIDE DEF task
  <2>3. Tasked'
    BY <1>2, <2>2 DEF Tasked
  <2> DEFINE Of(e) == {<<e, j>> : j \in 1..Len(parted_task_map[e])}
             Then(e) == {<<e, j>> : j \in 1..Len(parted_task_map'[e])}
  <2>4. Asked = UNION {Of(e) : e \in DOMAIN parted_task_map} /\ Asked' = UNION {Then(e) : e \in DOMAIN parted_task_map}
    BY <2>2 DEF Asked
  <2>5. \A e \in DOMAIN parted_task_map : Of(e) \subseteq Then(e)
    BY <1>2, <2>2
  <2>6. NewDevice(d) \in Then(d)
    BY <1>2, <1>3, <2>2
  <2> HIDE DEF Of, Then
  <2>7. Asked \subseteq Asked' /\ NewDevice(d) \in Asked'
    BY <2>4, <2>5, <2>6
  <2> QED  BY <1>4, <2>2, <2>3, <2>7
<1> QED  BY <1>5, <1>6
\* A step that leaves the lists alone keeps what they say; what is left to see is the plan.
LEMMA ListsStay ==
  ASSUME UInv, UNCHANGED <<groupVars, filesystem_list>>, Planned'
  PROVE  UInv'
BY UsesStay DEF UInv

\* A step that raises keeps what the lists say, and there is no plan any more.
LEMMA RaisedStep ==
  ASSUME UInv, UNCHANGED <<groupVars, filesystem_list>>, phase' = "raised"
  PROVE  UInv'
<1>1. Planned'
  BY DEF Planned, Planning, Building
<1> QED  BY <1>1, ListsStay

\* A step that finds a use for a device that had none keeps each device at one use.
LEMMA UseStep ==
  ASSUME Listed, OneUse, NEW device, NewUse(device) /\ Listed', \A use \in Uses : DeviceOf(use) # device,
         NEW before, NEW then, \A use \in Uses : DeviceOf(use) \in before, before \subseteq then, device \in then
  PROVE  Listed' /\ OneUse' /\ \A use \in Uses' : DeviceOf(use)' \in then
<1>1. OneUse' /\ \A use \in Uses' : DeviceOf(use)' = device \/ \E old \in Uses : DeviceOf(use)' = DeviceOf(old)
  BY UseIsOne
<1> QED  BY <1>1

\* The drives are chosen, and each is given its plan.
LEMMA ChooseStep ==
  ASSUME UInv, FindDrives \/ WaitForDrives \/ Prepare
  PROVE  UInv'
<1>1. CASE phase' = "raised"
  BY <1>1, RaisedStep DEF FindDrives, WaitForDrives, Prepare, planVars
<1>2. CASE (FindDrives \/ WaitForDrives) /\ phase' # "raised"
  <2>1. /\ UNCHANGED <<groupVars, filesystem_list, made>> /\ phase = "drives" /\ phase' \in {"drives", "prepare"}
    BY <1>2 DEF FindDrives, WaitForDrives, Enter, Raise
  <2>2. Uses = {} /\ made = {}
    BY <2>1 DEF UInv, Planned
  <2>3. Uses' = {}
    BY <2>1, <2>2, UsesStay
  <2>4. Planned'
    BY <2>1, <2>2, <2>3 DEF Planned, Planning, Building
  <2> QED  BY <2>1, <2>4, ListsStay
<1>3. CASE Prepare /\ phase' # "raised"
  <2>1. /\ UNCHANGED <<job, target_drives, groupVars, filesystem_list, made>> /\ phase = "prepare" /\ phase' = "grub"
        /\ boot_drives' = [i \in BootTargets |-> DriveOf(i)]
        /\ parted_task_map' = [d \in {DriveOf(i) : i \in ItemsOf("target")} |-> <<>>]
    BY <1>3 DEF Prepare, Enter, Raise
  <2>2. Uses = {} /\ made = {}
    BY <2>1 DEF UInv, Planned
  <2>3. Uses' = {}
    BY <2>1, <2>2, UsesStay
  <2>4. ItemsOf("target")' = ItemsOf("target") /\ \A i : DriveOf(i)' = DriveOf(i)
    BY <2>1 DEF ItemsOf, DriveOf, Recipe
  <2>5. BootTargets \subseteq ItemsOf("target")
    BY DEF BootTargets, TargetsWithMount, LastMounted
  <2>6. Tasked'
    BY <2>1, OneAlone DEF Tasked
  <2>7. /\ DOMAIN parted_task_map' = {DriveOf(i)' : i \in ItemsOf("target")'}
        /\ \A i \in DOMAIN boot_drives' : boot_drives'[i] \in DOMAIN parted_task_map'
    BY <2>1, <2>4, <2>5
  <2>8. Planned'
    BY <2>1, <2>2, <2>3, <2>6, <2>7 DEF Planned, Planning, Building
  <2> QED  BY <2>1, <2>8, ListsStay
<1> QED  BY <1>1, <1>2, <1>3

\* From item to item, and from loop to loop, the plan stays.
LEMMA PlanStays ==
  ASSUME UInv, GrubDone \/ ChangeSize \/ ChangeSizeDone \/ TargetsDone
  PROVE  UInv'
<1>1. /\ UNCHANGED <<job, target_drives, boot_drives, parted_task_map, groupVars, filesystem_list, made>>
      /\ phase \in Planning /\ phase' \in Planning \cup {"parted"}
  BY DEF GrubDone, ChangeSize, ChangeSizeDone, TargetsDone, planVars, Enter, LoopEnds, GoOn, Planning
<1>2. Uses' = Uses /\ (\A use \in Uses : DeviceOf(use)' = DeviceOf(use))
  BY <1>1, UsesStay
<1>3. ItemsOf("target")' = ItemsOf("target") /\ (\A i : DriveOf(i)' = DriveOf(i)) /\ Asked' = Asked /\ (Tasked => Tasked')
  BY <1>1 DEF ItemsOf, DriveOf, Recipe, Asked, Tasked
<1>4. Planned'
  BY <1>1, <1>2, <1>3 DEF UInv, Planned, Planning, Building
<1> QED  BY <1>1, <1>4, ListsStay

\* A partition more is planned, and has one use at most.
LEMMA PartitionStepKept ==
  ASSUME UInv, phase \in Planning, phase' = phase, NEW d \in DOMAIN parted_task_map, NEW kind, NEW size,
         AddPartition(d, kind, size), UNCHANGED <<job, target_drives, boot_drives, made>>,
         \/ kind # "blank" /\ NewUse(NewDevice(d)) /\ Listed'
         \/ UNCHANGED <<groupVars, filesystem_list>>
  PROVE  UInv'
<1>1. /\ Tasked /\ (\A use \in Uses : DeviceOf(use) \in Asked) /\ made = {} /\ Listed /\ OneUse
      /\ DOMAIN parted_task_map = {DriveOf(i) : i \in ItemsOf("target")}
      /\ \A i \in DOMAIN boot_drives : boot_drives[i] \in DOMAIN parted_task_map
  BY DEF UInv, Planned
<1>2. /\ Tasked' /\ DOMAIN parted_task_map' = DOMAIN parted_task_map /\ Asked \subseteq Asked'
      /\ NewDevice(d) \notin Asked /\ (kind # "blank" => NewDevice(d) \in Asked')
  BY <1>1, PartitionAdded
<1>3. Listed' /\ OneUse' /\ \A use \in Uses' : DeviceOf(use)' \in Asked'
  <2>1. CASE kind # "blank" /\ NewUse(NewDevice(d)) /\ Listed'
    <3>1. NewDevice(d) \in Asked' /\ \A use \in Uses : DeviceOf(use) # NewDevice(d)
      BY <1>1, <1>2, <2>1
    <3> QED  BY <1>1, <1>2, <2>1, <3>1, UseStep
  <2>2. CASE UNCHANGED <<groupVars, filesystem_list>>
    BY <1>1, <1>2, <2>2, UsesStay
  <2> QED  BY <2>1, <2>2
<1>4. ItemsOf("target")' = ItemsOf("target") /\ \A i : DriveOf(i)' = DriveOf(i)
  BY DEF ItemsOf, DriveOf, Recipe
<1>5. Planned'
  BY <1>1, <1>2, <1>3, <1>4 DEF Planned, Planning, Building
<1> QED  BY <1>3, <1>5 DEF UInv

\* The partitions of the boot loader, and those of the recipe.
LEMMA PlanGrows ==
  ASSUME UInv, GrubPartition \/ TargetItem
  PROVE  UInv'
<1>1. CASE GrubPartition
  <2>1. /\ phase = "grub" /\ UNCHANGED <<job, target_drives, boot_drives, made, phase, groupVars>>
    BY <1>1 DEF GrubPartition, GoOn
  <2>2. PICK i \in DOMAIN boot_drives :
          /\ AddPartition(boot_drives[i], IF Jobs[job].table = "gpt" THEN "bios_grub" ELSE "blank", Rsvd)
          /\ IF Jobs[job].table = "gpt"
               THEN AddFileSystem(IF Jobs[job].efi THEN Efi ELSE NoMount, "vfat", NewDevice(boot_drives[i]))
               ELSE UNCHANGED filesystem_list
    BY <1>1 DEF GrubPartition, NextOf
  <2>3. boot_drives[i] \in DOMAIN parted_task_map /\ phase \in Planning
    BY <2>1 DEF UInv, Planned, Planning
  <2>4. CASE Jobs[job].table = "gpt"
    <3>1. AddPartition(boot_drives[i], "bios_grub", Rsvd)
      BY <2>2, <2>4
    <3>2. NewUse(NewDevice(boot_drives[i])) /\ Listed'
      BY <2>1, <2>2, <2>4, FileSystemIsUse DEF UInv
    <3> QED  BY <2>1, <2>3, <3>1, <3>2, PartitionStepKept
  <2>5. CASE Jobs[job].table # "gpt"
    <3>1. AddPartition(boot_drives[i], "blank", Rsvd) /\ UNCHANGED <<groupVars, filesystem_list>>
      BY <2>1, <2>2, <2>5
    <3> QED  BY <2>1, <2>3, <3>1, PartitionStepKept
  <2> QED  BY <2>4, <2>5
<1>2. CASE TargetItem
  <2>1. phase = "target" /\ UNCHANGED <<job, target_drives, boot_drives, made>>
    BY <1>2 DEF TargetItem
  <2>2. PICK i \in ItemsOf("target") :
          IF BadSize(Recipe[i]) \/ Full(DriveOf(i))
            THEN Raise /\ UNCHANGED <<partition_pos, parted_task_map, groupVars, filesystem_list>>
            ELSE /\ AddPartition(DriveOf(i), Recipe[i].type, SizeOf(Recipe[i]))
                 /\ UseDevice(Recipe[i], NewDevice(DriveOf(i)))
                 /\ GoOn(i)
    BY <1>2 DEF TargetItem, NextOf
  <2>3. CASE BadSize(Recipe[i]) \/ Full(DriveOf(i))
    BY <2>2, <2>3, RaisedStep DEF Raise
  <2>4. CASE ~(BadSize(Recipe[i]) \/ Full(DriveOf(i)))
    <3>1. /\ AddPartition(DriveOf(i), Recipe[i].type, SizeOf(Recipe[i])) /\ phase' = phase
          /\ UseDevice(Recipe[i], NewDevice(DriveOf(i)))
      BY <2>2, <2>4 DEF GoOn
    <3>2. DriveOf(i) \in DOMAIN parted_task_map /\ phase \in Planning
      BY <2>1 DEF UInv, Planned, Planning
    <3>3. NewUse(NewDevice(DriveOf(i))) /\ Listed'
      BY <3>1, DeviceIsUse DEF UInv
    <3>4. Recipe[i].type = "blank" => UNCHANGED <<groupVars, filesystem_list>>
      BY <3>1 DEF UseDevice
    <3> QED  BY <2>1, <3>1, <3>2, <3>3, <3>4, PartitionStepKept
  <2> QED  BY <2>3, <2>4
<1> QED  BY <1>1, <1>2
\* parted makes what it was asked for, drive by drive.
LEMMA PartedStep ==
  ASSUME UInv, PartedDone \/ \E d \in Drives : RunParted(d)
  PROVE  UInv'
<1>1. /\ phase = "parted" /\ Tasked /\ (\A use \in Uses : DeviceOf(use) \in Asked)
      /\ \A device \in made : device[1] \in Drives
      /\ \A d \in DOMAIN parted_task_map : <<d, 0>> \in made =>
           d \in Drives /\ \A i \in 1..Len(parted_task_map[d]) : <<d, i>> \in made
  BY DEF PartedDone, RunParted, UInv, Planned
<1>2. UNCHANGED <<parted_task_map, groupVars, filesystem_list>>
  BY DEF PartedDone, RunParted, planVars
<1>3. Uses' = Uses /\ (\A use \in Uses : DeviceOf(use)' = DeviceOf(use))
  BY <1>2, UsesStay
<1>4. ASSUME NEW d \in Drives, RunParted(d) PROVE UInv'
  <2>1. CASE phase' = "raised"
    BY <1>2, <2>1, RaisedStep
  <2>2. CASE phase' # "raised"
    <3>1. /\ phase' = "parted" /\ d \in DOMAIN parted_task_map
          /\ made' = made \cup {<<d, i>> : i \in 0..Len(parted_task_map[d])}
      BY <1>1, <1>4, <2>2 DEF RunParted, Raise
    <3>2. \A device \in made' : device[1] \in Drives
      BY <1>1, <3>1
    <3>3. ASSUME NEW e \in DOMAIN parted_task_map, <<e, 0>> \in made'
          PROVE  e \in Drives /\ \A i \in 1..Len(parted_task_map[e]) : <<e, i>> \in made'
      <4>1. CASE e = d
        <5>1. IsSequence(parted_task_map[d])
          BY <1>1, <3>1 DEF Tasked
        <5>2. Len(parted_task_map[d]) \in Nat
          BY <5>1, Appended
        <5> QED  BY <3>1, <4>1, <5>2
      <4>2. CASE e # d
        <5>1. <<e, 0>> \in made
          BY <3>1, <3>3, <4>2
        <5> QED  BY <1>1, <3>1, <5>1
      <4> QED  BY <4>1, <4>2
    <3>4. Asked' = Asked /\ Tasked'
      BY <1>1, <1>2 DEF Asked, Tasked
    <3>5. Planned'
      BY <1>1, <1>2, <1>3, <3>1, <3>2, <3>3, <3>4 DEF Planned, Planning, Building
    <3> QED  BY <1>2, <3>5, ListsStay
  <2> QED  BY <2>1, <2>2
<1>5. CASE PartedDone
  <2>1. /\ \A d \in DOMAIN parted_task_map : <<d, 0>> \in made
        /\ phase' = "md" /\ made' = made
    BY <1>5 DEF PartedDone, Enter
  <2>2. Asked \subseteq made
    <3> DEFINE Of(d) == {<<d, i>> : i \in 1..Len(parted_task_map[d])}
    <3>1. \A d \in DOMAIN parted_task_map : Of(d) \subseteq made
      BY <1>1, <2>1
    <3>2. Asked = UNION {Of(d) : d \in DOMAIN parted_task_map}
      BY DEF Asked
    <3> HIDE DEF Of
    <3> QED  BY <3>1, <3>2
  <2>3. \A device \in made : device[1] # "lv"
    BY <1>1, DrivesAssumption
  <2>4. Planned'
    BY <1>1, <1>3, <2>1, <2>2, <2>3 DEF Planned, Planning, Building
  <2> QED  BY <1>2, <2>4, ListsStay
<1> QED  BY <1>4, <1>5

\* An array or a bcache device is made, and has one use at most.
LEMMA VolumeStepKept ==
  ASSUME UInv, phase \in Building, phase' = phase, NEW device, device[1] # "lv", device \notin made,
         made' = made \cup {device}, NewUse(device) /\ Listed'
  PROVE  UInv'
<1>1. Listed /\ OneUse /\ (\A use \in Uses : DeviceOf(use) \in made) /\ \A x \in made : x[1] # "lv"
  BY DEF UInv, Planned
<1>2. (\A use \in Uses : DeviceOf(use) # device) /\ made \subseteq made' /\ device \in made'
  BY <1>1
<1>3. Listed' /\ OneUse' /\ \A use \in Uses' : DeviceOf(use)' \in made'
  BY <1>1, <1>2, UseStep
<1>4. \A x \in made' : x[1] # "lv"
  BY <1>1
<1>5. Planned'
  BY <1>3, <1>4 DEF Planned, Planning, Building
<1> QED  BY <1>3, <1>5 DEF UInv

\* The arrays and the bcache devices.
LEMMA ArrayStep ==
  ASSUME UInv, MdItem \/ BCacheItem
  PROVE  UInv'
<1>1. CASE MdItem
  <2>1. PICK i \in ItemsOf("md") :
          LET item == Recipe[i]
              members == md_list[item.at]
              array == <<"md", item.at>>
          IN IF members = <<>> \/ ~RightCount(item.level, Len(members)) \/ array \in made
               THEN Raise /\ UNCHANGED <<made, groupVars, filesystem_list>>
               ELSE /\ made' = made \cup {array}
                    /\ IF item.type = "bcache" THEN UseInBCache(item, array) ELSE UseVolume(item, array)
                    /\ GoOn(i)
    BY <1>1 DEF MdItem, NextOf
  <2> DEFINE array == <<"md", Recipe[i].at>>
  <2>2. CASE Raise /\ UNCHANGED <<made, groupVars, filesystem_list>>
    BY <2>2, RaisedStep DEF Raise
  <2>3. CASE ~(Raise /\ UNCHANGED <<made, groupVars, filesystem_list>>)
    <3>1. /\ made' = made \cup {array} /\ array \notin made /\ phase' = phase
          /\ UseInBCache(Recipe[i], array) \/ UseVolume(Recipe[i], array)
      BY <2>1, <2>3 DEF GoOn
    <3>2. array[1] # "lv" /\ phase \in Building
      BY <1>1 DEF MdItem, Building
    <3> HIDE DEF array
    <3>3. NewUse(array) /\ Listed'
      BY <3>1, PartIsUse, VolumeIsUse DEF UInv
    <3> QED  BY <3>1, <3>2, <3>3, VolumeStepKept
  <2> QED  BY <2>2, <2>3
<1>2. CASE BCacheItem
  <2>1. PICK i \in ItemsOf("bcache") :
          LET item == Recipe[i]
              device == <<"bcache", item.at>>
          IN IF \/ bcache_backing_list[item.at] = <<>> \/ bcache_cache_list[item.at] = <<>>
                \/ device \in made
               THEN Raise /\ UNCHANGED <<made, groupVars, filesystem_list>>
               ELSE made' = made \cup {device} /\ UseVolume(item, device) /\ GoOn(i)
    BY <1>2 DEF BCacheItem, NextOf
  <2> DEFINE device == <<"bcache", Recipe[i].at>>
  <2>2. CASE Raise /\ UNCHANGED <<made, groupVars, filesystem_list>>
    BY <2>2, RaisedStep DEF Raise
  <2>3. CASE ~(Raise /\ UNCHANGED <<made, groupVars, filesystem_list>>)
    <3>1. made' = made \cup {device} /\ device \notin made /\ phase' = phase /\ UseVolume(Recipe[i], device)
      BY <2>1, <2>3 DEF GoOn
    <3>2. device[1] # "lv" /\ phase \in Building
      BY <1>2 DEF BCacheItem, Building
    <3> HIDE DEF device
    <3>3. NewUse(device) /\ Listed'
      BY <3>1, VolumeIsUse DEF UInv
    <3> QED  BY <3>1, <3>2, <3>3, VolumeStepKept
  <2> QED  BY <2>2, <2>3
<1> QED  BY <1>1, <1>2

\* The loops over what is built end, volume groups are made, and arrays are waited for.
LEMMA BuildingStays ==
  ASSUME UInv, \/ MdDone \/ BCacheDone \/ VgItem \/ VgDone
               \/ phase \in {"sync", "done"} /\ phase' \in {"sync", "done"} /\ made' = made
                  /\ UNCHANGED <<groupVars, filesystem_list>>
  PROVE  UInv'
<1>1. CASE phase' = "raised"
  BY <1>1, RaisedStep DEF MdDone, BCacheDone, VgItem, VgDone
<1>2. CASE phase' # "raised"
  <2>1. /\ UNCHANGED <<groupVars, filesystem_list>> /\ phase \in Building \cup {"sync", "done"}
        /\ phase' \in Building \cup {"sync", "done"} /\ made \subseteq made'
        /\ phase' \in Building => phase \in Building /\ (\A device \in made' : device \in made \/ device[1] = "vg")
    <3>1. CASE MdDone \/ BCacheDone \/ VgDone
      <4>1. /\ UNCHANGED <<groupVars, filesystem_list, made>> /\ phase \in Building
            /\ phase' \in Building \cup {"sync"}
        BY <3>1 DEF MdDone, BCacheDone, VgDone, LoopEnds, Enter, Building
      <4> QED  BY <4>1
    <3>2. CASE VgItem
      <4>1. PICK i \in ItemsOf("vg") : made' = made \cup {<<"vg", Recipe[i].at>>} /\ phase' = phase
        BY <1>2, <3>2 DEF VgItem, NextOf, Raise, GoOn
      <4>2. UNCHANGED <<groupVars, filesystem_list>> /\ phase \in Building
        BY <3>2 DEF VgItem, Building
      <4> QED  BY <4>1, <4>2
    <3>3. CASE /\ phase \in {"sync", "done"} /\ phase' \in {"sync", "done"} /\ made' = made
               /\ UNCHANGED <<groupVars, filesystem_list>>
      BY <3>3 DEF Building
    <3> QED  BY <3>1, <3>2, <3>3
  <2>2. Uses' = Uses /\ (\A use \in Uses : DeviceOf(use)' = DeviceOf(use))
    BY <2>1, UsesStay
  <2>3. (\A use \in Uses : DeviceOf(use) \in made) /\ (phase \in Building => \A device \in made : device[1] # "lv")
    BY <2>1 DEF UInv, Planned
  <2>4. Planned'
    BY <2>1, <2>2, <2>3 DEF Planned, Planning, Building
  <2> QED  BY <2>1, <2>4, ListsStay
<1> QED  BY <1>1, <1>2

\* The volume is made, and is a file system.
LEMMA VolumeStep ==
  ASSUME UInv, MakeVolume
  PROVE  UInv'
<1>1. phase = "lv" /\ UNCHANGED groupVars
  BY DEF MakeVolume
<1>2. /\ Listed /\ OneUse /\ (\A use \in Uses : DeviceOf(use) \in made) /\ \A x \in made : x[1] # "lv"
  BY <1>1 DEF UInv, Planned, Building
<1>3. CASE Raise /\ UNCHANGED <<made, filesystem_list>>
  BY <1>1, <1>3, RaisedStep DEF Raise
<1>4. CASE ~(Raise /\ UNCHANGED <<made, filesystem_list>>)
  <2>1. PICK i \in LastVolume :
          /\ phase' = "sync"
          /\ \/ UNCHANGED <<made, filesystem_list>>
             \/ /\ made' = made \cup {<<"lv", Recipe[i].m>>}
                /\ AddFileSystem(Recipe[i].mount, Recipe[i].type, <<"lv", Recipe[i].m>>)
    BY <1>4 DEF MakeVolume, Enter
  <2> DEFINE volume == <<"lv", Recipe[i].m>>
  <2>2. Listed' /\ OneUse' /\ \A use \in Uses' : DeviceOf(use)' \in made'
    <3>1. CASE UNCHANGED <<made, filesystem_list>>
      BY <1>1, <1>2, <3>1, UsesStay
    <3>2. CASE made' = made \cup {volume} /\ AddFileSystem(Recipe[i].mount, Recipe[i].type, volume)
      <4>1. volume[1] = "lv"
        OBVIOUS
      <4> HIDE DEF volume
      <4>2. (\A use \in Uses : DeviceOf(use) # volume) /\ made \subseteq made' /\ volume \in made'
        BY <1>2, <3>2, <4>1
      <4>3. NewUse(volume) /\ Listed'
        BY <1>1, <1>2, <3>2, FileSystemIsUse
      <4> QED  BY <1>2, <4>2, <4>3, UseStep
    <3> QED  BY <2>1, <3>1, <3>2
  <2>3. Planned'
    BY <2>1, <2>2 DEF Planned, Planning, Building
  <2> QED  BY <2>2, <2>3 DEF UInv
<1> QED  BY <1>3, <1>4

\* Every step of the installation keeps each device at one use.
LEMMA UsesStep ==
  ASSUME UInv, [Next]_vars
  PROVE  UInv'
<1>1. ASSUME UNCHANGED <<job, phase, target_drives, boot_drives, parted_task_map, groupVars, filesystem_list, made>>
      PROVE  UInv'
  <2>1. Uses' = Uses /\ (\A use \in Uses : DeviceOf(use)' = DeviceOf(use))
    BY <1>1, UsesStay
  <2>2. ItemsOf("target")' = ItemsOf("target") /\ (\A i : DriveOf(i)' = DriveOf(i)) /\ Asked' = Asked /\ (Tasked => Tasked')
    BY <1>1 DEF ItemsOf, DriveOf, Recipe, Asked, Tasked
  <2>3. Planned'
    BY <1>1, <2>1, <2>2 DEF UInv, Planned
  <2> QED  BY <1>1, <2>3, ListsStay
<1>2. CASE PartitionStep
  <2>1. CASE WaitForSync \/ PartitionDone
    <3>1. /\ phase \in {"sync", "done"} /\ phase' \in {"sync", "done"} /\ made' = made
          /\ UNCHANGED <<groupVars, filesystem_list>>
      BY <2>1 DEF WaitForSync, PartitionDone, Enter
    <3> QED  BY <3>1, BuildingStays
  <2> QED
    BY <1>2, <2>1, ChooseStep, PlanGrows, PlanStays, PartedStep, ArrayStep, BuildingStays, VolumeStep
       DEF PartitionStep, Partition
<1>3. CASE PartitionFails
  BY <1>3, RaisedStep DEF PartitionFails, CommandFails, Raise
<1>4. CASE DriveComes
  BY <1>4, <1>1 DEF DriveComes, DriveFound, planVars
<1>5. CASE Mkfs
  BY <1>5, <1>1 DEF Mkfs, planVars
<1>6. CASE UNCHANGED partitionVars
  BY <1>6, <1>1 DEF partitionVars, planVars
<1>7. CASE Install /\ ~PartitionStep /\ ~Mkfs
  <2>1. UNCHANGED partitionVars
    BY <1>7 DEF Install, Profile, RunStep, UpdateLists, Divert, Undivert, InstallBoot, PartitionEnds, MkfsDone,
       MountBegins, Mounting, Remounting, Unmounting, MountDone, Remount, RemountDone, WriteFstab, WriteMtab, Signals,
       NothingHeld, UmountFails, UnmountDone, SignalComplete, SignalAlert, OnlyStep
  <2> QED  BY <2>1, <1>6
<1>8. CASE Fails \/ OthersInterfere \/ HolderEnds \/ UNCHANGED vars
  BY <1>8, <1>6 DEF Fails, OthersInterfere, HolderEnds, vars
<1> QED  BY <1>2, <1>3, <1>4, <1>5, <1>7, <1>8 DEF Next

\* It begins without any.
LEMMA UsesBegin ==
  ASSUME Init
  PROVE  UInv
<1>1. /\ phase = "drives" /\ made = {} /\ filesystem_list = <<>>
      /\ Groupings = [kind \in Kinds |-> [g \in Groups |-> <<>>]]
  BY DEF Init, PartitionInit, Groupings, Kinds
<1>2. Uses = {}
  <2> SUFFICES ASSUME NEW use \in Uses PROVE FALSE
    OBVIOUS
  <2>1. \/ use[1] \in Kinds /\ use[2] \in Groups /\ use[3] \in DOMAIN Groupings[use[1]][use[2]]
        \/ use[3] \in DOMAIN filesystem_list
    BY UsesAre DEF OneByOne
  <2> QED  BY <1>1, <2>1, OneAlone
<1>3. Listed
  BY <1>1, OneAlone DEF Listed
<1>4. Planned
  BY <1>1, <1>2 DEF Planned, Planning, Building
<1> QED  BY <1>2, <1>3, <1>4 DEF UInv, OneUse

\* Each device has one use, whatever the recipe, and is made before a volume is made on it
\* or it is formatted (filesystem.py partition, mkfs).
THEOREM UsesSound == Spec => []UsesAreSound
<1>1. UInv => UsesAreSound
  BY DEF UInv, Planned, Building, UsesAreSound, UsedIsMade
<1>2. Init => UInv
  BY UsesBegin
<1>3. UInv /\ [Next]_vars => UInv'
  BY UsesStep
<1> QED  BY <1>1, <1>2, <1>3, PTL DEF Spec
-----------------------------------------------------------------------------
(* The layout of the drives.                                               *)

\* What the job of an installation is.
LEMMA JobIs ==
  ASSUME job \in DOMAIN Jobs
  PROVE  /\ Rsvd \in {5, 100} /\ Jobs[job].boot_size \in Nat /\ Jobs[job].swap_size \in Nat
         /\ Len(Recipe) \in Nat /\ DOMAIN Recipe = 1..Len(Recipe)
         /\ \A i \in DOMAIN Recipe : Stated(Recipe[i])
BY JobsAssumption DEF Rsvd, Recipe

\* A recipe that gives each drive a plan: partitions of known sizes, in an order in which
\* each begins where the one before ends, up to one that takes the rest.
Shares(i, j) == Recipe[i].at = Recipe[j].at
Orderly ==
  /\ \A i \in ItemsOf("target") :
       /\ Recipe[i].size \in {"boot", "swap", "- swap", "end"} /\ Recipe[i].type # "blank"
       /\ \E j \in ItemsOf("target") : Shares(i, j) /\ Recipe[j].size = "end"
       /\ \A j \in ItemsOf("target") : i < j /\ Shares(i, j) =>
            Recipe[j].size = "end" \/ (Recipe[i].size = "boot" /\ Recipe[j].size = "- swap")
       /\ Recipe[i].size = "swap" => \A j \in BootTargets : ~Shares(i, j)
       /\ Recipe[i].size = "- swap" => ItemsOf("ref_size") = {}
  /\ \A i, j, k \in BootTargets : Shares(i, j) /\ Shares(i, k) => i = j \/ i = k \/ j = k

\* What an item says, as far as the layout of the drives goes.
Is(i, in, at, type, size, group, mount) ==
  /\ Recipe[i].in = in /\ Recipe[i].at = at /\ Recipe[i].type = type /\ Recipe[i].size = size
  /\ Recipe[i].group = group /\ Recipe[i].mount = mount

\* What each kind of item says.
LEMMA ItemsAre ==
  ASSUME NEW i, NEW t, NEW type, NEW g, NEW size, NEW mount, NEW x
  PROVE  /\ Recipe[i] = Part(t, type, size) => Is(i, "target", t, type, size, 0, NoMount)
         /\ Recipe[i] = Member(t, type, g, size) => Is(i, "target", t, type, size, g, NoMount)
         /\ Recipe[i] = FsPart(t, mount, size) => Is(i, "target", t, "fs", size, 0, mount)
         /\ Recipe[i] = Cache(t, g, x) => Is(i, "target", t, "bcache", "end", g, NoMount)
         /\ Recipe[i] = Array(g, x, mount) => Is(i, "md", g, "fs", "end", 0, mount)
         /\ Recipe[i] = BCache(g, mount) => Is(i, "bcache", g, "fs", "end", 0, mount)
         /\ Recipe[i] = VolumeGroup(g) => Is(i, "vg", g, "fs", "end", 0, NoMount)
         /\ Recipe[i] = Volume(g, x, mount) => Is(i, "lv", g, "fs", "percent", 0, mount)
         /\ Recipe[i] = RefSize(x) => Is(i, "ref_size", 0, "fs", "end", 0, NoMount)
<1>1. /\ Recipe[i] = Part(t, type, size) => Is(i, "target", t, type, size, 0, NoMount)
      /\ Recipe[i] = Member(t, type, g, size) => Is(i, "target", t, type, size, g, NoMount)
      /\ Recipe[i] = FsPart(t, mount, size) => Is(i, "target", t, "fs", size, 0, mount)
  BY DEF Part, Member, FsPart, Blank, Is
<1>2. Recipe[i] = Cache(t, g, x) => Is(i, "target", t, "bcache", "end", g, NoMount)
  BY DEF Cache, Member, Part, Blank, Is
<1>4. /\ Recipe[i] = Array(g, x, mount) => Is(i, "md", g, "fs", "end", 0, mount)
      /\ Recipe[i] = BCache(g, mount) => Is(i, "bcache", g, "fs", "end", 0, mount)
  BY DEF Array, BCache, Blank, Is
<1>3. /\ Recipe[i] = VolumeGroup(g) => Is(i, "vg", g, "fs", "end", 0, NoMount)
      /\ Recipe[i] = Volume(g, x, mount) => Is(i, "lv", g, "fs", "percent", 0, mount)
      /\ Recipe[i] = RefSize(x) => Is(i, "ref_size", 0, "fs", "end", 0, NoMount)
  BY DEF VolumeGroup, Volume, RefSize, Blank, Is
<1> QED  BY <1>1, <1>2, <1>3, <1>4

\* The mount points of the recipes are different ones, and are mount points.
LEMMA MountsApart == NoMount # Boot /\ NoMount # Root /\ Boot # Root /\ Var # Boot /\ Var # Root
BY JobsAssumption DEF Root, Boot, Efi, Var

\* Without arrays one item carries a mount point.
LEMMA OneBoot == ASSUME ItemsOf("md") = {}, DOMAIN Recipe = 1..Len(Recipe), Len(Recipe) \in Nat
                 PROVE  \A i, j \in BootTargets : i = j
<1>1. ASSUME NEW mount PROVE \A i, j \in TargetsWithMount(mount) : i = j
  <2>1. LastMounted(mount, "md") = {}
    BY DEF LastMounted
  <2>2. TargetsWithMount(mount) = LastMounted(mount, "target") /\ ItemsOf("target") \subseteq 1..Len(Recipe)
    BY <2>1 DEF TargetsWithMount, ItemsOf
  <2> QED  BY <2>2 DEF LastMounted
<1> QED  BY <1>1 DEF BootTargets

\* One drive: the items, and that they follow one another.
LEMMA SingleIs ==
  /\ DOMAIN Single = 1..3
  /\ Single[1] = FsPart(0, Boot, "boot") /\ Single[2] = FsPart(0, Root, "- swap")
  /\ Single[3] = Part(0, "swap", "end")
BY DEF Single

LEMMA SingleOrderly == ASSUME Recipe = Single PROVE Orderly
<1>1. /\ Is(1, "target", 0, "fs", "boot", 0, Boot) /\ Is(2, "target", 0, "fs", "- swap", 0, Root)
      /\ Is(3, "target", 0, "swap", "end", 0, NoMount)
  BY SingleIs, ItemsAre
<1>2. DOMAIN Recipe = 1..3 /\ Len(Recipe) = 3
  BY SingleIs DEF Single
<1>3. ItemsOf("target") = {1, 2, 3} /\ ItemsOf("ref_size") = {} /\ ItemsOf("md") = {}
  <2>1. Recipe[1].in = "target" /\ Recipe[2].in = "target" /\ Recipe[3].in = "target"
    BY <1>1 DEF Is
  <2> QED  BY <1>2, <2>1 DEF ItemsOf
<1>4. \A i, j \in BootTargets : i = j
  BY <1>2, <1>3, OneBoot
<1>5. Recipe[1].size = "boot" /\ Recipe[2].size = "- swap" /\ Recipe[3].size = "end"
  BY <1>1 DEF Is
<1>6. Recipe[1].at = 0 /\ Recipe[2].at = 0 /\ Recipe[3].at = 0
  BY <1>1 DEF Is
<1>7. \A i \in ItemsOf("target") : Recipe[i].type # "blank"
  <2>1. Recipe[1].type = "fs" /\ Recipe[2].type = "fs" /\ Recipe[3].type = "swap"
    BY <1>1 DEF Is
  <2> QED  BY <1>3, <2>1
<1>8. \A i \in ItemsOf("target") : Recipe[i].size \in {"boot", "- swap", "end"}
  BY <1>3, <1>5
<1>9. \A i \in ItemsOf("target") : \E j \in ItemsOf("target") : Shares(i, j) /\ Recipe[j].size = "end"
  BY <1>3, <1>5, <1>6 DEF Shares
<1>10. ASSUME NEW i \in ItemsOf("target"), NEW j \in ItemsOf("target"), i < j, Shares(i, j)
       PROVE  Recipe[j].size = "end" \/ (Recipe[i].size = "boot" /\ Recipe[j].size = "- swap")
  <2>1. CASE j \in {3}
    BY <1>5, <2>1
  <2>2. j # 1
    BY <1>3, <1>6, <1>10 DEF Shares
  <2>3. CASE j = 2
    <3>1. i = 1
      BY <1>3, <1>6, <1>10, <2>3 DEF Shares
    <3> QED  BY <1>5, <2>3, <3>1
  <2> QED  BY <1>3, <2>1, <2>2, <2>3
<1>11. \A i \in ItemsOf("target") : Recipe[i].size # "swap"
  BY <1>8
<1>12. ItemsOf("ref_size") = {}
  BY <1>3
<1>13. \A i, j, k \in BootTargets : Shares(i, j) /\ Shares(i, k) => i = j \/ i = k \/ j = k
  BY <1>4
<1> QED  BY <1>7, <1>8, <1>9, <1>10, <1>11, <1>12, <1>13 DEF Orderly

\* One drive with volumes: the items, and that they follow one another.
LEMMA SingleLVMIs ==
  /\ DOMAIN SingleLVM = 1..5
  /\ SingleLVM[1] = FsPart(0, Boot, "boot") /\ SingleLVM[2] = Member(0, "pv", 0, "- swap")
  /\ SingleLVM[3] = Part(0, "swap", "end") /\ SingleLVM[4] = VolumeGroup(0) /\ SingleLVM[5] = Volume(0, 0, Root)
BY DEF SingleLVM

LEMMA SingleLVMOrderly == ASSUME Recipe = SingleLVM PROVE Orderly
<1>1. /\ Is(1, "target", 0, "fs", "boot", 0, Boot) /\ Is(2, "target", 0, "pv", "- swap", 0, NoMount)
      /\ Is(3, "target", 0, "swap", "end", 0, NoMount) /\ Is(4, "vg", 0, "fs", "end", 0, NoMount)
      /\ Is(5, "lv", 0, "fs", "percent", 0, Root)
  BY SingleLVMIs, ItemsAre
<1>2. DOMAIN Recipe = 1..5 /\ Len(Recipe) = 5
  BY SingleLVMIs DEF SingleLVM
<1>3. ItemsOf("target") = {1, 2, 3} /\ ItemsOf("ref_size") = {} /\ ItemsOf("md") = {}
  <2>1. /\ Recipe[1].in = "target" /\ Recipe[2].in = "target" /\ Recipe[3].in = "target" /\ Recipe[4].in = "vg"
        /\ Recipe[5].in = "lv"
    BY <1>1 DEF Is
  <2> QED  BY <1>2, <2>1 DEF ItemsOf
<1>4. \A i, j \in BootTargets : i = j
  BY <1>2, <1>3, OneBoot
<1>5. Recipe[1].size = "boot" /\ Recipe[2].size = "- swap" /\ Recipe[3].size = "end"
  BY <1>1 DEF Is
<1>6. Recipe[1].at = 0 /\ Recipe[2].at = 0 /\ Recipe[3].at = 0
  BY <1>1 DEF Is
<1>7. \A i \in ItemsOf("target") : Recipe[i].type # "blank"
  <2>1. Recipe[1].type = "fs" /\ Recipe[2].type = "pv" /\ Recipe[3].type = "swap"
    BY <1>1 DEF Is
  <2> QED  BY <1>3, <2>1
<1>8. \A i \in ItemsOf("target") : Recipe[i].size \in {"boot", "- swap", "end"}
  BY <1>3, <1>5
<1>9. \A i \in ItemsOf("target") : \E j \in ItemsOf("target") : Shares(i, j) /\ Recipe[j].size = "end"
  BY <1>3, <1>5, <1>6 DEF Shares
<1>10. ASSUME NEW i \in ItemsOf("target"), NEW j \in ItemsOf("target"), i < j, Shares(i, j)
       PROVE  Recipe[j].size = "end" \/ (Recipe[i].size = "boot" /\ Recipe[j].size = "- swap")
  <2>1. CASE j \in {3}
    BY <1>5, <2>1
  <2>2. j # 1
    BY <1>3, <1>6, <1>10 DEF Shares
  <2>3. CASE j = 2
    <3>1. i = 1
      BY <1>3, <1>6, <1>10, <2>3 DEF Shares
    <3> QED  BY <1>5, <2>3, <3>1
  <2> QED  BY <1>3, <2>1, <2>2, <2>3
<1>11. \A i \in ItemsOf("target") : Recipe[i].size # "swap"
  BY <1>8
<1>12. ItemsOf("ref_size") = {}
  BY <1>3
<1>13. \A i, j, k \in BootTargets : Shares(i, j) /\ Shares(i, k) => i = j \/ i = k \/ j = k
  BY <1>4
<1> QED  BY <1>7, <1>8, <1>9, <1>10, <1>11, <1>12, <1>13 DEF Orderly

\* One drive, and a bcache device on two more: the items, and that they follow one another.
LEMMA BCacheVarIs ==
  /\ DOMAIN BCacheVar = 1..6
  /\ BCacheVar[1] = FsPart(0, Boot, "boot") /\ BCacheVar[2] = FsPart(0, Root, "- swap")
  /\ BCacheVar[3] = Part(0, "swap", "end") /\ BCacheVar[4] = Cache(1, 0, "cache")
  /\ BCacheVar[5] = Cache(2, 0, "backing") /\ BCacheVar[6] = BCache(0, Var)
BY DEF BCacheVar

LEMMA BCacheVarOrderly == ASSUME Recipe = BCacheVar PROVE Orderly
<1>1. /\ Is(1, "target", 0, "fs", "boot", 0, Boot) /\ Is(2, "target", 0, "fs", "- swap", 0, Root)
      /\ Is(3, "target", 0, "swap", "end", 0, NoMount) /\ Is(4, "target", 1, "bcache", "end", 0, NoMount)
      /\ Is(5, "target", 2, "bcache", "end", 0, NoMount) /\ Is(6, "bcache", 0, "fs", "end", 0, Var)
  BY BCacheVarIs, ItemsAre
<1>2. DOMAIN Recipe = 1..6 /\ Len(Recipe) = 6
  BY BCacheVarIs DEF BCacheVar
<1>3. ItemsOf("target") = {1, 2, 3, 4, 5} /\ ItemsOf("ref_size") = {} /\ ItemsOf("md") = {}
  <2>1. /\ Recipe[1].in = "target" /\ Recipe[2].in = "target" /\ Recipe[3].in = "target" /\ Recipe[4].in = "target"
        /\ Recipe[5].in = "target" /\ Recipe[6].in = "bcache"
    BY <1>1 DEF Is
  <2> QED  BY <1>2, <2>1 DEF ItemsOf
<1>4. \A i, j \in BootTargets : i = j
  BY <1>2, <1>3, OneBoot
<1>5. /\ Recipe[1].size = "boot" /\ Recipe[2].size = "- swap" /\ Recipe[3].size = "end" /\ Recipe[4].size = "end"
      /\ Recipe[5].size = "end"
  BY <1>1 DEF Is
<1>6. Recipe[1].at = 0 /\ Recipe[2].at = 0 /\ Recipe[3].at = 0 /\ Recipe[4].at = 1 /\ Recipe[5].at = 2
  BY <1>1 DEF Is
<1>7. \A i \in ItemsOf("target") : Recipe[i].type # "blank"
  <2>1. /\ Recipe[1].type = "fs" /\ Recipe[2].type = "fs" /\ Recipe[3].type = "swap" /\ Recipe[4].type = "bcache"
        /\ Recipe[5].type = "bcache"
    BY <1>1 DEF Is
  <2> QED  BY <1>3, <2>1
<1>8. \A i \in ItemsOf("target") : Recipe[i].size \in {"boot", "- swap", "end"}
  BY <1>3, <1>5
<1>9. \A i \in ItemsOf("target") : \E j \in ItemsOf("target") : Shares(i, j) /\ Recipe[j].size = "end"
  BY <1>3, <1>5, <1>6 DEF Shares
<1>10. ASSUME NEW i \in ItemsOf("target"), NEW j \in ItemsOf("target"), i < j, Shares(i, j)
       PROVE  Recipe[j].size = "end" \/ (Recipe[i].size = "boot" /\ Recipe[j].size = "- swap")
  <2>1. CASE j \in {3, 4, 5}
    BY <1>5, <2>1
  <2>2. j # 1
    BY <1>3, <1>6, <1>10 DEF Shares
  <2>3. CASE j = 2
    <3>1. i = 1
      BY <1>3, <1>6, <1>10, <2>3 DEF Shares
    <3> QED  BY <1>5, <2>3, <3>1
  <2> QED  BY <1>3, <2>1, <2>2, <2>3
<1>11. \A i \in ItemsOf("target") : Recipe[i].size # "swap"
  BY <1>8
<1>12. ItemsOf("ref_size") = {}
  BY <1>3
<1>13. \A i, j, k \in BootTargets : Shares(i, j) /\ Shares(i, k) => i = j \/ i = k \/ j = k
  BY <1>4
<1> QED  BY <1>7, <1>8, <1>9, <1>10, <1>11, <1>12, <1>13 DEF Orderly

\* Two drives with mirrors: the items, and that they follow one another.
LEMMA MirrorIs ==
  /\ DOMAIN Mirror = 1..8
  /\ Mirror[1] = Member(0, "md", 0, "boot") /\ Mirror[2] = Member(1, "md", 0, "boot")
  /\ Mirror[3] = Member(0, "md", 1, "- swap") /\ Mirror[4] = Member(1, "md", 1, "- swap")
  /\ Mirror[5] = Part(0, "swap", "end") /\ Mirror[6] = Part(1, "swap", "end") /\ Mirror[7] = Array(0, 1, Boot)
  /\ Mirror[8] = Array(1, 1, Root)
BY DEF Mirror

LEMMA MirrorOrderly == ASSUME Recipe = Mirror PROVE Orderly
<1>1. /\ Is(1, "target", 0, "md", "boot", 0, NoMount) /\ Is(2, "target", 1, "md", "boot", 0, NoMount)
      /\ Is(3, "target", 0, "md", "- swap", 1, NoMount) /\ Is(4, "target", 1, "md", "- swap", 1, NoMount)
      /\ Is(5, "target", 0, "swap", "end", 0, NoMount) /\ Is(6, "target", 1, "swap", "end", 0, NoMount)
      /\ Is(7, "md", 0, "fs", "end", 0, Boot) /\ Is(8, "md", 1, "fs", "end", 0, Root)
  BY MirrorIs, ItemsAre
<1>2. DOMAIN Recipe = 1..8 /\ Len(Recipe) = 8
  BY MirrorIs DEF Mirror
<1>3. ItemsOf("target") = {1, 2, 3, 4, 5, 6} /\ ItemsOf("ref_size") = {} /\ ItemsOf("md") = {7, 8}
  <2>1. /\ Recipe[1].in = "target" /\ Recipe[2].in = "target" /\ Recipe[3].in = "target" /\ Recipe[4].in = "target"
        /\ Recipe[5].in = "target" /\ Recipe[6].in = "target" /\ Recipe[7].in = "md" /\ Recipe[8].in = "md"
    BY <1>1 DEF Is
  <2> QED  BY <1>2, <2>1 DEF ItemsOf
<1>4. BootTargets = {1, 2}
  <2>1. Recipe[7].mount = Boot /\ Recipe[8].mount = Root /\ Recipe[7].at = 0
    BY <1>1 DEF Is
  <2>2. LastMounted(Boot, "md") = {7}
    BY <1>3, <2>1, MountsApart DEF LastMounted
  <2>3. Recipe[1].type = "md" /\ Recipe[1].group = 0 /\ Recipe[2].type = "md" /\ Recipe[2].group = 0
    BY <1>1 DEF Is
  <2>4. Recipe[3].group = 1 /\ Recipe[4].group = 1 /\ Recipe[5].type = "swap" /\ Recipe[6].type = "swap"
    BY <1>1 DEF Is
  <2>5. TargetsWithMount(Boot) = {1, 2}
    BY <1>3, <2>1, <2>2, <2>3, <2>4 DEF TargetsWithMount, HasGroup
  <2> QED  BY <2>5 DEF BootTargets
<1>5. /\ Recipe[1].size = "boot" /\ Recipe[2].size = "boot" /\ Recipe[3].size = "- swap"
      /\ Recipe[4].size = "- swap" /\ Recipe[5].size = "end" /\ Recipe[6].size = "end"
  BY <1>1 DEF Is
<1>6. /\ Recipe[1].at = 0 /\ Recipe[2].at = 1 /\ Recipe[3].at = 0 /\ Recipe[4].at = 1 /\ Recipe[5].at = 0
      /\ Recipe[6].at = 1
  BY <1>1 DEF Is
<1>7. \A i \in ItemsOf("target") : Recipe[i].type # "blank"
  <2>1. /\ Recipe[1].type = "md" /\ Recipe[2].type = "md" /\ Recipe[3].type = "md" /\ Recipe[4].type = "md"
        /\ Recipe[5].type = "swap" /\ Recipe[6].type = "swap"
    BY <1>1 DEF Is
  <2> QED  BY <1>3, <2>1
<1>8. \A i \in ItemsOf("target") : Recipe[i].size \in {"boot", "- swap", "end"}
  BY <1>3, <1>5
<1>9. \A i \in ItemsOf("target") : \E j \in ItemsOf("target") : Shares(i, j) /\ Recipe[j].size = "end"
  <2>1. Shares(1, 5) /\ Shares(2, 6) /\ Shares(3, 5) /\ Shares(4, 6) /\ Shares(5, 5) /\ Shares(6, 6)
    BY <1>6 DEF Shares
  <2>2. 5 \in ItemsOf("target") /\ 6 \in ItemsOf("target")
    BY <1>3
  <2> QED  BY <1>3, <1>5, <2>1, <2>2
<1>10. ASSUME NEW i \in ItemsOf("target"), NEW j \in ItemsOf("target"), i < j, Shares(i, j)
       PROVE  Recipe[j].size = "end" \/ (Recipe[i].size = "boot" /\ Recipe[j].size = "- swap")
  <2>1. CASE j \in {5, 6}
    BY <1>5, <2>1
  <2>2. j # 1
    BY <1>3, <1>6, <1>10 DEF Shares
  <2>3. j # 2
    BY <1>3, <1>6, <1>10 DEF Shares
  <2>4. CASE j = 3
    <3>1. i = 1
      BY <1>3, <1>6, <1>10, <2>4 DEF Shares
    <3> QED  BY <1>5, <2>4, <3>1
  <2>5. CASE j = 4
    <3>1. i = 2
      BY <1>3, <1>6, <1>10, <2>5 DEF Shares
    <3> QED  BY <1>5, <2>5, <3>1
  <2> QED  BY <1>3, <2>1, <2>2, <2>3, <2>4, <2>5
<1>11. \A i \in ItemsOf("target") : Recipe[i].size # "swap"
  BY <1>8
<1>12. ItemsOf("ref_size") = {}
  BY <1>3
<1>13. \A i, j, k \in BootTargets : Shares(i, j) /\ Shares(i, k) => i = j \/ i = k \/ j = k
  BY <1>4, <1>6 DEF Shares
<1> QED  BY <1>7, <1>8, <1>9, <1>10, <1>11, <1>12, <1>13 DEF Orderly

\* Two drives with volumes: the items, and that they follow one another.
LEMMA DualLVMIs ==
  /\ DOMAIN DualLVM = 1..9
  /\ DualLVM[1] = Member(0, "md", 0, "boot") /\ DualLVM[2] = Member(1, "md", 0, "boot")
  /\ DualLVM[3] = Member(0, "pv", 0, "- swap") /\ DualLVM[4] = Part(0, "swap", "end")
  /\ DualLVM[5] = Member(1, "pv", 0, "- swap") /\ DualLVM[6] = Part(1, "swap", "end")
  /\ DualLVM[7] = Array(0, 1, Boot) /\ DualLVM[8] = VolumeGroup(0) /\ DualLVM[9] = Volume(0, 0, Root)
BY DEF DualLVM

LEMMA DualLVMOrderly == ASSUME Recipe = DualLVM PROVE Orderly
<1>1. /\ Is(1, "target", 0, "md", "boot", 0, NoMount) /\ Is(2, "target", 1, "md", "boot", 0, NoMount)
      /\ Is(3, "target", 0, "pv", "- swap", 0, NoMount) /\ Is(4, "target", 0, "swap", "end", 0, NoMount)
      /\ Is(5, "target", 1, "pv", "- swap", 0, NoMount) /\ Is(6, "target", 1, "swap", "end", 0, NoMount)
      /\ Is(7, "md", 0, "fs", "end", 0, Boot) /\ Is(8, "vg", 0, "fs", "end", 0, NoMount)
      /\ Is(9, "lv", 0, "fs", "percent", 0, Root)
  BY DualLVMIs, ItemsAre
<1>2. DOMAIN Recipe = 1..9 /\ Len(Recipe) = 9
  BY DualLVMIs DEF DualLVM
<1>3. ItemsOf("target") = {1, 2, 3, 4, 5, 6} /\ ItemsOf("ref_size") = {} /\ ItemsOf("md") = {7}
  <2>1. /\ Recipe[1].in = "target" /\ Recipe[2].in = "target" /\ Recipe[3].in = "target" /\ Recipe[4].in = "target"
        /\ Recipe[5].in = "target" /\ Recipe[6].in = "target" /\ Recipe[7].in = "md" /\ Recipe[8].in = "vg"
        /\ Recipe[9].in = "lv"
    BY <1>1 DEF Is
  <2> QED  BY <1>2, <2>1 DEF ItemsOf
<1>4. BootTargets = {1, 2, 3, 5}
  <2>1. Recipe[7].mount = Boot /\ Recipe[7].at = 0
    BY <1>1 DEF Is
  <2>2. LastMounted(Boot, "md") = {7}
    BY <1>3, <2>1, MountsApart DEF LastMounted
  <2>3. /\ Recipe[1].type = "md" /\ Recipe[1].group = 0 /\ Recipe[2].type = "md" /\ Recipe[2].group = 0
        /\ Recipe[3].type = "pv" /\ Recipe[3].group = 0 /\ Recipe[5].type = "pv" /\ Recipe[5].group = 0
    BY <1>1 DEF Is
  <2>4. Recipe[4].type = "swap" /\ Recipe[6].type = "swap"
    BY <1>1 DEF Is
  <2>5. TargetsWithMount(Boot) = {1, 2, 3, 5}
    BY <1>3, <2>1, <2>2, <2>3, <2>4 DEF TargetsWithMount, HasGroup
  <2> QED  BY <2>5 DEF BootTargets
<1>5. /\ Recipe[1].size = "boot" /\ Recipe[2].size = "boot" /\ Recipe[3].size = "- swap" /\ Recipe[4].size = "end"
      /\ Recipe[5].size = "- swap" /\ Recipe[6].size = "end"
  BY <1>1 DEF Is
<1>6. /\ Recipe[1].at = 0 /\ Recipe[2].at = 1 /\ Recipe[3].at = 0 /\ Recipe[4].at = 0 /\ Recipe[5].at = 1
      /\ Recipe[6].at = 1
  BY <1>1 DEF Is
<1>7. \A i \in ItemsOf("target") : Recipe[i].type # "blank"
  <2>1. /\ Recipe[1].type = "md" /\ Recipe[2].type = "md" /\ Recipe[3].type = "pv" /\ Recipe[4].type = "swap"
        /\ Recipe[5].type = "pv" /\ Recipe[6].type = "swap"
    BY <1>1 DEF Is
  <2> QED  BY <1>3, <2>1
<1>8. \A i \in ItemsOf("target") : Recipe[i].size \in {"boot", "- swap", "end"}
  BY <1>3, <1>5
<1>9. \A i \in ItemsOf("target") : \E j \in ItemsOf("target") : Shares(i, j) /\ Recipe[j].size = "end"
  <2>1. Shares(1, 4) /\ Shares(2, 6) /\ Shares(3, 4) /\ Shares(4, 4) /\ Shares(5, 6) /\ Shares(6, 6)
    BY <1>6 DEF Shares
  <2>2. 4 \in ItemsOf("target") /\ 6 \in ItemsOf("target")
    BY <1>3
  <2> QED  BY <1>3, <1>5, <2>1, <2>2
<1>10. ASSUME NEW i \in ItemsOf("target"), NEW j \in ItemsOf("target"), i < j, Shares(i, j)
       PROVE  Recipe[j].size = "end" \/ (Recipe[i].size = "boot" /\ Recipe[j].size = "- swap")
  <2>1. CASE j \in {4, 6}
    BY <1>5, <2>1
  <2>2. j # 1
    BY <1>3, <1>6, <1>10 DEF Shares
  <2>3. j # 2
    BY <1>3, <1>6, <1>10 DEF Shares
  <2>4. CASE j = 3
    <3>1. i = 1
      BY <1>3, <1>6, <1>10, <2>4 DEF Shares
    <3> QED  BY <1>5, <2>4, <3>1
  <2>5. CASE j = 5
    <3>1. i = 2
      BY <1>3, <1>6, <1>10, <2>5 DEF Shares
    <3> QED  BY <1>5, <2>5, <3>1
  <2> QED  BY <1>3, <2>1, <2>2, <2>3, <2>4, <2>5
<1>11. \A i \in ItemsOf("target") : Recipe[i].size # "swap"
  BY <1>8
<1>12. ItemsOf("ref_size") = {}
  BY <1>3
<1>13. \A i, j, k \in BootTargets : Shares(i, j) /\ Shares(i, k) => i = j \/ i = k \/ j = k
  <2>1. \A i, j \in BootTargets : Shares(i, j) => (i \in {1, 3} /\ j \in {1, 3}) \/ (i \in {2, 5} /\ j \in {2, 5})
    BY <1>4, <1>6 DEF Shares
  <2> QED  BY <2>1
<1> QED  BY <1>7, <1>8, <1>9, <1>10, <1>11, <1>12, <1>13 DEF Orderly

\* Four drives: the items, and that they follow one another.
LEMMA FourDrivesIs ==
  ASSUME NEW level
  PROVE  /\ DOMAIN FourDrives(level) = 1..12
         /\ FourDrives(level)[1] = Member(0, "md", 0, "boot") /\ FourDrives(level)[2] = Member(1, "md", 0, "boot")
         /\ FourDrives(level)[3] = Part(2, "swap", "swap") /\ FourDrives(level)[4] = Part(3, "swap", "swap")
         /\ FourDrives(level)[5] = Member(0, "md", 1, "end") /\ FourDrives(level)[6] = Member(1, "md", 1, "end")
         /\ FourDrives(level)[7] = Member(2, "md", 1, "end") /\ FourDrives(level)[8] = Member(3, "md", 1, "end")
         /\ FourDrives(level)[9] = Array(0, 1, Boot) /\ FourDrives(level)[10] = Array(1, level, Root)
         /\ FourDrives(level)[11] = RefSize("boot") /\ FourDrives(level)[12] = RefSize("swap")
BY DEF FourDrives

LEMMA FourDrivesOrderly == ASSUME NEW level, Recipe = FourDrives(level) PROVE Orderly
<1>1. /\ Is(1, "target", 0, "md", "boot", 0, NoMount) /\ Is(2, "target", 1, "md", "boot", 0, NoMount)
      /\ Is(3, "target", 2, "swap", "swap", 0, NoMount) /\ Is(4, "target", 3, "swap", "swap", 0, NoMount)
      /\ Is(5, "target", 0, "md", "end", 1, NoMount) /\ Is(6, "target", 1, "md", "end", 1, NoMount)
      /\ Is(7, "target", 2, "md", "end", 1, NoMount) /\ Is(8, "target", 3, "md", "end", 1, NoMount)
      /\ Is(9, "md", 0, "fs", "end", 0, Boot) /\ Is(10, "md", 1, "fs", "end", 0, Root)
      /\ Is(11, "ref_size", 0, "fs", "end", 0, NoMount) /\ Is(12, "ref_size", 0, "fs", "end", 0, NoMount)
  BY FourDrivesIs, ItemsAre
<1>2. DOMAIN Recipe = 1..12 /\ Len(Recipe) = 12
  BY FourDrivesIs DEF FourDrives
<1>3. ItemsOf("target") = {1, 2, 3, 4, 5, 6, 7, 8} /\ ItemsOf("ref_size") = {11, 12} /\ ItemsOf("md") = {9, 10}
  <2>1. /\ Recipe[1].in = "target" /\ Recipe[2].in = "target" /\ Recipe[3].in = "target" /\ Recipe[4].in = "target"
        /\ Recipe[5].in = "target" /\ Recipe[6].in = "target" /\ Recipe[7].in = "target" /\ Recipe[8].in = "target"
        /\ Recipe[9].in = "md" /\ Recipe[10].in = "md" /\ Recipe[11].in = "ref_size" /\ Recipe[12].in = "ref_size"
    BY <1>1 DEF Is
  <2> QED  BY <1>2, <2>1 DEF ItemsOf
<1>4. BootTargets = {1, 2}
  <2>1. Recipe[9].mount = Boot /\ Recipe[10].mount = Root /\ Recipe[9].at = 0
    BY <1>1 DEF Is
  <2>2. LastMounted(Boot, "md") = {9}
    BY <1>3, <2>1, MountsApart DEF LastMounted
  <2>3. Recipe[1].type = "md" /\ Recipe[1].group = 0 /\ Recipe[2].type = "md" /\ Recipe[2].group = 0
    BY <1>1 DEF Is
  <2>4. /\ Recipe[3].type = "swap" /\ Recipe[4].type = "swap" /\ Recipe[5].group = 1 /\ Recipe[6].group = 1
        /\ Recipe[7].group = 1 /\ Recipe[8].group = 1
    BY <1>1 DEF Is
  <2>5. TargetsWithMount(Boot) = {1, 2}
    BY <1>3, <2>1, <2>2, <2>3, <2>4 DEF TargetsWithMount, HasGroup
  <2> QED  BY <2>5 DEF BootTargets
<1>5. /\ Recipe[1].size = "boot" /\ Recipe[2].size = "boot" /\ Recipe[3].size = "swap" /\ Recipe[4].size = "swap"
      /\ Recipe[5].size = "end" /\ Recipe[6].size = "end" /\ Recipe[7].size = "end" /\ Recipe[8].size = "end"
  BY <1>1 DEF Is
<1>6. /\ Recipe[1].at = 0 /\ Recipe[2].at = 1 /\ Recipe[3].at = 2 /\ Recipe[4].at = 3 /\ Recipe[5].at = 0
      /\ Recipe[6].at = 1 /\ Recipe[7].at = 2 /\ Recipe[8].at = 3
  BY <1>1 DEF Is
<1>7. \A i \in ItemsOf("target") : Recipe[i].type # "blank"
  <2>1. /\ Recipe[1].type = "md" /\ Recipe[2].type = "md" /\ Recipe[3].type = "swap" /\ Recipe[4].type = "swap"
        /\ Recipe[5].type = "md" /\ Recipe[6].type = "md" /\ Recipe[7].type = "md" /\ Recipe[8].type = "md"
    BY <1>1 DEF Is
  <2> QED  BY <1>3, <2>1
<1>8. \A i \in ItemsOf("target") : Recipe[i].size \in {"boot", "swap", "end"}
  BY <1>3, <1>5
<1>9. \A i \in ItemsOf("target") : \E j \in ItemsOf("target") : Shares(i, j) /\ Recipe[j].size = "end"
  BY <1>3, <1>5, <1>6 DEF Shares
<1>10. ASSUME NEW i \in ItemsOf("target"), NEW j \in ItemsOf("target"), i < j, Shares(i, j)
       PROVE  Recipe[j].size = "end" \/ (Recipe[i].size = "boot" /\ Recipe[j].size = "- swap")
  <2>1. CASE j \in {5, 6, 7, 8}
    BY <1>5, <2>1
  <2>2. j # 1
    BY <1>3, <1>6, <1>10 DEF Shares
  <2>3. j # 2
    BY <1>3, <1>6, <1>10 DEF Shares
  <2>4. j # 3
    BY <1>3, <1>6, <1>10 DEF Shares
  <2>5. j # 4
    BY <1>3, <1>6, <1>10 DEF Shares
  <2> QED  BY <1>3, <2>1, <2>2, <2>3, <2>4, <2>5
<1>11. \A i \in ItemsOf("target") : Recipe[i].size # "- swap"
  BY <1>8
<1>12. ASSUME NEW i \in ItemsOf("target"), Recipe[i].size = "swap" PROVE \A j \in BootTargets : ~Shares(i, j)
  <2>1. i \in {3, 4}
    BY <1>3, <1>5, <1>12
  <2> QED  BY <1>4, <1>6, <2>1 DEF Shares
<1>13. \A i, j, k \in BootTargets : Shares(i, j) /\ Shares(i, k) => i = j \/ i = k \/ j = k
  BY <1>4, <1>6 DEF Shares
<1> QED  BY <1>7, <1>8, <1>9, <1>10, <1>11, <1>12, <1>13 DEF Orderly

\* The recipes that are shipped are all of this kind.
LEMMA ShippedOrderly == ASSUME Recipe \in Range(partition_recipes) PROVE Orderly
<1>1. \/ Recipe = Single \/ Recipe = Mirror \/ Recipe = FourDrives(10) \/ Recipe = FourDrives(6)
      \/ Recipe = SingleLVM \/ Recipe = DualLVM \/ Recipe = BCacheVar
  <2>1. PICK i \in DOMAIN partition_recipes : Recipe = partition_recipes[i]
    BY DEF Range
  <2> QED  BY <2>1 DEF partition_recipes
<1> QED  BY <1>1, SingleOrderly, MirrorOrderly, FourDrivesOrderly, SingleLVMOrderly, DualLVMOrderly, BCacheVarOrderly
\* The sizes stay within what the job asks for.
Sized ==
  /\ phase \in {"drives", "prepare"} => boot_size = Jobs[job].boot_size /\ swap_size = Jobs[job].swap_size
  /\ phase \in Planning =>
       /\ boot_size \in Int /\ 0 <= boot_size /\ boot_size <= Jobs[job].boot_size + Jobs[job].swap_size
       /\ swap_size \in Int /\ -Rsvd <= swap_size /\ swap_size <= Jobs[job].boot_size + Jobs[job].swap_size
       /\ ItemsOf("ref_size") = {} =>
            0 <= swap_size /\ boot_size + swap_size <= Jobs[job].boot_size + Jobs[job].swap_size

\* The plan is one of positions on drives.
Measured ==
  /\ job \in DOMAIN Jobs /\ present \subseteq Drives /\ n \in Nat
  /\ phase \notin {"drives", "raised"} =>
       Len(target_drives) \in Nat /\ target_drives \in [1..Len(target_drives) -> Drives]
  /\ phase \in {"drives", "prepare"} => partition_pos = <<>>
  /\ phase \in Planning =>
       /\ EnoughDrives /\ boot_drives = [i \in BootTargets |-> DriveOf(i)]
       /\ \A d \in DOMAIN partition_pos :
            partition_pos[d] \in Int /\ (phase # "target" => partition_pos[d] > 0)
       /\ \A d \in DOMAIN parted_task_map : \A i \in DOMAIN parted_task_map[d] :
            parted_task_map[d][i].start \in Int /\ parted_task_map[d][i].size \in Int

\* A drive has one partition that takes the rest of it.
Ends(i) == phase = "target" /\ i \in ItemsOf("target") /\ i < n /\ Recipe[i].size = "end"
Filled ==
  /\ \A i \in ItemsOf("target") : Ends(i) => Full(DriveOf(i))
  /\ \A i, j \in ItemsOf("target") : Ends(i) /\ Ends(j) /\ DriveOf(i) = DriveOf(j) => i = j

\* Different targets of the recipe are different drives.
Spread == \A i, j \in ItemsOf("target") : DriveOf(i) = DriveOf(j) => Shares(i, j)

\* What a drive has: room for the boot loader, and partitions of the recipe.
Begun(d) == {i \in DOMAIN boot_drives : boot_drives[i] = d /\ (phase = "grub" => i < n)}
Placed(d) == {i \in ItemsOf("target") : phase = "target" /\ i < n /\ DriveOf(i) = d}

Ahead(d) ==
  /\ 0 <= Place(d, Start(d)) /\ Place(d, Start(d)) < Capacity[d]
  /\ \A i \in DOMAIN parted_task_map[d] : To(d, i) <= Place(d, Start(d))
  /\ Placed(d) = {} =>
       /\ Start(d) \in {0, Rsvd, 2 * Rsvd}
       /\ Start(d) # 0 => Begun(d) # {}
       /\ Start(d) = 2 * Rsvd => \E i, j \in Begun(d) : i # j
  /\ Placed(d) # {} /\ (\A i \in Placed(d) : Recipe[i].size = "boot") =>
       0 <= Start(d) /\ Start(d) <= 2 * Rsvd + boot_size

Fits(d) == Inside(d) /\ Apart(d) /\ (Full(d) \/ Ahead(d))

LaidOut ==
  /\ phase \in Planning /\ Orderly /\ Spread => \A d \in DOMAIN parted_task_map : Roomy(d) => Fits(d)
  /\ phase = "parted" /\ Orderly => \A d \in DOMAIN parted_task_map : Roomy(d) => Inside(d) /\ Apart(d)

LInv == Sized /\ Measured /\ (Orderly => Filled) /\ LaidOut

\* What does not change with the plan.
LEMMA SameRecipe ==
  ASSUME UNCHANGED job
  PROVE  /\ Recipe' = Recipe /\ Rsvd' = Rsvd /\ BootTargets' = BootTargets /\ (Orderly' <=> Orderly)
         /\ \A in : ItemsOf(in)' = ItemsOf(in)
         /\ \A mount : TargetsWithMount(mount)' = TargetsWithMount(mount) /\ (Confused(mount)' <=> Confused(mount))
         /\ \A i, j : Shares(i, j)' <=> Shares(i, j)
         /\ \A d : Roomy(d)' <=> Roomy(d)
<1>1. Recipe' = Recipe /\ Rsvd' = Rsvd
  BY DEF Recipe, Rsvd
<1>2. \A in : ItemsOf(in)' = ItemsOf(in)
  BY <1>1 DEF ItemsOf
<1>3. \A mount, in : LastMounted(mount, in)' = LastMounted(mount, in)
  BY <1>1, <1>2 DEF LastMounted
<1>4. \A mount : TargetsWithMount(mount)' = TargetsWithMount(mount) /\ (Confused(mount)' <=> Confused(mount))
  BY <1>1, <1>2, <1>3 DEF TargetsWithMount, Confused
<1>5. BootTargets' = BootTargets
  BY <1>4 DEF BootTargets
<1>6. \A i, j : Shares(i, j)' <=> Shares(i, j)
  BY <1>1 DEF Shares
<1>7. Orderly' <=> Orderly
  BY <1>1, <1>2, <1>5, <1>6 DEF Orderly
<1>8. \A d : Roomy(d)' <=> Roomy(d)
  BY <1>1 DEF Roomy
<1> QED  BY <1>1, <1>2, <1>4, <1>5, <1>6, <1>7, <1>8

LEMMA SameDrives ==
  ASSUME UNCHANGED <<job, target_drives>>
  PROVE  (\A i : DriveOf(i)' = DriveOf(i)) /\ (EnoughDrives' <=> EnoughDrives) /\ (Spread' <=> Spread)
<1>1. Recipe' = Recipe /\ (\A in : ItemsOf(in)' = ItemsOf(in)) /\ \A i, j : Shares(i, j)' <=> Shares(i, j)
  BY SameRecipe
<1>2. \A i : DriveOf(i)' = DriveOf(i)
  BY <1>1 DEF DriveOf
<1> QED  BY <1>1, <1>2 DEF EnoughDrives, Spread

\* A partition more: where the next begins, and the task.
LEMMA TaskAdded ==
  ASSUME Tasked, NEW d \in DOMAIN parted_task_map, NEW kind, NEW size, AddPartition(d, kind, size)
  PROVE  /\ DOMAIN partition_pos' = DOMAIN partition_pos \cup {d}
         /\ partition_pos'[d] = NextPos(d, size)
         /\ \A e \in DOMAIN partition_pos : e # d => partition_pos'[e] = partition_pos[e]
         /\ \A e : e # d => Start(e)' = Start(e) /\ (Full(e)' <=> Full(e))
         /\ Start(d)' = NextPos(d, size) /\ (Full(d)' <=> NextPos(d, size) = 0)
         /\ DOMAIN parted_task_map' = DOMAIN parted_task_map
         /\ \A e \in DOMAIN parted_task_map : e # d \/ kind = "blank" => parted_task_map'[e] = parted_task_map[e]
         /\ kind # "blank" =>
              /\ Len(parted_task_map[d]) \in Nat /\ DOMAIN parted_task_map[d] = 1..Len(parted_task_map[d])
              /\ DOMAIN parted_task_map'[d] = 1..(Len(parted_task_map[d]) + 1)
              /\ \A i \in 1..Len(parted_task_map[d]) : parted_task_map'[d][i] = parted_task_map[d][i]
              /\ parted_task_map'[d][Len(parted_task_map[d]) + 1] = [kind |-> kind, start |-> Start(d), size |-> size]
<1> DEFINE task == [kind |-> kind, start |-> Start(d), size |-> size]
<1>1. /\ DOMAIN partition_pos' = DOMAIN partition_pos \cup {d}
      /\ partition_pos'[d] = NextPos(d, size)
      /\ \A e \in DOMAIN partition_pos : e # d => partition_pos'[e] = partition_pos[e]
  BY DEF AddPartition
<1>2. /\ \A e : e # d => Start(e)' = Start(e) /\ (Full(e)' <=> Full(e))
      /\ Start(d)' = NextPos(d, size) /\ (Full(d)' <=> NextPos(d, size) = 0)
  BY <1>1 DEF Start, Full
<1>3. CASE kind = "blank"
  <2>1. parted_task_map' = parted_task_map
    BY <1>3 DEF AddPartition
  <2> QED  BY <1>1, <1>2, <1>3, <2>1
<1>4. CASE kind # "blank"
  <2>1. parted_task_map' = [parted_task_map EXCEPT ![d] = Append(parted_task_map[d], task)]
    BY <1>4 DEF AddPartition
  <2> HIDE DEF task
  <2>2. IsSequence(parted_task_map[d])
    BY DEF Tasked
  <2>3. /\ Len(parted_task_map[d]) \in Nat /\ DOMAIN parted_task_map[d] = 1..Len(parted_task_map[d])
        /\ DOMAIN Append(parted_task_map[d], task) = 1..(Len(parted_task_map[d]) + 1)
        /\ \A i \in 1..Len(parted_task_map[d]) : Append(parted_task_map[d], task)[i] = parted_task_map[d][i]
        /\ Append(parted_task_map[d], task)[Len(parted_task_map[d]) + 1] = task
    BY <2>2, Appended
  <2>4. /\ DOMAIN parted_task_map' = DOMAIN parted_task_map
        /\ \A e \in DOMAIN parted_task_map : e # d => parted_task_map'[e] = parted_task_map[e]
        /\ parted_task_map'[d] = Append(parted_task_map[d], task)
    BY <2>1
  <2>5. task = [kind |-> kind, start |-> Start(d), size |-> size]
    BY DEF task
  <2> QED  BY <1>1, <1>2, <1>4, <2>3, <2>4, <2>5
<1> QED  BY <1>3, <1>4

\* Where partitions lie that are not touched.
LEMMA TasksStay ==
  ASSUME NEW d, parted_task_map'[d] = parted_task_map[d]
  PROVE  /\ \A i : From(d, i)' = From(d, i) /\ To(d, i)' = To(d, i)
         /\ (Inside(d)' <=> Inside(d)) /\ (Apart(d)' <=> Apart(d))
<1>1. \A i : From(d, i)' = From(d, i) /\ To(d, i)' = To(d, i)
  BY DEF From, To, Place
<1> QED  BY <1>1 DEF Inside, Apart

\* A partition lies behind the others, and inside of its drive, if it ends there.
LEMMA TaskFits ==
  ASSUME Tasked, NEW d \in DOMAIN parted_task_map, NEW kind, NEW size \in Int, AddPartition(d, kind, size),
         Capacity[d] \in Nat, Start(d) \in Int,
         \A i \in DOMAIN parted_task_map[d] :
           parted_task_map[d][i].start \in Int /\ parted_task_map[d][i].size \in Int,
         Inside(d), Apart(d), 0 <= Place(d, Start(d)), Place(d, Start(d)) < Capacity[d],
         \A i \in DOMAIN parted_task_map[d] : To(d, i) <= Place(d, Start(d)),
         size # 0 => /\ NextPos(d, size) # 0 /\ Place(d, Start(d)) < Place(d, NextPos(d, size))
                     /\ Place(d, NextPos(d, size)) < Capacity[d]
  PROVE  /\ Inside(d)' /\ Apart(d)' /\ (Full(d)' <=> size = 0)
         /\ size # 0 => /\ 0 <= Place(d, Start(d)') /\ Place(d, Start(d)') < Capacity[d]
                        /\ \A i \in DOMAIN parted_task_map'[d] : To(d, i)' <= Place(d, Start(d)')
<1>0. PICK len, last, old : len = Len(parted_task_map[d]) /\ last = len + 1 /\ old = DOMAIN parted_task_map[d]
  OBVIOUS
<1>1. /\ Start(d)' = NextPos(d, size) /\ (Full(d)' <=> NextPos(d, size) = 0)
      /\ kind = "blank" => parted_task_map'[d] = parted_task_map[d]
      /\ kind # "blank" =>
           /\ len \in Nat /\ last \in Nat /\ old = 1..len
           /\ DOMAIN parted_task_map'[d] = 1..last
           /\ \A i \in 1..len : parted_task_map'[d][i] = parted_task_map[d][i]
           /\ parted_task_map'[d][last] = [kind |-> kind, start |-> Start(d), size |-> size]
  <2>1. Start(d)' = NextPos(d, size) /\ (Full(d)' <=> NextPos(d, size) = 0)
    BY ZenonT(60), TaskAdded
  <2>2. kind = "blank" => parted_task_map'[d] = parted_task_map[d]
    BY ZenonT(60), TaskAdded
  <2>3. kind # "blank" =>
           /\ len \in Nat /\ old = 1..len
           /\ DOMAIN parted_task_map'[d] = 1..last
           /\ \A i \in 1..len : parted_task_map'[d][i] = parted_task_map[d][i]
           /\ parted_task_map'[d][last] = [kind |-> kind, start |-> Start(d), size |-> size]
    <3>1. kind # "blank" =>
            /\ Len(parted_task_map[d]) \in Nat /\ DOMAIN parted_task_map[d] = 1..Len(parted_task_map[d])
            /\ DOMAIN parted_task_map'[d] = 1..(Len(parted_task_map[d]) + 1)
            /\ \A i \in 1..Len(parted_task_map[d]) : parted_task_map'[d][i] = parted_task_map[d][i]
            /\ parted_task_map'[d][Len(parted_task_map[d]) + 1] = [kind |-> kind, start |-> Start(d), size |-> size]
      BY ONLY ZenonT(60), Tasked, d \in DOMAIN parted_task_map, AddPartition(d, kind, size), TaskAdded
    <3> QED  BY <1>0, <3>1
  <2> QED  BY <1>0, <2>1, <2>2, <2>3
<1>2. NextPos(d, size) \in Int /\ (size = 0 => NextPos(d, size) = 0)
  BY DEF NextPos
<1>3. Full(d)' <=> size = 0
  BY <1>1, <1>2
<1>4. size # 0 => 0 <= Place(d, Start(d)') /\ Place(d, Start(d)') < Capacity[d]
  BY <1>1, <1>2 DEF Place
<1>5. \A i \in old : From(d, i) \in Int /\ To(d, i) \in Int
  BY <1>0 DEF From, To, Place
<1>6. Place(d, Start(d)) \in Int /\ Place(d, NextPos(d, size)) \in Int
  BY <1>2 DEF Place
<1>7. CASE kind = "blank"
  <2>1. /\ \A i : From(d, i)' = From(d, i) /\ To(d, i)' = To(d, i)
        /\ Inside(d)' /\ Apart(d)'
    BY <1>1, <1>7, TasksStay
  <2>2. size # 0 => \A i \in DOMAIN parted_task_map'[d] : To(d, i)' <= Place(d, Start(d)')
    <3> SUFFICES ASSUME size # 0, NEW i \in old PROVE To(d, i)' <= Place(d, Start(d)')
      BY <1>0, <1>1, <1>7
    <3>1. To(d, i) <= Place(d, Start(d)) /\ To(d, i) \in Int
      BY <1>0, <1>5
    <3> QED  BY <1>1, <1>6, <2>1, <3>1
  <2> QED  BY <1>3, <1>4, <2>1, <2>2
<1>8. CASE kind # "blank"
  <2>1. \A i \in old : i \in 1..len /\ From(d, i)' = From(d, i) /\ To(d, i)' = To(d, i)
    BY <1>1, <1>8 DEF From, To, Place
  <2>2. /\ From(d, last)' = Place(d, Start(d))
        /\ To(d, last)' = IF size = 0 THEN Capacity[d] ELSE Place(d, NextPos(d, size))
    <3>1. From(d, last)' = Place(d, Start(d))
      BY <1>1, <1>8 DEF From, Place
    <3>2. To(d, last)' = IF size = 0 THEN Capacity[d] ELSE Place(d, IF size < 0 THEN size ELSE Start(d) + size)
      BY <1>1, <1>8 DEF To, Place
    <3> QED  BY <3>1, <3>2 DEF NextPos
  <2>3. 0 <= From(d, last)' /\ From(d, last)' < To(d, last)' /\ To(d, last)' <= Capacity[d]
    BY <1>6, <2>2
  <2>4. \A i \in 1..last : i = last \/ i \in old
    BY <1>0, <1>1, <1>8
  <2>5. Inside(d)'
    <3> SUFFICES ASSUME NEW i \in 1..last
                 PROVE  0 <= From(d, i)' /\ From(d, i)' < To(d, i)' /\ To(d, i)' <= Capacity[d]
      BY <1>1, <1>8 DEF Inside
    <3>1. CASE i = last
      BY <2>3, <3>1
    <3>2. CASE i \in old
      BY <1>0, <2>1, <3>2 DEF Inside
    <3> QED  BY <2>4, <3>1, <3>2
  <2>6. Apart(d)'
    <3> SUFFICES ASSUME NEW i \in 1..last, NEW j \in 1..last, i < j PROVE To(d, i)' <= From(d, j)'
      BY <1>1, <1>8 DEF Apart
    <3>1. i \in old
      BY <1>0, <1>1, <1>8
    <3>2. CASE j = last
      BY <1>0, <2>1, <2>2, <3>1, <3>2
    <3>3. CASE j \in old
      BY <1>0, <2>1, <3>1, <3>3 DEF Apart
    <3> QED  BY <2>4, <3>2, <3>3
  <2>7. size # 0 => \A i \in DOMAIN parted_task_map'[d] : To(d, i)' <= Place(d, Start(d)')
    <3> SUFFICES ASSUME size # 0, NEW i \in 1..last PROVE To(d, i)' <= Place(d, Start(d)')
      BY <1>1, <1>8
    <3>1. CASE i = last
      BY <1>1, <1>6, <2>2, <3>1
    <3>2. CASE i \in old
      <4>1. To(d, i) <= Place(d, Start(d)) /\ To(d, i) \in Int
        BY <1>0, <1>5, <3>2
      <4>2. Start(d)' = NextPos(d, size) /\ To(d, i)' = To(d, i)
        BY <1>1, <2>1, <3>2
      <4> QED  BY <1>6, <3>2, <4>1, <4>2
    <3> QED  BY <2>4, <3>1, <3>2
  <2> QED  BY <1>3, <1>4, <2>5, <2>6, <2>7
<1> QED  BY <1>7, <1>8
\* Steps that leave the plan as it is, and those after it.
LEMMA PlanKept ==
  ASSUME LInv, UNCHANGED <<job, phase, target_drives, boot_drives, swap_size, boot_size, partition_pos, parted_task_map>>,
         phase \in Planning => n' = n, n' \in Nat, present' \subseteq Drives
  PROVE  LInv'
<1>1. /\ Recipe' = Recipe /\ Rsvd' = Rsvd /\ BootTargets' = BootTargets /\ (Orderly' <=> Orderly)
      /\ (\A in : ItemsOf(in)' = ItemsOf(in)) /\ (\A d : Roomy(d)' <=> Roomy(d))
  BY SameRecipe
<1>2. (\A i : DriveOf(i)' = DriveOf(i)) /\ (EnoughDrives' <=> EnoughDrives) /\ (Spread' <=> Spread)
  BY SameDrives
<1>3. Sized'
  BY <1>1 DEF LInv, Sized
<1>4. Measured'
  BY <1>1, <1>2 DEF LInv, Measured
<1>5. \A d : Full(d)' <=> Full(d)
  BY DEF Full
<1>6. Orderly' => Filled'
  <2>1. \A i : Ends(i)' <=> Ends(i)
    BY <1>1 DEF Ends, Planning
  <2> QED  BY <1>1, <1>2, <1>5, <2>1 DEF LInv, Filled
<1>7. ASSUME NEW d PROVE Inside(d)' = Inside(d) /\ Apart(d)' = Apart(d) /\ (phase \in Planning => (Ahead(d)' <=> Ahead(d)))
  <2>1. /\ \A i : From(d, i)' = From(d, i) /\ To(d, i)' = To(d, i)
        /\ (Inside(d)' <=> Inside(d)) /\ (Apart(d)' <=> Apart(d))
    BY TasksStay
  <2>2. Inside(d)' = Inside(d) /\ Apart(d)' = Apart(d)
    BY DEF Inside, Apart, From, To, Place
  <2>3. Start(d)' = Start(d)
    BY DEF Start
  <2>4. ASSUME phase \in Planning PROVE Begun(d)' = Begun(d) /\ Placed(d)' = Placed(d)
    BY <1>1, <1>2, <2>4 DEF Begun, Placed
  <2>5. Place(d, Start(d))' = Place(d, Start(d))
    BY <2>3 DEF Place
  <2> QED  BY <1>1, <2>1, <2>2, <2>3, <2>4, <2>5 DEF Ahead
<1>8. LaidOut'
  <2>1. \A d : phase \in Planning => (Fits(d)' <=> Fits(d))
    BY <1>5, <1>7 DEF Fits
  <2> QED  BY <1>1, <1>2, <1>7, <2>1 DEF LInv, LaidOut
<1> QED  BY <1>3, <1>4, <1>6, <1>8 DEF LInv

LEMMA PlanOver ==
  ASSUME LInv, job' = job, n' \in Nat, present' \subseteq Drives,
         \/ phase' = "raised"
         \/ phase \notin {"drives", "raised"} /\ target_drives' = target_drives
            /\ phase' \notin Planning \cup {"drives", "prepare", "parted"}
  PROVE  LInv'
<1>1. phase' \notin Planning \cup {"drives", "prepare", "parted"}
  BY DEF Planning
<1>2. Sized' /\ LaidOut' /\ Filled'
  BY <1>1 DEF Sized, LaidOut, Filled, Ends, Planning
<1>3. Measured'
  BY <1>1 DEF LInv, Measured
<1> QED  BY <1>2, <1>3 DEF LInv

\* The drives that are chosen are drives, one for each number.
LEMMA ChosenAre ==
  ASSUME LInv, FindDrives
  PROVE  Len(target_drives') \in Nat /\ target_drives' \in [1..Len(target_drives') -> Drives]
<1>1. present \subseteq Drives /\ job \in DOMAIN Jobs
  BY DEF LInv, Measured
<1>2. Cardinality(present) \in Nat
  BY <1>1, DrivesAssumption, FS_Subset, FS_CardinalityType
<1>3. Len(Jobs[job].names) \in Nat /\ DOMAIN Jobs[job].names = 1..Len(Jobs[job].names)
  BY <1>1, JobsAssumption
<1>4. \E k \in Nat : target_drives' \in [1..k -> present]
  <2>1. target_drives' \in [1..Cardinality(present) -> present] \/ target_drives' \in [DOMAIN Jobs[job].names -> present]
    BY DEF FindDrives, AllPresent, AllNamed
  <2> QED  BY <1>2, <1>3, <2>1
<1>5. PICK k \in Nat : target_drives' \in [1..k -> present]
  BY <1>4
<1>6. target_drives' \in Seq(Drives) /\ DOMAIN target_drives' = 1..k
  BY <1>1, <1>5
<1>7. Len(target_drives') = k
  BY <1>6
<1> QED  BY <1>1, <1>5, <1>7

\* Drives are chosen.
LEMMA DrivesChosen ==
  ASSUME LInv, FindDrives \/ WaitForDrives
  PROVE  LInv'
<1>1. CASE phase' = "raised"
  BY <1>1, PlanOver DEF LInv, Measured, FindDrives, WaitForDrives, Raise, Enter
<1>2. CASE WaitForDrives /\ phase' # "raised"
  <2>1. /\ UNCHANGED <<job, phase, target_drives, boot_drives, swap_size, boot_size, partition_pos, parted_task_map>>
        /\ phase = "drives" /\ n' = n /\ present' = present
    BY <1>2 DEF WaitForDrives, Raise, planVars
  <2> QED  BY <2>1, PlanKept DEF LInv, Measured
<1>3. CASE FindDrives
  <2>1. /\ UNCHANGED <<job, boot_drives, swap_size, boot_size, partition_pos, parted_task_map>>
        /\ phase = "drives" /\ phase' = "prepare" /\ n' = 1 /\ present' = {}
    BY <1>3 DEF FindDrives, Enter
  <2>2. Len(target_drives') \in Nat /\ target_drives' \in [1..Len(target_drives') -> Drives]
    BY <1>3, ChosenAre
  <2>3. Sized' /\ Filled' /\ LaidOut'
    BY <2>1 DEF LInv, Sized, Filled, Ends, LaidOut, Planning
  <2>4. Measured'
    BY <2>1, <2>2 DEF LInv, Measured, Planning
  <2> QED  BY <2>3, <2>4 DEF LInv
<1> QED  BY <1>1, <1>2, <1>3

\* Items are on drives.
LEMMA OnDrives ==
  ASSUME job \in DOMAIN Jobs, EnoughDrives, Len(target_drives) \in Nat, target_drives \in [1..Len(target_drives) -> Drives]
  PROVE  \A i \in ItemsOf("target") : DriveOf(i) \in Drives
<1> TAKE i \in ItemsOf("target")
<1>1. Recipe[i].at \in Nat /\ Recipe[i].at < Len(target_drives)
  BY JobIs DEF EnoughDrives, Stated, ItemsOf
<1> QED  BY <1>1 DEF DriveOf

\* The sizes are laid down, and nothing is planned yet.
LEMMA PlanBegins ==
  ASSUME LInv, UInv, Prepare
  PROVE  LInv'
<1>1. CASE phase' = "raised"
  <2>1. job' = job /\ n' = n /\ present' = present
    BY <1>1 DEF Prepare, Raise, Enter
  <2> QED  BY <1>1, <2>1, PlanOver DEF LInv, Measured
<1>2. CASE phase' # "raised"
  <2>1. /\ phase = "prepare" /\ phase' = "grub" /\ n' = 1 /\ EnoughDrives
        /\ UNCHANGED <<job, present, target_drives, boot_size, partition_pos>>
        /\ boot_drives' = [i \in BootTargets |-> DriveOf(i)]
        /\ swap_size' = IF Swaps = {} THEN 0 ELSE Jobs[job].swap_size \div Cardinality(Swaps)
        /\ parted_task_map' = [d \in {DriveOf(i) : i \in ItemsOf("target")} |-> <<>>]
    BY <1>2 DEF Prepare, Enter, Raise
  <2>2. /\ Recipe' = Recipe /\ Rsvd' = Rsvd /\ BootTargets' = BootTargets /\ (Orderly' <=> Orderly)
        /\ (\A in : ItemsOf(in)' = ItemsOf(in)) /\ (\A d : Roomy(d)' <=> Roomy(d))
    BY <2>1, SameRecipe
  <2>3. (\A i : DriveOf(i)' = DriveOf(i)) /\ (EnoughDrives' <=> EnoughDrives) /\ (Spread' <=> Spread)
    BY <2>1, SameDrives
  <2>4. /\ job \in DOMAIN Jobs /\ boot_size = Jobs[job].boot_size /\ partition_pos = <<>> /\ present \subseteq Drives
        /\ Len(target_drives) \in Nat /\ target_drives \in [1..Len(target_drives) -> Drives]
    BY <2>1 DEF LInv, Sized, Measured
  <2>5. /\ Rsvd \in {5, 100} /\ Jobs[job].boot_size \in Nat /\ Jobs[job].swap_size \in Nat
        /\ Len(Recipe) \in Nat /\ DOMAIN Recipe = 1..Len(Recipe)
    BY <2>4, JobIs
  <2>6. swap_size' \in Nat /\ swap_size' <= Jobs[job].swap_size
    <3>1. CASE Swaps = {}
      BY <2>1, <2>5, <3>1
    <3>2. CASE Swaps # {}
      <4>1. IsFiniteSet(1..Len(Recipe)) /\ Swaps \subseteq 1..Len(Recipe)
        BY <2>5, FS_Interval DEF Swaps
      <4>2. IsFiniteSet(Swaps)
        BY <4>1, FS_Subset
      <4>3. Cardinality(Swaps) \in Nat /\ Cardinality(Swaps) # 0
        BY <3>2, <4>2, FS_CardinalityType, FS_EmptySet
      <4>4. \A s, c \in Nat : c # 0 => s \div c \in Nat /\ s \div c <= s
        OBVIOUS
      <4> QED  BY <2>1, <2>5, <3>2, <4>3, <4>4
    <3> QED  BY <3>1, <3>2
  <2>7. Sized'
    BY <2>1, <2>2, <2>4, <2>5, <2>6 DEF Sized, Planning
  <2>8. Measured'
    <3>1. \A d \in DOMAIN parted_task_map' : DOMAIN parted_task_map'[d] = {}
      BY <2>1
    <3>2. DOMAIN partition_pos' = {}
      BY <2>1, <2>4
    <3> QED  BY <2>1, <2>2, <2>3, <2>4, <3>1, <3>2 DEF Measured
  <2>9. Filled'
    BY <2>1 DEF Filled, Ends
  <2>10. LaidOut'
    <3> SUFFICES ASSUME NEW d \in DOMAIN parted_task_map', Roomy(d)' PROVE Fits(d)'
      BY <2>1 DEF LaidOut
    <3>1. DOMAIN parted_task_map'[d] = {} /\ DOMAIN partition_pos' = {}
      BY <2>1, <2>4
    <3>2. d \in Drives
      BY <2>1, <2>4, OnDrives
    <3>3. Capacity[d] \in Nat /\ Capacity[d] > 0
      BY <2>2, <2>4, <2>5, <3>2, DrivesAssumption DEF Roomy
    <3>4. Start(d)' = 0 /\ ~Full(d)' /\ Place(d, Start(d))' = 0 /\ Placed(d)' = {}
      BY <2>1, <3>1 DEF Start, Full, Place, Placed
    <3>5. Inside(d)' /\ Apart(d)'
      BY <3>1 DEF Inside, Apart
    <3> QED  BY <2>2, <2>5, <3>1, <3>3, <3>4, <3>5 DEF Fits, Ahead
  <2> QED  BY <2>7, <2>8, <2>9, <2>10 DEF LInv
<1> QED  BY <1>1, <1>2

\* From loop to loop: drives are only counted as begun, and nothing is placed before it is time.
LEMMA LoopKept ==
  ASSUME LInv, UInv, GrubDone \/ ChangeSize \/ ChangeSizeDone
  PROVE  LInv'
<1>1. /\ phase \in {"grub", "ref_size"} /\ phase' \in {"ref_size", "target"} /\ n' \in Nat
      /\ phase' = "target" => n' = 1
      /\ UNCHANGED <<job, present, target_drives, boot_drives, partition_pos, parted_task_map>>
      /\ ~ChangeSize => UNCHANGED <<boot_size, swap_size>>
  <2>1. ItemsOf("ref_size") \subseteq Nat
    BY JobIs DEF LInv, Measured, ItemsOf
  <2> QED  BY <2>1 DEF GrubDone, ChangeSize, ChangeSizeDone, planVars, Enter, LoopEnds, GoOn, NextOf
<1>2. /\ Recipe' = Recipe /\ Rsvd' = Rsvd /\ BootTargets' = BootTargets /\ (Orderly' <=> Orderly)
      /\ (\A in : ItemsOf(in)' = ItemsOf(in)) /\ (\A d : Roomy(d)' <=> Roomy(d))
  BY <1>1, SameRecipe
<1>3. (\A i : DriveOf(i)' = DriveOf(i)) /\ (EnoughDrives' <=> EnoughDrives) /\ (Spread' <=> Spread)
  BY <1>1, SameDrives
<1>4. /\ job \in DOMAIN Jobs /\ present \subseteq Drives
      /\ Len(target_drives) \in Nat /\ target_drives \in [1..Len(target_drives) -> Drives]
  BY <1>1 DEF LInv, Measured
<1>5. /\ Rsvd \in {5, 100} /\ Jobs[job].boot_size \in Nat /\ Jobs[job].swap_size \in Nat
      /\ Len(Recipe) \in Nat /\ DOMAIN Recipe = 1..Len(Recipe)
  BY <1>4, JobIs
<1>6. Sized'
  <2>1. /\ boot_size \in Int /\ 0 <= boot_size /\ boot_size <= Jobs[job].boot_size + Jobs[job].swap_size
        /\ swap_size \in Int /\ -Rsvd <= swap_size /\ swap_size <= Jobs[job].boot_size + Jobs[job].swap_size
        /\ ItemsOf("ref_size") = {} =>
             0 <= swap_size /\ boot_size + swap_size <= Jobs[job].boot_size + Jobs[job].swap_size
    BY <1>1 DEF LInv, Sized, Planning
  <2>2. CASE ~ChangeSize
    BY <1>1, <1>2, <2>1, <2>2 DEF Sized
  <2>3. CASE ChangeSize
    <3>1. PICK i \in ItemsOf("ref_size") :
            /\ boot_size' = IF Recipe[i].as = "boot" THEN Larger ELSE boot_size
            /\ swap_size' = IF Recipe[i].as = "swap" THEN Larger - Rsvd ELSE swap_size
      BY <2>3 DEF ChangeSize, NextOf
    <3>2. /\ boot_size' \in Int /\ 0 <= boot_size' /\ boot_size' <= Jobs[job].boot_size + Jobs[job].swap_size
          /\ swap_size' \in Int /\ -Rsvd <= swap_size' /\ swap_size' <= Jobs[job].boot_size + Jobs[job].swap_size
      BY <1>5, <2>1, <3>1 DEF Larger
    <3> QED  BY <1>1, <1>2, <3>1, <3>2 DEF Sized
  <2> QED  BY <2>2, <2>3
<1>7. Measured'
  BY <1>1, <1>2, <1>3 DEF LInv, Measured, Planning
<1>8. Filled'
  BY <1>1, <1>2, <1>5 DEF Filled, Ends, ItemsOf
<1>9. LaidOut'
  <2> SUFFICES ASSUME Orderly, Spread, NEW d \in DOMAIN parted_task_map, Roomy(d) PROVE Fits(d)'
    BY <1>1, <1>2, <1>3 DEF LaidOut, Planning
  <2>1. Fits(d)
    BY <1>1 DEF LInv, LaidOut, Planning
  <2>2. /\ \A i : From(d, i)' = From(d, i) /\ To(d, i)' = To(d, i)
        /\ (Inside(d)' <=> Inside(d)) /\ (Apart(d)' <=> Apart(d))
    BY <1>1, TasksStay
  <2>3. Start(d)' = Start(d) /\ (Full(d)' <=> Full(d)) /\ Place(d, Start(d))' = Place(d, Start(d))
    BY <1>1 DEF Start, Full, Place
  <2>4. Placed(d) = {} /\ Placed(d)' = {} /\ Begun(d) \subseteq Begun(d)'
    BY <1>1, <1>2, <1>5 DEF Placed, Begun, ItemsOf
  <2>5. CASE Full(d)
    BY <2>1, <2>2, <2>3, <2>5 DEF Fits
  <2>6. CASE Ahead(d)
    <3>1. Ahead(d)'
      BY <1>1, <1>2, <2>2, <2>3, <2>4, <2>6 DEF Ahead
    <3> QED  BY <2>1, <2>2, <3>1 DEF Fits
  <2> QED  BY <2>1, <2>5, <2>6 DEF Fits
<1> QED  BY <1>6, <1>7, <1>8, <1>9 DEF LInv

\* What is known of the plan while it is made, apart from where its partitions lie.
Known ==
  /\ job \in DOMAIN Jobs /\ present \subseteq Drives /\ n \in Nat /\ Tasked
  /\ Rsvd \in {5, 100} /\ Jobs[job].boot_size \in Nat /\ Jobs[job].swap_size \in Nat
  /\ Len(Recipe) \in Nat /\ DOMAIN Recipe = 1..Len(Recipe) /\ ItemsOf("target") \subseteq 1..Len(Recipe)
  /\ BootTargets \subseteq ItemsOf("target") /\ boot_drives = [i \in BootTargets |-> DriveOf(i)]
  /\ DOMAIN parted_task_map = {DriveOf(i) : i \in ItemsOf("target")}
  /\ \A d \in DOMAIN parted_task_map : d \in Drives /\ Capacity[d] \in Nat /\ Start(d) \in Int

LEMMA KnownAre == ASSUME LInv, UInv, phase \in Planning PROVE Known
<1>1. /\ job \in DOMAIN Jobs /\ present \subseteq Drives /\ n \in Nat /\ EnoughDrives
      /\ Len(target_drives) \in Nat /\ target_drives \in [1..Len(target_drives) -> Drives]
      /\ boot_drives = [i \in BootTargets |-> DriveOf(i)]
      /\ \A d \in DOMAIN partition_pos : partition_pos[d] \in Int
  BY DEF LInv, Measured, Planning
<1>2. Tasked /\ DOMAIN parted_task_map = {DriveOf(i) : i \in ItemsOf("target")}
  BY DEF UInv, Planned
<1>3. /\ Rsvd \in {5, 100} /\ Jobs[job].boot_size \in Nat /\ Jobs[job].swap_size \in Nat
      /\ Len(Recipe) \in Nat /\ DOMAIN Recipe = 1..Len(Recipe)
  BY <1>1, JobIs
<1>4. ItemsOf("target") \subseteq 1..Len(Recipe) /\ BootTargets \subseteq ItemsOf("target")
  BY <1>3 DEF ItemsOf, BootTargets, TargetsWithMount, LastMounted
<1>5. \A i \in ItemsOf("target") : DriveOf(i) \in Drives
  BY <1>1, OnDrives
<1>6. \A d \in DOMAIN parted_task_map : d \in Drives /\ Capacity[d] \in Nat /\ Start(d) \in Int
  BY <1>1, <1>2, <1>5, DrivesAssumption DEF Start
<1> QED  BY <1>1, <1>2, <1>3, <1>4, <1>6 DEF Known

\* Another drive than that of a new partition keeps its layout.
LEMMA OthersFit ==
  ASSUME Tasked, NEW d \in DOMAIN parted_task_map, NEW kind, NEW size, AddPartition(d, kind, size),
         NEW e \in DOMAIN parted_task_map, e # d, Fits(e), UNCHANGED <<job, boot_size>>,
         Begun(e) \subseteq Begun(e)', Placed(e)' = Placed(e)
  PROVE  Fits(e)'
<1>1. Start(e)' = Start(e) /\ (Full(e)' <=> Full(e)) /\ parted_task_map'[e] = parted_task_map[e]
  BY ZenonT(60), TaskAdded
<1>2. /\ \A i : From(e, i)' = From(e, i) /\ To(e, i)' = To(e, i)
      /\ (Inside(e)' <=> Inside(e)) /\ (Apart(e)' <=> Apart(e))
  BY <1>1, TasksStay
<1>3. Recipe' = Recipe /\ Rsvd' = Rsvd
  BY SameRecipe
<1>4. Place(e, Start(e))' = Place(e, Start(e))
  BY <1>1 DEF Place
<1>5. CASE Full(e)
  BY <1>1, <1>2, <1>5 DEF Fits
<1>6. CASE Ahead(e)
  <2>1. Ahead(e)'
    BY <1>1, <1>2, <1>3, <1>4, <1>6 DEF Ahead
  <2> QED  BY <1>2, <2>1 DEF Fits
<1> QED  BY <1>5, <1>6 DEF Fits

\* Positions and sizes stay numbers when a partition is added.
LEMMA TaskMeasured ==
  ASSUME Measured, Known, phase \in Planning, phase' = phase, n' \in Nat,
         NEW d \in DOMAIN parted_task_map, NEW kind, NEW size \in Int, AddPartition(d, kind, size),
         phase # "target" => size > 0,
         UNCHANGED <<job, present, target_drives, boot_drives>>
  PROVE  Measured'
<1>1. /\ Recipe' = Recipe /\ Rsvd' = Rsvd /\ BootTargets' = BootTargets
      /\ (\A in : ItemsOf(in)' = ItemsOf(in)) /\ (\A i : DriveOf(i)' = DriveOf(i)) /\ (EnoughDrives' <=> EnoughDrives)
  BY SameRecipe, SameDrives
<1>2. /\ \A e \in DOMAIN partition_pos : partition_pos[e] \in Int /\ (phase # "target" => partition_pos[e] > 0)
      /\ \A e \in DOMAIN parted_task_map : \A i \in DOMAIN parted_task_map[e] :
           parted_task_map[e][i].start \in Int /\ parted_task_map[e][i].size \in Int
  BY DEF Measured
<1>3. Start(d) \in Int /\ (phase # "target" => Start(d) >= 0)
  BY <1>2 DEF Start
<1>0. Tasked
  BY DEF Known
<1>4. NextPos(d, size) \in Int /\ (phase # "target" => NextPos(d, size) > 0)
  BY <1>3 DEF NextPos
<1>5. \A e \in DOMAIN partition_pos' : partition_pos'[e] \in Int /\ (phase # "target" => partition_pos'[e] > 0)
  <2>1. /\ DOMAIN partition_pos' = DOMAIN partition_pos \cup {d} /\ partition_pos'[d] = NextPos(d, size)
        /\ \A e \in DOMAIN partition_pos : e # d => partition_pos'[e] = partition_pos[e]
    BY DEF AddPartition
  <2> QED  BY <1>2, <1>4, <2>1
<1>6. \A e \in DOMAIN parted_task_map' : \A i \in DOMAIN parted_task_map'[e] :
        parted_task_map'[e][i].start \in Int /\ parted_task_map'[e][i].size \in Int
  <2>1. /\ DOMAIN parted_task_map' = DOMAIN parted_task_map
        /\ \A e \in DOMAIN parted_task_map : e # d \/ kind = "blank" => parted_task_map'[e] = parted_task_map[e]
    BY ONLY <1>0, d \in DOMAIN parted_task_map, AddPartition(d, kind, size), TaskAdded
  <2>2. CASE kind = "blank"
    BY <1>2, <2>1, <2>2
  <2>3. CASE kind # "blank"
    <3>1. PICK len : len = Len(parted_task_map[d])
      OBVIOUS
    <3>2. /\ len \in Nat /\ DOMAIN parted_task_map[d] = 1..len /\ DOMAIN parted_task_map'[d] = 1..(len + 1)
          /\ \A i \in 1..len : parted_task_map'[d][i] = parted_task_map[d][i]
          /\ parted_task_map'[d][len + 1] = [kind |-> kind, start |-> Start(d), size |-> size]
      <4>1. /\ Len(parted_task_map[d]) \in Nat /\ DOMAIN parted_task_map[d] = 1..Len(parted_task_map[d])
            /\ DOMAIN parted_task_map'[d] = 1..(Len(parted_task_map[d]) + 1)
            /\ \A i \in 1..Len(parted_task_map[d]) : parted_task_map'[d][i] = parted_task_map[d][i]
            /\ parted_task_map'[d][Len(parted_task_map[d]) + 1] = [kind |-> kind, start |-> Start(d), size |-> size]
        BY ONLY <2>3, <1>0, d \in DOMAIN parted_task_map, AddPartition(d, kind, size), TaskAdded
      <4> QED  BY <3>1, <4>1
    <3>3. \A i \in DOMAIN parted_task_map'[d] : parted_task_map'[d][i].start \in Int /\ parted_task_map'[d][i].size \in Int
      <4> TAKE i \in DOMAIN parted_task_map'[d]
      <4>1. CASE i = len + 1
        BY <1>3, <3>2, <4>1
      <4>2. CASE i \in 1..len
        BY <1>2, <3>2, <4>2
      <4> QED  BY <3>2, <4>1, <4>2
    <3> QED  BY <1>2, <2>1, <3>3
  <2> QED  BY <2>2, <2>3
<1> QED  BY <1>1, <1>5, <1>6 DEF Measured, Planning

\* Room for the boot loader is the first thing on a drive.
LEMMA GrubFits ==
  ASSUME LInv, UInv, GrubPartition
  PROVE  LInv'
<1>1. /\ phase = "grub" /\ phase' = "grub" /\ phase \in Planning
      /\ UNCHANGED <<job, present, target_drives, boot_drives, swap_size, boot_size>>
  BY DEF GrubPartition, GoOn, Planning
<1>2. PICK i \in DOMAIN boot_drives :
        /\ n <= i /\ n' = i + 1
        /\ AddPartition(boot_drives[i], IF Jobs[job].table = "gpt" THEN "bios_grub" ELSE "blank", Rsvd)
  BY DEF GrubPartition, NextOf, GoOn
<1>3. Known
  BY <1>1, KnownAre
<1>4. PICK d, kind : /\ d = boot_drives[i] /\ d = DriveOf(i) /\ AddPartition(d, kind, Rsvd)
                     /\ i \in BootTargets /\ i \in Nat /\ n' \in Nat /\ d \in DOMAIN parted_task_map
  <2>1. boot_drives[i] = DriveOf(i) /\ i \in BootTargets /\ i \in Nat /\ boot_drives[i] \in DOMAIN parted_task_map
    BY <1>2, <1>3 DEF Known
  <2>2. n' \in Nat
    BY <1>2, <2>1
  <2>3. PICK d, kind : /\ d = boot_drives[i]
                       /\ kind = IF Jobs[job].table = "gpt" THEN "bios_grub" ELSE "blank"
    OBVIOUS
  <2> QED  BY <1>2, <2>1, <2>2, <2>3
<1>5. /\ Recipe' = Recipe /\ Rsvd' = Rsvd /\ BootTargets' = BootTargets /\ (Orderly' <=> Orderly)
      /\ (\A in : ItemsOf(in)' = ItemsOf(in)) /\ (\A e : Roomy(e)' <=> Roomy(e))
  BY <1>1, SameRecipe
<1>6. (\A j : DriveOf(j)' = DriveOf(j)) /\ (EnoughDrives' <=> EnoughDrives) /\ (Spread' <=> Spread)
  BY <1>1, SameDrives
<1>7. Sized'
  BY <1>1, <1>5 DEF LInv, Sized
<1>8. Measured'
  <2>1. Rsvd \in Int /\ Rsvd > 0
    BY <1>3 DEF Known
  <2> QED  BY <1>1, <1>3, <1>4, <2>1, TaskMeasured DEF LInv
<1>9. Filled'
  BY <1>1 DEF Filled, Ends
<1>10. LaidOut'
  <2>1. DOMAIN parted_task_map' = DOMAIN parted_task_map
    BY <1>3, <1>4, TaskAdded DEF Known
  <2> SUFFICES ASSUME Orderly, Spread, NEW e \in DOMAIN parted_task_map, Roomy(e) PROVE Fits(e)'
    BY <1>1, <1>5, <1>6, <2>1 DEF LaidOut
  <2>2. Fits(e)
    BY <1>1 DEF LInv, LaidOut
  <2>3. Begun(e) \subseteq Begun(e)' /\ Placed(e) = {} /\ Placed(e)' = {}
    <3>1. \A j \in DOMAIN boot_drives : j \in Nat
      BY <1>3 DEF Known
    <3> QED  BY <1>1, <1>2, <1>3, <1>4, <3>1 DEF Begun, Placed, Known
  <2>0. Tasked
    BY <1>3 DEF Known
  <2>4. CASE e # d
    <3>1. AddPartition(d, kind, Rsvd) /\ UNCHANGED <<job, boot_size>> /\ d \in DOMAIN parted_task_map
      BY <1>1, <1>4
    <3> QED  BY <2>2, <2>3, <2>4, <2>0, <3>1, OthersFit
  <2>5. CASE e = d
    <3>1. ~Full(d)
      BY <1>1 DEF LInv, Measured, Planning, Full
    <3>2. Ahead(d) /\ Inside(d) /\ Apart(d)
      BY <2>2, <2>5, <3>1 DEF Fits
    <3>3. \A j \in Begun(d) : j \in BootTargets /\ j \in Nat /\ j < i /\ Shares(i, j)
      BY <1>1, <1>2, <1>3, <1>4 DEF Begun, Spread, Known
    <3>4. \A j, k \in Begun(d) : j = k
      <4>1. \A j, k \in BootTargets : Shares(i, j) /\ Shares(i, k) => i = j \/ i = k \/ j = k
        BY <1>4 DEF Orderly
      <4> QED  BY <1>4, <3>3, <4>1
    <3>5. PICK r : r = Rsvd /\ r \in {5, 100} /\ Capacity[d] \in Nat /\ 2 * r < Capacity[d]
      <4>1. /\ Rsvd \in {5, 100} /\ Jobs[job].boot_size \in Nat /\ Jobs[job].swap_size \in Nat
            /\ Capacity[d] \in Nat
        BY <1>3, <1>4 DEF Known
      <4>2. Capacity[d] > 2 * Rsvd + Jobs[job].boot_size + Jobs[job].swap_size
        BY <2>5 DEF Roomy
      <4>3. PICK r, b, s : r = Rsvd /\ b = Jobs[job].boot_size /\ s = Jobs[job].swap_size
        OBVIOUS
      <4> QED  BY <4>1, <4>2, <4>3
    <3>6. Start(d) \in {0, r} /\ (Start(d) # 0 => Begun(d) # {})
      BY <2>3, <2>5, <3>2, <3>4, <3>5 DEF Ahead
    <3>7. NextPos(d, Rsvd) = Start(d) + r
      BY <3>5 DEF NextPos
    <3>8. /\ Rsvd # 0 /\ NextPos(d, Rsvd) # 0 /\ Place(d, Start(d)) < Place(d, NextPos(d, Rsvd))
          /\ Place(d, NextPos(d, Rsvd)) < Capacity[d]
      BY <3>5, <3>6, <3>7 DEF Place
    <3>9. /\ 0 <= Place(d, Start(d)) /\ Place(d, Start(d)) < Capacity[d]
          /\ \A j \in DOMAIN parted_task_map[d] : To(d, j) <= Place(d, Start(d))
          /\ \A j \in DOMAIN parted_task_map[d] :
               parted_task_map[d][j].start \in Int /\ parted_task_map[d][j].size \in Int
      BY <1>1, <1>4, <3>2 DEF Ahead, LInv, Measured
    <3>10. /\ Inside(d)' /\ Apart(d)' /\ 0 <= Place(d, Start(d)') /\ Place(d, Start(d)') < Capacity[d]
           /\ \A j \in DOMAIN parted_task_map'[d] : To(d, j)' <= Place(d, Start(d)')
      <4>1. Rsvd \in Int /\ Start(d) \in Int /\ d \in DOMAIN parted_task_map /\ AddPartition(d, kind, Rsvd)
        BY <1>4, <3>5, <3>6
      <4> QED  BY <2>0, <3>2, <3>5, <3>8, <3>9, <4>1, TaskFits
    <3>11. Start(d)' = NextPos(d, Rsvd)
      BY <1>4, <2>0, TaskAdded
    <3>12. i \in Begun(d)' /\ Begun(d) \subseteq Begun(d)'
      <4>1. boot_drives'[i] = d /\ i \in DOMAIN boot_drives' /\ n' = i + 1 /\ i \in Nat
        BY <1>1, <1>2, <1>4
      <4> QED  BY <2>3, <2>5, <4>1 DEF Begun
    <3>13. Start(d)' = 2 * r => \E j, k \in Begun(d)' : j # k
      BY <3>3, <3>5, <3>6, <3>7, <3>11, <3>12
    <3>14. Place(d, Start(d))' = Place(d, Start(d)')
      BY DEF Place
    <3>15. Ahead(d)'
      BY <1>5, <2>3, <2>5, <3>5, <3>6, <3>7, <3>10, <3>11, <3>12, <3>13, <3>14 DEF Ahead
    <3> QED  BY <2>5, <3>10, <3>15 DEF Fits
  <2> QED  BY <2>4, <2>5
<1> QED  BY <1>7, <1>8, <1>9, <1>10 DEF LInv

\* The targets of a plan are placed one after the other, the first behind the boot loader's.
LEMMA TargetPlaced ==
  ASSUME Known, Sized, Orderly, Spread, phase = "target", NEW i \in NextOf(ItemsOf("target")),
         Roomy(DriveOf(i)), Ahead(DriveOf(i)), SizeOf(Recipe[i]) # 0
  PROVE  LET d == DriveOf(i)
             size == SizeOf(Recipe[i])
         IN /\ size \in Int /\ NextPos(d, size) # 0 /\ Place(d, Start(d)) < Place(d, NextPos(d, size))
            /\ Place(d, NextPos(d, size)) < Capacity[d]
            /\ Recipe[i].size = "boot" => 0 <= NextPos(d, size) /\ NextPos(d, size) <= 2 * Rsvd + boot_size
<1>1. PICK d, size : d = DriveOf(i) /\ size = SizeOf(Recipe[i])
  OBVIOUS
<1> SUFFICES /\ size \in Int /\ NextPos(d, size) # 0 /\ Place(d, Start(d)) < Place(d, NextPos(d, size))
             /\ Place(d, NextPos(d, size)) < Capacity[d]
             /\ Recipe[i].size = "boot" => 0 <= NextPos(d, size) /\ NextPos(d, size) <= 2 * Rsvd + boot_size
  BY <1>1
<1>2. PICK r, b, s, c, boot, swap, start :
        /\ r = Rsvd /\ b = Jobs[job].boot_size /\ s = Jobs[job].swap_size /\ c = Capacity[d]
        /\ boot = boot_size /\ swap = swap_size /\ start = Start(d)
  OBVIOUS
<1>3. i \in ItemsOf("target") /\ i \in Nat /\ n <= i /\ n \in Nat /\ d \in DOMAIN parted_task_map
  BY <1>1 DEF NextOf, Known
<1>4. r \in {5, 100} /\ b \in Nat /\ s \in Nat /\ c \in Nat /\ start \in Int /\ 2 * r + b + s < c
  <2>1. r \in {5, 100} /\ b \in Nat /\ s \in Nat /\ c \in Nat /\ start \in Int
    BY <1>2, <1>3 DEF Known
  <2> QED  BY <1>1, <1>2, <2>1 DEF Roomy
<1>5. /\ boot \in Int /\ 0 <= boot /\ boot <= b + s
      /\ swap \in Int /\ -r <= swap /\ swap <= b + s
      /\ ItemsOf("ref_size") = {} => 0 <= swap /\ boot + swap <= b + s
  BY <1>2 DEF Sized, Planning
<1>6. /\ Recipe[i].size \in {"boot", "swap", "- swap", "end"}
      /\ Recipe[i].size = "end" => size = 0
      /\ Recipe[i].size = "boot" => size = boot
      /\ Recipe[i].size = "swap" => size = swap
      /\ Recipe[i].size = "- swap" => size = -swap
  <2>1. Recipe[i].size \in {"boot", "swap", "- swap", "end"}
    BY <1>3 DEF Orderly
  <2> QED  BY <1>1, <1>2, <2>1 DEF SizeOf
<1>7. \A k \in Placed(d) : Recipe[i].size = "- swap" /\ Recipe[k].size = "boot"
  <2> TAKE k \in Placed(d)
  <2>1. k \in ItemsOf("target") /\ k < n /\ DriveOf(k) = d /\ k \in Nat
    BY DEF Placed, Known
  <2>2. k < i /\ Shares(k, i)
    BY <1>1, <1>3, <2>1 DEF Spread
  <2>3. Recipe[i].size = "end" \/ (Recipe[k].size = "boot" /\ Recipe[i].size = "- swap")
    BY <1>3, <2>1, <2>2 DEF Orderly
  <2> QED  BY <1>1, <1>6, <2>3
<1>8. /\ Placed(d) = {} => start \in {0, r, 2 * r} /\ (start # 0 => Begun(d) # {})
      /\ Placed(d) # {} => 0 <= start /\ start <= 2 * r + boot
  <2>1. Ahead(d)
    BY <1>1
  <2> QED  BY <1>2, <1>7, <2>1 DEF Ahead
<1>9. size # 0
  BY <1>1
<1>10. CASE Recipe[i].size = "boot"
  <2>1. start \in {0, r, 2 * r} /\ size = boot /\ boot > 0
    BY <1>5, <1>6, <1>7, <1>8, <1>9, <1>10
  <2>2. NextPos(d, size) = start + boot /\ start + boot \in Nat
    BY <1>2, <1>4, <1>5, <2>1 DEF NextPos
  <2>3. Place(d, Start(d)) = start /\ Place(d, NextPos(d, size)) = start + boot
    BY <1>2, <1>4, <2>1, <2>2 DEF Place
  <2>4. start < start + boot /\ start + boot < c /\ start + boot <= 2 * r + boot /\ start + boot # 0
    BY <1>4, <1>5, <2>1
  <2> QED  BY <1>1, <1>2, <1>5, <2>1, <2>2, <2>3, <2>4
<1>11. CASE Recipe[i].size = "swap"
  <2>1. Placed(d) = {} /\ size = swap
    BY <1>6, <1>7, <1>11
  <2>2. Begun(d) = {}
    <3> SUFFICES ASSUME NEW j \in Begun(d) PROVE FALSE
      OBVIOUS
    <3>1. j \in BootTargets /\ j \in ItemsOf("target") /\ DriveOf(j) = d
      BY DEF Begun, Known
    <3>2. Shares(i, j)
      BY <1>1, <1>3, <3>1 DEF Spread
    <3> QED  BY <1>3, <1>11, <3>1, <3>2 DEF Orderly
  <2>3. start = 0
    BY <1>8, <2>1, <2>2
  <2>4. NextPos(d, size) = swap /\ Place(d, Start(d)) = 0
    BY <1>2, <1>5, <2>1, <2>3 DEF NextPos, Place
  <2>5. Place(d, swap) = IF swap < 0 THEN c + swap ELSE swap
    BY <1>2 DEF Place
  <2> QED  BY <1>1, <1>2, <1>4, <1>5, <1>9, <1>11, <2>1, <2>4, <2>5
<1>12. CASE Recipe[i].size = "- swap"
  <2>1. size = -swap /\ 0 <= swap /\ boot + swap <= b + s /\ swap # 0
    <3>1. ItemsOf("ref_size") = {}
      BY <1>3, <1>12 DEF Orderly
    <3>2. 0 <= swap /\ boot + swap <= b + s
      BY <1>5, <3>1
    <3>3. size = -swap
      BY <1>6, <1>12
    <3>4. swap # 0
      BY <1>9, <3>3
    <3> QED  BY <3>2, <3>3, <3>4
  <2>2. 0 <= start /\ start <= 2 * r + boot
    BY <1>4, <1>5, <1>8
  <2>3. NextPos(d, size) = -swap /\ Place(d, Start(d)) = start
    <3>1. size \in Int /\ size <= 0
      BY <1>5, <2>1
    <3>2. NextPos(d, size) = size
      BY <3>1 DEF NextPos
    <3>3. start \in Int /\ 0 <= start
      BY <1>4, <2>2
    <3>4. Place(d, start) = start
      BY <3>3 DEF Place
    <3> QED  BY <1>2, <2>1, <3>2, <3>4
  <2>4. Place(d, -swap) = c - swap
    BY <1>2, <1>4, <1>5, <2>1 DEF Place
  <2>5. size \in Int /\ -swap # 0 /\ start < c - swap /\ c - swap < c
    BY <1>4, <1>5, <2>1, <2>2
  <2>6. Recipe[i].size # "boot"
    BY <1>12
  <2> QED  BY <1>2, <2>3, <2>4, <2>5, <2>6
<1> QED  BY <1>6, <1>9, <1>10, <1>11, <1>12

\* A partition of the recipe, on a drive that is not full.
LEMMA TargetFits ==
  ASSUME LInv, UInv, TargetItem
  PROVE  LInv'
<1>1. /\ phase = "target" /\ phase \in Planning
      /\ UNCHANGED <<job, present, target_drives, boot_drives, swap_size, boot_size>>
  BY DEF TargetItem, Planning
<1>2. Known
  BY <1>1, KnownAre
<1>3. PICK i \in NextOf(ItemsOf("target")) :
        IF BadSize(Recipe[i]) \/ Full(DriveOf(i))
          THEN Raise
          ELSE AddPartition(DriveOf(i), Recipe[i].type, SizeOf(Recipe[i])) /\ GoOn(i)
  BY DEF TargetItem
<1>4. CASE phase' = "raised"
  <2>1. n' \in Nat
    BY <1>2, <1>3, <1>4 DEF Raise, GoOn, NextOf, Known
  <2> QED  BY <1>1, <1>4, <2>1, PlanOver DEF LInv, Measured
<1>5. CASE phase' # "raised"
  <2>1. PICK d, size : /\ d = DriveOf(i) /\ size = SizeOf(Recipe[i]) /\ ~Full(d)
                       /\ AddPartition(d, Recipe[i].type, size)
    BY <1>3, <1>5 DEF Raise
  <2>2. /\ phase' = "target" /\ n' = i + 1 /\ n <= i /\ i \in Nat /\ n \in Nat /\ n' \in Nat
        /\ d \in DOMAIN parted_task_map /\ i \in ItemsOf("target") /\ Tasked
        /\ \A j \in ItemsOf("target") : j \in Nat /\ (n <= j => i <= j)
    <3>1. GoOn(i)
      BY <1>3, <1>5 DEF Raise
    <3> QED  BY <1>1, <1>2, <2>1, <3>1 DEF GoOn, NextOf, Known
  <2>3. \A j \in ItemsOf("target") : j < n' <=> j < n \/ j = i
    BY <2>2
  <2>4. /\ Recipe' = Recipe /\ Rsvd' = Rsvd /\ BootTargets' = BootTargets /\ (Orderly' <=> Orderly)
        /\ (\A in : ItemsOf(in)' = ItemsOf(in)) /\ (\A e : Roomy(e)' <=> Roomy(e))
    BY <1>1, SameRecipe
  <2>5. (\A j : DriveOf(j)' = DriveOf(j)) /\ (EnoughDrives' <=> EnoughDrives) /\ (Spread' <=> Spread)
    BY <1>1, SameDrives
  <2>6. size \in Int
    <3>1. boot_size \in Int /\ swap_size \in Int /\ Recipe[i].m \in Int
      <4>1. Stated(Recipe[i])
        BY <1>2, <2>2, JobIs DEF ItemsOf, Known
      <4>2. boot_size \in Int /\ swap_size \in Int
        BY <1>1 DEF LInv, Sized
      <4>3. Recipe[i].m \in Nat
        BY <4>1 DEF Stated
      <4> QED  BY <4>2, <4>3
    <3>2. -boot_size \in Int /\ -swap_size \in Int
      BY <3>1
    <3>3. SizeOf(Recipe[i]) \in {0, boot_size, -boot_size, swap_size, -swap_size, Recipe[i].m}
      BY DEF SizeOf
    <3> QED  BY <2>1, <3>1, <3>2, <3>3
  <2>7. Sized'
    BY <1>1, <2>2, <2>4 DEF LInv, Sized
  <2>8. Measured'
    BY <1>1, <1>2, <2>1, <2>2, <2>6, TaskMeasured DEF LInv
  <2>9. /\ DOMAIN parted_task_map' = DOMAIN parted_task_map /\ \A e : e # d => (Full(e)' <=> Full(e))
        /\ Start(d)' = NextPos(d, size) /\ (Full(d)' <=> NextPos(d, size) = 0)
    BY <2>1, <2>2, TaskAdded
  <2>10. ASSUME Orderly PROVE Filled'
    <3>1. Filled
      BY <2>10 DEF LInv
    <3>2. \A j \in ItemsOf("target") : Ends(j)' <=> Ends(j) \/ (j = i /\ Recipe[i].size = "end")
      BY <1>1, <2>2, <2>3, <2>4 DEF Ends
    <3>3. Recipe[i].size = "end" => Full(d)'
      BY <2>1, <2>9 DEF SizeOf, NextPos
    <3>4. \A j \in ItemsOf("target") : Ends(j) => DriveOf(j) # d /\ Full(DriveOf(j))
      BY <2>1, <3>1 DEF Filled
    <3>5. \A j \in ItemsOf("target") : Ends(j)' => Full(DriveOf(j))'
      BY <2>1, <2>5, <2>9, <3>2, <3>3, <3>4
    <3> QED  BY <2>1, <2>4, <2>5, <3>1, <3>2, <3>4, <3>5 DEF Filled
  <2>11. LaidOut'
    <3> SUFFICES ASSUME Orderly, Spread, NEW e \in DOMAIN parted_task_map, Roomy(e) PROVE Fits(e)'
      BY <2>2, <2>4, <2>5, <2>9 DEF LaidOut
    <3>1. Fits(e)
      BY <1>1 DEF LInv, LaidOut
    <3>2. /\ Begun(e) \subseteq Begun(e)' /\ Placed(e)' = IF e = d THEN Placed(d) \cup {i} ELSE Placed(e)
      <4>1. Begun(e) \subseteq Begun(e)'
        BY <1>1, <2>2 DEF Begun
      <4>2. Placed(e)' = {j \in ItemsOf("target") : (j < n \/ j = i) /\ DriveOf(j) = e}
        BY <2>2, <2>3, <2>4, <2>5 DEF Placed
      <4>3. Placed(e) = {j \in ItemsOf("target") : j < n /\ DriveOf(j) = e}
        BY <1>1 DEF Placed
      <4> QED  BY <2>1, <2>2, <4>1, <4>2, <4>3
    <3>3. CASE e # d
      BY <1>1, <2>1, <2>2, <3>1, <3>2, <3>3, OthersFit
    <3>4. CASE e = d
      <4>1. Ahead(d) /\ Inside(d) /\ Apart(d)
        BY <2>1, <3>1, <3>4 DEF Fits
      <4>2. Sized /\ Roomy(DriveOf(i)) /\ Ahead(DriveOf(i))
        BY <2>1, <3>4, <4>1 DEF LInv
      <4>3. size # 0 =>
              /\ NextPos(d, size) # 0 /\ Place(d, Start(d)) < Place(d, NextPos(d, size))
              /\ Place(d, NextPos(d, size)) < Capacity[d]
              /\ Recipe[i].size = "boot" => 0 <= NextPos(d, size) /\ NextPos(d, size) <= 2 * Rsvd + boot_size
        BY <1>1, <1>2, <2>1, <4>2, TargetPlaced
      <4>4. /\ 0 <= Place(d, Start(d)) /\ Place(d, Start(d)) < Capacity[d]
            /\ \A j \in DOMAIN parted_task_map[d] : To(d, j) <= Place(d, Start(d))
            /\ \A j \in DOMAIN parted_task_map[d] :
                 parted_task_map[d][j].start \in Int /\ parted_task_map[d][j].size \in Int
        BY <1>1, <2>2, <4>1 DEF Ahead, LInv, Measured
      <4>5. Capacity[d] \in Nat /\ Start(d) \in Int
        BY <1>2, <2>2 DEF Known
      <4>6. PICK kind : AddPartition(d, kind, size)
        BY <2>1
      <4>7. /\ Inside(d)' /\ Apart(d)' /\ (Full(d)' <=> size = 0)
            /\ size # 0 => /\ 0 <= Place(d, Start(d)') /\ Place(d, Start(d)') < Capacity[d]
                           /\ \A j \in DOMAIN parted_task_map'[d] : To(d, j)' <= Place(d, Start(d)')
        BY <2>2, <2>6, <4>1, <4>3, <4>4, <4>5, <4>6, TaskFits
      <4>8. CASE size = 0
        BY <3>4, <4>7, <4>8 DEF Fits
      <4>9. CASE size # 0
        <5>1. i \in Placed(d)' /\ Recipe' = Recipe /\ Rsvd' = Rsvd /\ boot_size' = boot_size
          BY <1>1, <2>4, <3>2, <3>4
        <5>2. Place(d, Start(d))' = Place(d, Start(d)')
          BY DEF Place
        <5>3. (\A j \in Placed(d)' : Recipe[j].size = "boot") => 0 <= Start(d)' /\ Start(d)' <= 2 * Rsvd + boot_size
          BY <2>9, <4>3, <4>9, <5>1
        <5>4. Ahead(d)'
          BY <4>7, <4>9, <5>1, <5>2, <5>3 DEF Ahead
        <5> QED  BY <3>4, <4>7, <5>4 DEF Fits
      <4> QED  BY <4>8, <4>9
    <3> QED  BY <3>3, <3>4
  <2> QED  BY <2>4, <2>7, <2>8, <2>10, <2>11 DEF LInv
<1> QED  BY <1>4, <1>5

\* When all targets are placed each drive has had its end, so no two of them are one drive.
LEMMA TargetsFit ==
  ASSUME LInv, UInv, TargetsDone
  PROVE  LInv'
<1>1. /\ phase = "target" /\ phase' = "parted" /\ n' = 1 /\ \A i \in ItemsOf("target") : i < n
      /\ UNCHANGED <<job, present, target_drives, parted_task_map>>
  BY DEF TargetsDone, LoopEnds, NoneLeft, Enter, planVars
<1>2. /\ Recipe' = Recipe /\ (Orderly' <=> Orderly) /\ (\A d : Roomy(d)' <=> Roomy(d))
  BY <1>1, SameRecipe
<1>3. Sized' /\ Filled'
  BY <1>1 DEF Sized, Filled, Ends, Planning
<1>4. Measured'
  BY <1>1 DEF LInv, Measured, Planning
<1>5. ASSUME Orderly PROVE Spread
  <2>1. Filled
    BY <1>5 DEF LInv
  <2> SUFFICES ASSUME NEW i \in ItemsOf("target"), NEW j \in ItemsOf("target"), DriveOf(i) = DriveOf(j)
               PROVE  Shares(i, j)
    BY DEF Spread
  <2>2. PICK a, b \in ItemsOf("target") :
          Shares(i, a) /\ Recipe[a].size = "end" /\ Shares(j, b) /\ Recipe[b].size = "end"
    BY <1>5 DEF Orderly
  <2>3. DriveOf(a) = DriveOf(b) /\ Ends(a) /\ Ends(b)
    BY <1>1, <2>2 DEF Shares, DriveOf, Ends
  <2>4. a = b
    BY <2>1, <2>3 DEF Filled
  <2> QED  BY <2>2, <2>4 DEF Shares
<1>6. LaidOut'
  <2> SUFFICES ASSUME Orderly, NEW d \in DOMAIN parted_task_map, Roomy(d) PROVE Inside(d)' /\ Apart(d)'
    BY <1>1, <1>2 DEF LaidOut, Planning
  <2>1. Fits(d)
    BY <1>1, <1>5 DEF LInv, LaidOut, Planning
  <2> QED  BY <1>1, <2>1, TasksStay DEF Fits
<1> QED  BY <1>3, <1>4, <1>6 DEF LInv

\* What is done with the partitions does not change the plan of them.
LEMMA LaterKept ==
  ASSUME LInv, Partition, phase \notin Planning \cup {"drives", "prepare"}
  PROVE  LInv'
<1>0. (\E d \in Drives : RunParted(d)) \/ PartedDone \/ MdItem \/ MdDone \/ BCacheItem \/ BCacheDone \/ VgItem
      \/ VgDone \/ MakeVolume \/ WaitForSync \/ PartitionDone
  BY DEF Partition, FindDrives, WaitForDrives, Prepare, GrubPartition, GrubDone, ChangeSize, ChangeSizeDone,
     TargetItem, TargetsDone, LoopEnds, Planning
<1>1. job' = job /\ present' = present /\ UNCHANGED planVars /\ phase \notin {"drives", "raised"} /\ n' \in Nat
  <2>1. n \in Nat /\ \A in : \A i \in ItemsOf(in) : i + 1 \in Nat
    BY JobIs DEF LInv, Measured, ItemsOf
  <2>2. CASE MdItem \/ BCacheItem \/ VgItem
    <3>1. /\ UNCHANGED <<job, present, planVars>> /\ phase \notin {"drives", "raised"}
          /\ n' = n \/ \E in : \E i \in ItemsOf(in) : n' = i + 1
      BY <2>2 DEF MdItem, BCacheItem, VgItem, Raise, GoOn, NextOf
    <3> QED  BY <2>1, <3>1
  <2>3. CASE (\E d \in Drives : RunParted(d)) \/ PartedDone \/ MdDone \/ BCacheDone \/ VgDone \/ MakeVolume
             \/ WaitForSync \/ PartitionDone
    <3>1. UNCHANGED <<job, present, planVars>> /\ phase \notin {"drives", "raised"}
      BY <2>3 DEF RunParted, PartedDone, MdDone, BCacheDone, VgDone, MakeVolume, WaitForSync, PartitionDone, LoopEnds
    <3>2. n' = n \/ n' = 1
      BY <2>3 DEF RunParted, PartedDone, MdDone, BCacheDone, VgDone, MakeVolume, WaitForSync, PartitionDone, Enter, Raise
    <3>3. n \in Nat
      BY DEF LInv, Measured
    <3> QED  BY <3>1, <3>2, <3>3
  <2> QED  BY <1>0, <2>2, <2>3
<1>2. phase' = "raised" \/ phase' = phase \/ phase' \notin Planning \cup {"drives", "prepare", "parted"}
  BY DEF Partition, FindDrives, WaitForDrives, Prepare, GrubPartition, GrubDone, ChangeSize, ChangeSizeDone,
     TargetItem, TargetsDone, RunParted, PartedDone, MdItem, MdDone, BCacheItem, BCacheDone, VgItem, VgDone,
     MakeVolume, WaitForSync, PartitionDone, LoopEnds, Planning, Enter, Raise, GoOn
<1>3. present' \subseteq Drives
  BY <1>1 DEF LInv, Measured
<1>4. CASE phase' = phase
  BY <1>1, <1>3, <1>4, PlanKept DEF planVars
<1>5. CASE phase' = "raised" \/ phase' \notin Planning \cup {"drives", "prepare", "parted"}
  BY <1>1, <1>3, <1>5, PlanOver DEF planVars
<1> QED  BY <1>2, <1>4, <1>5

\* Every step of the installation keeps the layout of the drives.
LEMMA LayoutStep ==
  ASSUME LInv, UInv, Built, [Next]_vars
  PROVE  LInv'
<1>1. n \in Nat /\ present \subseteq Drives
  BY DEF LInv, Measured
<1>2. CASE PartitionStep
  <2>1. Partition
    BY <1>2 DEF PartitionStep
  <2>2. CASE phase \notin Planning \cup {"drives", "prepare"}
    BY <2>1, <2>2, LaterKept
  <2>3. CASE phase \in Planning \cup {"drives", "prepare"}
    <3>1. FindDrives \/ WaitForDrives \/ Prepare \/ GrubPartition \/ GrubDone \/ ChangeSize \/ ChangeSizeDone
          \/ TargetItem \/ TargetsDone
      BY <2>1, <2>3 DEF Partition, RunParted, PartedDone, MdItem, MdDone, BCacheItem, BCacheDone, VgItem, VgDone,
         MakeVolume, WaitForSync, PartitionDone, LoopEnds, Planning
    <3> QED  BY <3>1, DrivesChosen, PlanBegins, GrubFits, LoopKept, TargetFits, TargetsFit
  <2> QED  BY <2>2, <2>3
<1>3. CASE PartitionFails
  <2>1. phase' = "raised" /\ n' = n /\ present' = present /\ job' = job
    BY <1>3 DEF PartitionFails, CommandFails, Raise
  <2> QED  BY <1>1, <2>1, PlanOver
<1>4. CASE DriveComes
  <2>1. UNCHANGED <<job, phase, n, planVars>> /\ present' \subseteq Drives
    BY <1>1, <1>4 DEF DriveComes, DriveFound
  <2> QED  BY <1>1, <2>1, PlanKept DEF planVars
<1>5. CASE Mkfs
  <2>1. UNCHANGED <<job, phase, present, planVars>> /\ phase = "done" /\ n' = n + 1
    BY <1>5 DEF Mkfs, Built
  <2> QED  BY <1>1, <2>1, PlanKept DEF planVars, Planning
<1>6. CASE UNCHANGED partitionVars
  BY <1>1, <1>6, PlanKept DEF partitionVars, planVars
<1>7. CASE Install /\ ~PartitionStep /\ ~Mkfs
  <2>1. UNCHANGED partitionVars
    BY <1>7 DEF Install, Profile, RunStep, UpdateLists, Divert, Undivert, InstallBoot, PartitionEnds, MkfsDone,
       MountBegins, Mounting, Remounting, Unmounting, MountDone, Remount, RemountDone, WriteFstab, WriteMtab, Signals,
       NothingHeld, UmountFails, UnmountDone, SignalComplete, SignalAlert, OnlyStep
  <2> QED  BY <2>1, <1>6
<1>8. CASE Fails \/ OthersInterfere \/ HolderEnds \/ UNCHANGED vars
  BY <1>8, <1>6 DEF Fails, OthersInterfere, HolderEnds, vars
<1> QED  BY <1>2, <1>3, <1>4, <1>5, <1>7, <1>8 DEF Next

LEMMA LayoutBegins ==
  ASSUME Init
  PROVE  LInv
<1>1. /\ job \in DOMAIN Jobs /\ present \subseteq Drives /\ phase = "drives" /\ n = 1 /\ partition_pos = <<>>
      /\ swap_size = Jobs[job].swap_size /\ boot_size = Jobs[job].boot_size
  BY DEF Init, PartitionInit
<1>2. Sized /\ Measured /\ Filled /\ LaidOut
  BY <1>1 DEF Sized, Measured, Filled, Ends, LaidOut, Planning
<1> QED  BY <1>2 DEF LInv

\* A recipe that is shipped gives parted, on drives that are large enough, partitions inside of
\* the drive that follow one another (filesystem.py _addPartition).
LEMMA LayoutIs ==
  ASSUME LInv
  PROVE  ShippedFits
<1> SUFFICES ASSUME phase = "parted", Recipe \in Range(partition_recipes) PROVE \A d \in DOMAIN parted_task_map : Roomy(d) => Inside(d) /\ Apart(d)
  BY DEF ShippedFits, Recipe
<1> QED  BY ShippedOrderly DEF LInv, LaidOut
-----------------------------------------------------------------------------
(* The drives to boot from.                                                *)

Ordered == phase \notin {"drives", "prepare", "raised"}
Laid == Building \cup {"sync", "done"}

\* The drives to boot from are known, and are given partitions.
Anchored ==
  /\ job \in DOMAIN Jobs /\ EnoughDrives
  /\ Len(target_drives) \in Nat /\ target_drives \in [1..Len(target_drives) -> Drives]
  /\ boot_drives = [i \in BootTargets |-> DriveOf(i)] /\ BootTargets # {}
  /\ ~Confused(Boot) /\ (TargetsWithMount(Boot) = {} => ~Confused(Root))
  /\ DOMAIN parted_task_map = {DriveOf(i) : i \in ItemsOf("target")} /\ Tasked
  /\ \A d \in DOMAIN parted_task_map : \A i \in DOMAIN parted_task_map[d] :
       parted_task_map[d][i].start \in Int /\ parted_task_map[d][i].size \in Int

\* The items that are dealt with.
Past(in) ==
  {i \in ItemsOf(in) : \/ in = "target" /\ (phase \in Laid \cup {"parted"} \/ (phase = "target" /\ i < n))
                       \/ in = "md" /\ (phase \in Laid \ {"md"} \/ (phase = "md" /\ i < n))}

\* The device of an item: its own partition, or its array.
Stems(i, fs) ==
  /\ fs.mount = Recipe[i].mount
  /\ Recipe[i].in = "md" => fs.device = <<"md", Recipe[i].at>>
  /\ Recipe[i].in # "md" => fs.device[1] = DriveOf(i)

\* A file system with a mount point is that of an item; if there is another item with it
\* later, so is its file system.
Followed(k, i, in) ==
  \A j \in Past(in) : j > i /\ Recipe[j].mount = filesystem_list[k].mount =>
    \E l \in DOMAIN filesystem_list : l > k /\ filesystem_list[l].mount = filesystem_list[k].mount
Traced ==
  \A k \in DOMAIN filesystem_list :
    filesystem_list[k].mount \in {Boot, Root} =>
      \/ filesystem_list[k].device[1] \in {"bcache", "lv"}
      \/ \E in \in {"target", "md"} : \E i \in Past(in) : Stems(i, filesystem_list[k]) /\ Followed(k, i, in)
Found ==
  \A in \in {"target", "md"} : \A i \in Past(in) :
    Recipe[i].mount # NoMount =>
      \E k \in DOMAIN filesystem_list : filesystem_list[k].mount = Recipe[i].mount

\* The members of an array are partitions of its items.
Joined ==
  \A g \in Groups : \A k \in DOMAIN md_list[g] :
    \E i \in ItemsOf("target") :
      Recipe[i].type = "md" /\ Recipe[i].group = g /\ md_list[g][k][1] = DriveOf(i)

\* A drive to boot from has room for the boot loader, once it is its turn.
HasTasks(d) == 1 \in DOMAIN parted_task_map[d]
HasRoom(d) ==
  IF Jobs[job].table = "gpt" THEN HasTasks(d) /\ parted_task_map[d][1].kind = "bios_grub"
  ELSE IF HasTasks(d) THEN parted_task_map[d][1].start >= 5
  ELSE Full(d) \/ Start(d) >= 5
Roomed ==
  /\ phase \in {"grub", "ref_size"} => \A d \in DOMAIN parted_task_map :
       HasTasks(d) => Jobs[job].table = "gpt" /\ parted_task_map[d][1].kind = "bios_grub"
  /\ \A i \in DOMAIN boot_drives : (phase = "grub" => i < n) => HasRoom(boot_drives[i])

\* What parted has made is as it was asked for.
Cut ==
  /\ phase = "parted" => \A d \in DOMAIN parted_task_map : <<d, 0>> \in made => Inside(d) /\ Apart(d)
  /\ phase \in Laid => \A d \in DOMAIN parted_task_map : Inside(d) /\ Apart(d)

RInv == Ordered => Anchored /\ Traced /\ Found /\ Joined /\ Roomed /\ Cut

\* Of the places in a list there is a last one.
LEMMA LastOf ==
  ASSUME NEW N \in Nat, NEW S, S \subseteq 1..N, S # {}
  PROVE  \E i \in S : \A j \in S : j <= i
<1> DEFINE Rest == {k \in Nat : \E i \in S : k = N - i}
<1>1. \A i \in S : i \in Nat /\ N - i \in Nat
  OBVIOUS
<1>2. Rest \subseteq Nat /\ (\A i \in S : N - i \in Rest)
  BY <1>1
<1>3. \A k \in Rest : \E i \in S : k = N - i
  OBVIOUS
<1> HIDE DEF Rest
<1>4. \E x \in Rest : \A y \in Rest : ~(<<y, x>> \in OpToRel(<, Nat))
  BY <1>2, NatLessThanWellFounded, WFMin
<1>5. PICK x \in Rest : \A y \in Rest : ~(y < x)
  BY <1>2, <1>4 DEF OpToRel
<1>6. PICK i \in S : x = N - i
  BY <1>3, <1>5
<1>7. \A j \in S : ~(N - j < N - i)
  BY <1>2, <1>5, <1>6
<1>8. \A j \in S : j <= i
  BY <1>1, <1>6, <1>7
<1> QED  BY <1>6, <1>8

\* What a drive to boot from is, once it is partitioned.
LEMMA RoomIs ==
  ASSUME RInv, Listed, phase = "done"
  PROVE  RoomForBoot
<1>1. Anchored /\ Traced /\ Found /\ Joined /\ Roomed /\ Cut
  BY DEF RInv, Ordered
<1>2. \A in \in {"target", "md"} : Past(in) = ItemsOf(in)
  BY DEF Past, Laid
<1>3. /\ job \in DOMAIN Jobs /\ Len(Recipe) \in Nat /\ DOMAIN Recipe = 1..Len(Recipe)
      /\ \A i \in DOMAIN Recipe : Stated(Recipe[i])
  BY <1>1, JobIs DEF Anchored
<1>4. \A i \in ItemsOf("target") : DriveOf(i) \in Drives
  BY <1>1, OnDrives DEF Anchored
<1>5. ASSUME NEW mount, mount # NoMount, TargetsWithMount(mount) # {}
      PROVE  mount \in MountPointsOf(filesystem_list)
  <2>1. LastMounted(mount, "md") # {} \/ LastMounted(mount, "target") # {}
    BY <1>5 DEF TargetsWithMount
  <2>2. PICK in \in {"target", "md"} : \E i \in ItemsOf(in) : Recipe[i].mount = mount
    BY <2>1 DEF LastMounted
  <2>3. PICK k \in DOMAIN filesystem_list : filesystem_list[k].mount = mount
    BY <1>1, <1>2, <1>5, <2>2 DEF Found
  <2> QED  BY <1>5, <2>3 DEF MountPointsOf
<1>6. PICK mount : mount = BootPoint
  OBVIOUS
<1>7. /\ mount \in {Boot, Root} /\ mount \in MountPointsOf(filesystem_list)
      /\ mount = Root => TargetsWithMount(Boot) = {}
      /\ ~Confused(mount)
  <2>1. TargetsWithMount(Boot) # {} \/ TargetsWithMount(Root) # {}
    BY <1>1 DEF Anchored, BootTargets
  <2>2. Boot # NoMount /\ Root # NoMount /\ Boot # Root
    BY MountsApart
  <2> QED  BY <1>1, <1>5, <1>6, <2>1, <2>2 DEF BootPoint, Anchored
<1>8. TargetsWithMount(mount) # {} => BootTargets = TargetsWithMount(mount)
  BY <1>7 DEF BootTargets
<1>9. PICK k \in DOMAIN filesystem_list :
        /\ filesystem_list[k].mount = mount /\ DeviceAt(mount) = filesystem_list[k].device
        /\ \A l \in DOMAIN filesystem_list : filesystem_list[l].mount = mount => l <= k
  <2>1. DOMAIN filesystem_list = 1..Len(filesystem_list) /\ Len(filesystem_list) \in Nat
    BY Appended DEF Listed
  <2> DEFINE Those == {l \in DOMAIN filesystem_list : filesystem_list[l].mount = mount}
  <2>2. Those # {} /\ Those \subseteq 1..Len(filesystem_list)
    BY <1>7, <2>1 DEF MountPointsOf
  <2> HIDE DEF Those
  <2>3. \E l \in Those : \A j \in Those : j <= l
    BY <2>1, <2>2, LastOf
  <2>4. \E l \in DOMAIN filesystem_list :
          filesystem_list[l].mount = mount /\ \A j \in DOMAIN filesystem_list : filesystem_list[j].mount = mount => j <= l
    BY <2>3 DEF Those
  <2> QED  BY <2>4 DEF DeviceAt
<1>10. ASSUME NEW i \in TargetsWithMount(mount)
       PROVE  /\ DriveOf(i) \in Range(boot_drives)
              /\ IF Jobs[job].table = "gpt" THEN parted_task_map[DriveOf(i)][1].kind = "bios_grub"
                 ELSE \A j \in DOMAIN parted_task_map[DriveOf(i)] : From(DriveOf(i), j) >= 5
  <2>1. i \in BootTargets /\ i \in ItemsOf("target")
    BY <1>8, <1>10 DEF TargetsWithMount, LastMounted
  <2>2. PICK d : d = DriveOf(i)
    OBVIOUS
  <2>3. i \in DOMAIN boot_drives /\ boot_drives[i] = d /\ d \in DOMAIN parted_task_map /\ d \in Drives
    BY <1>1, <1>4, <2>1, <2>2 DEF Anchored
  <2>4. HasRoom(d)
    BY <1>1, <2>3 DEF Roomed
  <2>5. Inside(d) /\ Apart(d)
    BY <1>1, <2>3 DEF Cut, Laid
  <2>6. \A j \in DOMAIN parted_task_map[d] : From(d, j) \in Int /\ To(d, j) \in Int
    BY <1>1, <2>3, DrivesAssumption DEF Anchored, From, To, Place
  <2>7. ASSUME Jobs[job].table # "gpt", NEW j \in DOMAIN parted_task_map[d] PROVE From(d, j) >= 5
    <3>0. DOMAIN parted_task_map[d] = 1..Len(parted_task_map[d]) /\ Len(parted_task_map[d]) \in Nat
      BY <1>1, <2>3, Appended DEF Anchored, Tasked
    <3>1. 1 \in DOMAIN parted_task_map[d] /\ parted_task_map[d][1].start >= 5 /\ parted_task_map[d][1].start \in Int
      <4>1. 1 \in DOMAIN parted_task_map[d] /\ j \in Nat /\ 1 <= j
        BY <2>7, <3>0
      <4> QED  BY <1>1, <2>3, <2>4, <2>7, <4>1 DEF HasRoom, HasTasks, Anchored
    <3>2. From(d, 1) >= 5
      BY <3>1 DEF From, Place
    <3>3. CASE j = 1
      BY <3>2, <3>3
    <3>4. CASE 1 < j
      BY <2>5, <2>6, <3>1, <3>2, <3>4 DEF Inside, Apart
    <3> QED  BY <2>7, <3>0, <3>3, <3>4
  <2> QED  BY <2>2, <2>3, <2>4, <2>7 DEF HasRoom, Range
<1>11. ASSUME NEW d \in DrivesOf(DeviceAt(mount)) PROVE \E i \in TargetsWithMount(mount) : DriveOf(i) = d
  <2>1. CASE filesystem_list[k].device[1] \in {"bcache", "lv"}
    <3>1. d \in {DeviceAt(mount)[1]} \cap Drives
      BY <1>9, <2>1 DEF DrivesOf
    <3> QED  BY <1>9, <2>1, <3>1, DrivesAssumption
  <2>2. CASE \E in \in {"target", "md"} : \E i \in Past(in) : Stems(i, filesystem_list[k]) /\ Followed(k, i, in)
    <3>0. PICK in \in {"target", "md"} : \E i \in ItemsOf(in) : Stems(i, filesystem_list[k]) /\ Followed(k, i, in)
      BY <1>2, <2>2
    <3>1. PICK i \in ItemsOf(in) : Stems(i, filesystem_list[k]) /\ Followed(k, i, in)
      BY <3>0
    <3>2. i \in LastMounted(mount, in)
      <4>1. Recipe[i].mount = mount
        BY <1>9, <3>1 DEF Stems
      <4>2. \A j \in ItemsOf(in) : Recipe[j].mount = mount => ~(j > i)
        <5>1. DOMAIN filesystem_list = 1..Len(filesystem_list) /\ Len(filesystem_list) \in Nat
          BY Appended DEF Listed
        <5>2. \A l \in DOMAIN filesystem_list : l \in Nat
          BY <5>1
        <5>3. \A l \in DOMAIN filesystem_list : l > k => filesystem_list[l].mount # mount
          BY <1>9, <5>2
        <5> QED  BY <1>2, <1>9, <3>0, <3>1, <5>3 DEF Followed
      <4>3. \A j \in ItemsOf(in) : j \in Nat
        BY <1>3 DEF ItemsOf
      <4> QED  BY <4>1, <4>2, <4>3 DEF LastMounted
    <3>3. CASE in = "target"
      <4>1. i \in TargetsWithMount(mount) /\ i \in ItemsOf("target")
        BY <1>7, <3>2, <3>3 DEF TargetsWithMount, Confused
      <4>2. DeviceAt(mount)[1] = DriveOf(i) /\ DriveOf(i) \in Drives
        BY <1>4, <1>9, <3>1, <3>3, <4>1 DEF Stems, ItemsOf
      <4>3. d = DriveOf(i)
        BY <4>2, DrivesAssumption DEF DrivesOf
      <4> QED  BY <4>1, <4>3
    <3>4. CASE in = "md"
      <4>1. DeviceAt(mount) = <<"md", Recipe[i].at>> /\ Recipe[i].at \in Groups
        BY <1>3, <1>9, <3>1, <3>4 DEF Stems, ItemsOf, Stated
      <4>2. PICK m \in DOMAIN md_list[Recipe[i].at] : d = md_list[Recipe[i].at][m][1]
        BY <4>1 DEF DrivesOf
      <4>3. PICK j \in ItemsOf("target") : Recipe[j].type = "md" /\ Recipe[j].group = Recipe[i].at /\ d = DriveOf(j)
        BY <1>1, <4>1, <4>2 DEF Joined
      <4>4. j \in TargetsWithMount(mount)
        BY <3>2, <3>4, <4>3 DEF TargetsWithMount, HasGroup
      <4> QED  BY <4>3, <4>4
    <3> QED  BY <3>0, <3>3, <3>4
  <2> QED  BY <1>1, <1>7, <1>9, <2>1, <2>2 DEF Traced
<1>12. ASSUME NEW d \in DrivesOf(DeviceAt(BootPoint))
       PROVE  /\ d \in Range(boot_drives)
              /\ IF Jobs[job].table = "gpt" THEN parted_task_map[d][1].kind = "bios_grub"
                 ELSE \A i \in DOMAIN parted_task_map[d] : From(d, i) >= 5
  BY <1>6, <1>10, <1>11
<1> QED  BY <1>12 DEF RoomForBoot

\* What is made of an item, for one that is dealt with by this step, is the last file system.
LEMMA PointsGrow ==
  ASSUME Traced, Found, Listed, UNCHANGED <<job, target_drives>>, NEW fs,
         filesystem_list' = Append(filesystem_list, fs),
         \A in \in {"target", "md"} : Past(in) \subseteq Past(in)',
         \A in \in {"target", "md"} : \A i \in Past(in)' :
           i \in Past(in) \/ (Recipe[i].mount # NoMount => fs.mount = Recipe[i].mount),
         fs.mount \in {Boot, Root} =>
           \/ fs.device[1] \in {"bcache", "lv"}
           \/ \E in \in {"target", "md"} : \E i \in Past(in)' : Stems(i, fs) /\ \A j \in Past(in)' : ~(j > i)
  PROVE  Traced' /\ Found'
<1> DEFINE L == Len(filesystem_list)
<1>1. PICK last, old : last = Len(filesystem_list) + 1 /\ old = DOMAIN filesystem_list
  OBVIOUS
<1>2. /\ DOMAIN filesystem_list' = old \cup {last} /\ filesystem_list'[last] = fs
      /\ \A k \in old : filesystem_list'[k] = filesystem_list[k] /\ last > k
  <2>1. /\ DOMAIN filesystem_list = 1..L /\ L \in Nat /\ DOMAIN filesystem_list' = 1..(L + 1)
        /\ \A i \in 1..L : filesystem_list'[i] = filesystem_list[i]
        /\ filesystem_list'[L + 1] = fs
    BY Appended DEF Listed
  <2>2. last \notin old /\ 1..(L + 1) = old \cup {last} /\ \A k \in old : last > k
    BY <1>1, <2>1
  <2> QED  BY <1>1, <2>1, <2>2
<1>3. Recipe' = Recipe /\ (\A i : DriveOf(i)' = DriveOf(i)) /\ NoMount \notin {Boot, Root}
  BY SameRecipe, SameDrives, MountsApart
<1>4. \A i, g : (Stems(i, g) <=> Stems(i, g)')
  BY <1>3 DEF Stems
<1>5. Found'
  <2> SUFFICES ASSUME NEW in \in {"target", "md"}, NEW i \in Past(in)', Recipe[i].mount # NoMount
               PROVE  \E k \in DOMAIN filesystem_list' : filesystem_list'[k].mount = Recipe[i].mount
    BY <1>3 DEF Found
  <2>1. CASE i \in Past(in)
    <3>1. PICK k \in old : filesystem_list[k].mount = Recipe[i].mount
      BY <1>1, <2>1 DEF Found
    <3> QED  BY <1>2, <3>1
  <2>2. CASE i \notin Past(in)
    BY <1>2, <2>2
  <2> QED  BY <2>1, <2>2
<1>6. Traced'
  <2> SUFFICES ASSUME NEW k \in old \cup {last}, filesystem_list'[k].mount \in {Boot, Root},
                      filesystem_list'[k].device[1] \notin {"bcache", "lv"}
               PROVE  \E in \in {"target", "md"} : \E i \in Past(in)' :
                        Stems(i, filesystem_list'[k]) /\ Followed(k, i, in)'
    BY <1>2, <1>3, <1>4 DEF Traced
  <2>1. CASE k \in old
    <3>1. PICK in \in {"target", "md"} : \E i \in Past(in) : Stems(i, filesystem_list[k]) /\ Followed(k, i, in)
      BY <1>1, <1>2, <2>1 DEF Traced
    <3>2. PICK i \in Past(in) : Stems(i, filesystem_list[k]) /\ Followed(k, i, in)
      BY <3>1
    <3>3. ASSUME NEW j \in Past(in)', j > i, Recipe[j].mount = filesystem_list[k].mount
          PROVE  \E l \in old \cup {last} : l > k /\ filesystem_list'[l].mount = filesystem_list[k].mount
      <4>1. CASE j \in Past(in)
        <5>1. PICK l \in old : l > k /\ filesystem_list[l].mount = filesystem_list[k].mount
          BY <1>1, <3>2, <3>3, <4>1 DEF Followed
        <5> QED  BY <1>2, <5>1
      <4>2. CASE j \notin Past(in)
        <5>1. fs.mount = Recipe[j].mount
          BY <1>2, <1>3, <2>1, <3>3, <4>2
        <5> QED  BY <1>2, <2>1, <3>3, <5>1
      <4> QED  BY <4>1, <4>2
    <3>4. Followed(k, i, in)'
      BY <1>2, <1>3, <2>1, <3>3 DEF Followed
    <3> QED  BY <1>2, <2>1, <3>1, <3>2, <3>4
  <2>2. CASE k = last
    BY <1>2, <2>2 DEF Followed
  <2> QED  BY <2>1, <2>2
<1> QED  BY <1>5, <1>6

LEMMA PointsStay ==
  ASSUME Traced, Found, UNCHANGED <<job, target_drives, filesystem_list>>,
         \A in \in {"target", "md"} : Past(in) \subseteq Past(in)',
         \A in \in {"target", "md"} : \A i \in Past(in)' : i \in Past(in) \/ Recipe[i].mount = NoMount
  PROVE  Traced' /\ Found'
<1>1. Recipe' = Recipe /\ (\A i : DriveOf(i)' = DriveOf(i)) /\ NoMount \notin {Boot, Root}
  BY SameRecipe, SameDrives, MountsApart
<1>2. \A i, k : Stems(i, filesystem_list[k])' <=> Stems(i, filesystem_list[k])
  BY <1>1 DEF Stems
<1>3. Found'
  BY <1>1 DEF Found
<1>4. ASSUME NEW in \in {"target", "md"}, NEW i \in Past(in), NEW k, Followed(k, i, in),
             filesystem_list[k].mount \in {Boot, Root}
      PROVE  Followed(k, i, in)'
  BY <1>1, <1>4 DEF Followed
<1>5. Traced'
  BY <1>1, <1>2, <1>4 DEF Traced
<1> QED  BY <1>3, <1>5

\* What is known of the drives to boot from stays with the plan.
LEMMA RoomKept ==
  ASSUME RInv, Ordered, UNCHANGED <<job, target_drives, boot_drives, partition_pos, parted_task_map>>,
         phase' \in {"grub", "ref_size"} => phase \in {"grub", "ref_size"},
         phase' = "grub" => phase = "grub" /\ n' = n,
         phase = "grub" => phase' = "grub" \/ \A i \in DOMAIN boot_drives : i < n,
         Traced', Found', Joined', Cut'
  PROVE  RInv'
<1>1. Anchored /\ Roomed
  BY DEF RInv
<1>2. /\ Recipe' = Recipe /\ BootTargets' = BootTargets /\ (\A in : ItemsOf(in)' = ItemsOf(in))
      /\ \A mount : TargetsWithMount(mount)' = TargetsWithMount(mount) /\ (Confused(mount)' <=> Confused(mount))
  BY SameRecipe
<1>3. (\A i : DriveOf(i)' = DriveOf(i)) /\ (EnoughDrives' <=> EnoughDrives)
  BY SameDrives
<1>4. Tasked' <=> Tasked
  BY DEF Tasked
<1>5. Anchored'
  BY <1>1, <1>2, <1>3, <1>4 DEF Anchored
<1>6. \A d : (HasRoom(d)' <=> HasRoom(d)) /\ (HasTasks(d)' <=> HasTasks(d))
  BY DEF HasRoom, HasTasks, Full, Start
<1>7. Roomed'
  BY <1>1, <1>6 DEF Roomed
<1> QED  BY <1>5, <1>7 DEF RInv

\* Steps that make no file system, no member of an array, and no partition.
LEMMA QuietKept ==
  ASSUME RInv, UInv, Ordered, UNCHANGED <<job, target_drives, boot_drives, partition_pos, parted_task_map, md_list, filesystem_list>>,
         \/ phase = "grub" /\ phase' = "ref_size" /\ \A i \in DOMAIN boot_drives : i < n
         \/ phase = "ref_size" /\ phase' = "ref_size"
         \/ phase = "ref_size" /\ phase' = "target" /\ n' = 1
         \/ phase = "target" /\ phase' = "parted" /\ made' = made /\ \A i \in ItemsOf("target") : i < n
         \/ phase = "parted" /\ phase' = "parted" /\ \E d : Inside(d) /\ Apart(d) /\ \A e : <<e, 0>> \in made' => e = d \/ <<e, 0>> \in made
         \/ phase = "parted" /\ phase' = "md" /\ n' = 1 /\ \A d \in DOMAIN parted_task_map : <<d, 0>> \in made
         \/ phase = "md" /\ phase' = "bcache" /\ \A i \in ItemsOf("md") : i < n
         \/ phase \in Laid \ {"md"} /\ phase' \in Laid \ {"md"}
         \/ phase' = phase /\ n' = n /\ made' = made
  PROVE  RInv'
<1>1. Anchored /\ Traced /\ Found /\ Joined /\ Cut /\ (phase \in Planning => made = {})
  BY DEF RInv, UInv, Planned
<1>2. Recipe' = Recipe /\ (\A in : ItemsOf(in)' = ItemsOf(in)) /\ (\A i : DriveOf(i)' = DriveOf(i))
  BY SameRecipe, SameDrives
<1>3. \A in : \A i \in ItemsOf(in) : i \in Nat /\ ~(i < 1)
  BY <1>1, JobIs DEF Anchored, ItemsOf
<1>4. \A in \in {"target", "md"} : Past(in)' = Past(in)
  BY <1>2, <1>3 DEF Past, Laid, Building, Ordered
<1>5. Traced' /\ Found'
  BY <1>1, <1>4, PointsStay
<1>6. Joined'
  BY <1>1, <1>2 DEF Joined
<1>7. \A d : (Inside(d)' <=> Inside(d)) /\ (Apart(d)' <=> Apart(d))
  BY TasksStay
<1>8. Cut'
  BY <1>1, <1>7 DEF Cut, Laid, Building, Planning
<1> QED  BY <1>5, <1>6, <1>8, RoomKept DEF Laid, Building

\* The drives to boot from are chosen before there is a file system.
LEMMA RoomBegins ==
  ASSUME LInv, LInv', UInv, UInv', Prepare, phase' # "raised"
  PROVE  RInv'
<1>1. /\ phase = "prepare" /\ phase' = "grub" /\ n' = 1 /\ EnoughDrives
      /\ ~Confused(Boot) /\ BootTargets # {} /\ (TargetsWithMount(Boot) = {} => ~Confused(Root))
      /\ UNCHANGED <<job, target_drives, md_list, filesystem_list>>
      /\ boot_drives' = [i \in BootTargets |-> DriveOf(i)]
      /\ parted_task_map' = [d \in {DriveOf(i) : i \in ItemsOf("target")} |-> <<>>]
  BY DEF Prepare, Enter, Raise, groupVars
<1>2. /\ Recipe' = Recipe /\ BootTargets' = BootTargets /\ (\A in : ItemsOf(in)' = ItemsOf(in))
      /\ \A mount : TargetsWithMount(mount)' = TargetsWithMount(mount) /\ (Confused(mount)' <=> Confused(mount))
      /\ (\A i : DriveOf(i)' = DriveOf(i)) /\ (EnoughDrives' <=> EnoughDrives)
  BY <1>1, SameRecipe, SameDrives
<1>3. /\ job \in DOMAIN Jobs /\ Len(target_drives) \in Nat /\ target_drives \in [1..Len(target_drives) -> Drives]
  BY <1>1 DEF LInv, Measured
<1>4. \A d \in DOMAIN parted_task_map' : DOMAIN parted_task_map'[d] = {}
  BY <1>1
<1>5. Tasked'
  BY <1>1, OneAlone DEF Tasked
<1>6. DOMAIN parted_task_map' = {DriveOf(i)' : i \in ItemsOf("target")'}
  BY <1>1 DEF UInv, Planned, Planning
<1>7. Anchored'
  BY <1>1, <1>2, <1>3, <1>4, <1>5, <1>6 DEF Anchored
<1>8. DOMAIN filesystem_list = {} /\ \A g \in Groups : DOMAIN md_list[g] = {}
  <2>1. Uses = {}
    BY <1>1 DEF UInv, Planned
  <2>2. "md" \in Kinds /\ Groupings["md"] = md_list
    BY DEF Kinds, Groupings
  <2>3. \A k : k \notin DOMAIN filesystem_list
    BY <2>1, UsesAre DEF OneByOne
  <2>4. \A g \in Groups : \A k : k \notin DOMAIN md_list[g]
    BY <2>1, <2>2, UsesAre DEF OneByOne
  <2> QED  BY <2>3, <2>4
<1>9. Past("target")' = {} /\ Past("md")' = {}
  BY <1>1 DEF Past, Laid, Building
<1>10. Traced' /\ Found' /\ Joined'
  BY <1>1, <1>8, <1>9 DEF Traced, Found, Joined
<1>11. BootTargets \subseteq Nat
  BY <1>3, JobIs DEF BootTargets, TargetsWithMount, LastMounted, ItemsOf
<1>12. Roomed'
  BY <1>1, <1>4, <1>11 DEF Roomed, HasTasks
<1>13. Cut'
  BY <1>1 DEF Cut, Laid, Building
<1> QED  BY <1>7, <1>10, <1>12, <1>13 DEF RInv

\* What is known of a drive's first partition when another is added.
LEMMA FirstStays ==
  ASSUME Tasked, NEW d \in DOMAIN parted_task_map, NEW kind, NEW size, AddPartition(d, kind, size), job' = job
  PROVE  /\ \A e \in DOMAIN parted_task_map : (e # d \/ kind = "blank") =>
              (HasTasks(e)' <=> HasTasks(e)) /\ parted_task_map'[e] = parted_task_map[e]
              /\ (e # d => (HasRoom(e)' <=> HasRoom(e)))
         /\ kind # "blank" =>
              HasTasks(d)' /\ parted_task_map'[d][1] =
                IF HasTasks(d) THEN parted_task_map[d][1] ELSE [kind |-> kind, start |-> Start(d), size |-> size]
<1>1. /\ \A e : e # d => Start(e)' = Start(e) /\ (Full(e)' <=> Full(e))
      /\ \A e \in DOMAIN parted_task_map : e # d \/ kind = "blank" => parted_task_map'[e] = parted_task_map[e]
  BY TaskAdded
<1>2. \A e \in DOMAIN parted_task_map : (e # d \/ kind = "blank") =>
              (HasTasks(e)' <=> HasTasks(e)) /\ parted_task_map'[e] = parted_task_map[e]
              /\ (e # d => (HasRoom(e)' <=> HasRoom(e)))
  BY <1>1 DEF HasTasks, HasRoom
<1>3. ASSUME kind # "blank"
      PROVE  HasTasks(d)' /\ parted_task_map'[d][1] =
                IF HasTasks(d) THEN parted_task_map[d][1] ELSE [kind |-> kind, start |-> Start(d), size |-> size]
  <2>1. PICK len : len = Len(parted_task_map[d])
    OBVIOUS
  <2>2. /\ Len(parted_task_map[d]) \in Nat /\ DOMAIN parted_task_map[d] = 1..Len(parted_task_map[d])
        /\ DOMAIN parted_task_map'[d] = 1..(Len(parted_task_map[d]) + 1)
        /\ \A i \in 1..Len(parted_task_map[d]) : parted_task_map'[d][i] = parted_task_map[d][i]
        /\ parted_task_map'[d][Len(parted_task_map[d]) + 1] = [kind |-> kind, start |-> Start(d), size |-> size]
    BY ONLY <1>3, Tasked, d \in DOMAIN parted_task_map, AddPartition(d, kind, size), TaskAdded
  <2>3. /\ len \in Nat /\ DOMAIN parted_task_map[d] = 1..len /\ DOMAIN parted_task_map'[d] = 1..(len + 1)
        /\ \A i \in 1..len : parted_task_map'[d][i] = parted_task_map[d][i]
        /\ parted_task_map'[d][len + 1] = [kind |-> kind, start |-> Start(d), size |-> size]
    BY <2>1, <2>2
  <2>4. (HasTasks(d) <=> len # 0) /\ HasTasks(d)'
    BY <2>3 DEF HasTasks
  <2>5. CASE len = 0
    BY <2>3, <2>4, <2>5
  <2>6. CASE len # 0
    <3>1. 1 \in 1..len
      BY <2>3, <2>6
    <3> QED  BY <2>3, <2>4, <2>6, <3>1
  <2> QED  BY <2>4, <2>5, <2>6
<1> QED  BY <1>2, <1>3

\* The drives are anchored while the plan is made.
LEMMA AnchorStays ==
  ASSUME RInv, Ordered, LInv', UInv', phase' \in Planning, UNCHANGED <<job, target_drives, boot_drives>>
  PROVE  Anchored'
<1>1. Anchored
  BY DEF RInv
<1>2. /\ Recipe' = Recipe /\ BootTargets' = BootTargets /\ (\A in : ItemsOf(in)' = ItemsOf(in))
      /\ \A mount : TargetsWithMount(mount)' = TargetsWithMount(mount) /\ (Confused(mount)' <=> Confused(mount))
  BY SameRecipe
<1>3. (\A i : DriveOf(i)' = DriveOf(i)) /\ (EnoughDrives' <=> EnoughDrives)
  BY SameDrives
<1>4. DOMAIN parted_task_map' = {DriveOf(i)' : i \in ItemsOf("target")'} /\ Tasked'
  BY DEF UInv, Planned
<1>5. \A d \in DOMAIN parted_task_map' : \A i \in DOMAIN parted_task_map'[d] :
       parted_task_map'[d][i].start \in Int /\ parted_task_map'[d][i].size \in Int
  BY DEF LInv, Measured
<1> QED  BY <1>1, <1>2, <1>3, <1>4, <1>5 DEF Anchored

\* The boot loader has its room from the step that makes it.
LEMMA GrubRoom ==
  ASSUME RInv, LInv, LInv', UInv, UInv', GrubPartition
  PROVE  RInv'
<1>1. /\ phase = "grub" /\ phase' = "grub" /\ UNCHANGED <<job, target_drives, boot_drives, md_list>>
  BY DEF GrubPartition, GoOn, groupVars
<1>2. PICK i \in DOMAIN boot_drives :
        /\ n <= i /\ n' = i + 1
        /\ AddPartition(boot_drives[i], IF Jobs[job].table = "gpt" THEN "bios_grub" ELSE "blank", Rsvd)
        /\ IF Jobs[job].table = "gpt"
             THEN AddFileSystem(IF Jobs[job].efi THEN Efi ELSE NoMount, "vfat", NewDevice(boot_drives[i]))
             ELSE UNCHANGED filesystem_list
        /\ \A j \in DOMAIN boot_drives : n <= j => i <= j
  BY DEF GrubPartition, NextOf, GoOn
<1>3. Anchored /\ Traced /\ Found /\ Joined /\ Roomed /\ Ordered
  BY <1>1 DEF RInv, Ordered
<1>4. Known
  BY <1>1, KnownAre DEF Planning
<1>5. Anchored'
  BY <1>1, <1>3, AnchorStays DEF Planning
<1>6. Recipe' = Recipe /\ (\A in : ItemsOf(in)' = ItemsOf(in)) /\ (\A j : DriveOf(j)' = DriveOf(j))
  BY <1>1, SameRecipe, SameDrives
<1>7. \A in \in {"target", "md"} : Past(in) = {} /\ Past(in)' = {}
  BY <1>1 DEF Past, Laid, Building
<1>8. Traced' /\ Found'
  <2>1. CASE Jobs[job].table = "gpt"
    <3>1. PICK fs : filesystem_list' = Append(filesystem_list, fs) /\ fs.mount \in {Efi, NoMount}
      BY <1>2, <2>1 DEF AddFileSystem
    <3>2. Efi \notin {Boot, Root} /\ NoMount \notin {Boot, Root}
      BY MountsApart DEF Efi, Boot, Root
    <3> QED  BY <1>1, <1>3, <1>7, <3>1, <3>2, PointsGrow DEF UInv
  <2>2. CASE Jobs[job].table # "gpt"
    BY <1>1, <1>2, <1>3, <1>7, <2>2, PointsStay
  <2> QED  BY <2>1, <2>2
<1>9. Joined'
  BY <1>1, <1>3, <1>6 DEF Joined
<1>10. Cut'
  BY <1>1 DEF Cut, Laid, Building
<1>11. PICK d, kind : /\ d = boot_drives[i] /\ kind = (IF Jobs[job].table = "gpt" THEN "bios_grub" ELSE "blank")
                      /\ AddPartition(d, kind, Rsvd) /\ d \in DOMAIN parted_task_map /\ Tasked
                      /\ i \in Nat /\ n \in Nat /\ \A j \in DOMAIN boot_drives : j \in Nat
  BY <1>2, <1>4 DEF Known
<1>16. /\ DOMAIN parted_task_map' = DOMAIN parted_task_map /\ Start(d)' = NextPos(d, Rsvd)
  <2>1. PICK size : size = Rsvd
    OBVIOUS
  <2>2. AddPartition(d, kind, size) /\ Tasked /\ d \in DOMAIN parted_task_map
    BY <1>11, <2>1
  <2>3. DOMAIN parted_task_map' = DOMAIN parted_task_map
    BY ONLY <2>2, TaskAdded
  <2>4. Start(d)' = NextPos(d, size)
    BY ONLY <2>2, TaskAdded
  <2> QED  BY <2>1, <2>3, <2>4
<1>12. /\ \A e \in DOMAIN parted_task_map : (e # d \/ kind = "blank") =>
              (HasTasks(e)' <=> HasTasks(e)) /\ parted_task_map'[e] = parted_task_map[e]
              /\ (e # d => (HasRoom(e)' <=> HasRoom(e)))
       /\ kind # "blank" =>
              HasTasks(d)' /\ parted_task_map'[d][1] =
                IF HasTasks(d) THEN parted_task_map[d][1] ELSE [kind |-> kind, start |-> Start(d), size |-> Rsvd]
  <2>1. PICK size : size = Rsvd
    OBVIOUS
  <2>2. AddPartition(d, kind, size) /\ job' = job
    BY <1>1, <1>11, <2>1
  <2>3. /\ \A e \in DOMAIN parted_task_map : (e # d \/ kind = "blank") =>
              (HasTasks(e)' <=> HasTasks(e)) /\ parted_task_map'[e] = parted_task_map[e]
              /\ (e # d => (HasRoom(e)' <=> HasRoom(e)))
        /\ kind # "blank" =>
              HasTasks(d)' /\ parted_task_map'[d][1] =
                IF HasTasks(d) THEN parted_task_map[d][1] ELSE [kind |-> kind, start |-> Start(d), size |-> size]
    BY ONLY <1>11, <2>2, FirstStays
  <2> QED  BY <2>1, <2>3
<1>13. ASSUME NEW e \in DOMAIN parted_task_map, HasTasks(e)'
       PROVE  Jobs[job].table = "gpt" /\ parted_task_map'[e][1].kind = "bios_grub"
  <2>1. HasTasks(e) => Jobs[job].table = "gpt" /\ parted_task_map[e][1].kind = "bios_grub"
    BY <1>1, <1>3 DEF Roomed
  <2>2. CASE e # d \/ kind = "blank"
    BY <1>12, <1>13, <2>1, <2>2
  <2>3. CASE e = d /\ kind # "blank"
    <3>1. kind = "bios_grub" /\ Jobs[job].table = "gpt"
      BY <1>11, <2>3
    <3> QED  BY <1>12, <2>1, <2>3, <3>1
  <2> QED  BY <2>2, <2>3
<1>14. HasRoom(d)'
  <2>1. CASE Jobs[job].table = "gpt"
    <3>1. HasTasks(d)'
      BY <1>11, <1>12, <2>1
    <3> QED  BY <1>1, <1>11, <1>13, <2>1, <3>1 DEF HasRoom
  <2>2. CASE Jobs[job].table # "gpt"
    <3>1. ~HasTasks(d)'
      BY <1>11, <1>13, <2>2
    <3>2. Start(d) \in Int /\ Start(d) >= 0
      BY <1>1 DEF LInv, Measured, Planning, Start
    <3>3. Rsvd = 5
      BY <2>2 DEF Rsvd
    <3>4. Start(d)' >= 5
      BY <1>16, <3>2, <3>3 DEF NextPos
    <3> QED  BY <1>1, <2>2, <3>1, <3>4 DEF HasRoom
  <2> QED  BY <2>1, <2>2
<1>15. Roomed'
  <2>1. ASSUME NEW j \in DOMAIN boot_drives, j < n' PROVE HasRoom(boot_drives[j])'
    <3>1. boot_drives[j] \in DOMAIN parted_task_map
      BY <1>1, <1>4 DEF Known
    <3>2. CASE boot_drives[j] = d
      BY <1>1, <1>14, <3>2
    <3>3. CASE boot_drives[j] # d
      <4>1. j < n
        BY <1>2, <1>11, <2>1, <3>3
      <4>2. HasRoom(boot_drives[j])
        BY <1>3, <4>1 DEF Roomed
      <4>3. PICK e \in DOMAIN parted_task_map : e = boot_drives[j]
        BY <3>1
      <4>4. HasRoom(e)'
        BY <1>12, <3>3, <4>2, <4>3
      <4> QED  BY <1>1, <4>3, <4>4
    <3> QED  BY <3>2, <3>3
  <2> QED  BY <1>1, <1>16, <1>13, <2>1 DEF Roomed
<1> QED  BY <1>5, <1>8, <1>9, <1>10, <1>15 DEF RInv

\* So it has when a target is placed.
LEMMA TargetRoom ==
  ASSUME RInv, LInv, LInv', UInv, UInv', TargetItem, phase' # "raised"
  PROVE  RInv'
<1>1. /\ phase = "target" /\ UNCHANGED <<job, target_drives, boot_drives>>
  BY DEF TargetItem
<1>2. PICK i \in NextOf(ItemsOf("target")) :
        /\ ~BadSize(Recipe[i]) /\ ~Full(DriveOf(i))
        /\ AddPartition(DriveOf(i), Recipe[i].type, SizeOf(Recipe[i]))
        /\ UseDevice(Recipe[i], NewDevice(DriveOf(i))) /\ GoOn(i)
  BY DEF TargetItem, Raise
<1>3. Anchored /\ Traced /\ Found /\ Joined /\ Roomed /\ Ordered
  BY <1>1 DEF RInv, Ordered
<1>4. Known
  BY <1>1, KnownAre DEF Planning
<1>5. PICK d, kind, size, device : /\ d = DriveOf(i) /\ kind = Recipe[i].type /\ size = SizeOf(Recipe[i])
                                   /\ device = NewDevice(d)
  OBVIOUS
<1>6. /\ phase' = "target" /\ n' = i + 1 /\ n <= i /\ i \in Nat /\ n \in Nat /\ i \in ItemsOf("target")
      /\ d \in DOMAIN parted_task_map /\ Tasked /\ AddPartition(d, kind, size) /\ ~Full(d)
      /\ \A j \in ItemsOf("target") : j \in Nat /\ (n <= j => i <= j)
  BY <1>1, <1>2, <1>4, <1>5 DEF GoOn, NextOf, Known
<1>7. Stated(Recipe[i])
  BY <1>4, <1>6, JobIs DEF Known, ItemsOf
<1>8. Recipe' = Recipe /\ (\A in : ItemsOf(in)' = ItemsOf(in)) /\ (\A j : DriveOf(j)' = DriveOf(j))
  BY <1>1, SameRecipe, SameDrives
<1>9. Anchored'
  BY <1>1, <1>3, <1>6, AnchorStays DEF Planning
<1>10. /\ Past("target")' = Past("target") \cup {i} /\ (\A j \in Past("target")' : ~(j > i))
       /\ Past("md") = {} /\ Past("md")' = {}
  <2>1. Past("target")' = {j \in ItemsOf("target") : j < i + 1} /\ Past("target") = {j \in ItemsOf("target") : j < n}
    BY <1>1, <1>6, <1>8 DEF Past, Laid, Building
  <2>2. Past("md") = {} /\ Past("md")' = {}
    BY <1>1, <1>6 DEF Past, Laid, Building
  <2>3. \A j \in ItemsOf("target") : (j < i + 1 <=> j < n \/ j = i) /\ (j < i + 1 => ~(j > i))
    BY <1>6
  <2> QED  BY <1>6, <2>1, <2>2, <2>3
<1>11. ASSUME UNCHANGED filesystem_list /\ Recipe[i].type # "fs"
       PROVE  Traced' /\ Found'
  <2>1. Recipe[i].mount = NoMount
    BY <1>6, <1>7, <1>11 DEF Stated, ItemsOf
  <2> QED  BY <1>1, <1>3, <1>10, <1>11, <2>1, PointsStay
<1>12. ASSUME AddFileSystem(Recipe[i].mount, Recipe[i].type, device)
       PROVE  Traced' /\ Found'
  <2>1. PICK fs : /\ filesystem_list' = Append(filesystem_list, fs) /\ fs.device = device
                  /\ fs.mount = IF Recipe[i].type = "swap" THEN NoMount ELSE Recipe[i].mount
    BY <1>12 DEF AddFileSystem
  <2>2. Recipe[i].mount # NoMount => fs.mount = Recipe[i].mount
    BY <1>6, <1>7, <2>1 DEF Stated, ItemsOf
  <2>3. fs.mount \in {Boot, Root} => Stems(i, fs)
    <3>1. fs.mount \in {Boot, Root} => fs.mount = Recipe[i].mount
      BY <2>1, MountsApart
    <3>2. device[1] = d /\ Recipe[i].in # "md"
      BY <1>5, <1>6 DEF NewDevice, ItemsOf
    <3> QED  BY <1>5, <2>1, <3>1, <3>2 DEF Stems
  <2>4. \A in \in {"target", "md"} : \A j \in Past(in)' :
          j \in Past(in) \/ (Recipe[j].mount # NoMount => fs.mount = Recipe[j].mount)
    BY <1>10, <2>2
  <2>5. \A in \in {"target", "md"} : Past(in) \subseteq Past(in)'
    BY <1>10
  <2>6. fs.mount \in {Boot, Root} =>
          \E in \in {"target", "md"} : \E j \in Past(in)' : Stems(j, fs) /\ \A k \in Past(in)' : ~(k > j)
    BY <1>10, <2>3
  <2> QED  BY <1>1, <1>3, <2>1, <2>4, <2>5, <2>6, PointsGrow DEF UInv
<1>13. Joined'
  <2>1. CASE UNCHANGED md_list
    BY <1>3, <1>8, <2>1 DEF Joined
  <2>2. CASE Recipe[i].type = "md" /\ md_list' = Add(md_list, Recipe[i].group, device)
    <3>1. DOMAIN md_list = Groups /\ \A g \in Groups : IsSequence(md_list[g])
      <4>1. "md" \in Kinds /\ Groupings["md"] = md_list
        BY DEF Kinds, Groupings
      <4> QED  BY <4>1 DEF UInv, Listed
    <3>2. PICK group : group = Recipe[i].group
      OBVIOUS
    <3>3. md_list' = [md_list EXCEPT ![group] = Append(@, device)]
      BY <2>2, <3>2 DEF Add
    <3>4. \A g \in Groups : md_list'[g] = IF g = group THEN Append(md_list[g], device) ELSE md_list[g]
      BY <3>1, <3>3
    <3>5. device[1] = d
      BY <1>5 DEF NewDevice
    <3>6. ASSUME NEW g \in Groups, NEW k \in DOMAIN md_list'[g]
          PROVE  \E j \in ItemsOf("target") : Recipe[j].type = "md" /\ Recipe[j].group = g /\ md_list'[g][k][1] = DriveOf(j)
      <4>1. CASE g # group
        BY <1>3, <3>4, <3>6, <4>1 DEF Joined
      <4>2. CASE g = group
        <5>1. PICK s : s = md_list[g]
          OBVIOUS
        <5>2. /\ DOMAIN s = 1..Len(s) /\ Len(s) \in Nat /\ DOMAIN Append(s, device) = 1..(Len(s) + 1)
              /\ (\A l \in 1..Len(s) : Append(s, device)[l] = s[l]) /\ Append(s, device)[Len(s) + 1] = device
          BY <3>1, <5>1, Appended
        <5>3. CASE k \in DOMAIN s
          <6>1. md_list'[g][k] = md_list[g][k]
            BY <3>4, <4>2, <5>1, <5>2, <5>3
          <6> QED  BY <1>3, <5>1, <5>3, <6>1 DEF Joined
        <5>4. CASE k = Len(s) + 1
          <6>1. md_list'[g][k] = device
            BY <3>4, <4>2, <5>1, <5>2, <5>4
          <6> QED  BY <1>5, <1>6, <2>2, <3>2, <3>5, <4>2, <6>1
        <5>5. k \in 1..(Len(s) + 1)
          BY <3>4, <3>6, <4>2, <5>1, <5>2
        <5>6. k \in 1..Len(s) \/ k = Len(s) + 1
          BY <5>2, <5>5
        <5> QED  BY <5>2, <5>3, <5>4, <5>6
      <4> QED  BY <4>1, <4>2
    <3> QED  BY <1>8, <3>6 DEF Joined
  <2> QED  BY <1>2, <1>5, <2>1, <2>2 DEF UseDevice, UseInBCache, UseAsFileSystem, groupVars
<1>14. HasRoom(d) => HasRoom(d)'
  <2> SUFFICES ASSUME HasRoom(d) PROVE HasRoom(d)'
    OBVIOUS
  <2>1. /\ kind = "blank" => (HasTasks(d)' <=> HasTasks(d)) /\ parted_task_map'[d] = parted_task_map[d]
        /\ kind # "blank" =>
              HasTasks(d)' /\ parted_task_map'[d][1] =
                IF HasTasks(d) THEN parted_task_map[d][1] ELSE [kind |-> kind, start |-> Start(d), size |-> size]
    BY <1>1, <1>6, FirstStays
  <2>2. CASE Jobs[job].table = "gpt"
    BY <1>1, <2>1, <2>2 DEF HasRoom
  <2>3. CASE Jobs[job].table # "gpt" /\ HasTasks(d)
    BY <1>1, <2>1, <2>3 DEF HasRoom
  <2>4. CASE Jobs[job].table # "gpt" /\ ~HasTasks(d) /\ kind # "blank"
    BY <1>1, <1>6, <2>1, <2>4 DEF HasRoom
  <2>5. CASE Jobs[job].table # "gpt" /\ ~HasTasks(d) /\ kind = "blank"
    <3>1. Start(d) >= 5 /\ Start(d) \in Int
      BY <1>4, <1>6, <2>5 DEF HasRoom, Known
    <3>2. boot_size \in Int /\ 0 <= boot_size
      BY <1>1 DEF LInv, Sized, Planning
    <3>3. Recipe[i].size \notin {"- boot", "- swap", "swap"}
      BY <1>5, <1>7, <2>5 DEF Stated
    <3>4. size \in Int /\ 0 <= size
      <4>1. SizeOf(Recipe[i]) \in {0, boot_size, Recipe[i].m}
        BY <3>3 DEF SizeOf
      <4>2. size = 0 \/ size = boot_size \/ size = Recipe[i].m
        BY <1>5, <4>1
      <4>3. Recipe[i].m \in Nat
        BY <1>7 DEF Stated
      <4> QED  BY <3>2, <4>2, <4>3
    <3>5. Start(d)' = NextPos(d, size) /\ (Full(d)' <=> NextPos(d, size) = 0)
      BY <1>6, TaskAdded
    <3>6. NextPos(d, size) = 0 \/ NextPos(d, size) >= 5
      BY <3>1, <3>4 DEF NextPos
    <3> QED  BY <1>1, <2>1, <2>5, <3>5, <3>6 DEF HasRoom
  <2> QED  BY <2>2, <2>3, <2>4, <2>5
<1>15. Roomed'
  <2>1. ASSUME NEW j \in DOMAIN boot_drives PROVE HasRoom(boot_drives[j])'
    <3>1. PICK e \in DOMAIN parted_task_map : e = boot_drives[j]
      BY <1>1, <1>4 DEF Known
    <3>2. HasRoom(e)
      BY <1>1, <1>3, <3>1 DEF Roomed
    <3>3. e # d => (HasRoom(e)' <=> HasRoom(e))
      BY <1>1, <1>6, FirstStays
    <3>4. HasRoom(e)'
      BY <1>14, <3>2, <3>3
    <3> QED  BY <1>1, <3>1, <3>4
  <2> QED  BY <1>1, <1>6, <2>1 DEF Roomed
<1>16. Cut'
  BY <1>6 DEF Cut, Laid, Building
<1>17. Traced' /\ Found'
  <2>1. \/ UNCHANGED filesystem_list /\ Recipe[i].type # "fs"
        \/ AddFileSystem(Recipe[i].mount, Recipe[i].type, device)
    BY <1>2, <1>5 DEF UseDevice, UseInBCache, UseAsFileSystem
  <2> QED  BY <1>11, <1>12, <2>1
<1> QED  BY <1>9, <1>13, <1>15, <1>16, <1>17 DEF RInv

\* Arrays, bcache devices and volumes leave the plan as it is.
LEMMA LaidKept ==
  ASSUME RInv, phase \in Laid, phase' \in Laid, UNCHANGED <<job, planVars, md_list>>, Traced', Found'
  PROVE  RInv'
<1>1. Anchored /\ Joined /\ Cut /\ Ordered
  BY DEF RInv, Ordered, Laid, Building
<1>2. /\ UNCHANGED <<target_drives, boot_drives, partition_pos, parted_task_map>>
      /\ (\A in : ItemsOf(in)' = ItemsOf(in)) /\ Recipe' = Recipe /\ (\A i : DriveOf(i)' = DriveOf(i))
  BY SameRecipe, SameDrives DEF planVars
<1>3. Joined'
  BY <1>1, <1>2 DEF Joined
<1>4. \A d : (Inside(d)' <=> Inside(d)) /\ (Apart(d)' <=> Apart(d))
  BY <1>2, TasksStay
<1>5. Cut'
  BY <1>1, <1>2, <1>4 DEF Cut, Laid, Building
<1> QED  BY <1>1, <1>2, <1>3, <1>5, RoomKept DEF Laid, Building

LEMMA ArrayRoom ==
  ASSUME RInv, LInv, UInv, MdItem, phase' # "raised"
  PROVE  RInv'
<1>1. phase = "md" /\ UNCHANGED <<job, planVars>>
  BY DEF MdItem
<1>2. PICK i \in NextOf(ItemsOf("md")) :
        /\ GoOn(i)
        /\ IF Recipe[i].type = "bcache" THEN UseInBCache(Recipe[i], <<"md", Recipe[i].at>>)
           ELSE UseVolume(Recipe[i], <<"md", Recipe[i].at>>)
  BY DEF MdItem, Raise
<1>3. Anchored /\ Traced /\ Found /\ Listed
  BY <1>1 DEF RInv, Ordered, UInv
<1>4. /\ job \in DOMAIN Jobs /\ Len(Recipe) \in Nat /\ DOMAIN Recipe = 1..Len(Recipe)
      /\ \A j \in DOMAIN Recipe : Stated(Recipe[j])
  BY <1>3, JobIs DEF Anchored
<1>5. /\ phase' = "md" /\ n' = i + 1 /\ n <= i /\ i \in Nat /\ i \in ItemsOf("md") /\ Stated(Recipe[i])
      /\ \A j \in ItemsOf("md") : j \in Nat /\ (n <= j => i <= j)
  BY <1>1, <1>2, <1>4 DEF GoOn, NextOf, ItemsOf
<1>n. n \in Nat
  BY DEF LInv, Measured
<1>6. Recipe' = Recipe /\ (\A in : ItemsOf(in)' = ItemsOf(in)) /\ target_drives' = target_drives
  BY <1>1, SameRecipe DEF planVars
<1>7. /\ Past("md") \subseteq Past("md")' /\ (\A j \in Past("md")' : j \in Past("md") \/ j = i)
      /\ i \in Past("md")' /\ (\A j \in Past("md")' : ~(j > i))
      /\ Past("target") = Past("target")'
  <2>1. Past("md")' = {j \in ItemsOf("md") : j < i + 1} /\ Past("md") = {j \in ItemsOf("md") : j < n}
    BY <1>1, <1>5, <1>6 DEF Past, Laid, Building
  <2>2. Past("target") = ItemsOf("target") /\ Past("target")' = ItemsOf("target")
    BY <1>1, <1>5, <1>6 DEF Past, Laid, Building
  <2>3. \A j \in ItemsOf("md") : (j < i + 1 <=> j < n \/ j = i) /\ (j < i + 1 => ~(j > i))
    BY <1>5, <1>n
  <2> QED  BY <1>5, <2>1, <2>2, <2>3
<1>8. CASE UNCHANGED <<md_list, filesystem_list>> /\ Recipe[i].mount = NoMount
  BY <1>1, <1>3, <1>5, <1>6, <1>7, <1>8, PointsStay, LaidKept DEF Laid, Building
<1>9. CASE UseAsFileSystem(Recipe[i], <<"md", Recipe[i].at>>)
  <2>1. PICK fs : /\ filesystem_list' = Append(filesystem_list, fs) /\ fs.device = <<"md", Recipe[i].at>>
                  /\ fs.mount = (IF Recipe[i].type = "swap" THEN NoMount ELSE Recipe[i].mount) /\ md_list' = md_list
    BY <1>9 DEF UseAsFileSystem, AddFileSystem, groupVars
  <2>2. Recipe[i].mount # NoMount => fs.mount = Recipe[i].mount
    BY <1>5, <2>1 DEF Stated, ItemsOf
  <2>3. fs.mount \in {Boot, Root} => Stems(i, fs)
    <3>1. fs.mount \in {Boot, Root} => fs.mount = Recipe[i].mount
      BY <2>1, MountsApart
    <3>2. Recipe[i].in = "md"
      BY <1>5 DEF ItemsOf
    <3> QED  BY <2>1, <3>1, <3>2 DEF Stems
  <2>4. \A in \in {"target", "md"} : \A j \in Past(in)' :
          j \in Past(in) \/ (Recipe[j].mount # NoMount => fs.mount = Recipe[j].mount)
    BY <1>7, <2>2
  <2>5. \A in \in {"target", "md"} : Past(in) \subseteq Past(in)'
    BY <1>7
  <2>6. fs.mount \in {Boot, Root} =>
          \E in \in {"target", "md"} : \E j \in Past(in)' : Stems(j, fs) /\ \A k \in Past(in)' : ~(k > j)
    BY <1>7, <2>3
  <2>7. Traced' /\ Found'
    BY <1>1, <1>3, <1>6, <2>1, <2>4, <2>5, <2>6, PointsGrow
  <2> QED  BY <1>1, <1>5, <2>1, <2>7, LaidKept DEF Laid, Building
<1>10. \/ UNCHANGED <<md_list, filesystem_list>> /\ Recipe[i].mount = NoMount
       \/ UseAsFileSystem(Recipe[i], <<"md", Recipe[i].at>>)
  BY <1>2, <1>5 DEF UseInBCache, UseVolume, groupVars, Stated, ItemsOf
<1> QED  BY <1>8, <1>9, <1>10

LEMMA VolumesRoom ==
  ASSUME RInv, UInv, BCacheItem \/ MakeVolume, phase' # "raised"
  PROVE  RInv'
<1>1. /\ phase \in {"bcache", "lv"} /\ phase' \in {"bcache", "sync"} /\ UNCHANGED <<job, planVars, md_list>>
  BY DEF BCacheItem, MakeVolume, UseVolume, UseAsFileSystem, groupVars, Raise, GoOn, Enter
<1>2. \/ UNCHANGED filesystem_list
      \/ \E mount, type, device : AddFileSystem(mount, type, device) /\ device[1] \in {"bcache", "lv"}
  <2>1. ASSUME NEW item, NEW device, UseAsFileSystem(item, device), device[1] \in {"bcache", "lv"}
        PROVE  \E mount, type, other : AddFileSystem(mount, type, other) /\ other[1] \in {"bcache", "lv"}
    BY <2>1 DEF UseAsFileSystem
  <2>2. CASE BCacheItem
    <3>1. PICK i \in NextOf(ItemsOf("bcache")) :
            UseVolume(Recipe[i], <<"bcache", Recipe[i].at>>) \/ UNCHANGED filesystem_list
      BY <2>2 DEF BCacheItem
    <3>2. PICK device : device = <<"bcache", Recipe[i].at>>
      OBVIOUS
    <3>3. device[1] = "bcache"
      BY <3>2
    <3>4. UNCHANGED filesystem_list \/ UseAsFileSystem(Recipe[i], device)
      BY <3>1, <3>2 DEF UseVolume
    <3> QED  BY <2>1, <3>3, <3>4
  <2>3. CASE MakeVolume
    <3>1. \/ UNCHANGED filesystem_list
          \/ \E i \in LastVolume : AddFileSystem(Recipe[i].mount, Recipe[i].type, <<"lv", Recipe[i].m>>)
      BY <2>3 DEF MakeVolume
    <3>2. \A m : <<"lv", m>>[1] = "lv"
      OBVIOUS
    <3> QED  BY <3>1, <3>2
  <2> QED  BY <2>2, <2>3
<1>3. Anchored /\ Traced /\ Found /\ Listed
  BY <1>1 DEF RInv, Ordered, UInv
<1>4. (\A in : ItemsOf(in)' = ItemsOf(in)) /\ target_drives' = target_drives
  BY <1>1, SameRecipe DEF planVars
<1>5. \A in \in {"target", "md"} : Past(in)' = Past(in)
  BY <1>1, <1>4 DEF Past, Laid, Building
<1>6. Traced' /\ Found'
  <2>1. CASE UNCHANGED filesystem_list
    BY <1>1, <1>3, <1>4, <1>5, <2>1, PointsStay
  <2>2. CASE \E mount, type, device : AddFileSystem(mount, type, device) /\ device[1] \in {"bcache", "lv"}
    <3>1. PICK fs : filesystem_list' = Append(filesystem_list, fs) /\ fs.device[1] \in {"bcache", "lv"}
      BY <2>2 DEF AddFileSystem
    <3> QED  BY <1>1, <1>3, <1>4, <1>5, <3>1, PointsGrow
  <2> QED  BY <1>2, <2>1, <2>2
<1> QED  BY <1>1, <1>6, LaidKept DEF Laid, Building

\* Every step of the installation keeps what is known of the drives to boot from.
LEMMA RoomStep ==
  ASSUME RInv, LInv, LInv', UInv, UInv', Built, [Next]_vars
  PROVE  RInv'
<1>0. phase' \in {"drives", "prepare", "raised"} => RInv'
  BY DEF RInv, Ordered
<1>1. ASSUME UNCHANGED <<job, phase, planVars, md_list, filesystem_list, made>>,
             phase \in Planning \cup {"parted", "md"} => n' = n
      PROVE  RInv'
  <2>1. phase \in Laid \ {"md"} \/ n' = n \/ phase \notin Planning \cup {"parted"} \cup Laid
    BY <1>1
  <2>2. CASE ~Ordered
    BY <1>0, <1>1, <2>2 DEF Ordered
  <2>3. CASE Ordered /\ (n' = n \/ phase \in Laid \ {"md"})
    BY <1>1, <2>3, QuietKept DEF planVars
  <2>4. CASE Ordered /\ phase \notin Planning \cup {"parted"} \cup Laid
    <3>1. Past("target") = {} /\ Past("md") = {} /\ Past("target")' = {} /\ Past("md")' = {}
      BY <1>1, <2>4 DEF Past, Planning, Laid, Building
    <3>2. Anchored /\ Traced /\ Found /\ Joined /\ Cut
      BY <2>4 DEF RInv
    <3>3. Recipe' = Recipe /\ (\A in : ItemsOf(in)' = ItemsOf(in)) /\ (\A i : DriveOf(i)' = DriveOf(i))
      BY <1>1, SameRecipe, SameDrives DEF planVars
    <3>4. Traced' /\ Found'
      BY <1>1, <3>1, <3>2, PointsStay DEF planVars
    <3>5. Joined'
      BY <1>1, <3>2, <3>3 DEF Joined
    <3>6. Cut'
      BY <1>1, <2>4 DEF Cut
    <3> QED  BY <1>1, <2>4, <3>4, <3>5, <3>6, RoomKept DEF planVars, Planning
  <2> QED  BY <2>1, <2>2, <2>3, <2>4
<1>2. CASE PartitionStep /\ phase' \notin {"drives", "prepare", "raised"}
  <2>1. Partition
    BY <1>2 DEF PartitionStep
  <2>2. CASE Prepare
    BY <1>2, <2>2, RoomBegins
  <2>3. CASE GrubPartition \/ TargetItem \/ MdItem \/ BCacheItem \/ MakeVolume
    BY <1>2, <2>3, GrubRoom, TargetRoom, ArrayRoom, VolumesRoom
  <2>4. CASE GrubDone \/ ChangeSize \/ ChangeSizeDone \/ TargetsDone
    <3>1. /\ UNCHANGED <<job, target_drives, boot_drives, partition_pos, parted_task_map, md_list, filesystem_list>>
          /\ \/ phase = "grub" /\ phase' = "ref_size" /\ \A i \in DOMAIN boot_drives : i < n
             \/ phase = "ref_size" /\ phase' = "ref_size"
             \/ phase = "ref_size" /\ phase' = "target" /\ n' = 1
             \/ phase = "target" /\ phase' = "parted" /\ made' = made /\ \A i \in ItemsOf("target") : i < n
      BY <2>4 DEF GrubDone, ChangeSize, ChangeSizeDone, TargetsDone, NoneLeft, LoopEnds, Enter, GoOn, planVars, groupVars
    <3> QED  BY <3>1, QuietKept DEF Ordered
  <2>5. CASE (\E d \in Drives : RunParted(d)) \/ PartedDone
    <3>1. /\ UNCHANGED <<job, target_drives, boot_drives, partition_pos, parted_task_map, md_list, filesystem_list>>
          /\ phase = "parted"
      BY <2>5 DEF RunParted, PartedDone, Enter, planVars, groupVars
    <3>2. \/ phase' = "parted" /\ \E d : Inside(d) /\ Apart(d) /\ \A e : <<e, 0>> \in made' => e = d \/ <<e, 0>> \in made
          \/ phase' = "md" /\ n' = 1 /\ \A d \in DOMAIN parted_task_map : <<d, 0>> \in made
      BY <1>2, <2>5 DEF RunParted, PartedDone, Enter, Raise
    <3> QED  BY <3>1, <3>2, QuietKept DEF Ordered
  <2>6. CASE MdDone \/ BCacheDone \/ VgItem \/ VgDone \/ WaitForSync \/ PartitionDone
    <3>1. /\ UNCHANGED <<job, target_drives, boot_drives, partition_pos, parted_task_map, md_list, filesystem_list>>
          /\ \/ phase = "md" /\ phase' = "bcache" /\ \A i \in ItemsOf("md") : i < n
             \/ phase \in Laid \ {"md"} /\ phase' \in Laid \ {"md"}
      BY <1>2, <2>6 DEF MdDone, BCacheDone, VgItem, VgDone, WaitForSync, PartitionDone, NoneLeft, LoopEnds, Enter, GoOn,
                        Raise, planVars, groupVars, Laid, Building
    <3> QED  BY <3>1, QuietKept DEF Ordered, Laid, Building
  <2>7. ~(FindDrives \/ WaitForDrives)
    BY <1>2 DEF FindDrives, WaitForDrives, Enter, Raise
  <2> QED  BY <2>1, <2>2, <2>3, <2>4, <2>5, <2>6, <2>7 DEF Partition
<1>3. CASE PartitionFails
  BY <1>0, <1>3 DEF PartitionFails, CommandFails, Raise
<1>4. CASE DriveComes
  BY <1>4, <1>1 DEF DriveComes, DriveFound, groupVars
<1>5. CASE Mkfs
  <2>1. phase = "done"
    BY <1>5 DEF Mkfs, Built
  <2> QED  BY <1>5, <1>1, <2>1 DEF Mkfs, groupVars, Planning
<1>6. CASE UNCHANGED partitionVars
  BY <1>6, <1>1 DEF partitionVars, groupVars
<1>7. CASE Install /\ ~PartitionStep /\ ~Mkfs
  <2>1. UNCHANGED partitionVars
    BY <1>7 DEF Install, Profile, RunStep, UpdateLists, Divert, Undivert, InstallBoot, PartitionEnds, MkfsDone,
       MountBegins, Mounting, Remounting, Unmounting, MountDone, Remount, RemountDone, WriteFstab, WriteMtab, Signals,
       NothingHeld, UmountFails, UnmountDone, SignalComplete, SignalAlert, OnlyStep
  <2> QED  BY <2>1, <1>6
<1>8. CASE Fails \/ OthersInterfere \/ HolderEnds \/ UNCHANGED vars
  BY <1>8, <1>6 DEF Fails, OthersInterfere, HolderEnds, vars
<1> QED  BY <1>0, <1>2, <1>3, <1>4, <1>5, <1>7, <1>8 DEF Next

\* A recipe that is shipped gives parted, on drives that are large enough, partitions inside of
\* the drive that follow one another, and every drive that holds /boot, or / if there is no
\* /boot, gets the boot loader and has room for it, whatever the recipe
\* (filesystem.py _addPartition, _targetsWithMount, partition).
THEOREM DrivesLaidOut == Spec => []DrivesAreLaidOut
<1> DEFINE DInv == UInv /\ LInv /\ RInv /\ Built /\ STypes
<1>1. Init => DInv
  <2>1. Init => RInv
    BY DEF Init, PartitionInit, RInv, Ordered
  <2>2. Init => Built /\ STypes
    BY MaxHoldersAssumption DEF Init, PartitionInit, MountInit, Built, STypes, PastMount, Setup, Filling, Leaving
  <2> QED  BY <2>1, <2>2, UsesBegin, LayoutBegins
<1>2. DInv /\ [Next]_vars => DInv'
  BY UsesStep, LayoutStep, RoomStep, BuiltStep, STypesStep
<1>3. DInv => DrivesAreLaidOut
  <2>1. DInv /\ phase = "done" => RoomForBoot
    BY RoomIs DEF UInv
  <2>2. phase # "done" => RoomForBoot
    BY DEF RoomForBoot
  <2> QED  BY <2>1, <2>2, LayoutIs DEF DrivesAreLaidOut
<1> QED  BY <1>1, <1>2, <1>3, PTL DEF Spec
=============================================================================
