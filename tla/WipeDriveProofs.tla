---------------------------- MODULE WipeDriveProofs ----------------------------
(***************************************************************************)
(* Theorems about WipeDrive, for every drive, every number of processes    *)
(* and every set of options.                                               *)
(***************************************************************************)
EXTENDS WipeDrive, TLAPS

-----------------------------------------------------------------------------
(* The inductive invariant.                                                *)

ProcType ==
  [pc : Places, cont : BOOLEAN, cur : Nat, chunk : Nat, pos : Nat,
   len : Nat, page : [1..PageLength -> [pos : Nat, len : Nat]],
   said : {"nothing", "running", "completed", "interrupted", "other"},
   rc : {-1, 0, 1}]

\* What brought a process to the place it is at.
Placed(p) ==
  /\ proc[p].pc \in {"start", "main"} => proc[p].cur = job[p].start
  /\ proc[p].pc \in {"trim", "trimming"} =>
       job[p].op = "wipe" /\ UsesTrim(p) /\ job[p].start <= proc[p].cur
  /\ proc[p].pc \in {"scsi", "retry"} => WritesScsi(p)
  /\ proc[p].pc \in {"check", "send", "poll"} => job[p].op = "wipe" /\ ~UsesTrim(p)
AllPlaced == \A p \in Procs : Placed(p)

\* What is still to be trimmed, and what stands in the page, was asked for.
Ranged(p) ==
  At(p, "trimming") =>
    (Sectors(proc[p].pos, proc[p].len) \cup PageSectors(proc[p].page)) \cap Disk \subseteq Asked(p)
AllRanged == \A p \in Procs : Ranged(p)

\* The wipe in the drive is one that was asked for, and whoever waits for it still does,
\* or has failed.
Background ==
  Running =>
    /\ job[sct.by].op = "wipe" /\ ~UsesTrim(sct.by) /\ drive.proto = "ATA"
    /\ Sectors(sct.pos, sct.end - sct.pos) \subseteq Asked(sct.by)
    /\ job[sct.by].wait =>
         \/ proc[sct.by].pc \in {"poll", "cancel", "smart", "killed"}
         \/ At(sct.by, "ended") /\ proc[sct.by].rc = 1

IInv == TypeOK /\ AllPlaced /\ AllRanged /\ Background /\ StaysInside

-----------------------------------------------------------------------------
(* Ranges.                                                                 *)

\* What libdrive takes for the number of sectors.
LEMMA CountType ==
  ASSUME NEW proto
  PROVE  LBACount(proto) \in Nat /\ LBACount(proto) <= Capacity
BY ErasureAssumption DEF LBACount

\* The length the code or the drive computes is a number, wrapped around or not.
LEMMA LengthType ==
  ASSUME NEW start \in Nat, NEW count \in Nat
  PROVE  /\ \A proto : TrimLength(proto, start, count) \in Nat
         /\ WriteLength(start, count) \in Nat
<1>1. ASSUME NEW end \in Nat PROVE Length(end, start, count) \in Nat
  <2>1. CASE count # 0 \/ start <= end
    BY <2>1 DEF Length
  <2>2. CASE count = 0 /\ ~(start <= end)
    <3>1. (end - start) % WordValues \in Nat
      BY ErasureAssumption
    <3> QED  BY <2>2, <3>1 DEF Length
  <2> QED  BY <2>1, <2>2
<1> QED  BY <1>1, CountType, ErasureAssumption DEF TrimLength, WriteLength

\* What min() of the code gives is a number within both bounds.
LEMMA LesserType ==
  ASSUME NEW a \in Nat, NEW b \in Nat
  PROVE  Lesser(a, b) \in Nat /\ Lesser(a, b) <= a /\ Lesser(a, b) <= b
BY DEF Lesser

\* What was asked for is what the code and the drive compute, but for the sector that
\* libdrive does not know.
LEMMA AskedRange ==
  ASSUME NEW p, job[p] \in JobType
  PROVE  /\ Known(p) \subseteq Asked(p) /\ Asked(p) \subseteq Disk /\ Asked(p) \subseteq Nat
         /\ Sectors(job[p].start, TrimLength(drive.proto, job[p].start, job[p].count)) \cap Disk
              \subseteq Asked(p)
         /\ Known(p) \subseteq
              Sectors(job[p].start, TrimLength(drive.proto, job[p].start, job[p].count))
         /\ Asked(p) = Sectors(job[p].start, WriteLength(job[p].start, job[p].count)) \cap Disk
         /\ \A s \in Known(p) : job[p].start <= s /\ s < End(p)
<1> DEFINE start == job[p].start
           count == job[p].count
           end == LBACount(drive.proto)
<1>1. start \in Nat /\ count \in Nat /\ end \in Nat /\ end <= Capacity /\ Capacity \in Nat
  BY CountType, ErasureAssumption DEF JobType
<1>2. /\ Known(p) \subseteq Asked(p) /\ Asked(p) \subseteq Disk /\ Asked(p) \subseteq Nat
  BY <1>1 DEF Known, Asked, Disk
<1>3. Asked(p) = {s \in Disk : s >= start /\ (count = 0 \/ s < start + count)}
  BY DEF Asked
<1>4. Known(p) = {s \in Asked(p) : count = 0 => s < end}
  BY DEF Known
<1>5. End(p) = IF count = 0 THEN end ELSE start + count
  BY DEF End
<1> HIDE DEF start, count, end
<1>6. Sectors(start, Length(end, start, count)) \cap Disk \subseteq Asked(p)
  BY <1>1, <1>3, LengthType DEF Sectors, Disk, Length
<1>7. Known(p) \subseteq Sectors(start, Length(end, start, count))
  BY <1>1, <1>3, <1>4 DEF Sectors, Disk, Length
<1>8. Asked(p) = Sectors(start, Length(Capacity, start, count)) \cap Disk
  <2>1. CASE count # 0
    BY <1>1, <1>3, <2>1 DEF Sectors, Disk, Length
  <2>2. CASE count = 0 /\ start <= Capacity
    BY <1>1, <1>3, <2>2 DEF Sectors, Disk, Length
  <2>3. CASE count = 0 /\ ~(start <= Capacity)
    BY <1>1, <1>3, <2>3 DEF Sectors, Disk
  <2> QED  BY <2>1, <2>2, <2>3
<1>9. \A s \in Known(p) : start <= s /\ s < End(p)
  BY <1>1, <1>3, <1>4, <1>5 DEF Disk
<1> USE DEF start, count, end
<1> QED  BY <1>2, <1>6, <1>7, <1>8, <1>9 DEF TrimLength, WriteLength

\* A page is filled with nothing but the range at hand and what it held before.
LEMMA FilledInside ==
  ASSUME NEW page \in [1..PageLength -> [pos : Nat, len : Nat]], NEW pos \in Nat, NEW len \in Nat
  PROVE  /\ FilledPage(page, pos, len) \in [1..PageLength -> [pos : Nat, len : Nat]]
         /\ PageSectors(FilledPage(page, pos, len))
              \subseteq Sectors(pos, len) \cup PageSectors(page)
<1> DEFINE filled == FilledPage(page, pos, len)
<1>1. ASSUME NEW k \in 1..PageLength
      PROVE  /\ filled[k] \in [pos : Nat, len : Nat]
             /\ Sectors(filled[k].pos, filled[k].len)
                  \subseteq Sectors(pos, len) \cup Sectors(page[k].pos, page[k].len)
  <2>1. PICK before \in Nat : before = (k - 1) * EntryMax
    <3>1. k - 1 \in Nat /\ EntryMax \in Nat
      BY ErasureAssumption
    <3> QED  BY <3>1
  <2>2. CASE before < len
    <3>1. filled[k] = [pos |-> pos + before, len |-> Lesser(len - before, EntryMax)]
      BY <2>1, <2>2 DEF FilledPage, EntryPos
    <3>2. len - before \in Nat /\ EntryMax \in Nat
      BY <2>2, ErasureAssumption
    <3>3. PICK n \in Nat : n = Lesser(len - before, EntryMax) /\ n <= len - before
      BY <3>2, LesserType
    <3>4. filled[k].pos = pos + before /\ filled[k].len = n
      BY <3>1, <3>3
    <3>5. Sectors(pos + before, n) \subseteq Sectors(pos, len)
      BY <3>3 DEF Sectors
    <3>6. filled[k] \in [pos : Nat, len : Nat]
      BY <3>1, <3>3
    <3> HIDE DEF filled
    <3> QED  BY <3>4, <3>5, <3>6
  <2>3. CASE ~(before < len)
    BY <2>1, <2>3 DEF FilledPage
  <2> QED  BY <2>2, <2>3
<1>2. filled \in [1..PageLength -> [pos : Nat, len : Nat]]
  BY <1>1 DEF FilledPage
<1>3. PageSectors(filled) \subseteq Sectors(pos, len) \cup PageSectors(page)
  BY <1>1 DEF PageSectors
<1> QED  BY <1>2, <1>3

\* What is left when a command has returned lies in what was left before.
LEMMA LeftInside ==
  ASSUME NEW proto \in {"ATA", "SCSI"}, NEW pos \in Nat, NEW len \in Nat
  PROVE  /\ TrimStep(proto) \in Nat /\ TrimLeft(proto, len) \in Nat
         /\ Sectors(pos + TrimStep(proto), TrimLeft(proto, len)) \subseteq Sectors(pos, len)
<1>1. TrimStep(proto) \in Nat
  BY ErasureAssumption DEF TrimStep
<1>2. TrimLeft(proto, len) \in Nat
  BY <1>1 DEF TrimLeft
<1>3. Sectors(pos + TrimStep(proto), TrimLeft(proto, len)) \subseteq Sectors(pos, len)
  BY <1>1, <1>2 DEF TrimLeft, Sectors
<1> QED  BY <1>1, <1>2, <1>3

\* A command covers nothing but the range at hand and what the page held before.
LEMMA CoveredInside ==
  ASSUME NEW proto \in {"ATA", "SCSI"}, NEW pos \in Nat, NEW len \in Nat,
         NEW page \in [1..PageLength -> [pos : Nat, len : Nat]]
  PROVE  TrimSectors(proto, page, pos, len) \subseteq Sectors(pos, len) \cup PageSectors(page)
<1>1. Sectors(pos, Lesser(len, UnmapMax)) \subseteq Sectors(pos, len)
  BY ErasureAssumption DEF Sectors, Lesser
<1> QED  BY <1>1, FilledInside DEF TrimSectors

\* A page that nothing was filled into covers no sector.
LEMMA EmptyPageHasNothing ==
  EmptyPage \in [1..PageLength -> [pos : Nat, len : Nat]] /\ PageSectors(EmptyPage) = {}
<1>1. \A k \in 1..PageLength : Sectors(EmptyPage[k].pos, EmptyPage[k].len) = {}
  BY DEF EmptyPage, Sectors
<1> QED  BY <1>1 DEF EmptyPage, PageSectors

-----------------------------------------------------------------------------
(* The type.                                                               *)

\* A process at the places of an ATA drive is on one; it has an exit code when it is over.
Consistent(p) ==
  /\ Over(p) \/ proc[p].rc = -1
  /\ proc[p].pc \in AtaPlaces \cup {"status"} => drive.proto = "ATA"

\* What TypeOK says of the drive and of each process.
LEMMA DriveType ==
  ASSUME TypeOK
  PROVE  /\ drive.proto \in {"ATA", "SCSI"}
         /\ \A p \in Procs : job[p] \in JobType /\ proc[p] \in ProcType /\ Consistent(p)
BY DrivesAssumption DEF TypeOK, ProcType, Consistent

\* wipedrive begins with the right type.
LEMMA TypeInit == Init => TypeOK
<1> SUFFICES ASSUME Init PROVE TypeOK
  OBVIOUS
<1>1. ErasureTypeOK
  <2>1. (CHOOSE p \in Procs : TRUE) \in Procs
    BY ErasureAssumption
  <2> QED  BY <2>1, ErasureAssumption DEF Init, ErasureInit, ErasureTypeOK
<1>2. job \in [Procs -> JobType]
  BY JobsAssumption DEF Init
<1>3. proc \in [Procs -> ProcType]
  <2>1. ASSUME NEW p \in Procs PROVE NewProc(p) \in ProcType
    BY <1>2, EmptyPageHasNothing DEF NewProc, ProcType, JobType, Places
  <2> QED  BY <2>1 DEF Init
<1>4. ASSUME NEW p \in Procs PROVE Consistent(p)
  BY DEF Init, NewProc, Consistent, AtaPlaces
<1> QED  BY <1>1, <1>2, <1>3, <1>4 DEF Init, TypeOK, ProcType, Consistent

\* A step of one process that leaves the others alone keeps the type if it does for that one.
LEMMA ProcStep ==
  ASSUME proc \in [Procs -> ProcType], NEW p \in Procs, NEW next \in ProcType,
         proc' = [proc EXCEPT ![p] = next]
  PROVE  /\ proc' \in [Procs -> ProcType] /\ proc'[p] = next
         /\ \A q \in Procs \ {p} : proc'[q] = proc[q]
OBVIOUS

\* Going to another place keeps the type if the drive fits to that place.
LEMMA GoType ==
  ASSUME TypeOK, NEW p \in Procs, NEW place \in Places, Go(p, place), ~Over(p),
         place \in AtaPlaces \cup {"status"} => drive.proto = "ATA", UNCHANGED drive
  PROVE  proc' \in [Procs -> ProcType] /\ \A q \in Procs : Consistent(q)'
<1>1. proc \in [Procs -> ProcType]
  BY DEF TypeOK, ProcType
<1>2. [proc[p] EXCEPT !.pc = place] \in ProcType
  BY <1>1 DEF ProcType
<1>3. proc' = [proc EXCEPT ![p] = [proc[p] EXCEPT !.pc = place]]
  BY <1>1 DEF Go
<1>4. PICK next \in ProcType : /\ next.pc = place /\ next.rc = proc[p].rc
                              /\ proc' = [proc EXCEPT ![p] = next]
  BY <1>1, <1>2, <1>3 DEF ProcType
<1>5. /\ proc' \in [Procs -> ProcType] /\ proc'[p] = next
      /\ \A q \in Procs \ {p} : proc'[q] = proc[q]
  BY <1>1, <1>4, ProcStep
<1>6. Consistent(p)'
  BY <1>4, <1>5, DriveType DEF Consistent, Over
<1>7. ASSUME NEW q \in Procs \ {p}
      PROVE  Consistent(q)'
  BY <1>5, DriveType DEF Consistent, Over
<1> QED  BY <1>5, <1>6, <1>7

\* So does ending with an exit code.
LEMMA ExitType ==
  ASSUME TypeOK, NEW p \in Procs, NEW code \in {0, 1}, Exit(p, code), UNCHANGED drive
  PROVE  proc' \in [Procs -> ProcType] /\ \A q \in Procs : Consistent(q)'
<1>1. proc \in [Procs -> ProcType]
  BY DEF TypeOK, ProcType
<1>2. [proc[p] EXCEPT !.pc = "ended", !.rc = code] \in ProcType
  <2>1. "ended" \in Places
    BY DEF Places
  <2>2. [proc[p] EXCEPT !.pc = "ended"] \in ProcType
    BY <1>1, <2>1 DEF ProcType
  <2>3. ASSUME NEW P \in ProcType PROVE [P EXCEPT !.rc = code] \in ProcType
    BY DEF ProcType
  <2>4. [[proc[p] EXCEPT !.pc = "ended"] EXCEPT !.rc = code] \in ProcType
    BY <2>2, <2>3
  <2> QED  BY <2>4
<1>3. proc' = [proc EXCEPT ![p] = [proc[p] EXCEPT !.pc = "ended", !.rc = code]]
  BY <1>1 DEF Exit
<1>4. PICK next \in ProcType : next.pc = "ended" /\ proc' = [proc EXCEPT ![p] = next]
  <2> DEFINE next == [proc[p] EXCEPT !.pc = "ended", !.rc = code]
  <2>1. next.pc = "ended"
    BY <1>1 DEF ProcType
  <2> HIDE DEF next
  <2> QED  BY <1>2, <1>3, <2>1 DEF next
<1>5. /\ proc' \in [Procs -> ProcType] /\ proc'[p] = next
      /\ \A q \in Procs \ {p} : proc'[q] = proc[q]
  BY <1>1, <1>4, ProcStep
<1>6. Consistent(p)'
  BY <1>4, <1>5 DEF Consistent, Over, AtaPlaces
<1>7. ASSUME NEW q \in Procs \ {p}
      PROVE  Consistent(q)'
  BY <1>5, DriveType DEF Consistent, Over
<1> QED  BY <1>5, <1>6, <1>7

\* Every step keeps the type.
LEMMA TypeStep == TypeOK /\ [Next]_vars => TypeOK'
<1> SUFFICES ASSUME TypeOK, [Next]_vars PROVE TypeOK'
  OBVIOUS
<1> USE DriveType
<1> DEFINE Proceeds == proc' \in [Procs -> ProcType] /\ \A q \in Procs : Consistent(q)'
<1>1. UNCHANGED <<drive, job>>
  BY DEF Next, vars
<1>2. ErasureTypeOK
  BY DEF TypeOK
<1>3. ASSUME NEW p \in Procs, NEW S, Erase(p, S) PROVE media' \in [Disk -> SUBSET Procs]
  BY <1>2, <1>3 DEF Erase, ErasureTypeOK
<1>4. ASSUME ErasureTypeOK', Proceeds PROVE TypeOK'
  BY <1>1, <1>4 DEF TypeOK, ProcType, Consistent, Over
<1>5. ASSUME NEW p \in Procs, Fails(p) PROVE TypeOK'
  BY <1>1, <1>2, <1>4, <1>5, ExitType DEF Fails, erasureVars, ErasureTypeOK
<1>6. ASSUME UNCHANGED proc PROVE Proceeds
  BY <1>1, <1>6 DEF TypeOK, ProcType, Consistent, Over
<1>7. Interrupted \in [st : {"running", "completed", "interrupted", "other"},
                      pos : 0..Capacity, end : 0..Capacity, by : Procs]
  BY <1>2 DEF Interrupted, ErasureTypeOK
<1>8. ASSUME NEW p \in Procs, Step(p) \/ Disturbed(p) PROVE TypeOK'
  <2> USE <1>1
  <2> DEFINE P == proc[p]
  <2>1. /\ P \in ProcType /\ Consistent(p) /\ job[p] \in JobType
        /\ proc \in [Procs -> ProcType]
    BY DEF TypeOK, ProcType
  <2>2. CASE Open(p)
    <3>1. ErasureTypeOK'
      BY <1>2, <1>7, <2>2 DEF Open, ErasureTypeOK
    <3>2. Proceeds
      BY <2>2, GoType DEF Open, At, Over, Places, AtaPlaces
    <3> QED  BY <1>4, <3>1, <3>2
  <2>3. CASE Main(p)
    <3>1. ErasureTypeOK'
      BY <1>2, <2>3 DEF Main, erasureVars, ErasureTypeOK
    <3>2. CASE Go(p, "killed")
      BY <1>4, <2>3, <3>1, <3>2, GoType DEF Main, At, Over, Places, AtaPlaces
    <3>3. CASE \E code \in {0, 1} : Exit(p, code)
      BY <1>4, <3>1, <3>3, ExitType
    <3>4. CASE ~Refused(p) /\ job[p].op # "check" /\ Go(p, First(p))
      <4>1. First(p) \in Places
        BY DEF First, Places, AtaPlaces
      <4>2. First(p) \in AtaPlaces \cup {"status"} => drive.proto = "ATA"
        BY <2>1, <3>4 DEF First, AtaPlaces, Refused, Ident, JobType
      <4> QED  BY <1>4, <2>3, <3>1, <3>4, <4>1, <4>2, GoType DEF Main, At, Over
    <3> QED  BY <2>3, <3>2, <3>3, <3>4 DEF Main
  <2>4. CASE NextTrim(p)
    <3>1. ErasureTypeOK'
      BY <1>2, <2>4 DEF NextTrim, erasureVars, ErasureTypeOK
    <3>2. ASSUME NEW pos \in Nat, NEW len \in Nat, NEW chunk \in Nat, StartTrim(p, pos, len, chunk)
          PROVE  Proceeds
      <4> DEFINE next == [P EXCEPT !.pc = "trimming", !.pos = pos, !.len = len,
                                   !.chunk = chunk, !.page = EmptyPage]
      <4>1. next \in ProcType
        BY <2>1, EmptyPageHasNothing DEF ProcType, Places
      <4>2. proc' = [proc EXCEPT ![p] = next]
        BY <2>1, <3>2 DEF StartTrim
      <4> QED  BY <2>1, <2>4, <4>1, <4>2, ProcStep DEF Consistent, Over, AtaPlaces, NextTrim, At
    <3>3. CASE job[p].chunk = 0
      BY <1>4, <2>1, <2>4, <3>1, <3>2, <3>3, LengthType DEF NextTrim, JobType
    <3>4. CASE job[p].chunk # 0 /\ P.cur < End(p)
      <4>1. P.cur \in Nat /\ P.chunk \in Nat /\ End(p) \in Nat
        <5>1. P.cur \in Nat /\ P.chunk \in Nat
          BY <2>1 DEF ProcType
        <5>2. job[p].start \in Nat /\ job[p].count \in Nat
          BY <2>1 DEF JobType
        <5> QED  BY <5>1, <5>2, CountType DEF End
      <4>2. Lesser(P.chunk, End(p) - P.cur) \in Nat
        <5>1. End(p) - P.cur \in Nat
          BY <3>4, <4>1
        <5> QED  BY <4>1, <5>1, LesserType
      <4> QED  BY <1>4, <2>4, <3>1, <3>2, <3>4, <4>1, <4>2 DEF NextTrim
    <3>5. CASE Exit(p, 0)
      BY <1>4, <3>1, <3>5, ExitType
    <3> QED  BY <2>4, <3>3, <3>4, <3>5 DEF NextTrim
  <2>5. CASE SendTrim(p)
    <3>1. ErasureTypeOK'
      BY <1>2, <1>3, <2>5 DEF SendTrim, ErasureTypeOK
    <3> DEFINE next == [P EXCEPT !.page = IF drive.proto = "ATA"
                                          THEN FilledPage(@, P.pos, P.len) ELSE @,
                                 !.pos = @ + TrimStep(drive.proto),
                                 !.len = TrimLeft(drive.proto, @)]
    <3>2. P.pos \in Nat /\ P.len \in Nat /\ P.page \in [1..PageLength -> [pos : Nat, len : Nat]]
      BY <2>1 DEF ProcType
    <3>3. FilledPage(P.page, P.pos, P.len) \in [1..PageLength -> [pos : Nat, len : Nat]]
      BY <3>2, FilledInside
    <3>4. P.pos + TrimStep(drive.proto) \in Nat /\ TrimLeft(drive.proto, P.len) \in Nat
      BY <3>2, LeftInside
    <3>5. next \in ProcType
      BY <2>1, <3>2, <3>3, <3>4 DEF ProcType
    <3>6. proc' = [proc EXCEPT ![p] = next]
      BY <2>1, <2>5 DEF SendTrim
    <3>7. next.pc = "trimming" /\ next.rc = P.rc
      BY <2>1, <2>5 DEF SendTrim, At, ProcType
    <3> HIDE DEF next
    <3>8. Proceeds
      BY <2>1, <2>5, <3>5, <3>6, <3>7, ProcStep DEF Consistent, Over, AtaPlaces, SendTrim, At
    <3> QED  BY <1>4, <3>1, <3>8
  <2>6. CASE TrimRefused(p)
    BY <1>5, <2>6 DEF TrimRefused
  <2>7. CASE TrimReturns(p)
    <3>1. ErasureTypeOK'
      BY <1>2, <2>7 DEF TrimReturns, erasureVars, ErasureTypeOK
    <3>2. CASE Exit(p, 0)
      BY <1>4, <3>1, <3>2, ExitType
    <3>3. CASE job[p].chunk # 0
      <4> DEFINE next == [P EXCEPT !.pc = "trim", !.cur = @ + P.chunk]
      <4>1. next \in ProcType
        <5>1. P.cur + P.chunk \in Nat
          BY <2>1 DEF ProcType
        <5> QED  BY <2>1, <5>1 DEF ProcType, Places
      <4>2. proc' = [proc EXCEPT ![p] = next]
        BY <2>1, <2>7, <3>3 DEF TrimReturns
      <4>3. Proceeds
        BY <2>1, <2>7, <4>1, <4>2, ProcStep DEF Consistent, Over, AtaPlaces, TrimReturns, At
      <4> QED  BY <1>4, <3>1, <4>3
    <3> QED  BY <2>7, <3>2, <3>3 DEF TrimReturns
  <2>8. CASE WriteChunk(p)
    <3>1. ErasureTypeOK'
      BY <1>2, <1>3, <2>8 DEF WriteChunk, ErasureTypeOK
    <3>2. CASE Exit(p, 0)
      BY <1>4, <3>1, <3>2, ExitType
    <3>3. CASE NextChunk(p)
      <4> DEFINE next == [P EXCEPT !.pc = "scsi", !.cur = @ + job[p].chunk]
      <4>1. next \in ProcType
        <5>1. P.cur \in Nat /\ job[p].chunk \in Nat
          BY <2>1 DEF ProcType, JobType
        <5>2. P.cur + job[p].chunk \in Nat
          BY <5>1
        <5> QED  BY <2>1, <5>2 DEF ProcType, Places
      <4>2. proc' = [proc EXCEPT ![p] = next]
        BY <2>1, <3>3 DEF NextChunk
      <4>3. Proceeds
        BY <2>1, <2>8, <4>1, <4>2, ProcStep DEF Consistent, Over, AtaPlaces, WriteChunk, HasChunk, At
      <4> QED  BY <1>4, <3>1, <4>3
    <3> QED  BY <2>8, <3>2, <3>3 DEF WriteChunk
  <2>9. CASE ChunkFails(p)
    <3>1. ErasureTypeOK'
      BY <1>2, <2>9 DEF ChunkFails, erasureVars, ErasureTypeOK
    <3>2. CASE Go(p, "retry")
      BY <1>4, <2>9, <3>1, <3>2, GoType DEF ChunkFails, HasChunk, At, Over, Places, AtaPlaces
    <3> QED  BY <1>4, <2>9, <3>1, <3>2, ExitType DEF ChunkFails
  <2>10. CASE RetryRefused(p)
    BY <1>5, <2>10 DEF RetryRefused
  <2>11. CASE ChunksEnd(p)
    BY <1>2, <1>4, <2>11, ExitType DEF ChunksEnd, erasureVars, ErasureTypeOK
  <2>12. CASE Check(p)
    <3>1. ErasureTypeOK'
      BY <1>2, <2>12 DEF Check, erasureVars, ErasureTypeOK
    <3>2. CASE Go(p, "send")
      BY <1>4, <2>1, <2>12, <3>1, <3>2, GoType DEF Check, At, Over, Places, AtaPlaces, Consistent
    <3> QED  BY <1>4, <2>12, <3>1, <3>2, ExitType DEF Check
  <2>13. CASE Send(p)
    <3>1. ErasureTypeOK'
      <4>1. job[p].start \in Nat /\ WriteLength(job[p].start, job[p].count) \in Nat
        BY <2>1, LengthType DEF JobType
      <4>2. /\ job[p].start \in 0..Capacity
            /\ job[p].start + WriteLength(job[p].start, job[p].count) \in 0..Capacity
        BY <2>13, <4>1, ErasureAssumption DEF Send, SctWriteSame, CanWrite
      <4> QED  BY <1>2, <2>13, <4>2 DEF Send, SctWriteSame, ErasureTypeOK
    <3>2. CASE Go(p, "poll")
      BY <1>4, <2>1, <2>13, <3>1, <3>2, GoType DEF Send, At, Over, Places, AtaPlaces, Consistent
    <3> QED  BY <1>4, <2>13, <3>1, <3>2, ExitType DEF Send
  <2>14. CASE SendRefused(p)
    BY <1>5, <2>14 DEF SendRefused
  <2>15. CASE Poll(p)
    <3>1. ErasureTypeOK'
      BY <1>2, <2>15 DEF Poll, erasureVars, ErasureTypeOK
    <3>2. PICK place \in {"cancel", "poll", "final"} : Go(p, place)
      BY <2>15 DEF Poll
    <3> QED  BY <1>4, <2>1, <2>15, <3>1, <3>2, GoType DEF Poll, At, Over, Places, AtaPlaces, Consistent
  <2>16. CASE Cancel(p)
    <3>1. ErasureTypeOK'
      BY <1>2, <2>16 DEF Cancel, erasureVars, ErasureTypeOK
    <3>2. CASE Exit(p, 0)
      BY <1>4, <3>1, <3>2, ExitType
    <3>3. ASSUME NEW place \in {"smart", "final"}, Go(p, place) PROVE TypeOK'
      BY <1>4, <2>1, <2>16, <3>1, <3>3, GoType DEF Cancel, At, Over, Places, AtaPlaces, Consistent
    <3> QED  BY <2>16, <3>2, <3>3 DEF Cancel, Canceled
  <2>17. CASE Smart(p)
    <3>1. ErasureTypeOK'
      BY <1>2, <1>7, <2>17 DEF Smart, ErasureTypeOK
    <3>2. CASE Exit(p, 1)
      BY <1>4, <3>1, <3>2, ExitType
    <3>3. CASE Go(p, "canceled")
      BY <1>4, <2>1, <2>17, <3>1, <3>3, GoType DEF Smart, At, Over, Places, AtaPlaces, Consistent
    <3> QED  BY <2>17, <3>2, <3>3 DEF Smart
  <2>18. CASE CancelReturns(p)
    <3>1. ErasureTypeOK'
      BY <1>2, <2>18 DEF CancelReturns, erasureVars, ErasureTypeOK
    <3>2. CASE Exit(p, 0)
      BY <1>4, <3>1, <3>2, ExitType
    <3>3. ASSUME NEW place \in {"smart", "final"}, Go(p, place) PROVE TypeOK'
      BY <1>4, <2>1, <2>18, <3>1, <3>3, GoType DEF CancelReturns, At, Over, Places, AtaPlaces, Consistent
    <3> QED  BY <2>18, <3>2, <3>3 DEF CancelReturns, Canceled
  <2>19. CASE Final(p)
    <3>1. ErasureTypeOK'
      BY <1>2, <2>19 DEF Final, erasureVars, ErasureTypeOK
    <3> DEFINE next == [P EXCEPT !.pc = "ended", !.rc = 0, !.said = sct.st]
    <3>2. next \in ProcType
      BY <1>2, <2>1 DEF ProcType, Places, ErasureTypeOK
    <3>3. proc' = [proc EXCEPT ![p] = next]
      BY <2>1, <2>19 DEF Final
    <3>4. Proceeds
      BY <2>1, <3>2, <3>3, ProcStep DEF Consistent, Over, AtaPlaces
    <3> QED  BY <1>4, <3>1, <3>4
  <2>20. CASE CommandFails(p)
    BY <1>5, <2>20 DEF CommandFails
  <2>21. CASE Signal(p)
    <3>1. ErasureTypeOK'
      BY <1>2, <2>21 DEF Signal, erasureVars, ErasureTypeOK
    <3> DEFINE next == [P EXCEPT !.cont = FALSE]
    <3>2. next \in ProcType
      BY <2>1 DEF ProcType
    <3>3. proc' = [proc EXCEPT ![p] = next]
      BY <2>1, <2>21 DEF Signal
    <3>4. next.pc = P.pc /\ next.rc = P.rc
      BY <2>1 DEF ProcType
    <3> HIDE DEF next
    <3>5. Proceeds
      BY <2>1, <3>2, <3>3, <3>4, ProcStep DEF Consistent, Over
    <3> QED  BY <1>4, <3>1, <3>5
  <2>22. CASE Kill(p)
    BY <1>2, <1>4, <2>22, GoType DEF Kill, erasureVars, ErasureTypeOK, Places, AtaPlaces
  <2> QED
    BY <1>8, <2>2, <2>3, <2>4, <2>5, <2>6, <2>7, <2>8, <2>9, <2>10, <2>11, <2>12, <2>13,
       <2>14, <2>15, <2>16, <2>17, <2>18, <2>19, <2>20, <2>21, <2>22
       DEF Step, Disturbed, ChunkRefused
<1>9. CASE DriveWorks /\ UNCHANGED proc
  <2>1. sct.by \in Procs /\ media \in [Disk -> SUBSET Procs]
    BY <1>2 DEF ErasureTypeOK
  <2>2. media' \in [Disk -> SUBSET Procs]
    BY <1>3, <1>9, <2>1 DEF DriveWorks
  <2>3. sct.pos < sct.end => sct.pos + 1 \in 0..Capacity
    BY <1>2, ErasureAssumption DEF ErasureTypeOK
  <2>4. ErasureTypeOK'
    BY <1>2, <1>9, <2>2, <2>3 DEF DriveWorks, ErasureTypeOK
  <2> QED  BY <1>4, <1>6, <1>9, <2>4
<1>10. CASE DriveStops /\ UNCHANGED proc
  BY <1>2, <1>4, <1>6, <1>10 DEF DriveStops, ErasureTypeOK
<1>11. CASE UNCHANGED vars
  BY <1>2, <1>4, <1>6, <1>11 DEF vars, ErasureTypeOK
<1> QED  BY <1>8, <1>9, <1>10, <1>11 DEF Next

-----------------------------------------------------------------------------
(* The steps of one process.                                               *)

\* What a process was started with, and all that follows from it, stays.
LEMMA OptionsStay ==
  ASSUME UNCHANGED <<drive, job>>, NEW p
  PROVE  /\ UsesTrim(p)' <=> UsesTrim(p)
         /\ Asked(p)' = Asked(p)
         /\ WritesScsi(p)' <=> WritesScsi(p)
<1>1. UsesTrim(p)' <=> UsesTrim(p)
  BY DEF UsesTrim, Ident
<1> QED  BY <1>1 DEF Asked, WritesScsi

\* A step of a process changes no other process.
LEMMA OthersStay ==
  ASSUME TypeOK, NEW p \in Procs, Step(p) \/ Disturbed(p)
  PROVE  \A q \in Procs \ {p} : proc'[q] = proc[q]
<1> USE DEF Go, Exit, Fails
<1>1. proc \in [Procs -> ProcType]
  BY DEF TypeOK, ProcType
<1>2. CASE Open(p) \/ Main(p)
  BY <1>1, <1>2 DEF Open, Main
<1>3. CASE NextTrim(p) \/ SendTrim(p) \/ TrimRefused(p) \/ TrimReturns(p)
  BY <1>1, <1>3 DEF NextTrim, StartTrim, SendTrim, TrimRefused, TrimReturns
<1>4. CASE WriteChunk(p) \/ ChunkFails(p) \/ RetryRefused(p) \/ ChunksEnd(p)
  BY <1>1, <1>4 DEF WriteChunk, NextChunk, ChunkFails, RetryRefused, ChunksEnd
<1>5. CASE Check(p) \/ Send(p) \/ SendRefused(p) \/ Poll(p)
  BY <1>1, <1>5 DEF Check, Send, SendRefused, Poll
<1>6. CASE Cancel(p) \/ Smart(p) \/ CancelReturns(p) \/ Final(p)
  BY <1>1, <1>6 DEF Cancel, Canceled, Smart, CancelReturns, Final
<1>7. CASE CommandFails(p) \/ Signal(p) \/ Kill(p)
  BY <1>1, <1>7 DEF CommandFails, Signal, Kill
<1> QED  BY <1>2, <1>3, <1>4, <1>5, <1>6, <1>7 DEF Step, Disturbed, ChunkRefused

\* Commands that are refused or fail end the process.
Refusal(p) == TrimRefused(p) \/ RetryRefused(p) \/ SendRefused(p) \/ CommandFails(p)

\* Every step keeps what is known at each place.
LEMMA PlacedStep == TypeOK /\ AllPlaced /\ [Next]_vars => AllPlaced'
<1> SUFFICES ASSUME TypeOK, AllPlaced, [Next]_vars, NEW q \in Procs PROVE Placed(q)'
  BY DEF AllPlaced
<1>1. UNCHANGED <<drive, job>>
  BY DEF Next, vars
<1>2. proc \in [Procs -> ProcType] /\ Placed(q)
  BY DEF TypeOK, ProcType, AllPlaced
<1>3. ASSUME proc'[q] = proc[q] PROVE Placed(q)'
  BY <1>1, <1>2, <1>3, OptionsStay DEF Placed
<1>4. ASSUME Step(q) \/ Disturbed(q) PROVE Placed(q)'
  <2> USE <1>1, <1>2, OptionsStay
  <2>1. CASE Open(q)
    BY <2>1 DEF Open, Go, At, Placed, ProcType
  <2>2. CASE Main(q)
    <3>1. CASE ~Refused(q) /\ job[q].op # "check" /\ Go(q, First(q))
      <4>1. proc'[q] = [proc[q] EXCEPT !.pc = First(q)]
        BY <3>1 DEF Go
      <4>2. First(q) = "trim" => job[q].op = "wipe" /\ UsesTrim(q)
        BY DEF First
      <4>3. First(q) = "check" => job[q].op = "wipe" /\ ~UsesTrim(q)
        BY DEF First
      <4>4. First(q) = "scsi" => WritesScsi(q)
        BY <3>1, DriveType DEF First, WritesScsi, JobType
      <4>5. First(q) \in {"cancel", "status", "trim", "check", "scsi"}
        BY DEF First
      <4>6. proc[q].cur = job[q].start /\ job[q].start \in Nat
        BY <2>2, DriveType DEF Main, At, Placed, JobType
      <4>7. proc'[q].pc = First(q) /\ proc'[q].cur = proc[q].cur
        BY <4>1 DEF ProcType
      <4> QED  BY <4>2, <4>3, <4>4, <4>5, <4>6, <4>7 DEF Placed
    <3> QED  BY <2>2, <3>1 DEF Main, Go, Exit, Placed, ProcType
  <2>3. CASE NextTrim(q)
    BY <2>3 DEF NextTrim, StartTrim, Exit, At, Placed, ProcType
  <2>4. CASE SendTrim(q)
    BY <2>4 DEF SendTrim, At, Placed, ProcType
  <2>5. CASE TrimReturns(q)
    <3>1. proc[q].cur \in Nat /\ proc[q].chunk \in Nat /\ job[q].start \in Nat
      BY DriveType DEF ProcType, JobType
    <3> QED  BY <2>5, <3>1 DEF TrimReturns, Exit, At, Placed, ProcType
  <2>6. CASE WriteChunk(q)
    BY <2>6 DEF WriteChunk, HasChunk, NextChunk, Exit, At, Placed, ProcType
  <2>7. CASE ChunkFails(q)
    BY <2>7 DEF ChunkFails, HasChunk, Go, Exit, At, Placed, ProcType
  <2>8. CASE ChunksEnd(q)
    BY <2>8 DEF ChunksEnd, Exit, Placed, ProcType
  <2>9. CASE Refusal(q)
    BY <2>9 DEF Refusal, TrimRefused, RetryRefused, SendRefused, CommandFails, Fails, Exit, Placed, ProcType
  <2>10. CASE Check(q)
    BY <2>10 DEF Check, Go, Exit, At, Placed, ProcType
  <2>11. CASE Send(q)
    BY <2>11 DEF Send, Go, Exit, At, Placed, ProcType
  <2>12. CASE Poll(q)
    BY <2>12 DEF Poll, Go, At, Placed, ProcType
  <2>13. CASE Cancel(q) \/ CancelReturns(q)
    BY <2>13 DEF Cancel, CancelReturns, Canceled, Go, Exit, Placed, ProcType
  <2>14. CASE Smart(q)
    BY <2>14 DEF Smart, Go, Exit, Placed, ProcType
  <2>15. CASE Final(q)
    BY <2>15 DEF Final, Placed, ProcType
  <2>16. CASE Signal(q)
    BY <2>16 DEF Signal, Placed, ProcType
  <2>17. CASE Kill(q)
    BY <2>17 DEF Kill, Go, Placed, ProcType
  <2> QED
    BY <1>4, <2>1, <2>2, <2>3, <2>4, <2>5, <2>6, <2>7, <2>8, <2>9, <2>10,
       <2>11, <2>12, <2>13, <2>14, <2>15, <2>16, <2>17
       DEF Step, Disturbed, ChunkRefused, Refusal
<1>5. CASE \E p \in Procs : Step(p) \/ Disturbed(p)
  BY <1>3, <1>4, <1>5, OthersStay
<1>6. CASE UNCHANGED proc
  BY <1>3, <1>6
<1> QED  BY <1>5, <1>6 DEF Next, vars

\* The loops of doTrimWipe and of CMD_TRIM stay within what was asked for.
LEMMA RangedStep == TypeOK /\ AllPlaced /\ AllRanged /\ [Next]_vars => AllRanged'
<1> SUFFICES ASSUME TypeOK, AllPlaced, AllRanged, [Next]_vars, NEW q \in Procs PROVE Ranged(q)'
  BY DEF AllRanged
<1>1. UNCHANGED <<drive, job>>
  BY DEF Next, vars
<1>2. proc \in [Procs -> ProcType] /\ Ranged(q) /\ Placed(q)
  BY DEF TypeOK, ProcType, AllRanged, AllPlaced
<1>3. ASSUME proc'[q] = proc[q] PROVE Ranged(q)'
  BY <1>1, <1>2, <1>3, OptionsStay DEF Ranged, At
<1>4. ASSUME proc'[q].pc # "trimming" PROVE Ranged(q)'
  BY <1>4 DEF Ranged, At
<1>5. ASSUME Step(q) \/ Disturbed(q) PROVE Ranged(q)'
  <2> USE <1>1, <1>2, OptionsStay
  <2>0. /\ job[q].start \in Nat /\ job[q].count \in Nat /\ job[q].chunk \in Nat
        /\ proc[q].cur \in Nat /\ proc[q].chunk \in Nat /\ LBACount(drive.proto) \in Nat
        /\ proc[q].pos \in Nat /\ proc[q].len \in Nat
        /\ proc[q].page \in [1..PageLength -> [pos : Nat, len : Nat]]
    BY DriveType, CountType DEF ProcType, JobType
  <2>1. CASE Open(q)
    BY <1>4, <2>1 DEF Open, Go, ProcType
  <2>2. CASE Main(q)
    BY <1>4, <2>2 DEF Main, Go, Exit, First, ProcType
  <2>3. CASE NextTrim(q)
    <3>1. ASSUME NEW pos, NEW len, NEW chunk, StartTrim(q, pos, len, chunk),
                 Sectors(pos, len) \cap Disk \subseteq Asked(q)
          PROVE  Ranged(q)'
      <4>1. proc'[q].pos = pos /\ proc'[q].len = len /\ proc'[q].page = EmptyPage
        BY <3>1 DEF StartTrim, ProcType
      <4> QED  BY <3>1, <4>1, EmptyPageHasNothing DEF Ranged
    <3>2. CASE job[q].chunk = 0
      BY <2>3, <3>1, <3>2, DriveType, AskedRange DEF NextTrim
    <3>3. CASE job[q].chunk # 0 /\ proc[q].cur < End(q)
      <4> DEFINE chunk == Lesser(proc[q].chunk, End(q) - proc[q].cur)
      <4>1. End(q) - proc[q].cur \in Nat
        BY <2>0, <3>3 DEF End
      <4>2. chunk \in Nat /\ chunk <= End(q) - proc[q].cur
        BY <2>0, <4>1, LesserType
      <4>3. job[q].start <= proc[q].cur
        BY <2>3 DEF NextTrim, At, Placed
      <4>4. Sectors(proc[q].cur, chunk) \cap Disk \subseteq Asked(q)
        <5> HIDE DEF chunk
        <5>1. CASE job[q].count # 0
          BY <2>0, <4>2, <4>3, <5>1 DEF End, Sectors, Disk, Asked
        <5>2. CASE job[q].count = 0
          BY <2>0, <4>2, <4>3, <5>2, CountType, ErasureAssumption DEF End, Sectors, Disk, Asked
        <5> QED  BY <5>1, <5>2
      <4> QED  BY <2>3, <3>1, <3>3, <4>4 DEF NextTrim
    <3>4. CASE Exit(q, 0)
      BY <1>4, <3>4 DEF Exit, ProcType
    <3> QED  BY <2>3, <3>2, <3>3, <3>4 DEF NextTrim
  <2>4. CASE SendTrim(q)
    <3> DEFINE pos == proc[q].pos + TrimStep(drive.proto)
               len == TrimLeft(drive.proto, proc[q].len)
    <3>1. Sectors(pos, len) \subseteq Sectors(proc[q].pos, proc[q].len)
      BY <2>0, DriveType, LeftInside
    <3>2. PageSectors(FilledPage(proc[q].page, proc[q].pos, proc[q].len))
            \subseteq Sectors(proc[q].pos, proc[q].len) \cup PageSectors(proc[q].page)
      BY <2>0, FilledInside
    <3>3. /\ proc'[q].pos = pos /\ proc'[q].len = len
          /\ proc'[q].page = IF drive.proto = "ATA"
                              THEN FilledPage(proc[q].page, proc[q].pos, proc[q].len)
                              ELSE proc[q].page
      BY <2>4 DEF SendTrim, ProcType
    <3>4. (Sectors(proc[q].pos, proc[q].len) \cup PageSectors(proc[q].page)) \cap Disk
            \subseteq Asked(q)
      BY <2>4 DEF SendTrim, Ranged
    <3>5. (Sectors(pos, len) \cup PageSectors(proc'[q].page)) \cap Disk \subseteq Asked(q)
      BY <3>1, <3>2, <3>3, <3>4
    <3> HIDE DEF pos, len
    <3> QED  BY <3>3, <3>5 DEF Ranged
  <2>5. CASE TrimReturns(q)
    BY <1>4, <2>5 DEF TrimReturns, Exit, ProcType
  <2>6. CASE WriteChunk(q)
    BY <1>4, <2>6 DEF WriteChunk, NextChunk, Exit, ProcType
  <2>7. CASE ChunkFails(q)
    BY <1>4, <2>7 DEF ChunkFails, Go, Exit, ProcType
  <2>8. CASE ChunksEnd(q)
    BY <1>4, <2>8 DEF ChunksEnd, Exit, ProcType
  <2>9. CASE Refusal(q)
    BY <1>4, <2>9 DEF Refusal, TrimRefused, RetryRefused, SendRefused, CommandFails, Fails, Exit, ProcType
  <2>10. CASE Check(q)
    BY <1>4, <2>10 DEF Check, Go, Exit, ProcType
  <2>11. CASE Send(q)
    BY <1>4, <2>11 DEF Send, Go, Exit, ProcType
  <2>12. CASE Poll(q)
    BY <1>4, <2>12 DEF Poll, Go, ProcType
  <2>13. CASE Cancel(q) \/ CancelReturns(q)
    BY <1>4, <2>13 DEF Cancel, CancelReturns, Canceled, Go, Exit, ProcType
  <2>14. CASE Smart(q)
    BY <1>4, <2>14 DEF Smart, Go, Exit, ProcType
  <2>15. CASE Final(q)
    BY <1>4, <2>15 DEF Final, ProcType
  <2>16. CASE Signal(q)
    BY <2>16 DEF Signal, Ranged, At, ProcType
  <2>17. CASE Kill(q)
    BY <1>4, <2>17 DEF Kill, Go, ProcType
  <2> QED
    BY <1>5, <2>1, <2>2, <2>3, <2>4, <2>5, <2>6, <2>7, <2>8, <2>9, <2>10,
       <2>11, <2>12, <2>13, <2>14, <2>15, <2>16, <2>17
       DEF Step, Disturbed, ChunkRefused, Refusal
<1>6. CASE \E p \in Procs : Step(p) \/ Disturbed(p)
  BY <1>3, <1>5, <1>6, OthersStay
<1>7. CASE UNCHANGED proc
  BY <1>3, <1>7
<1> QED  BY <1>6, <1>7 DEF Next, vars

-----------------------------------------------------------------------------
(* The wipe in the drive.                                                  *)

\* Who waits for the wipe is still at it, or has failed.
Waits(p) ==
  proc[p].pc \in {"poll", "cancel", "smart", "killed"} \/ (At(p, "ended") /\ proc[p].rc = 1)

\* A wipe in the drive is stopped, waited for, or one whose process has failed.
LEMMA BackgroundStep == TypeOK /\ AllPlaced /\ Background /\ [Next]_vars => Background'
<1> SUFFICES ASSUME TypeOK, AllPlaced, Background, [Next]_vars, Running'
             PROVE  Background'
  BY DEF Background
<1>1. UNCHANGED <<drive, job>> /\ proc \in [Procs -> ProcType] /\ sct.by \in Procs
  BY DEF Next, vars, TypeOK, ErasureTypeOK, ProcType
<1>2. ASSUME UNCHANGED sct, job[sct.by].wait /\ Waits(sct.by) => Waits(sct.by)'
      PROVE  Background'
  BY <1>1, <1>2, OptionsStay DEF Background, Running, Waits, At
<1>3. ASSUME NEW q \in Procs, Step(q) \/ Disturbed(q) PROVE Background'
  <2> USE <1>1
  <2>1. ASSUME UNCHANGED sct, sct.by = q /\ job[q].wait /\ Waits(q) => Waits(q)'
        PROVE  Background'
    BY <1>2, <1>3, <2>1, OthersStay DEF Waits, At
  <2>2. CASE Open(q)
    BY <2>1, <2>2 DEF Open, Interrupted, Running, Waits, At
  <2>3. CASE Main(q)
    BY <2>1, <2>3 DEF Main, erasureVars, Waits, At
  <2>4. CASE NextTrim(q)
    BY <2>1, <2>4 DEF NextTrim, erasureVars, Waits, At
  <2>5. CASE SendTrim(q)
    BY <2>1, <2>5 DEF SendTrim, Waits, At
  <2>6. CASE TrimReturns(q)
    BY <2>1, <2>6 DEF TrimReturns, erasureVars, Waits, At
  <2>7. CASE WriteChunk(q)
    BY <2>1, <2>7 DEF WriteChunk, HasChunk, Waits, At
  <2>8. CASE ChunkFails(q)
    BY <2>1, <2>8 DEF ChunkFails, HasChunk, erasureVars, Waits, At
  <2>9. CASE ChunksEnd(q)
    BY <2>1, <2>9 DEF ChunksEnd, erasureVars, Waits, At
  <2>10. CASE Refusal(q)
    <3>1. proc'[q].pc = "ended" /\ proc'[q].rc = 1 /\ UNCHANGED sct
      BY <2>10 DEF Refusal, TrimRefused, RetryRefused, SendRefused, CommandFails, Fails, Exit,
                 erasureVars, ProcType
    <3> QED  BY <2>1, <3>1 DEF Waits, At
  <2>11. CASE Check(q)
    BY <2>1, <2>11 DEF Check, erasureVars, Waits, At
  <2>12. CASE Send(q)
    <3> DEFINE start == job[q].start
               len == WriteLength(start, job[q].count)
    <3>1. start \in Nat /\ len \in Nat
      BY DriveType, LengthType DEF JobType
    <3>2. sct' = [st |-> "running", pos |-> start, end |-> start + len, by |-> q]
      BY <2>12 DEF Send, SctWriteSame
    <3>3. start + len <= Capacity
      BY <2>12 DEF Send, SctWriteSame, CanWrite
    <3>4. Sectors(sct'.pos, sct'.end - sct'.pos) \subseteq Asked(q)
      <4>1. Sectors(start, len) \subseteq Disk
        BY <3>1, <3>3, ErasureAssumption DEF Sectors, Disk
      <4>2. sct'.end - sct'.pos = len
        BY <3>1, <3>2
      <4>3. sct'.pos = start
        BY <3>2
      <4> QED  BY <4>1, <4>2, <4>3, DriveType, AskedRange
    <3>5. job[q].op = "wipe" /\ ~UsesTrim(q) /\ drive.proto = "ATA"
      BY <2>12, DriveType DEF Send, At, AllPlaced, Placed, Consistent, AtaPlaces
    <3>6. job[q].wait => Waits(q)'
      BY <2>12 DEF Send, Go, Waits, ProcType
    <3>7. sct'.by = q /\ Disk' = Disk
      BY <3>2 DEF Disk
    <3> HIDE DEF start, len
    <3> QED  BY <3>4, <3>5, <3>6, <3>7, OptionsStay DEF Background, Waits, At, Sectors
  <2>13. CASE Poll(q)
    BY <2>1, <2>13 DEF Poll, erasureVars, Running, Go, Waits, ProcType
  <2>14. CASE Cancel(q)
    BY <2>1, <2>14 DEF Cancel, erasureVars, Running, Go, Waits, ProcType
  <2>15. CASE CancelReturns(q)
    BY <2>1, <2>15 DEF CancelReturns, erasureVars, Waits, At
  <2>16. CASE Smart(q)
    <3>1. CASE sct' = Interrupted
      BY <3>1 DEF Interrupted, Running
    <3>2. CASE UNCHANGED sct /\ Exit(q, 1)
      BY <2>1, <3>2 DEF Exit, Waits, At, ProcType
    <3> QED  BY <2>16, <3>1, <3>2 DEF Smart
  <2>17. CASE Final(q)
    BY <2>1, <2>17 DEF Final, erasureVars, Waits, At
  <2>18. CASE Signal(q)
    BY <2>1, <2>18 DEF Signal, erasureVars, Waits, At, ProcType
  <2>19. CASE Kill(q)
    BY <2>1, <2>19 DEF Kill, Go, erasureVars, Waits, At, ProcType
  <2> QED
    BY <1>3, <2>2, <2>3, <2>4, <2>5, <2>6, <2>7, <2>8, <2>9, <2>10, <2>11,
       <2>12, <2>13, <2>14, <2>15, <2>16, <2>17, <2>18, <2>19
       DEF Step, Disturbed, ChunkRefused, Refusal
<1>4. CASE DriveWorks /\ UNCHANGED proc
  <2>1. sct.pos \in Nat /\ sct.end \in Nat
    BY ErasureAssumption DEF TypeOK, ErasureTypeOK
  <2>2. sct.pos < sct.end /\ sct' = [sct EXCEPT !.pos = @ + 1]
    BY <1>4 DEF DriveWorks, Running, TypeOK, ErasureTypeOK
  <2>3. sct'.pos = sct.pos + 1 /\ sct'.end = sct.end /\ sct'.by = sct.by
    BY <2>2 DEF TypeOK, ErasureTypeOK
  <2>4. Sectors(sct'.pos, sct'.end - sct'.pos) \subseteq Sectors(sct.pos, sct.end - sct.pos)
    BY <2>1, <2>3 DEF Sectors
  <2>5. Running
    BY <1>4 DEF DriveWorks
  <2>6. Sectors(sct.pos, sct.end - sct.pos)' = Sectors(sct'.pos, sct'.end - sct'.pos)
    BY DEF Sectors
  <2> QED  BY <1>1, <1>4, <2>3, <2>4, <2>5, <2>6, OptionsStay DEF Background, At
<1>5. CASE DriveStops /\ UNCHANGED proc
  BY <1>5 DEF DriveStops, Running, TypeOK, ErasureTypeOK
<1>6. CASE UNCHANGED vars
  BY <1>2, <1>6 DEF vars, Waits, At
<1> QED  BY <1>3, <1>4, <1>5, <1>6 DEF Next

-----------------------------------------------------------------------------
(* What is erased.                                                         *)

\* Only three actions erase anything, and each of them stays inside.
LEMMA InsideStep ==
  TypeOK /\ AllPlaced /\ AllRanged /\ Background /\ StaysInside /\ [Next]_vars => StaysInside'
<1> SUFFICES ASSUME TypeOK, AllPlaced, AllRanged, Background, StaysInside, [Next]_vars
             PROVE  StaysInside'
  OBVIOUS
<1>1. UNCHANGED <<drive, job>> /\ media \in [Disk -> SUBSET Procs]
  BY DEF Next, vars, TypeOK, ErasureTypeOK
<1> SUFFICES ASSUME NEW q \in Procs, ~WritesScsi(q) PROVE Inside(q)'
  BY <1>1, OptionsStay DEF StaysInside
<1>2. Inside(q)
  BY DEF StaysInside
<1>3. ASSUME UNCHANGED media PROVE Inside(q)'
  BY <1>1, <1>2, <1>3, OptionsStay DEF Inside
<1>4. ASSUME NEW p \in Procs, NEW S, Erase(p, S), p = q => S \cap Disk \subseteq Asked(q)
      PROVE  Inside(q)'
  <2>1. ASSUME NEW s \in Disk, q \in media'[s] PROVE s \in Asked(q)
    <3>1. q \in media[s] \/ (p = q /\ s \in S)
      BY <1>1, <1>4, <2>1 DEF Erase
    <3> QED  BY <1>2, <1>4, <3>1 DEF Inside
  <2> QED  BY <1>1, <2>1, OptionsStay DEF Inside
<1>5. ASSUME NEW p \in Procs, SendTrim(p) PROVE Inside(q)'
  <2>1. (Sectors(proc[p].pos, proc[p].len) \cup PageSectors(proc[p].page)) \cap Disk \subseteq Asked(p)
    BY <1>5 DEF AllRanged, Ranged, SendTrim
  <2>2. Covered(p) \subseteq Sectors(proc[p].pos, proc[p].len) \cup PageSectors(proc[p].page)
    BY DriveType, CoveredInside DEF Covered, ProcType
  <2> QED  BY <1>4, <1>5, <2>1, <2>2 DEF SendTrim
<1>6. ASSUME NEW p \in Procs, WriteChunk(p) PROVE Inside(q)'
  <2>1. WritesScsi(p)
    BY <1>6 DEF WriteChunk, HasChunk, At, AllPlaced, Placed
  <2> QED  BY <1>4, <1>6, <2>1 DEF WriteChunk
<1>7. CASE DriveWorks
  <2>1. CASE Erase(sct.by, {sct.pos})
    <3>1. sct.by \in Procs /\ sct.pos \in Nat /\ sct.end \in Nat
      BY ErasureAssumption DEF TypeOK, ErasureTypeOK
    <3>2. Running /\ (sct.pos < sct.end \/ UNCHANGED media)
      BY <1>7 DEF DriveWorks
    <3>3. CASE sct.pos < sct.end
      <4>1. sct.pos \in Sectors(sct.pos, sct.end - sct.pos)
        BY <3>1, <3>3 DEF Sectors
      <4>2. sct.pos \in Asked(sct.by)
        BY <3>2, <4>1 DEF Background
      <4> QED  BY <1>4, <2>1, <3>1, <4>2
    <3> QED  BY <1>3, <3>2, <3>3
  <2> QED  BY <1>3, <1>7, <2>1 DEF DriveWorks
<1>8. ASSUME NEW p \in Procs, Step(p) \/ Disturbed(p), ~SendTrim(p), ~WriteChunk(p)
      PROVE  UNCHANGED media
  <2> USE DEF erasureVars, Fails
  <2>1. CASE Open(p) \/ Main(p) \/ NextTrim(p) \/ TrimRefused(p) \/ TrimReturns(p)
    BY <2>1 DEF Open, Main, NextTrim, TrimRefused, TrimReturns
  <2>2. CASE ChunkFails(p) \/ RetryRefused(p) \/ ChunksEnd(p)
    BY <2>2 DEF ChunkFails, RetryRefused, ChunksEnd
  <2>3. CASE Check(p) \/ Send(p) \/ SendRefused(p) \/ Poll(p)
    BY <2>3 DEF Check, Send, SendRefused, Poll
  <2>4. CASE Cancel(p) \/ Smart(p) \/ CancelReturns(p) \/ Final(p)
    BY <2>4 DEF Cancel, Smart, CancelReturns, Final
  <2>5. CASE CommandFails(p) \/ Signal(p) \/ Kill(p)
    BY <2>5 DEF CommandFails, Signal, Kill
  <2> QED  BY <1>8, <2>1, <2>2, <2>3, <2>4, <2>5 DEF Step, Disturbed, ChunkRefused
<1>9. CASE DriveStops \/ UNCHANGED vars
  BY <1>3, <1>9 DEF DriveStops, vars
<1> QED  BY <1>3, <1>5, <1>6, <1>7, <1>8, <1>9 DEF Next

-----------------------------------------------------------------------------
(* What is reported.                                                       *)

Erased(p, s) == p \in media[s]

\* A process says something of the wipe only at its end, and a trim never waits for the drive's.
Quiet(p) ==
  /\ ~At(p, "ended") => proc[p].said = "nothing"
  /\ job[p].op = "wipe" /\ UsesTrim(p) => proc[p].pc \notin AtaPlaces \cup {"status", "scsi", "retry"}
  /\ At(p, "status") => job[p].op = "status"

\* What a trim has come past is erased, as far as it was asked for.
Trimmed(p) ==
  /\ At(p, "trim") => \A s \in Known(p) : s < proc[p].cur => Erased(p, s)
  /\ At(p, "trimming") /\ job[p].chunk = 0 =>
       \A s \in Known(p) : s \in Sectors(proc[p].pos, proc[p].len) \/ Erased(p, s)
  /\ At(p, "trimming") /\ job[p].chunk # 0 =>
       \A s \in Known(p) : s < proc[p].cur + proc[p].chunk =>
         s \in Sectors(proc[p].pos, proc[p].len) \/ Erased(p, s)

\* So is what the drive has come past, of the wipe of the process that waits for it.
Followed(p) ==
  proc[p].pc \in {"poll", "cancel", "smart", "canceled", "final"} /\ job[p].op = "wipe" /\ sct.by = p =>
    /\ sct.end = job[p].start + WriteLength(job[p].start, job[p].count)
    /\ \A s \in Known(p) : s < sct.pos => Erased(p, s)
    /\ sct.st = "completed" => sct.pos >= sct.end

Reported(p) == Quiet(p) /\ Trimmed(p) /\ Followed(p)
AllReported == \A p \in Procs : Reported(p)

\* A number below n times m lies in one of n pieces of length m.
LEMMA PieceOf ==
  ASSUME NEW x \in Nat, NEW m \in Nat \ {0}, NEW n \in Nat, x < n * m
  PROVE  \E k \in 1..n : (k - 1) * m <= x /\ x < (k - 1) * m + m
<1> DEFINE q == x \div m
<1>1. q \in Int /\ q * m <= x /\ x < q * m + m
  OBVIOUS
<1> HIDE DEF q
<1>2. q >= 0
  <2> SUFFICES ASSUME q <= -1 PROVE FALSE
    BY <1>1
  <2>1. (q + 1) * m <= 0
    BY <1>1
  <2>2. q * m + m = (q + 1) * m
    BY <1>1
  <2> QED  BY <1>1, <2>1, <2>2
<1>3. q < n
  <2> SUFFICES ASSUME n <= q PROVE FALSE
    BY <1>1
  <2>1. n * m <= q * m
    BY <1>1
  <2> QED  BY <1>1, <2>1
<1>4. q + 1 \in 1..n /\ ((q + 1) - 1) * m = q * m
  BY <1>1, <1>2, <1>3
<1> QED  BY <1>1, <1>4

\* A command covers all of the range at hand but what is left when it has returned.
LEMMA NothingBetween ==
  ASSUME NEW proto \in {"ATA", "SCSI"}, NEW pos \in Nat, NEW len \in Nat,
         NEW page \in [1..PageLength -> [pos : Nat, len : Nat]]
  PROVE  Sectors(pos, len) \subseteq TrimSectors(proto, page, pos, len)
                                     \cup Sectors(pos + TrimStep(proto), TrimLeft(proto, len))
<1> SUFFICES ASSUME NEW s \in Sectors(pos, len), s \notin Sectors(pos + TrimStep(proto), TrimLeft(proto, len))
             PROVE  s \in TrimSectors(proto, page, pos, len)
  OBVIOUS
<1>1. s \in Nat /\ pos <= s /\ s < pos + len
  BY DEF Sectors
<1>2. TrimStep(proto) \in Nat
  BY ErasureAssumption DEF TrimStep
<1>3. s < pos + TrimStep(proto)
  BY <1>1, <1>2 DEF Sectors, TrimLeft
<1>4. CASE proto = "SCSI"
  <2>1. s < pos + UnmapMax
    BY <1>3, <1>4 DEF TrimStep
  <2> QED  BY <1>1, <1>4, <2>1, ErasureAssumption DEF TrimSectors, Sectors, Lesser
<1>5. CASE proto = "ATA"
  <2> DEFINE x == s - pos
             filled == FilledPage(page, pos, len)
  <2>1. x \in Nat /\ x < PageLength * EntryMax /\ x < len /\ s = pos + x
    BY <1>1, <1>3, <1>5, ErasureAssumption DEF TrimStep
  <2>2. PageLength \in Nat /\ EntryMax \in Nat \ {0}
    BY ErasureAssumption
  <2> HIDE DEF x
  <2>3. PICK k \in 1..PageLength : (k - 1) * EntryMax <= x /\ x < (k - 1) * EntryMax + EntryMax
    BY <2>1, <2>2, PieceOf
  <2>4. PICK before \in Nat : before = (k - 1) * EntryMax
    <3>1. k - 1 \in Nat
      BY <2>2
    <3> QED  BY <2>2, <3>1
  <2>5. filled[k] = [pos |-> pos + before, len |-> Lesser(len - before, EntryMax)]
    BY <2>1, <2>3, <2>4 DEF FilledPage, EntryPos
  <2>6. s \in Sectors(pos + before, Lesser(len - before, EntryMax))
    BY <1>1, <2>1, <2>2, <2>3, <2>4 DEF Sectors, Lesser
  <2>7. s \in PageSectors(filled)
    BY <2>5, <2>6 DEF PageSectors
  <2> QED  BY <1>5, <2>7 DEF TrimSectors
<1> QED  BY <1>4, <1>5

\* What is erased stays erased.
LEMMA ErasedStays ==
  ASSUME TypeOK, [Next]_vars, NEW p \in Procs, NEW s \in Disk, Erased(p, s)
  PROVE  Erased(p, s)'
<1>1. ASSUME NEW q, NEW S, Erase(q, S) PROVE Erased(p, s)'
  BY <1>1 DEF Erase, Erased
<1>2. ASSUME UNCHANGED media PROVE Erased(p, s)'
  BY <1>2 DEF Erased
<1>3. CASE UNCHANGED vars
  BY <1>2, <1>3 DEF vars
<1>4. CASE DriveWorks \/ DriveStops
  BY <1>1, <1>2, <1>4 DEF DriveWorks, DriveStops
<1>5. ASSUME NEW q \in Procs, Step(q) \/ Disturbed(q) PROVE Erased(p, s)'
  <2> USE DEF Fails, erasureVars
  <2>1. CASE SendTrim(q) \/ WriteChunk(q)
    BY <1>1, <2>1 DEF SendTrim, WriteChunk
  <2>2. CASE Open(q) \/ Main(q) \/ NextTrim(q) \/ TrimRefused(q) \/ TrimReturns(q)
    BY <1>2, <2>2 DEF Open, Main, NextTrim, TrimRefused, TrimReturns
  <2>3. CASE ChunkFails(q) \/ RetryRefused(q) \/ ChunksEnd(q) \/ Check(q) \/ Send(q) \/ SendRefused(q) \/ Poll(q)
    BY <1>2, <2>3 DEF ChunkFails, RetryRefused, ChunksEnd, Check, Send, SendRefused, Poll
  <2>4. CASE Cancel(q) \/ Smart(q) \/ CancelReturns(q) \/ Final(q) \/ CommandFails(q) \/ Signal(q) \/ Kill(q)
    BY <1>2, <2>4 DEF Cancel, Smart, CancelReturns, Final, CommandFails, Signal, Kill
  <2> QED  BY <1>5, <2>1, <2>2, <2>3, <2>4 DEF Step, Disturbed, ChunkRefused
<1> QED  BY <1>3, <1>4, <1>5 DEF Next

\* A process that sends no wipe to the drive can only interrupt the one it has.
LEMMA WipeStays ==
  ASSUME TypeOK, NEW p \in Procs, Step(p) \/ Disturbed(p), ~Send(p)
  PROVE  sct' \in {sct, Interrupted}
<1> USE DEF Fails, erasureVars
<1>1. CASE Open(p) \/ Smart(p)
  BY <1>1 DEF Open, Smart
<1>2. CASE Main(p) \/ NextTrim(p) \/ SendTrim(p) \/ TrimRefused(p) \/ TrimReturns(p) \/ WriteChunk(p)
  BY <1>2 DEF Main, NextTrim, SendTrim, TrimRefused, TrimReturns, WriteChunk
<1>3. CASE ChunkFails(p) \/ RetryRefused(p) \/ ChunksEnd(p) \/ Check(p) \/ SendRefused(p) \/ Poll(p)
  BY <1>3 DEF ChunkFails, RetryRefused, ChunksEnd, Check, SendRefused, Poll
<1>4. CASE Cancel(p) \/ CancelReturns(p) \/ Final(p) \/ CommandFails(p) \/ Signal(p) \/ Kill(p)
  BY <1>4 DEF Cancel, CancelReturns, Final, CommandFails, Signal, Kill
<1> QED  BY <1>1, <1>2, <1>3, <1>4 DEF Step, Disturbed, ChunkRefused

\* Interrupted or not, it is as far as it was.
LEMMA InterruptedFollows ==
  ASSUME TypeOK, sct' \in {sct, Interrupted}
  PROVE  /\ sct'.by = sct.by /\ sct'.pos = sct.pos /\ sct'.end = sct.end
         /\ sct'.st = "completed" => sct.st = "completed"
BY DEF TypeOK, ErasureTypeOK, Interrupted

\* What is said of a process that is over, if it says so with exit code 0.
WholeReported(p) ==
  /\ At(p, "ended") /\ job[p].op = "wipe" /\ proc[p].rc = 0
  /\ UsesTrim(p) \/ (proc[p].said = "completed" /\ sct.by = p)
  => \A s \in Known(p) : Erased(p, s)

\* A step that is none of the process's own takes nothing from what it may say.
LEMMA OthersReport ==
  ASSUME TypeOK, NEW p \in Procs, Reported(p), WholeReported(p), [Next]_vars, UNCHANGED <<drive, job>>,
         proc'[p] = proc[p],
         sct'.by = p => /\ sct.by = p /\ sct'.end = sct.end /\ sct'.pos >= sct.pos
                        /\ \A s \in Known(p) : s < sct'.pos => s < sct.pos \/ Erased(p, s)'
                        /\ sct'.st = "completed" => sct.st = "completed" \/ sct'.pos >= sct'.end
  PROVE  Reported(p)' /\ WholeReported(p)'
<1>1. UsesTrim(p)' <=> UsesTrim(p)
  BY OptionsStay
<1>2. Known(p)' = Known(p) /\ Known(p) \subseteq Disk
  BY OptionsStay DEF Known, Asked
<1>3. \A s \in Known(p) : Erased(p, s) => Erased(p, s)'
  BY <1>2, ErasedStays
<1>4. Quiet(p)'
  BY <1>1 DEF Reported, Quiet, At
<1>5. Trimmed(p)'
  BY <1>2, <1>3 DEF Reported, Trimmed, At
<1>6. Followed(p)'
  <2> SUFFICES ASSUME proc[p].pc \in {"poll", "cancel", "smart", "canceled", "final"}, job[p].op = "wipe", sct'.by = p
               PROVE  /\ sct'.end = job[p].start + WriteLength(job[p].start, job[p].count)
                      /\ \A s \in Known(p) : s < sct'.pos => Erased(p, s)'
                      /\ sct'.st = "completed" => sct'.pos >= sct'.end
    BY <1>2 DEF Followed
  <2>1. /\ sct.end = job[p].start + WriteLength(job[p].start, job[p].count)
        /\ \A s \in Known(p) : s < sct.pos => Erased(p, s)
        /\ sct.st = "completed" => sct.pos >= sct.end
    BY DEF Reported, Followed
  <2>2. sct.pos \in Int /\ sct.end \in Int
    BY DEF TypeOK, ErasureTypeOK
  <2>3. sct'.st = "completed" => sct'.pos >= sct'.end
    <3>1. TypeOK'
      BY TypeStep
    <3>2. sct'.pos \in Int
      BY <3>1 DEF TypeOK, ErasureTypeOK
    <3> QED  BY <2>1, <2>2, <3>2
  <2> QED  BY <1>3, <2>1, <2>3
<1>7. WholeReported(p)'
  BY <1>1, <1>2, <1>3 DEF WholeReported, At
<1> QED  BY <1>4, <1>5, <1>6, <1>7 DEF Reported

\* A process at the wipe of the drive follows it.
LEMMA FollowedStep ==
  ASSUME TypeOK, NEW p \in Procs, AllPlaced, Reported(p), UNCHANGED <<drive, job>>, [Next]_vars, Step(p) \/ Disturbed(p)
  PROVE  Followed(p)'
<1> DEFINE Following == {"poll", "cancel", "smart", "canceled", "final"}
<1>1. Known(p)' = Known(p) /\ Known(p) \subseteq Disk /\ proc \in [Procs -> ProcType]
  BY OptionsStay DEF Known, Asked, TypeOK, ProcType
<1>2. \A s \in Known(p) : Erased(p, s) => Erased(p, s)'
  BY <1>1, ErasedStays
<1>3. CASE Send(p)
  <2>1. /\ sct'.pos = job[p].start /\ sct'.end = job[p].start + WriteLength(job[p].start, job[p].count)
        /\ sct'.st = "running"
    BY <1>3 DEF Send, SctWriteSame
  <2>2. \A s \in Known(p) : ~(s < sct'.pos)
    <3>1. job[p].start \in Nat /\ \A s \in Known(p) : s \in Nat /\ job[p].start <= s
      BY DriveType, AskedRange DEF JobType
    <3> QED  BY <2>1, <3>1
  <2> QED  BY <1>1, <2>1, <2>2 DEF Followed
<1>4. CASE ~Send(p)
  <2>1. job[p].op = "wipe" /\ proc'[p].pc \in Following => proc[p].pc \in Following
    <3> USE <1>1 DEF Go, Exit, Fails, At
    <3>1. CASE Open(p) \/ NextTrim(p) \/ TrimRefused(p) \/ TrimReturns(p)
      BY <3>1 DEF Open, NextTrim, StartTrim, TrimRefused, TrimReturns, ProcType
    <3>2. CASE Main(p)
      <4>1. job[p].op = "wipe" => First(p) \in {"trim", "check", "scsi"}
        BY DEF First
      <4> QED  BY <3>2, <4>1 DEF Main, ProcType
    <3>3. CASE SendTrim(p)
      BY <3>3 DEF SendTrim, ProcType
    <3>4. CASE WriteChunk(p) \/ ChunkFails(p) \/ RetryRefused(p) \/ ChunksEnd(p)
      BY <3>4 DEF WriteChunk, NextChunk, ChunkFails, RetryRefused, ChunksEnd, ProcType
    <3>5. CASE Check(p) \/ SendRefused(p) \/ Poll(p)
      BY <3>5 DEF Check, SendRefused, Poll, ProcType
    <3>6. CASE Cancel(p) \/ Smart(p) \/ CancelReturns(p) \/ Final(p)
      BY <3>6 DEF Cancel, Smart, CancelReturns, Canceled, Final, ProcType
    <3>7. CASE CommandFails(p) \/ Kill(p)
      BY <3>7 DEF CommandFails, Kill, ProcType
    <3>8. CASE Signal(p)
      BY <3>8 DEF Signal, ProcType
    <3> QED  BY <1>4, <3>1, <3>2, <3>3, <3>4, <3>5, <3>6, <3>7, <3>8 DEF Step, Disturbed, ChunkRefused
  <2>2. /\ sct'.by = sct.by /\ sct'.pos = sct.pos /\ sct'.end = sct.end
        /\ sct'.st = "completed" => sct.st = "completed"
    BY <1>4, WipeStays, InterruptedFollows
  <2> QED  BY <1>1, <1>2, <2>1, <2>2 DEF Reported, Followed
<1> QED  BY <1>3, <1>4

\* A trim goes on behind what it has erased.
LEMMA TrimmedStep ==
  ASSUME TypeOK, NEW p \in Procs, AllPlaced, Reported(p), UNCHANGED <<drive, job>>, [Next]_vars, Step(p) \/ Disturbed(p)
  PROVE  Trimmed(p)'
<1>1. Known(p)' = Known(p) /\ Known(p) \subseteq Disk /\ proc \in [Procs -> ProcType]
  BY OptionsStay DEF Known, Asked, TypeOK, ProcType
<1>2. \A s \in Known(p) : Erased(p, s) => Erased(p, s)'
  BY <1>1, ErasedStays
<1>3. proc[p] \in ProcType /\ job[p] \in JobType /\ drive.proto \in {"ATA", "SCSI"} /\ Trimmed(p) /\ Placed(p)
  BY DriveType DEF AllPlaced, Reported
<1>4. /\ proc[p].cur \in Nat /\ proc[p].chunk \in Nat /\ proc[p].pos \in Nat /\ proc[p].len \in Nat
      /\ proc[p].page \in [1..PageLength -> [pos : Nat, len : Nat]] /\ job[p].start \in Nat
  BY <1>3 DEF ProcType, JobType
<1>5. ASSUME proc'[p].pc \notin {"trim", "trimming"} PROVE Trimmed(p)'
  BY <1>5 DEF Trimmed, At
<1>6. \A s \in Known(p) :
        /\ s \in Nat /\ job[p].start <= s
        /\ s \in Sectors(job[p].start, TrimLength(drive.proto, job[p].start, job[p].count))
  BY <1>3, AskedRange
<1>7. CASE Main(p)
  <2>1. CASE Go(p, First(p)) /\ First(p) = "trim"
    <3>1. proc'[p].pc = "trim" /\ proc'[p].cur = proc[p].cur
      BY <1>1, <1>3, <2>1 DEF Go, ProcType
    <3>2. proc[p].cur = job[p].start
      BY <1>3, <1>7 DEF Main, Placed, At
    <3> QED  BY <1>1, <1>4, <1>6, <3>1, <3>2 DEF Trimmed, At
  <2>2. CASE ~(Go(p, First(p)) /\ First(p) = "trim")
    <3>1. First(p) # "trimming"
      BY DEF First
    <3>2. proc'[p].pc \notin {"trim", "trimming"}
      BY <1>1, <1>3, <1>7, <2>2, <3>1 DEF Main, Go, Exit, ProcType
    <3> QED  BY <1>5, <3>2
  <2> QED  BY <2>1, <2>2
<1>8. CASE NextTrim(p)
  <2>1. At(p, "trim") /\ \A s \in Known(p) : s < proc[p].cur => Erased(p, s)
    BY <1>3, <1>8 DEF NextTrim, Trimmed
  <2>2. CASE job[p].chunk = 0
    <3>1. proc'[p].pc = "trimming" /\ proc'[p].pos = job[p].start /\ proc'[p].len = TrimLength(drive.proto, job[p].start, job[p].count)
      BY <1>1, <1>3, <1>8, <2>2 DEF NextTrim, StartTrim, ProcType
    <3> QED  BY <1>1, <1>6, <2>2, <3>1 DEF Trimmed, At
  <2>3. CASE job[p].chunk # 0 /\ proc[p].cur < End(p)
    <3> DEFINE chunk == Lesser(proc[p].chunk, End(p) - proc[p].cur)
    <3>1. StartTrim(p, proc[p].cur, chunk, chunk)
      BY <1>8, <2>3 DEF NextTrim
    <3>2. chunk \in Nat
      <4>1. End(p) \in Nat
        BY <1>3, <1>4, CountType DEF End, JobType
      <4>2. End(p) - proc[p].cur \in Nat
        BY <1>4, <2>3, <4>1
      <4> QED  BY <1>4, <4>2, LesserType
    <3> HIDE DEF chunk
    <3>3. /\ proc'[p].pc = "trimming" /\ proc'[p].pos = proc[p].cur /\ proc'[p].len = chunk
          /\ proc'[p].cur = proc[p].cur /\ proc'[p].chunk = chunk
      BY <1>1, <1>3, <3>1 DEF StartTrim, ProcType
    <3>4. \A s \in Known(p) : s < proc[p].cur + chunk => s \in Sectors(proc[p].cur, chunk) \/ Erased(p, s)'
      BY <1>2, <1>4, <1>6, <2>1, <3>2 DEF Sectors
    <3> QED  BY <1>1, <2>3, <3>3, <3>4 DEF Trimmed, At
  <2>4. CASE Exit(p, 0)
    <3>1. proc'[p].pc = "ended"
      BY <1>1, <1>3, <2>4 DEF Exit, ProcType
    <3> QED  BY <1>5, <3>1
  <2> QED  BY <1>8, <2>2, <2>3, <2>4 DEF NextTrim
<1>9. CASE SendTrim(p)
  <2>1. /\ proc'[p].pc = "trimming" /\ proc'[p].cur = proc[p].cur /\ proc'[p].chunk = proc[p].chunk
        /\ proc'[p].pos = proc[p].pos + TrimStep(drive.proto) /\ proc'[p].len = TrimLeft(drive.proto, proc[p].len)
    BY <1>1, <1>3, <1>9 DEF SendTrim, ProcType, At
  <2>2. \A s \in Sectors(proc[p].pos, proc[p].len) :
          s \in Covered(p) \/ s \in Sectors(proc'[p].pos, proc'[p].len)
    BY <1>3, <1>4, <2>1, NothingBetween DEF Covered
  <2>3. \A s \in Known(p) : s \in Covered(p) => Erased(p, s)'
    BY <1>1, <1>9 DEF SendTrim, Erase, Erased
  <2>4. ASSUME NEW s \in Known(p), s \in Sectors(proc[p].pos, proc[p].len) \/ Erased(p, s)
        PROVE  s \in Sectors(proc'[p].pos, proc'[p].len) \/ Erased(p, s)'
    BY <1>2, <2>2, <2>3, <2>4
  <2> QED  BY <1>1, <1>3, <1>9, <2>1, <2>4 DEF SendTrim, Trimmed, At
<1>10. CASE TrimReturns(p)
  <2>1. At(p, "trimming") /\ proc[p].len = 0 /\ Sectors(proc[p].pos, proc[p].len) = {}
    BY <1>4, <1>10 DEF TrimReturns, Sectors
  <2>2. CASE job[p].chunk = 0
    <3>1. proc'[p].pc = "ended"
      BY <1>1, <1>3, <1>10, <2>2 DEF TrimReturns, Exit, ProcType
    <3> QED  BY <1>5, <3>1
  <2>3. CASE job[p].chunk # 0
    <3>1. proc'[p].pc = "trim" /\ proc'[p].cur = proc[p].cur + proc[p].chunk
      BY <1>1, <1>3, <1>10, <2>3 DEF TrimReturns, ProcType
    <3> QED  BY <1>1, <1>2, <1>3, <2>1, <2>3, <3>1 DEF Trimmed, At
  <2> QED  BY <2>2, <2>3
<1>11. ASSUME proc'[p].pc = proc[p].pc, proc[p].pc \notin {"trim", "trimming"} PROVE Trimmed(p)'
  BY <1>5, <1>11
<1>12. CASE Open(p) \/ Fails(p) \/ Kill(p)
  <2>1. proc'[p].pc \in {"main", "ended", "killed"}
    BY <1>1, <1>3, <1>12 DEF Open, Fails, Kill, Exit, Go, ProcType
  <2> QED  BY <1>5, <2>1
<1>13. CASE WriteChunk(p) \/ ChunkFails(p) \/ ChunksEnd(p)
  <2>1. proc'[p].pc \in {"scsi", "retry", "ended"}
    BY <1>1, <1>3, <1>13 DEF WriteChunk, ChunkFails, ChunksEnd, NextChunk, Exit, Go, ProcType
  <2> QED  BY <1>5, <2>1
<1>14. CASE Check(p) \/ Send(p) \/ Poll(p)
  <2>1. proc'[p].pc \in {"send", "poll", "cancel", "final", "ended"}
    BY <1>1, <1>3, <1>14 DEF Check, Send, Poll, Exit, Go, ProcType
  <2> QED  BY <1>5, <2>1
<1>15. CASE Cancel(p) \/ Smart(p) \/ CancelReturns(p) \/ Final(p)
  <2>1. proc'[p].pc \in {"smart", "canceled", "final", "ended"}
    BY <1>1, <1>3, <1>15 DEF Cancel, Smart, CancelReturns, Canceled, Final, Exit, Go, ProcType
  <2> QED  BY <1>5, <2>1
<1>16. CASE Signal(p)
  <2>1. proc'[p].pc = proc[p].pc /\ proc[p].pc \in AtaPlaces
    BY <1>1, <1>3, <1>16 DEF Signal, ProcType
  <2> QED  BY <1>5, <2>1 DEF AtaPlaces
<1> QED
  BY <1>7, <1>8, <1>9, <1>10, <1>12, <1>13, <1>14, <1>15, <1>16
     DEF Step, Disturbed, ChunkRefused, TrimRefused, RetryRefused, SendRefused, CommandFails

\* Whoever is at work says nothing yet.
LEMMA QuietStep ==
  ASSUME TypeOK, NEW p \in Procs, AllPlaced, Reported(p), UNCHANGED <<drive, job>>, Step(p) \/ Disturbed(p)
  PROVE  Quiet(p)'
<1> USE DEF AtaPlaces
<1>1. proc \in [Procs -> ProcType] /\ proc[p] \in ProcType /\ job[p] \in JobType
  BY DriveType DEF TypeOK, ProcType
<1>2. (UsesTrim(p)' <=> UsesTrim(p)) /\ Quiet(p) /\ Placed(p)
  BY OptionsStay DEF Reported, AllPlaced
<1>3. ASSUME proc'[p].pc \in {"ended", "killed"}, proc'[p].pc = "killed" => proc'[p].said = "nothing" PROVE Quiet(p)'
  BY <1>1, <1>3 DEF Quiet, At
<1>4. ASSUME proc'[p].said = proc[p].said, proc[p].pc # "ended", proc'[p].pc \in {"main", "trim", "trimming"}
      PROVE  Quiet(p)'
  BY <1>1, <1>2, <1>4 DEF Quiet, At
<1>5. ASSUME proc'[p].said = proc[p].said, proc[p].pc \in AtaPlaces \cup {"scsi", "retry"},
             proc'[p].pc \in AtaPlaces \cup {"scsi", "retry"}
      PROVE  Quiet(p)'
  BY <1>1, <1>2, <1>5 DEF Quiet, At
<1>6. CASE Open(p) \/ NextTrim(p) \/ TrimReturns(p)
  <2>1. proc'[p].pc \in {"main", "trimming", "trim", "ended"} /\ proc'[p].said = proc[p].said /\ proc[p].pc # "ended"
    BY <1>1, <1>6 DEF Open, NextTrim, StartTrim, TrimReturns, Go, Exit, ProcType, At
  <2> QED  BY <1>3, <1>4, <2>1
<1>7. CASE Main(p)
  <2>1. CASE proc'[p].pc \in {"ended", "killed"}
    <3>1. proc'[p].said = proc[p].said /\ proc[p].said = "nothing"
      BY <1>1, <1>2, <1>7 DEF Main, Go, Exit, ProcType, At, Quiet
    <3> QED  BY <1>3, <2>1, <3>1
  <2>2. CASE Go(p, First(p)) /\ proc'[p].pc \notin {"ended", "killed"}
    <3>1. proc'[p].pc = First(p) /\ proc'[p].said = proc[p].said /\ proc[p].said = "nothing"
      BY <1>1, <1>2, <1>7, <2>2 DEF Main, Go, ProcType, At, Quiet
    <3>2. /\ First(p) = "status" => job[p].op = "status"
          /\ job[p].op = "wipe" /\ UsesTrim(p) => First(p) = "trim"
      BY DEF First
    <3> QED  BY <1>1, <1>2, <3>1, <3>2 DEF Quiet, At
  <2>3. Go(p, First(p)) \/ proc'[p].pc \in {"ended", "killed"}
    BY <1>1, <1>7 DEF Main, Go, Exit, ProcType
  <2> QED  BY <2>1, <2>2, <2>3
<1>8. CASE SendTrim(p)
  <2>1. proc'[p].pc = "trimming" /\ proc'[p].said = proc[p].said /\ proc[p].pc # "ended"
    BY <1>1, <1>8 DEF SendTrim, ProcType, At
  <2> QED  BY <1>4, <2>1
<1>9. CASE Fails(p) \/ Final(p)
  <2>1. proc'[p].pc = "ended"
    BY <1>1, <1>9 DEF Fails, Exit, Final, ProcType
  <2> QED  BY <1>3, <2>1
<1>10. CASE WriteChunk(p) \/ ChunkFails(p) \/ ChunksEnd(p)
  <2>1. /\ proc'[p].pc \in {"scsi", "retry", "ended"} /\ proc'[p].said = proc[p].said
        /\ proc[p].pc \in {"scsi", "retry"}
    BY <1>1, <1>10 DEF WriteChunk, HasChunk, ChunkFails, ChunksEnd, NextChunk, Exit, Go, ProcType, At
  <2> QED  BY <1>3, <1>5, <2>1
<1>11. CASE Check(p) \/ Send(p) \/ Poll(p)
  <2>1. /\ proc'[p].pc \in {"send", "poll", "cancel", "final", "ended"} /\ proc'[p].said = proc[p].said
        /\ proc[p].pc \in {"check", "send", "poll"}
    BY <1>1, <1>11 DEF Check, Send, Poll, Exit, Go, ProcType, At
  <2> QED  BY <1>3, <1>5, <2>1
<1>12. CASE Cancel(p) \/ Smart(p) \/ CancelReturns(p)
  <2>1. /\ proc'[p].pc \in {"smart", "canceled", "final", "ended"} /\ proc'[p].said = proc[p].said
        /\ proc[p].pc \in {"cancel", "smart", "canceled"}
    BY <1>1, <1>12 DEF Cancel, Smart, CancelReturns, Canceled, Exit, Go, ProcType, At
  <2> QED  BY <1>3, <1>5, <2>1
<1>13. CASE Signal(p)
  <2>1. proc'[p].pc = proc[p].pc /\ proc'[p].said = proc[p].said /\ proc[p].pc \in AtaPlaces
    BY <1>1, <1>13 DEF Signal, ProcType
  <2> QED  BY <1>5, <2>1
<1>14. CASE Kill(p)
  <2>1. proc'[p].pc = "killed" /\ proc'[p].said = "nothing"
    BY <1>1, <1>2, <1>14 DEF Kill, Go, Over, ProcType, At, Quiet
  <2> QED  BY <1>3, <2>1
<1> QED
  BY <1>6, <1>7, <1>8, <1>9, <1>10, <1>11, <1>12, <1>13, <1>14
     DEF Step, Disturbed, ChunkRefused, TrimRefused, RetryRefused, SendRefused, CommandFails

\* Whoever comes to its end with exit code 0 says what is true.
LEMMA WholeStep ==
  ASSUME TypeOK, NEW p \in Procs, AllPlaced, Reported(p), UNCHANGED <<drive, job>>, [Next]_vars, Step(p) \/ Disturbed(p)
  PROVE  WholeReported(p)'
<1> USE DEF AtaPlaces
<1>1. proc \in [Procs -> ProcType] /\ proc[p] \in ProcType /\ job[p] \in JobType
  BY DriveType DEF TypeOK, ProcType
<1>2. (UsesTrim(p)' <=> UsesTrim(p)) /\ Quiet(p) /\ Placed(p) /\ Known(p)' = Known(p) /\ Known(p) \subseteq Disk
  BY OptionsStay DEF Reported, AllPlaced, Known, Asked
<1>3. \A s \in Known(p) : Erased(p, s) => Erased(p, s)'
  BY <1>2, ErasedStays
<1>4. ASSUME proc'[p].pc # "ended" \/ proc'[p].rc # 0 PROVE WholeReported(p)'
  BY <1>4 DEF WholeReported, At
<1>5. ASSUME proc'[p].said = "nothing", job[p].op = "wipe" => ~UsesTrim(p) PROVE WholeReported(p)'
  BY <1>2, <1>5 DEF WholeReported
<1>6. ASSUME job[p].op # "wipe" PROVE WholeReported(p)'
  BY <1>6 DEF WholeReported
<1>7. ASSUME \A s \in Known(p) : Erased(p, s) PROVE WholeReported(p)'
  BY <1>2, <1>3, <1>7 DEF WholeReported
<1>8. CASE Open(p) \/ SendTrim(p) \/ Poll(p) \/ Signal(p) \/ Kill(p)
  <2>1. CASE Open(p) \/ Poll(p) \/ Kill(p)
    <3>1. proc'[p].pc # "ended"
      BY <1>1, <2>1 DEF Open, Poll, Kill, Go, ProcType
    <3> QED  BY <1>4, <3>1
  <2>2. CASE SendTrim(p)
    <3>1. proc'[p].pc = "trimming"
      BY <1>1, <2>2 DEF SendTrim, ProcType, At
    <3> QED  BY <1>4, <3>1
  <2>3. CASE Signal(p)
    <3>1. proc'[p].pc = proc[p].pc /\ proc[p].pc # "ended"
      BY <1>1, <2>3 DEF Signal, ProcType
    <3> QED  BY <1>4, <3>1
  <2> QED  BY <1>8, <2>1, <2>2, <2>3
<1>9. CASE Fails(p)
  <2>1. proc'[p].rc = 1
    BY <1>1, <1>9 DEF Fails, Exit, ProcType
  <2> QED  BY <1>4, <2>1
<1>10. CASE Main(p)
  <2>1. job[p].op = "wipe" => proc'[p].pc # "ended" \/ proc'[p].rc = 1
    <3>1. First(p) # "ended"
      BY DEF First
    <3> QED  BY <1>1, <1>10, <3>1 DEF Main, Go, Exit, ProcType
  <2> QED  BY <1>4, <1>6, <2>1
<1>11. CASE NextTrim(p)
  <2>1. CASE job[p].chunk # 0 /\ ~(proc[p].cur < End(p))
    <3>1. \A s \in Known(p) : s < proc[p].cur => Erased(p, s)
      BY <1>11 DEF NextTrim, Reported, Trimmed
    <3>2. \A s \in Known(p) : s < End(p) /\ s \in Nat
      BY <1>1, AskedRange
    <3>3. proc[p].cur \in Nat /\ End(p) \in Nat
      <4>1. job[p].start \in Nat /\ job[p].count \in Nat /\ proc[p].cur \in Nat
        BY <1>1 DEF JobType, ProcType
      <4> QED  BY <4>1, CountType DEF End
    <3> QED  BY <1>7, <2>1, <3>1, <3>2, <3>3
  <2>2. CASE ~(job[p].chunk # 0 /\ ~(proc[p].cur < End(p)))
    <3>1. proc'[p].pc = "trimming"
      BY <1>1, <1>11, <2>2 DEF NextTrim, StartTrim, ProcType
    <3> QED  BY <1>4, <3>1
  <2> QED  BY <2>1, <2>2
<1>12. CASE TrimReturns(p)
  <2>1. proc[p].pos \in Nat /\ proc[p].len = 0 /\ At(p, "trimming")
    BY <1>1, <1>12 DEF TrimReturns, ProcType
  <2>2. CASE job[p].chunk = 0
    <3>1. \A s \in Known(p) : Erased(p, s)
      BY <2>1, <2>2 DEF Reported, Trimmed, Sectors
    <3> QED  BY <1>7, <3>1
  <2>3. CASE job[p].chunk # 0
    <3>1. proc'[p].pc = "trim"
      BY <1>1, <1>12, <2>3 DEF TrimReturns, ProcType
    <3> QED  BY <1>4, <3>1
  <2> QED  BY <2>2, <2>3
<1>13. CASE WriteChunk(p) \/ ChunkFails(p) \/ ChunksEnd(p)
  <2>1. proc'[p].said = proc[p].said /\ proc[p].pc \in {"scsi", "retry"}
    BY <1>1, <1>13 DEF WriteChunk, HasChunk, ChunkFails, ChunksEnd, NextChunk, Exit, Go, ProcType, At
  <2> QED  BY <1>2, <1>5, <2>1 DEF Quiet, At
<1>14. CASE Check(p) \/ Send(p)
  <2>1. proc'[p].said = proc[p].said /\ proc[p].pc \in {"check", "send"}
    BY <1>1, <1>14 DEF Check, Send, Exit, Go, ProcType, At
  <2> QED  BY <1>2, <1>5, <2>1 DEF Quiet, At
<1>15. CASE Cancel(p) \/ Smart(p) \/ CancelReturns(p)
  <2>1. proc'[p].said = proc[p].said /\ proc[p].pc \in {"cancel", "smart", "canceled"}
    BY <1>1, <1>15 DEF Cancel, Smart, CancelReturns, Canceled, Exit, Go, ProcType, At
  <2> QED  BY <1>2, <1>5, <2>1 DEF Quiet, At
<1>16. CASE Final(p)
  <2>1. proc'[p].said = sct.st /\ sct' = sct /\ proc[p].pc \in {"final", "status"}
    BY <1>1, <1>16 DEF Final, ProcType, erasureVars
  <2>2. CASE proc[p].pc = "status"
    BY <1>2, <1>6, <2>2 DEF Quiet, At
  <2>3. CASE proc[p].pc = "final" /\ job[p].op = "wipe"
    <3>1. ~UsesTrim(p)
      BY <1>2, <2>3 DEF Quiet
    <3>2. CASE sct.st = "completed" /\ sct.by = p
      <4>1. /\ sct.end = job[p].start + WriteLength(job[p].start, job[p].count) /\ sct.pos >= sct.end
            /\ \A s \in Known(p) : s < sct.pos => Erased(p, s)
        BY <2>3, <3>2 DEF Reported, Followed
      <4>2. /\ sct.pos \in Nat /\ job[p].start \in Nat /\ WriteLength(job[p].start, job[p].count) \in Nat
        <5>1. job[p].start \in Nat /\ job[p].count \in Nat
          BY <1>1 DEF JobType
        <5>2. sct.pos \in Nat
          BY ErasureAssumption DEF TypeOK, ErasureTypeOK
        <5> QED  BY <5>1, <5>2, LengthType
      <4>3. \A s \in Known(p) : s \in Int /\ s < sct.end
        BY <1>1, <4>1, <4>2, AskedRange DEF Sectors
      <4>4. \A s \in Known(p) : Erased(p, s)
        BY <4>1, <4>2, <4>3
      <4> QED  BY <1>7, <4>4
    <3>3. CASE ~(sct.st = "completed" /\ sct.by = p)
      BY <1>2, <2>1, <3>1, <3>3 DEF WholeReported
    <3> QED  BY <3>2, <3>3
  <2> QED  BY <1>6, <2>1, <2>2, <2>3
<1> QED
  BY <1>8, <1>9, <1>10, <1>11, <1>12, <1>13, <1>14, <1>15, <1>16
     DEF Step, Disturbed, ChunkRefused, TrimRefused, RetryRefused, SendRefused, CommandFails

\* Every step keeps what may be reported.
LEMMA ReportedStep ==
  ASSUME TypeOK, AllPlaced, AllReported, \A p \in Procs : WholeReported(p), [Next]_vars, NEW p \in Procs
  PROVE  Reported(p)' /\ WholeReported(p)'
<1>1. UNCHANGED <<drive, job>> /\ Reported(p) /\ WholeReported(p)
  BY DEF Next, vars, AllReported
<1>2. /\ sct.pos \in Int /\ sct.end \in Int /\ proc \in [Procs -> ProcType]
  BY DEF TypeOK, ErasureTypeOK, ProcType
<1>3. Known(p) \subseteq Disk /\ Known(p) \subseteq Int
  BY DEF Known, Asked, Disk
<1>4. CASE Step(p) \/ Disturbed(p)
  BY <1>1, <1>4, QuietStep, TrimmedStep, FollowedStep, WholeStep DEF Reported
<1>5. ASSUME NEW q \in Procs \ {p}, Step(q) \/ Disturbed(q) PROVE Reported(p)' /\ WholeReported(p)'
  <2>1. proc'[p] = proc[p]
    BY <1>5, OthersStay
  <2>2. CASE Send(q)
    <3>1. sct'.by # p
      BY <1>5, <2>2 DEF Send, SctWriteSame
    <3> QED  BY <1>1, <2>1, <3>1, OthersReport
  <2>3. CASE ~Send(q)
    <3>1. /\ sct'.by = sct.by /\ sct'.pos = sct.pos /\ sct'.end = sct.end
          /\ sct'.st = "completed" => sct.st = "completed"
      BY <1>5, <2>3, WipeStays, InterruptedFollows
    <3> QED  BY <1>1, <1>2, <1>3, <2>1, <3>1, OthersReport
  <2> QED  BY <2>2, <2>3
<1>6. CASE DriveWorks /\ UNCHANGED proc
  <2>1. CASE sct.pos < sct.end
    <3>1. Erase(sct.by, {sct.pos}) /\ sct' = [sct EXCEPT !.pos = @ + 1] /\ sct.st = "running"
      BY <1>6, <2>1 DEF DriveWorks, Running
    <3>2. /\ sct'.by = sct.by /\ sct'.end = sct.end /\ sct'.pos = sct.pos + 1 /\ sct'.st = "running"
      BY <3>1 DEF TypeOK, ErasureTypeOK
    <3>3. sct.by = p => \A s \in Known(p) : s = sct.pos => Erased(p, s)'
      BY <1>3, <3>1 DEF Erase, Erased
    <3>4. sct.by = p => \A s \in Known(p) : s < sct'.pos => s < sct.pos \/ Erased(p, s)'
      BY <1>2, <1>3, <3>2, <3>3
    <3> QED  BY <1>1, <1>2, <1>6, <3>2, <3>4, OthersReport
  <2>2. CASE ~(sct.pos < sct.end)
    <3>1. /\ sct'.by = sct.by /\ sct'.end = sct.end /\ sct'.pos = sct.pos /\ sct'.pos >= sct'.end
      BY <1>2, <1>6, <2>2 DEF DriveWorks, TypeOK, ErasureTypeOK
    <3> QED  BY <1>1, <1>2, <1>3, <1>6, <3>1, OthersReport
  <2> QED  BY <2>1, <2>2
<1>7. CASE (DriveStops /\ UNCHANGED proc) \/ UNCHANGED vars
  <2>1. /\ sct'.by = sct.by /\ sct'.end = sct.end /\ sct'.pos = sct.pos /\ proc' = proc
        /\ sct'.st = "completed" => sct.st = "completed"
    BY <1>7 DEF DriveStops, vars, TypeOK, ErasureTypeOK
  <2> QED  BY <1>1, <1>2, <1>3, <2>1, OthersReport
<1> QED  BY <1>4, <1>5, <1>6, <1>7 DEF Next

-----------------------------------------------------------------------------
(* The theorems.                                                           *)

\* The invariant holds when wipedrive is started.
LEMMA InitIInv == Init => IInv
<1> SUFFICES ASSUME Init PROVE IInv
  OBVIOUS
<1>1. TypeOK
  BY TypeInit
<1>2. AllPlaced /\ AllRanged
  <2>1. ASSUME NEW p \in Procs PROVE proc[p].pc = "start" /\ proc[p].cur = job[p].start
    <3>1. proc[p] = NewProc(p)
      BY DEF Init
    <3> QED  BY ONLY <3>1 DEF NewProc
  <2> QED  BY <2>1 DEF AllPlaced, Placed, AllRanged, Ranged, At
<1>3. Background
  BY DEF Init, ErasureInit, Background, Running
<1>4. StaysInside
  BY DEF Init, ErasureInit, StaysInside, Inside
<1> QED  BY <1>1, <1>2, <1>3, <1>4 DEF IInv

\* Every step keeps the invariant.
LEMMA StepIInv == IInv /\ [Next]_vars => IInv'
BY TypeStep, PlacedStep, RangedStep, BackgroundStep, InsideStep DEF IInv

\* The invariant holds for ever.
LEMMA Invariance == Spec => []IInv
<1>1. Init => IInv
  BY InitIInv
<1>2. IInv /\ [Next]_vars => IInv'
  BY StepIInv
<1> QED  BY <1>1, <1>2, PTL DEF Spec

\* The state of wipedrive keeps its type for every drive and every set of options
\* (wipedrive.c main).
THEOREM TypeCorrect == Spec => []TypeOK
<1>1. IInv => TypeOK
  BY DEF IInv
<1> QED  BY <1>1, Invariance, PTL

\* No process erases a sector it was not asked for, but by WRITE SAME on SCSI drives
\* (wipedrive.c doTrimWipe, doATAWipe; ata.c and scsi.c CMD_TRIM).
THEOREM OnlyWhatWasAsked == Spec => []StaysInside
<1>1. IInv => StaysInside
  BY DEF IInv
<1> QED  BY <1>1, Invariance, PTL

\* A process that has waited and exits with 0 leaves no wipe running
\* (wipedrive.c doATAWipe, doCancel).
THEOREM NothingRunsOn == Spec => []ZeroIsStopped
<1>1. IInv => ZeroIsStopped
  BY DEF IInv, Background, ZeroIsStopped, At
<1> QED  BY <1>1, Invariance, PTL

\* What is reported erased is erased: by trim, whatever its pages and chunks, and by the
\* drive itself, whoever interrupts it or looks at it, but for the last sector of a SCSI
\* drive trimmed to the end of the disk
\* (wipedrive.c doTrimWipe, doATAWipe, doStatus).
THEOREM ReportedErased == Spec => []ReportedIsErased
<1> DEFINE RInv == AllReported /\ \A p \in Procs : WholeReported(p)
<1>1. Init => RInv
  <2> SUFFICES ASSUME Init, NEW p \in Procs PROVE Reported(p) /\ WholeReported(p)
    BY DEF AllReported
  <2>1. proc[p].pc = "start" /\ proc[p].said = "nothing"
    BY DEF Init, NewProc
  <2> QED  BY <2>1 DEF Reported, Quiet, Trimmed, Followed, WholeReported, At, AtaPlaces
<1>2. IInv /\ RInv /\ [Next]_vars => RInv'
  <2> SUFFICES ASSUME IInv, RInv, [Next]_vars, NEW p \in Procs PROVE Reported(p)' /\ WholeReported(p)'
    BY DEF AllReported
  <2> QED  BY ReportedStep DEF IInv
<1>3. RInv => ReportedIsErased
  BY DEF WholeReported, ReportedIsErased, Erased
<1> HIDE DEF RInv
<1> QED  BY <1>1, <1>2, <1>3, Invariance, PTL DEF Spec
=============================================================================
