-------------------------------- MODULE Erasure --------------------------------
(***************************************************************************)
(* The commands of libdrive that erase sectors of a drive, as the drive    *)
(* sees them: TRIM and SCT WRITE SAME (src/libdrive/ata.c), UNMAP and      *)
(* WRITE SAME(16) (src/libdrive/scsi.c).                                   *)
(*                                                                         *)
(* A sector is a number below Capacity; media[s] is who has it erased.     *)
(* The tools count fewer on a SCSI drive: libdrive takes the address of    *)
(* its last sector for the number of them.                                 *)
(* The widths the code is written with are constants: an entry of a TRIM   *)
(* page has 16 bits for its length, a page 63 entries, a byte of a CDB 256 *)
(* values, a length 2^64.  What a drive does with a command is external.   *)
(***************************************************************************)
EXTENDS Integers, FiniteSets

CONSTANTS
  Procs,        \* the processes that open the drive
  Capacity,     \* the sectors of the drive
  EntryMax,     \* the longest range of an entry of a TRIM page
  PageLength,   \* the entries of a TRIM page
  UnmapMax,     \* maxUnmapLBACount, which a drive that supports UNMAP has
  ByteValues,   \* the values of a byte
  WordValues    \* the values of an unsigned length

ASSUME ErasureAssumption ==
  /\ Capacity \in Nat \ {0} /\ EntryMax \in Nat \ {0} /\ PageLength \in Nat \ {0}
  /\ UnmapMax \in Nat \ {0} /\ ByteValues \in Nat \ {0} /\ WordValues \in Nat \ {0}
  /\ Procs # {}

VARIABLES
  media,        \* media[s]: the processes whose commands have erased sector s
  sct           \* the wipe in the background of an ATA drive: [st, pos, end, by]

erasureVars == <<media, sct>>

Disk == 0 .. Capacity - 1
Sectors(pos, len) == pos .. pos + len - 1
OnDisk(S) == S \subseteq Disk
Lesser(a, b) == IF a < b THEN a ELSE b

Erase(p, S) == media' = [s \in Disk |-> IF s \in S THEN media[s] \cup {p} ELSE media[s]]

\* What identifying the drive stores as LBACount: the number of sectors an ATA drive
\* tells, the last address that READ CAPACITY(16) tells.
LBACount(proto) == IF proto = "ATA" THEN Capacity ELSE Capacity - 1

\* A length of 0 means to the end of the disk, where whoever computes it thinks that is,
\* and wraps if the start is past it.
Length(end, start, count) ==
  IF count # 0 THEN count
  ELSE IF start <= end THEN end - start ELSE (end - start) % WordValues

\* A TRIM or UNMAP from start, computed by libdrive, and a WRITE SAME, by the drive.
TrimLength(proto, start, count) == Length(LBACount(proto), start, count)
WriteLength(start, count) == Length(Capacity, start, count)

-----------------------------------------------------------------------------
(* TRIM of an ATA drive: pages of entries, all sent from one buffer.       *)

EmptyPage == [k \in 1..PageLength |-> [pos |-> 0, len |-> 0]]
EntryPos(pos, k) == pos + (k - 1) * EntryMax

\* Mutant: every entry has the full length.
FilledPageLong(page, pos, len) ==
  [k \in 1..PageLength |->
     IF (k - 1) * EntryMax < len THEN [pos |-> EntryPos(pos, k), len |-> EntryMax] ELSE page[k]]

\* Mutant: the position does not move on with the entries.
FilledPageStuck(page, pos, len) ==
  [k \in 1..PageLength |->
     IF (k - 1) * EntryMax < len
     THEN [pos |-> pos, len |-> Lesser(len - (k - 1) * EntryMax, EntryMax)]
     ELSE page[k]]

\* The entries for what is left; those behind keep what the page before had in them.
FilledPage(page, pos, len) ==
  [k \in 1..PageLength |->
     IF (k - 1) * EntryMax < len
     THEN [pos |-> EntryPos(pos, k), len |-> Lesser(len - (k - 1) * EntryMax, EntryMax)]
     ELSE page[k]]

PageSectors(page) == UNION {Sectors(page[k].pos, page[k].len) : k \in 1..PageLength}

\* What a command covers and how far the loop has come with it.
TrimStep(proto) == IF proto = "ATA" THEN PageLength * EntryMax ELSE UnmapMax
TrimSectors(proto, page, pos, len) ==
  IF proto = "ATA" THEN PageSectors(FilledPage(page, pos, len))
  ELSE Sectors(pos, Lesser(len, UnmapMax))

TrimLeft(proto, len) == IF len <= TrimStep(proto) THEN 0 ELSE len - TrimStep(proto)

-----------------------------------------------------------------------------
(* WRITE SAME.                                                             *)

Byte(n, i) == (n \div ByteValues ^ i) % ByteValues

\* The four bytes of the count are put into bytes 10, 12, 13 and 14 of the CDB; the drive
\* reads the number of blocks from bytes 10 to 13, and 0 as up to the last.
BlocksInCDB(count) ==
  Byte(count, 3) * ByteValues ^ 3 + Byte(count, 2) * ByteValues + Byte(count, 1)
WriteSame16Sectors(start, count) ==
  Sectors(start, WriteLength(start, BlocksInCDB(count)))

\* SCT WRITE SAME: the drive goes on with it when the command has returned.
Running == sct.st = "running"
CanWrite(start, count) ==
  ~Running /\ start < Capacity /\ start + WriteLength(start, count) <= Capacity
SctWriteSame(p, start, count) ==
  /\ CanWrite(start, count)
  /\ sct' = [st |-> "running", pos |-> start, end |-> start + WriteLength(start, count),
             by |-> p]

Interrupted == IF Running THEN [sct EXCEPT !.st = "interrupted"] ELSE sct

DriveWorks ==
  /\ Running
  /\ IF sct.pos < sct.end
     THEN Erase(sct.by, {sct.pos}) /\ sct' = [sct EXCEPT !.pos = @ + 1]
     ELSE sct' = [sct EXCEPT !.st = "completed"] /\ UNCHANGED media

\* For another reason.
DriveStops == Running /\ sct' = [sct EXCEPT !.st = "other"] /\ UNCHANGED media

ErasureInit ==
  /\ media = [s \in Disk |-> {}]
  /\ sct = [st |-> "completed", pos |-> 0, end |-> 0, by |-> CHOOSE p \in Procs : TRUE]

ErasureTypeOK ==
  /\ media \in [Disk -> SUBSET Procs]
  /\ sct \in [st : {"running", "completed", "interrupted", "other"},
              pos : 0..Capacity, end : 0..Capacity, by : Procs]
=============================================================================
