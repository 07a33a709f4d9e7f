------------------------------- MODULE WipeDrive -------------------------------
(***************************************************************************)
(* wipedrive (src/libdrive/wipedrive.c): processes that erase one drive,   *)
(* look at its wipe or cancel it, each started with its own options.       *)
(*                                                                         *)
(* A SCSI drive erases in the command, chunk after chunk.  An ATA drive    *)
(* goes on by itself when SCT WRITE SAME has returned: wipedrive polls it, *)
(* a signal makes it cancel, and whatever else talks to the drive may have *)
(* stopped the wipe by the next poll.                                      *)
(***************************************************************************)
EXTENDS Erasure

CONSTANTS
  Drives,       \* what the drive may be: [proto, trim, ws, sct, smart, phys]
  Jobs          \* Jobs[p]: the options p may be started with

VARIABLES
  drive,
  job,
  proc          \* [pc, cont, cur, chunk, pos, len, page, said, rc]

ASSUME DrivesAssumption ==
  Drives \subseteq [proto : {"ATA", "SCSI"}, trim : BOOLEAN, ws : BOOLEAN, sct : BOOLEAN,
                    smart : BOOLEAN, phys : Nat \ {0}]

JobType ==
  [op : {"wipe", "check", "status", "cancel"}, start : Nat, count : Nat, chunk : Nat,
   trim : BOOLEAN, zero : BOOLEAN, wait : BOOLEAN]
ASSUME JobsAssumption == Jobs \in [Procs -> SUBSET JobType]

vars == <<media, sct, drive, job, proc>>

Ask(start, count) ==
  [op |-> "wipe", start |-> start, count |-> count, chunk |-> 0,
   trim |-> FALSE, zero |-> FALSE, wait |-> TRUE]

GENERAL_ERROR == 1
StatusPlaces == {"check", "cancel", "canceled", "final", "status"}
AtaPlaces == {"check", "send", "poll", "cancel", "smart", "canceled", "final"}
Places == AtaPlaces \cup {"start", "main", "trim", "trimming", "scsi", "retry", "status",
                          "ended", "killed"}
Over(p) == proc[p].pc \in {"ended", "killed"}

At(p, place) == proc[p].pc = place
Go(p, place) == proc' = [proc EXCEPT ![p].pc = place]
Exit(p, code) == proc' = [proc EXCEPT ![p].pc = "ended", ![p].rc = code]
Fails(p) == Exit(p, 1) /\ UNCHANGED erasureVars

\* Asked to look only, openDisk() does not identify the drive: nothing is known of it.
Ident(p) == job[p].op \in {"wipe", "check"}
UsesTrim(p) == job[p].trim \/ (job[p].zero /\ Ident(p) /\ drive.trim)
End(p) == IF job[p].count = 0 THEN LBACount(drive.proto) ELSE job[p].start + job[p].count

\* Identifying an ATA drive cancels its wipe.
Open(p) ==
  /\ At(p, "start")
  /\ Go(p, "main")
  /\ sct' = IF Ident(p) THEN Interrupted ELSE sct
  /\ UNCHANGED media

Supported(p) == IF UsesTrim(p) THEN drive.trim ELSE drive.ws
Misaligned(p) ==
  \E n \in {job[p].start, job[p].count, job[p].chunk} : n % drive.phys # 0
Refused(p) ==
  \/ UsesTrim(p) /\ Misaligned(p)
  \/ ~UsesTrim(p) /\ Ident(p) /\ ~drive.ws /\ ~drive.sct
  \/ ~Ident(p) /\ drive.proto # "ATA"
  \/ job[p].op = "wipe" /\ ~job[p].wait /\ (UsesTrim(p) \/ drive.proto # "ATA")

First(p) ==
  CASE job[p].op = "cancel" -> "cancel"
    [] job[p].op = "status" -> "status"
    [] job[p].op = "wipe" /\ UsesTrim(p) -> "trim"
    [] job[p].op = "wipe" /\ ~UsesTrim(p) /\ drive.proto = "ATA" -> "check"
    [] OTHER -> "scsi"

\* Without an identity the physical sectors have size 0, which the alignment divides by.
Crashes(p) == ~Ident(p) /\ job[p].trim

Main(p) ==
  /\ At(p, "main")
  /\ UNCHANGED erasureVars
  /\ \/ job[p].op = "check" /\ Exit(p, IF Supported(p) THEN 0 ELSE 1)
     \/ Crashes(p) /\ Go(p, "killed")
     \/ /\ job[p].op # "check" /\ ~Crashes(p)
        /\ IF Refused(p) THEN Exit(p, 1) ELSE Go(p, First(p))

-----------------------------------------------------------------------------
(* doTrimWipe                                                              *)

StartTrim(p, pos, len, chunk) ==
  proc' = [proc EXCEPT ![p].pc = "trimming", ![p].pos = pos, ![p].len = len,
                       ![p].chunk = chunk, ![p].page = EmptyPage]

NextTrim(p) ==
  /\ At(p, "trim")
  /\ UNCHANGED erasureVars
  /\ IF job[p].chunk = 0
     THEN StartTrim(p, job[p].start, TrimLength(drive.proto, job[p].start, job[p].count), 0)
     ELSE IF proc[p].cur < End(p)
     THEN LET chunk == Lesser(proc[p].chunk, End(p) - proc[p].cur) IN
          StartTrim(p, proc[p].cur, chunk, chunk)
     ELSE Exit(p, 0)

Covered(p) == TrimSectors(drive.proto, proc[p].page, proc[p].pos, proc[p].len)
SendTrim(p) ==
  /\ At(p, "trimming") /\ drive.trim /\ proc[p].len # 0 /\ OnDisk(Covered(p))
  /\ Erase(p, Covered(p))
  /\ proc' = [proc EXCEPT ![p].page = IF drive.proto = "ATA"
                                      THEN FilledPage(@, proc[p].pos, proc[p].len) ELSE @,
                          ![p].pos = @ + TrimStep(drive.proto),
                          ![p].len = TrimLeft(drive.proto, @)]
  /\ UNCHANGED sct

TrimRefused(p) ==
  /\ At(p, "trimming")
  /\ ~drive.trim \/ (proc[p].len # 0 /\ ~OnDisk(Covered(p)))
  /\ Fails(p)

TrimReturns(p) ==
  /\ At(p, "trimming") /\ drive.trim /\ proc[p].len = 0
  /\ UNCHANGED erasureVars
  /\ IF job[p].chunk = 0 THEN Exit(p, 0)
     ELSE proc' = [proc EXCEPT ![p].pc = "trim", ![p].cur = @ + proc[p].chunk]

-----------------------------------------------------------------------------
(* doSCSIWipe                                                              *)

LastChunk(p) == proc[p].cur + job[p].chunk > End(p)
NextChunk(p) == proc' = [proc EXCEPT ![p].pc = "scsi", ![p].cur = @ + job[p].chunk]
HasChunk(p) == At(p, "scsi") /\ (job[p].chunk # 0 => proc[p].cur < End(p))

\* The sectors of the command at hand, as the drive understands it.
Written(p) ==
  IF job[p].chunk = 0 THEN WriteSame16Sectors(job[p].start, job[p].count)
  ELSE IF At(p, "scsi") /\ LastChunk(p)
  THEN WriteSame16Sectors(proc[p].cur, End(p) - proc[p].cur)
  ELSE WriteSame16Sectors(proc[p].cur, job[p].chunk)

WriteChunk(p) ==
  /\ HasChunk(p) \/ At(p, "retry")
  /\ OnDisk(Written(p))
  /\ Erase(p, Written(p))
  /\ UNCHANGED sct
  /\ IF job[p].chunk = 0 THEN Exit(p, 0) ELSE NextChunk(p)

\* The last one that fails is tried at full length if it ends where the disk does.
ChunkFails(p) ==
  /\ HasChunk(p)
  /\ UNCHANGED erasureVars
  /\ IF job[p].chunk # 0 /\ LastChunk(p) /\ End(p) = LBACount(drive.proto)
     THEN Go(p, "retry") ELSE Exit(p, 1)

ChunkRefused(p) == HasChunk(p) /\ ~OnDisk(Written(p)) /\ ChunkFails(p)
RetryRefused(p) == At(p, "retry") /\ ~OnDisk(Written(p)) /\ Fails(p)

ChunksEnd(p) ==
  /\ At(p, "scsi") /\ job[p].chunk # 0 /\ proc[p].cur >= End(p)
  /\ Exit(p, 0)
  /\ UNCHANGED erasureVars

-----------------------------------------------------------------------------
(* doATAWipe, doCancel, doStatus                                           *)

\* wirteSameStatus() needs SCT, which is taken for granted without an identity.
HasSCT(p) == drive.sct \/ ~Ident(p)

Check(p) ==
  /\ At(p, "check")
  /\ UNCHANGED erasureVars
  /\ IF HasSCT(p) /\ ~Running THEN Go(p, "send") ELSE Exit(p, 1)

Send(p) ==
  /\ At(p, "send") /\ drive.ws
  /\ SctWriteSame(p, job[p].start, job[p].count)
  /\ UNCHANGED media
  /\ IF job[p].wait THEN Go(p, "poll") ELSE Exit(p, 0)

SendRefused(p) ==
  /\ At(p, "send")
  /\ ~drive.ws \/ ~CanWrite(job[p].start, job[p].count)
  /\ Fails(p)

\* Mutant: a signal ends the loop and the wipe is left to itself.
PollLeaves(p) ==
  /\ At(p, "poll")
  /\ UNCHANGED erasureVars
  /\ Go(p, IF proc[p].cont /\ Running THEN "poll" ELSE "final")

\* Mutant: the loop waits for the wipe to be completed.
PollUntilDone(p) ==
  /\ At(p, "poll")
  /\ UNCHANGED erasureVars
  /\ Go(p, IF ~proc[p].cont THEN "cancel" ELSE IF sct.st # "completed" THEN "poll" ELSE "final")

Poll(p) ==
  /\ At(p, "poll")
  /\ UNCHANGED erasureVars
  /\ Go(p, IF ~proc[p].cont THEN "cancel" ELSE IF Running THEN "poll" ELSE "final")

Canceled(p) == IF job[p].op = "cancel" THEN Exit(p, 0) ELSE Go(p, "final")

Cancel(p) ==
  /\ At(p, "cancel")
  /\ UNCHANGED erasureVars
  /\ IF Running THEN Go(p, "smart") ELSE Canceled(p)

\* smartStatus() fails on a drive that is not known to have SMART enabled.
Smart(p) ==
  /\ At(p, "smart")
  /\ UNCHANGED media
  /\ IF Ident(p) /\ drive.smart
     THEN sct' = Interrupted /\ Go(p, "canceled")
     ELSE UNCHANGED sct /\ Exit(p, 1)

CancelReturns(p) == At(p, "canceled") /\ Canceled(p) /\ UNCHANGED erasureVars

\* The last status is shown, and makes no difference to the exit code.
Final(p) ==
  /\ proc[p].pc \in {"final", "status"}
  /\ proc' = [proc EXCEPT ![p].pc = "ended", ![p].rc = 0, ![p].said = sct.st]
  /\ UNCHANGED erasureVars

\* A command that fails though the drive could do it.
CommandFails(p) ==
  /\ \/ proc[p].pc \in {"start", "retry", "send", "smart"} \cup StatusPlaces
     \/ At(p, "trimming") /\ proc[p].len # 0
     \/ At(p, "poll") /\ proc[p].cont
  /\ Fails(p)

\* INT, HUP, ALRM or TERM while doATAWipe() is at work.
Signal(p) ==
  /\ proc[p].pc \in AtaPlaces /\ job[p].op = "wipe" /\ proc[p].cont
  /\ proc' = [proc EXCEPT ![p].cont = FALSE]
  /\ UNCHANGED erasureVars

\* A signal anywhere else, or KILL.
Kill(p) == ~Over(p) /\ Go(p, "killed") /\ UNCHANGED erasureVars

-----------------------------------------------------------------------------
NewProc(p) ==
  [pc |-> "start", cont |-> TRUE, cur |-> job[p].start, chunk |-> job[p].chunk,
   pos |-> 0, len |-> 0, page |-> EmptyPage, said |-> "nothing", rc |-> -1]

Init ==
  /\ ErasureInit
  /\ drive \in Drives
  /\ job \in {j \in [Procs -> UNION {Jobs[p] : p \in Procs}] : \A p \in Procs : j[p] \in Jobs[p]}
  /\ proc = [p \in Procs |-> NewProc(p)]

Step(p) ==
  \/ Open(p) \/ Main(p)
  \/ NextTrim(p) \/ SendTrim(p) \/ TrimRefused(p) \/ TrimReturns(p)
  \/ WriteChunk(p) \/ ChunkRefused(p) \/ RetryRefused(p) \/ ChunksEnd(p)
  \/ Check(p) \/ Send(p) \/ SendRefused(p) \/ Poll(p)
  \/ Cancel(p) \/ Smart(p) \/ CancelReturns(p) \/ Final(p)

Disturbed(p) == CommandFails(p) \/ ChunkFails(p) \/ Signal(p) \/ Kill(p)

Next ==
  /\ \/ \E p \in Procs : Step(p) \/ Disturbed(p)
     \/ (DriveWorks \/ DriveStops) /\ UNCHANGED proc
  /\ UNCHANGED <<drive, job>>

\* wipedrive is scheduled, and a drive that has begun a wipe goes on with it.  Neither a
\* failure nor a signal is owed to anybody.
Spec ==
  /\ Init /\ [][Next]_vars
  /\ \A p \in Procs : WF_vars(Step(p) /\ UNCHANGED <<drive, job>>)
  /\ WF_vars(DriveWorks /\ UNCHANGED <<drive, job, proc>>)

-----------------------------------------------------------------------------
TypeOK ==
  /\ ErasureTypeOK
  /\ drive \in Drives
  /\ job \in [Procs -> JobType]
  /\ proc \in [Procs -> [pc : Places, cont : BOOLEAN, cur : Nat, chunk : Nat, pos : Nat,
                         len : Nat, page : [1..PageLength -> [pos : Nat, len : Nat]],
                         said : {"nothing", "running", "completed", "interrupted", "other"},
                         rc : {-1, 0, 1}]]
  /\ \A p \in Procs :
       /\ Over(p) \/ proc[p].rc = -1
       /\ proc[p].pc \in AtaPlaces \cup {"status"} => drive.proto = "ATA"

\* The sectors a process is asked to erase, with a count of 0 those to the end of the
\* disk, and those of them libdrive knows: all but the last of a SCSI drive.
Asked(p) == {s \in Disk : s >= job[p].start /\ (job[p].count = 0 \/ s < job[p].start + job[p].count)}
Known(p) == {s \in Asked(p) : job[p].count = 0 => s < LBACount(drive.proto)}

WritesScsi(p) == job[p].op = "wipe" /\ ~UsesTrim(p) /\ drive.proto = "SCSI"
Inside(p) == \A s \in Disk : p \in media[s] => s \in Asked(p)

\* Whatever a process is stopped by, it has erased no sector it was not asked for: pages
\* with what the page before left in them, the last chunk and the last entry included
\* (wipedrive.c doTrimWipe, doATAWipe; ata.c and scsi.c CMD_TRIM).
StaysInside == \A p \in Procs : WritesScsi(p) \/ Inside(p)

\* Exit 0 of a trim, and "Wipe is completed." of a write that nobody has begun another
\* one after, are only said when every sector that was asked for is erased, but for the
\* last of a SCSI drive trimmed to the end of the disk (wipedrive.c doTrimWipe,
\* doATAWipe, doStatus).
ReportedIsErased ==
  \A p \in Procs :
    /\ At(p, "ended") /\ job[p].op = "wipe" /\ proc[p].rc = 0
    /\ UsesTrim(p) \/ (proc[p].said = "completed" /\ sct.by = p)
    => \A s \in Known(p) : p \in media[s]

\* A process that has waited and exits with 0, by itself or because of a signal, does
\* not leave its wipe running in the drive (wipedrive.c doATAWipe, doCancel).
ZeroIsStopped ==
  \A p \in Procs :
    At(p, "ended") /\ job[p].op = "wipe" /\ job[p].wait /\ proc[p].rc = 0
      => ~(Running /\ sct.by = p)

\* "-o, --count  Number of LBAs": a drive loses no sector but these
\* (wipedrive.c usage_txt; scsi.c CMD_SCSI_WRITESAME).
CountIsKept == \A p \in Procs : Inside(p)

\* Every process comes to its end, its chunks and its polling included (wipedrive.c main).
WipeEnds == \A p \in Procs : <>Over(p)
=============================================================================
