--------------------------------- MODULE Health --------------------------------
(***************************************************************************)
(* What disk-test makes of the health of the drives (Evaluator.py), as     *)
(* their reports come from libdrive (Drive of libdrive.py), with the fault *)
(* lights of the ports.                                                    *)
(*                                                                         *)
(* The drives are scanned again and again, in any order; a scan may leave  *)
(* out attributes it gave before.  The answers of the drives and of Plato  *)
(* are not ours.                                                           *)
(***************************************************************************)
EXTENDS Integers

CONSTANTS
  Machines,      \* sets of drives, each a name, a model, a protocol and a port
  Attributes,    \* ids of SMART attributes
  RawValues,
  MaxScans

ASSUME HealthAssumption ==
  RawValues \subseteq Int /\ MaxScans \in Nat

VARIABLES
  machine, reports,  \* reports: whether Plato is told and asked
  initial,           \* the attributes each drive gave in the first scan
  goodList, badReasons,
  lights,            \* the drives whose fault light is on
  plato,             \* the drives that Plato knows to be bad
  pending,           \* the drives of the scan that are to come
  step, scans,
  first, latest      \* what the drives really gave

healthVars == <<machine, reports, initial, goodList, badReasons, lights, plato, pending, step, scans, first, latest>>

-----------------------------------------------------------------------------
(* The tables: of an attribute the highest good value, and the highest     *)
(* growth since the first scan.                                            *)

Rate(id, limit, growth) == [id |-> id, limit |-> limit, growth |-> growth]
Both(ids, limit, growth) == {Rate(a, limit, growth) : a \in ids}
Usual == {Rate(193, 400000, 60), Rate(194, 45, 30), Rate(197, 2, 2)}
OfDisks == Usual \cup Both({5, 196, 198}, 10, 5) \cup {Rate(10, 1, 1)}

SMARTAttribs ==
  [Seagate |-> Usual \cup {Rate(10, 5, 1), Rate(184, 2, 1), Rate(198, 15, 10)},
   WesternDigital |-> OfDisks \cup Both({1, 7}, 1000, 500) \cup {Rate(11, 1, 1), Rate(200, 15, 10)},
   Hitachi |-> OfDisks,
   SATADOM |-> {Rate(198, 20, 0)},
   Unknown |-> OfDisks \cup Both({1, 7, 195, 201}, 2000, 1000) \cup Both({184, 188}, 2, 1) \cup Both({221, 223}, 10, 5)
                 \cup {Rate(11, 1, 1), Rate(200, 15, 10), Rate(225, 300000, 40)}]

\* What getType makes of the start of a model.  There is no table for the types
\* of Samsung and of Intel.
Beginnings == [st |-> "Seagate", wd |-> "WesternDigital", hd |-> "Samsung", samsung |-> "Samsung",
               hu |-> "Hitachi", hitachi |-> "Hitachi", intelssd |-> "IntelSSD", satadom |-> "SATADOM"]
TypeOf(drive) == IF drive.model \in DOMAIN Beginnings THEN Beginnings[drive.model] ELSE "Unknown"

-----------------------------------------------------------------------------
(* The reports of the drives.                                              *)

Readings(drive) ==
  IF drive.protocol = "NVME" THEN {<<>>}
  ELSE UNION {[given -> RawValues] : given \in SUBSET Attributes}

\* The attributes of a SCSI drive are numbers, not tuples that have a raw value.
Readable(drive, reading) == drive.protocol = "SCSI" => reading = <<>>

\* In what MegaCli says of the state of a member, bytes are looked for text.
MemberStateTold(drive) == drive.port # "MegaRAID"

\* The status, the last selftest, the attributes and the log, and the state of a
\* member: if one of them fails there is no report.
ReportingStatus(drive) == Readings(drive) # {} /\ MemberStateTold(drive)

Worn(drive, before, reading) ==
  \E rate \in SMARTAttribs[TypeOf(drive)] :
    /\ rate.id \in DOMAIN reading
    /\ \/ reading[rate.id] > rate.limit
       \/ rate.id \in DOMAIN before /\ reading[rate.id] - before[rate.id] > rate.growth

\* What is known of a drive is kept, or made anew.
FirstKnown(known, drive, reading) ==
  [d \in DOMAIN known \cup {drive} |-> IF d \in DOMAIN known THEN known[d] ELSE reading]
LastKnown(known, drive, reading) ==
  [d \in DOMAIN known \cup {drive} |-> IF d = drive THEN reading ELSE known[d]]

\* Mutant: the latest scan is kept for the first.
KeptAnew(drive, reading) == LastKnown(initial, drive, reading)

Kept(drive, reading) == FirstKnown(initial, drive, reading)

-----------------------------------------------------------------------------

HasLight(drive) == drive.port = "SASslot"
Unlit(drive) == IF HasLight(drive) THEN lights \ {drive} ELSE lights

HealthInit ==
  /\ machine \in Machines /\ reports \in BOOLEAN
  /\ lights \in SUBSET {d \in machine : HasLight(d)}
  /\ initial = <<>> /\ first = <<>> /\ latest = <<>>
  /\ goodList = {} /\ badReasons = {} /\ plato = {}
  /\ pending = machine /\ step = "off" /\ scans = 0

\* DriveManager takes the faults away, port by port; for a port of a MegaRAID
\* setMegaRAIDFault asks its number for its enclosure.
ClearFault ==
  /\ step = "off"
  /\ \E drive \in pending :
       /\ step' = IF drive.port = "MegaRAID" THEN "died" ELSE step
       /\ lights' = Unlit(drive)
       /\ pending' = pending \ {drive}
  /\ UNCHANGED <<machine, reports, initial, goodList, badReasons, plato, scans, first, latest>>

\* A drive that gives no information is not tested.
Begin ==
  /\ step = "off" /\ pending = {}
  /\ goodList' \in SUBSET machine
  /\ step' = "idle"
  /\ UNCHANGED <<machine, reports, initial, badReasons, lights, plato, pending, scans, first, latest>>

\* evaluate_all, over a copy of the list.
EvaluateAll ==
  /\ step = "idle" /\ scans < MaxScans
  /\ step' = "scan" /\ pending' = goodList /\ scans' = scans + 1
  /\ UNCHANGED <<machine, reports, initial, goodList, badReasons, lights, plato, first, latest>>

\* prune: off the list and the light on.
PruneDrive(drive) ==
  /\ goodList' = goodList \ {drive}
  /\ badReasons' = badReasons \cup {drive}
  /\ lights' = IF HasLight(drive) THEN lights \cup {drive} ELSE lights

Stays == UNCHANGED <<goodList, badReasons, lights, step>>

\* The drive does not answer, or not as it should.  It is pruned, then reported,
\* which may fail.
EvaluateDumb ==
  /\ step = "scan"
  /\ \E drive \in pending :
       /\ PruneDrive(drive)
       /\ \/ UNCHANGED step /\ plato' = IF reports THEN plato \cup {drive} ELSE plato
          \/ reports /\ step' = "died" /\ UNCHANGED plato
       /\ pending' = pending \ {drive}
  /\ UNCHANGED <<machine, reports, initial, scans, first, latest>>

\* LocalEvaluator: by our table.
Evaluate ==
  /\ step = "scan" /\ ~reports
  /\ \E drive \in pending : \E reading \in Readings(drive) :
       /\ Readable(drive, reading)
       /\ initial' = Kept(drive, reading)
       /\ first' = FirstKnown(first, drive, reading) /\ latest' = LastKnown(latest, drive, reading)
       /\ IF TypeOf(drive) \notin DOMAIN SMARTAttribs /\ reading # <<>>
            THEN step' = "died" /\ UNCHANGED <<goodList, badReasons, lights>>
          ELSE IF reading # <<>> /\ Worn(drive, initial'[drive], reading)
            THEN PruneDrive(drive) /\ UNCHANGED step
          ELSE Stays
       /\ pending' = pending \ {drive}
  /\ UNCHANGED <<machine, reports, plato, scans>>

\* ReportEvaluator: Plato is told, and says what it makes of it.
EvaluateByPlato ==
  /\ step = "scan" /\ reports
  /\ \E drive \in pending :
       /\ ReportingStatus(drive)
       /\ \/ Stays /\ UNCHANGED plato
          \/ PruneDrive(drive) /\ plato' = plato \cup {drive} /\ UNCHANGED step
          \/ step' = "died" /\ UNCHANGED <<goodList, badReasons, lights, plato>>
       /\ pending' = pending \ {drive}
  /\ UNCHANGED <<machine, reports, initial, scans, first, latest>>

Scanned ==
  /\ step = "scan" /\ pending = {}
  /\ step' = "idle"
  /\ UNCHANGED <<machine, reports, initial, goodList, badReasons, lights, plato, pending, scans, first, latest>>

HealthNext == ClearFault \/ Begin \/ EvaluateAll \/ EvaluateDumb \/ Evaluate \/ EvaluateByPlato \/ Scanned

-----------------------------------------------------------------------------

Within(drive) ==
  \A rate \in SMARTAttribs[TypeOf(drive)] :
    rate.id \in DOMAIN latest[drive] =>
      /\ latest[drive][rate.id] <= rate.limit
      /\ rate.id \in DOMAIN first[drive] => latest[drive][rate.id] <= first[drive][rate.id] + rate.growth

\* However the counters of a drive crept up over the scans, it stays in the test
\* only while each is below its limit and has grown, since the first scan ever, by
\* no more than it may; the fault light is on at the bad drives and at no other,
\* whatever an earlier test left; and Plato knows of every drive taken out.
HealthIsTold ==
  step \in {"idle", "scan"} =>
    /\ ~reports => \A drive \in goodList \cap DOMAIN latest : TypeOf(drive) \in DOMAIN SMARTAttribs => Within(drive)
    /\ lights = {d \in badReasons : HasLight(d)}
    /\ reports => badReasons = plato
    /\ badReasons \cap goodList = {}
=============================================================================
