------------------------------- MODULE LibraryProofs -------------------------------
(***************************************************************************)
(* What is proved of eight of the libraries, each by itself, for all       *)
(* values of their constants.                                              *)
(*                                                                         *)
(* Every part below has the inductive invariant of its library, the lemmas *)
(* about the sequences and sets it works on, one lemma for its steps, and  *)
(* the theorem.  A library runs to its end in calls of the program, so the *)
(* specifications here have no fairness.                                   *)
(***************************************************************************)
EXTENDS CInP, Bios, Health, Inventory, Handlers, Drives, Templates, NewSystem, SequenceTheorems,
        FiniteSetTheorems, TLAPS

-----------------------------------------------------------------------------
(* Health.                                                                 *)

\* What the evaluator remembers of the first scan is what the drive gave in it,
\* and whatever a drive gave is a number.
Remembered ==
  /\ initial = first /\ DOMAIN latest = DOMAIN first
  /\ step = "off" => DOMAIN latest = {}
  /\ \A drive \in DOMAIN first : \A a \in DOMAIN first[drive] : first[drive][a] \in Int
  /\ \A drive \in DOMAIN latest : \A a \in DOMAIN latest[drive] : latest[drive][a] \in Int

\* The lights that are left, while DriveManager takes them away, are at ports that
\* are still to come.
Lit ==
  /\ step = "off" => badReasons = {} /\ \A drive \in lights : HasLight(drive) /\ drive \in pending
  /\ step \in {"idle", "scan"} => lights = {drive \in badReasons : HasLight(drive)}

StillWithin ==
  ~reports => \A drive \in goodList \cap DOMAIN latest : TypeOf(drive) \in DOMAIN SMARTAttribs => Within(drive)

\* Plato is told of a drive after it is taken out: it is behind where that failed.
Told == step # "died" /\ reports => badReasons = plato

HealthInv == Remembered /\ Lit /\ StillWithin /\ Told /\ badReasons \cap goodList = {}

\* The limits of every table are numbers.
LEMMA RatesAreNumbers ==
  ASSUME NEW type \in DOMAIN SMARTAttribs, NEW rate \in SMARTAttribs[type]
  PROVE  rate.limit \in Int /\ rate.growth \in Int
<1> DEFINE Fine(table) == \A r \in table : r.limit \in Int /\ r.growth \in Int
<1>1. \A id : \A l, g \in Int : Fine({Rate(id, l, g)})
  BY DEF Rate
<1>2. \A ids : \A l, g \in Int : Fine(Both(ids, l, g))
  BY DEF Both, Rate
<1>3. Fine(Usual)
  BY DEF Usual, Rate
<1>4. Fine(OfDisks)
  BY <1>1, <1>2, <1>3 DEF OfDisks
<1> QED
  BY <1>1, <1>2, <1>3, <1>4 DEF SMARTAttribs, Rate

\* What a drive reads is a number at every attribute.
LEMMA ReadingsAreNumbers ==
  ASSUME NEW drive, NEW reading \in Readings(drive)
  PROVE  \A a \in DOMAIN reading : reading[a] \in Int
<1>1. CASE drive.protocol = "NVME"
  BY <1>1 DEF Readings
<1>2. CASE drive.protocol # "NVME"
  <2>1. PICK given \in SUBSET Attributes : reading \in [given -> RawValues]
    BY <1>2 DEF Readings
  <2>2. RawValues \subseteq Int
    BY HealthAssumption
  <2> QED
    BY <2>1, <2>2
<1> QED  BY <1>1, <1>2

\* Every step of the test keeps the invariant.
LEMMA HealthNextStep ==
  ASSUME HealthInv, HealthNext
  PROVE  HealthInv'
<1> USE DEF HealthInv
<1>1. CASE ClearFault
  BY <1>1 DEF ClearFault, Unlit, Remembered, Lit, StillWithin, Within, Told
<1>2. CASE Begin
  <2>1. badReasons' = {} /\ badReasons' \cap goodList' = {}
    BY <1>2 DEF Begin, Lit
  <2>2. lights' = {}
    BY <1>2 DEF Begin, Lit
  <2>3. Lit'
    BY <1>2, <2>1, <2>2 DEF Begin, Lit
  <2>4. StillWithin'
    BY <1>2 DEF Begin, Remembered, StillWithin
  <2> QED
    BY <1>2, <2>1, <2>3, <2>4 DEF Begin, Remembered, Told
<1>3. CASE EvaluateAll
  BY <1>3 DEF EvaluateAll, Remembered, Lit, StillWithin, Within, Told
<1>4. CASE Scanned
  BY <1>4 DEF Scanned, Remembered, Lit, StillWithin, Within, Told
<1>5. CASE EvaluateDumb
  BY <1>5 DEF EvaluateDumb, PruneDrive, Remembered, Lit, StillWithin, Within, Told
<1>6. CASE EvaluateByPlato
  BY <1>6 DEF EvaluateByPlato, PruneDrive, Stays, Remembered, Lit, StillWithin, Within, Told
<1>7. CASE Evaluate
  <2> DEFINE Judged(drive, reading) ==
               /\ initial' = Kept(drive, reading)
               /\ first' = FirstKnown(first, drive, reading) /\ latest' = LastKnown(latest, drive, reading)
               /\ IF TypeOf(drive) \notin DOMAIN SMARTAttribs /\ reading # <<>>
                    THEN step' = "died" /\ UNCHANGED <<goodList, badReasons, lights>>
                  ELSE IF reading # <<>> /\ Worn(drive, initial'[drive], reading)
                    THEN PruneDrive(drive) /\ UNCHANGED step
                  ELSE Stays
  <2>1. PICK drive \in pending : \E reading \in Readings(drive) : Judged(drive, reading)
    BY <1>7 DEF Evaluate
  <2>0. PICK reading \in Readings(drive) : Judged(drive, reading)
    BY <2>1
  <2>2. \A a \in DOMAIN reading : reading[a] \in Int
    BY ReadingsAreNumbers
  <2>3. Remembered'
    BY <1>7, <2>0, <2>2 DEF Evaluate, Remembered, Kept, FirstKnown, LastKnown, PruneDrive, Stays
  <2>4. Lit'
    BY <1>7, <2>0 DEF Evaluate, Lit, PruneDrive, Stays
  <2>5. Told' /\ badReasons' \cap goodList' = {}
    BY <1>7, <2>0 DEF Evaluate, Told, PruneDrive, Stays
  <2>6. goodList' \subseteq goodList
    BY <2>0 DEF PruneDrive, Stays
  <2>7. ASSUME NEW other \in goodList' \cap DOMAIN latest', TypeOf(other) \in DOMAIN SMARTAttribs, other # drive
        PROVE  Within(other)'
    <3>1. other \in DOMAIN latest /\ latest'[other] = latest[other] /\ first'[other] = first[other]
      BY <2>0, <2>7 DEF FirstKnown, LastKnown, Remembered
    <3>2. Within(other)
      BY <1>7, <2>6, <2>7, <3>1 DEF StillWithin, Evaluate
    <3> QED
      BY <3>1, <3>2 DEF Within
  <2>8. ASSUME drive \in goodList', TypeOf(drive) \in DOMAIN SMARTAttribs
        PROVE  Within(drive)'
    <3>1. latest'[drive] = reading /\ initial'[drive] = first'[drive] /\ initial' = first'
      BY <2>0, <2>3 DEF LastKnown, Remembered
    <3>2. reading = <<>> \/ ~Worn(drive, first'[drive], reading)
      BY <2>0, <2>8, <3>1 DEF PruneDrive
    <3>3. \A a \in DOMAIN first'[drive] : first'[drive][a] \in Int
      BY <2>0, <2>3 DEF Remembered, FirstKnown
    <3> QED
      BY <2>2, <2>8, <3>1, <3>2, <3>3, RatesAreNumbers DEF Within, Worn
  <2> QED
    BY <1>7, <2>3, <2>4, <2>5, <2>7, <2>8 DEF StillWithin, Evaluate
<1> QED
  BY <1>1, <1>2, <1>3, <1>4, <1>5, <1>6, <1>7 DEF HealthNext

HealthSpec == HealthInit /\ [][HealthNext]_healthVars

\* Whatever the drives read and Plato answers, a drive stays in the test only while
\* it is within its table, and lights and reports are those of the bad drives.
THEOREM HealthTold == HealthSpec => []HealthIsTold
<1>1. HealthInit => HealthInv
  BY DEF HealthInit, HealthInv, Remembered, Lit, StillWithin, Told
<1>2. HealthInv /\ [HealthNext]_healthVars => HealthInv'
  <2>1. CASE UNCHANGED healthVars
    BY <2>1 DEF healthVars, HealthInv, Remembered, Lit, StillWithin, Told, Within
  <2> QED
    BY <2>1, HealthNextStep
<1>3. HealthInv => HealthIsTold
  BY DEF HealthInv, HealthIsTold, Lit, StillWithin, Told
<1> QED
  BY <1>1, <1>2, <1>3, PTL DEF HealthSpec

-----------------------------------------------------------------------------
(* Bios.                                                                   *)

BiosType ==
  /\ tool \in {"syscfg", "sum1_3", "sum1_5"}
  /\ DOMAIN setting = DOMAIN Wanted /\ DOMAIN flash = DOMAIN Wanted
  /\ nextItem \in Nat \ {0} /\ wasSet \subseteq DOMAIN Wanted

\* What was read in this boot is what the BIOS runs with; the items that were gone
\* through without a change are right.
RightSoFar ==
  /\ bios # "boot" => cache = Unread \/ cache = Known
  /\ bios = "password" => nextItem = 1
  /\ bios \in {"items", "order", "done"} /\ ~changed =>
       \A k \in DOMAIN Items : k < nextItem => setting[Items[k]] = Wanted[Items[k]]
  /\ bios \in {"order", "done"} => ~changed /\ nextItem > Len(Items)
  /\ bios = "done" /\ wantOrder # <<>> => AsWanted(order, wantOrder) = wantOrder

\* The file of SUM has the lines of all the items set in this boot, and no value
\* but the wanted one.
SetSoFar ==
  /\ \A i \in wasSet : flash[i] = Wanted[i]
  /\ tool # "syscfg" =>
       /\ sumSet \subseteq {<<i, Wanted[i]>> : i \in DOMAIN Wanted}
       /\ \A i \in wasSet : <<i, Wanted[i]>> \in sumSet

\* Only the boot that gives up is not counted.
BootCount ==
  /\ boots \in Nat /\ count \in Nat /\ count <= MaxAttempts + 1
  /\ boots = count \/ (bios = "alert" /\ boots = count + 1)

BiosInv == BiosType /\ RightSoFar /\ SetSoFar /\ BootCount

\* What SUM is given makes every item in its file what is wanted.
LEMMA SettingsAreWanted ==
  ASSUME DOMAIN setting = DOMAIN Wanted,
         NEW file \in SUBSET {<<i, Wanted[i]>> : i \in DOMAIN Wanted},
         NEW i \in DOMAIN Wanted, <<i, Wanted[i]>> \in file
  PROVE  Settings(file)[i] = Wanted[i] /\ DOMAIN Settings(file) = DOMAIN Wanted
<1>1. \A v : <<i, v>> \in file => v = Wanted[i]
  OBVIOUS
<1>2. Wanted[i] \in Values
  BY BiosAssumption
<1> QED
  BY <1>1, <1>2 DEF Settings

\* An item that is set, or not, leaves the invariant as it is.
LEMMA ItemStep ==
  ASSUME BiosInv, ItemIsRight \/ ItemIsHidden \/ ItemIsSet \/ ItemFails
  PROVE  BiosInv'
<1> USE DEF BiosInv
<1>1. /\ bios = "items" /\ nextItem <= Len(Items) /\ nextItem' = nextItem + 1 /\ cache' = Current
      /\ UNCHANGED biosFixed
  BY DEF ItemIsRight, ItemIsHidden, ItemIsSet, ItemFails, NextItem
<1>2. nextItem \in DOMAIN Items /\ TheItem \in DOMAIN Wanted /\ TheItem \in DOMAIN setting /\ Len(Items) \in Nat
  BY <1>1, BiosAssumption DEF TheItem, BiosType
<1>3. Current = Known /\ cache' = Known /\ Known' = Known
  BY <1>1 DEF Current, RightSoFar, Known, Visible, biosFixed
<1>4. BootCount'
  BY <1>1, BiosAssumption DEF BootCount, biosFixed
<1>5. CASE ItemIsRight
  <2>1. setting[TheItem] = Wanted[TheItem] /\ UNCHANGED <<bios, flash, changed, sumSet, wasSet>>
    BY <1>3, <1>5 DEF ItemIsRight, NextItem, Known
  <2> QED
    BY <1>1, <1>2, <1>3, <1>4, <2>1 DEF BiosType, RightSoFar, SetSoFar, biosFixed, TheItem
<1>6. CASE ItemIsHidden
  <2>1. bios' = (IF changed THEN "items" ELSE "alert") /\ UNCHANGED <<flash, changed, sumSet, wasSet>>
    BY <1>6 DEF ItemIsHidden, NextItem
  <2> QED
    BY <1>1, <1>2, <1>3, <1>4, <2>1 DEF BiosType, RightSoFar, SetSoFar, biosFixed
<1>7. CASE ItemFails
  <2>1. /\ bios' = (IF changed THEN "items" ELSE "alert") /\ UNCHANGED <<flash, changed, wasSet>>
        /\ sumSet' = IF tool = "syscfg" THEN sumSet ELSE SumFile(TheItem)
    BY <1>7 DEF ItemFails, NextItem
  <2> QED
    BY <1>1, <1>2, <1>3, <1>4, <2>1 DEF BiosType, RightSoFar, SetSoFar, SumFile, biosFixed
<1>8. CASE ItemIsSet
  <2>1. /\ bios' = bios /\ changed' = TRUE /\ wasSet' = wasSet \cup {TheItem}
        /\ IF tool = "syscfg"
             THEN flash' = [flash EXCEPT ![TheItem] = Wanted[TheItem]] /\ UNCHANGED sumSet
             ELSE sumSet' = SumFile(TheItem) /\ flash' = Settings(sumSet')
    BY <1>8 DEF ItemIsSet, NextItem
  <2>2. RightSoFar'
    BY <1>1, <1>2, <1>3, <2>1 DEF RightSoFar, biosFixed
  <2>3. SetSoFar' /\ DOMAIN flash' = DOMAIN Wanted
    <3>1. CASE tool = "syscfg"
      BY <1>1, <1>2, <2>1, <3>1 DEF SetSoFar, BiosType, biosFixed
    <3>2. CASE tool # "syscfg"
      <4>1. /\ sumSet' \in SUBSET {<<i, Wanted[i]>> : i \in DOMAIN Wanted}
            /\ \A i \in wasSet' : <<i, Wanted[i]>> \in sumSet' /\ i \in DOMAIN Wanted
            /\ TheItem \in wasSet'
        BY <1>2, <2>1, <3>2 DEF SetSoFar, SumFile, BiosType
      <4>2. \A i \in wasSet' : Settings(sumSet')[i] = Wanted[i] /\ DOMAIN Settings(sumSet') = DOMAIN Wanted
        BY <4>1, SettingsAreWanted DEF BiosType
      <4> QED
        BY <1>1, <2>1, <3>2, <4>1, <4>2 DEF SetSoFar, biosFixed
    <3> QED  BY <3>1, <3>2
  <2> QED
    BY <1>1, <1>2, <1>4, <2>1, <2>2, <2>3 DEF BiosType, biosFixed
<1> QED
  BY <1>5, <1>6, <1>7, <1>8

\* Every step of bioscfg keeps the invariant.
LEMMA BiosNextStep ==
  ASSUME BiosInv, BiosNext
  PROVE  BiosInv'
<1> USE DEF BiosInv
<1>1. CASE BootUp
  BY <1>1, BiosAssumption DEF BootUp, BiosType, RightSoFar, SetSoFar, BootCount
<1>2. CASE CheckPassword
  <2>1. nextItem = 1 /\ bios = "password" /\ bios' \in {"items", "alert"}
    BY <1>2 DEF CheckPassword, RightSoFar
  <2>2. UNCHANGED <<tool, wantOrder, setting, flash, order, boots, count, nextItem, changed, cache, sumSet, wasSet>>
    BY <1>2 DEF CheckPassword
  <2> QED
    BY <2>1, <2>2, BiosAssumption DEF BiosType, RightSoFar, SetSoFar, BootCount, Known, Visible
<1>3. CASE ItemsDone
  BY <1>3, BiosAssumption DEF ItemsDone, biosFixed, BiosType, RightSoFar, SetSoFar, BootCount, Known, Visible
<1>4. CASE OrderIsRight
  BY <1>4 DEF OrderIsRight, biosFixed, BiosType, RightSoFar, SetSoFar, BootCount, Known, Visible
<1>5. CASE SetOrder \/ OrderFails
  <2>1. bios = "order" /\ bios' \in {"alert", "reboot"}
    BY <1>5 DEF SetOrder, OrderFails
  <2>2. UNCHANGED biosFixed /\ UNCHANGED <<flash, nextItem, changed, cache, sumSet, wasSet>>
    BY <1>5 DEF SetOrder, OrderFails
  <2> QED
    BY <2>1, <2>2 DEF biosFixed, BiosType, RightSoFar, SetSoFar, BootCount, Known, Visible
<1>6. CASE Reboot
  BY <1>6 DEF Reboot, BiosType, RightSoFar, SetSoFar, BootCount
<1> QED
  BY <1>1, <1>2, <1>3, <1>4, <1>5, <1>6, ItemStep DEF BiosNext

BiosSpec == BiosInit /\ [][BiosNext]_biosVars

\* Whatever the BIOS makes of it, bioscfg is done only with the wanted values and an
\* order it takes for the wanted one, a boot keeps all that it set, and the boots with
\* a job of Plato are counted (without one nothing counts them).
THEOREM BiosWanted == BiosSpec => []BiosIsAsWanted
<1>1. BiosInit => BiosInv
  <2> SUFFICES ASSUME BiosInit PROVE BiosInv
    OBVIOUS
  <2>1. BiosType
    BY BiosAssumption DEF BiosInit, BiosType
  <2>2. bios = "boot" /\ wasSet = {} /\ sumSet = {} /\ boots = 0 /\ count = 0
    BY DEF BiosInit
  <2> QED
    BY <2>1, <2>2, BiosAssumption DEF BiosInv, RightSoFar, SetSoFar, BootCount
<1>2. BiosInv /\ [BiosNext]_biosVars => BiosInv'
  <2>1. CASE UNCHANGED biosVars
    BY <2>1 DEF biosVars, BiosInv, BiosType, RightSoFar, SetSoFar, BootCount, Known, Visible
  <2> QED
    BY <2>1, BiosNextStep
<1>3. BiosInv => BiosIsAsWanted
  BY BiosAssumption DEF BiosInv, BiosType, RightSoFar, SetSoFar, BootCount, BiosIsAsWanted, DoneIsAsWanted, RoundIsKept, BootsAreCounted
<1> QED
  BY <1>1, <1>2, <1>3, PTL DEF BiosSpec
-----------------------------------------------------------------------------
(* CInP: a request and its retries.                                        *)

\* A request that was not tried yet has done nothing; what was refused was never
\* sent, and what returned was.
RequestInv ==
  /\ tries \in Nat /\ executed \in Nat /\ executed <= tries
  /\ outcome \in Outcomes \cup {Missing}
  /\ asked # Missing => asked.retry \in Nat \cup {-1}
  /\ asked = Missing => outcome = Missing
  /\ outcome = Missing => tries = 0
  /\ RequestsAreCounted

\* A try returns only when the answer says that it was done.
LEMMA JudgeReturns ==
  ASSUME NEW verb, NEW code, NEW body, NEW headers
  PROVE  /\ Judge(verb, code, body, headers) \in Outcomes
         /\ Judge(verb, code, body, headers) = "returned" => code \in {200, 201, 202, 204}
BY DEF Judge, Outcomes

\* A try counts one, and carries the request out at most once.
LEMMA TryStep ==
  ASSUME RequestInv, Trying, NEW done \in {0, 1},
         tries' = tries + 1, executed' = executed + done, UNCHANGED asked,
         outcome' \in Outcomes, outcome' = "returned" => done = 1,
         ~Sendable(asked) => done = 0
  PROVE  RequestInv'
<1>1. outcome' # Missing /\ asked # Missing
  BY CInPAssumption DEF Trying
<1>2. asked.retry # -1 => tries <= asked.retry
  BY DEF RequestInv, Trying, MayTry
<1>3. Sendable(asked)' = Sendable(asked)
  BY DEF Sendable, Allowed
<1> QED
  BY <1>1, <1>2, <1>3 DEF RequestInv, RequestsAreCounted

\* Every step of the client keeps the counts of its request.
LEMMA RequestStep ==
  ASSUME RequestInv, CInPNext
  PROVE  RequestInv'
<1>1. CASE AskCInP \/ AskContractor
  <2>1. asked = Missing /\ UNCHANGED <<tries, executed, outcome>>
    BY <1>1 DEF AskCInP, AskContractor
  <2>2. \E verb, data, n, m, a, i : \E retry \in Nat \cup {-1} : asked' = Request(verb, data, retry, n, m, a, i)
    <3>1. CASE AskCInP
      BY <3>1 DEF AskCInP
    <3>2. CASE AskContractor
      BY <3>2, CInPAssumption DEF AskContractor
    <3> QED  BY <1>1, <3>1, <3>2
  <2>3. asked'.retry \in Nat \cup {-1}
    BY <2>2 DEF Request
  <2>4. outcome = Missing /\ tries = 0 /\ executed = 0
    BY <2>1 DEF RequestInv
  <2>5. Missing # "returned"
    BY CInPAssumption DEF Outcomes
  <2> QED
    BY <2>1, <2>3, <2>4, <2>5 DEF RequestInv, RequestsAreCounted
<1>2. CASE Refuse
  <2>1. executed' = executed + 0
    BY <1>2 DEF Refuse, RequestInv
  <2> QED
    BY <1>2, <2>1, TryStep DEF Refuse, Outcomes
<1>3. CASE Answer
  <2>1. PICK code \in Codes, body \in Bodies, done \in {0, 1}, headers \in BOOLEAN :
          /\ code \in {200, 201, 202, 204} => done = 1
          /\ outcome' = Judge(asked.verb, code, body, headers)
          /\ executed' = executed + done
    BY <1>3 DEF Answer
  <2>2. outcome' \in Outcomes /\ (outcome' = "returned" => done = 1)
    BY <2>1, JudgeReturns
  <2> QED
    BY <1>3, <2>1, <2>2, TryStep DEF Answer
<1>4. CASE Silence
  <2>1. PICK what \in {"ResponseError", "Timeout", "OSError"}, done \in {0, 1} :
          outcome' = what /\ executed' = executed + done
    BY <1>4 DEF Silence
  <2> QED
    BY <1>4, <2>1, TryStep DEF Silence, Outcomes
<1>5. CASE Change \/ WalkURIs \/ WalkObjects \/ ListPage \/ Give \/ NextPage \/ GetChunk
  <2>1. UNCHANGED <<asked, tries, executed, outcome>>
    BY <1>5 DEF Change, WalkURIs, WalkObjects, Walk, ListPage, Give, NextPage, GetChunk
  <2> QED
    BY <2>1 DEF RequestInv, RequestsAreCounted, Sendable, Allowed
<1> QED
  BY <1>1, <1>2, <1>3, <1>4, <1>5 DEF CInPNext
-----------------------------------------------------------------------------
(* CInP: a walk over a list.                                               *)

AnyRecord == ToSet(Records) \cup ToSet(NewRecords)
CameSoFar == ToSet(Records) \cup {NewRecords[k] : k \in 1..changes}

\* No record is in the list twice, and those that are to come are not in it.
RecordsInv ==
  /\ changes \in 0..Len(NewRecords)
  /\ records \in Seq(CameSoFar) /\ IsInjective(records)

WalkType ==
  [how : {"uris", "objects"}, position : Nat, total : Nat, left : Seq(AnyRecord), given : Seq(AnyRecord),
   always : SUBSET AnyRecord, deleted : BOOLEAN, state : {"list", "give", "get", "done", "NotFound"}]

Beyond(position) == {records[k] : k \in {k \in DOMAIN records : k > position}}
InHand == ToSet(walk.given) \cup ToSet(walk.left)

\* While nothing is deleted, a record that was there from the beginning was given,
\* is in the page, or is still to come.
URIsInv ==
  /\ walk.state \in {"list", "give", "done"}
  /\ walk.state # "give" => walk.left = <<>>
  /\ ~walk.deleted => walk.always \subseteq InHand \cup Beyond(walk.position)
  /\ ~walk.deleted /\ (walk.state = "done" \/ (walk.state = "give" /\ walk.position >= walk.total)) =>
       walk.always \subseteq InHand

\* The only page has each record once, and all of them if they are no more than a
\* page.
ObjectsInv ==
  /\ walk.state \in {"list", "get", "done", "NotFound"}
  /\ walk.state = "list" => /\ walk.position = 0 /\ walk.left = <<>> /\ walk.given = <<>>
                            /\ walk.always \subseteq ToSet(records)
  /\ walk.state = "done" => walk.left = <<>>
  /\ IsInjective(walk.given) /\ IsInjective(walk.left) /\ ToSet(walk.given) \cap ToSet(walk.left) = {}
  /\ walk.state \in {"get", "done"} /\ walk.total <= PageSize => walk.always \subseteq InHand

WalkInv ==
  walk # Missing =>
    /\ walk \in WalkType
    /\ walk.how = "uris" => URIsInv
    /\ walk.how = "objects" => ObjectsInv

\* What is left of a sequence when one element is taken away.
LEMMA Removed ==
  ASSUME NEW S, NEW s \in Seq(S), NEW k \in DOMAIN s
  PROVE  /\ RemoveAt(s, k) \in Seq(S) /\ Len(RemoveAt(s, k)) = Len(s) - 1
         /\ \A j \in 1..(Len(s) - 1) : RemoveAt(s, k)[j] = IF j < k THEN s[j] ELSE s[j + 1]
<1> DEFINE before == SubSeq(s, 1, k - 1)
           after == SubSeq(s, k + 1, Len(s))
<1>0. RemoveAt(s, k) = before \o after
  BY DEF RemoveAt
<1>1. Len(s) \in Nat /\ k \in 1..Len(s) /\ \A i \in 1..Len(s) : s[i] \in S
  BY LenProperties
<1>2. before \in Seq(S) /\ Len(before) = k - 1 /\ \A i \in 1..(k - 1) : before[i] = s[i]
  BY <1>1, SubSeqProperties
<1>3. after \in Seq(S) /\ Len(after) = Len(s) - k /\ \A i \in 1..(Len(s) - k) : after[i] = s[k + i]
  BY <1>1, SubSeqProperties
<1> HIDE DEF before, after
<1>4. /\ before \o after \in Seq(S) /\ Len(before \o after) = Len(s) - 1
      /\ \A i \in 1..(Len(s) - 1) : (before \o after)[i] = IF i <= k - 1 THEN before[i] ELSE after[i - (k - 1)]
  <2>1. /\ before \o after \in Seq(S) /\ Len(before \o after) = Len(before) + Len(after)
        /\ \A i \in 1..(Len(before) + Len(after)) :
             (before \o after)[i] = IF i <= Len(before) THEN before[i] ELSE after[i - Len(before)]
    BY <1>2, <1>3, ConcatProperties, Zenon
  <2>2. Len(before) + Len(after) = Len(s) - 1
    BY <1>1, <1>2, <1>3
  <2> QED
    BY <1>2, <2>1, <2>2
<1>5. ASSUME NEW j \in 1..(Len(s) - 1)
      PROVE  (before \o after)[j] = IF j < k THEN s[j] ELSE s[j + 1]
  <2>1. CASE j < k
    BY <1>1, <1>2, <1>4, <2>1
  <2>2. CASE ~(j < k)
    <3>1. j - (k - 1) \in 1..(Len(s) - k) /\ k + (j - (k - 1)) = j + 1 /\ ~(j <= k - 1)
      BY <1>1, <2>2
    <3>2. (before \o after)[j] = after[j - (k - 1)]
      BY <1>4, <3>1
    <3> QED
      BY <1>3, <2>2, <3>1, <3>2
  <2> QED  BY <2>1, <2>2
<1> QED
  BY <1>0, <1>4, <1>5

\* What becomes of a sequence that is given one element more.
LEMMA Inserted ==
  ASSUME NEW S, NEW s \in Seq(S), NEW k \in 1..(Len(s) + 1), NEW e \in S
  PROVE  /\ InsertAt(s, k, e) \in Seq(S) /\ Len(InsertAt(s, k, e)) = Len(s) + 1
         /\ \A j \in 1..(Len(s) + 1) :
              InsertAt(s, k, e)[j] = IF j < k THEN s[j] ELSE IF j = k THEN e ELSE s[j - 1]
<1> DEFINE before == SubSeq(s, 1, k - 1)
           upTo == before \o <<e>>
           after == SubSeq(s, k, Len(s))
<1>0. InsertAt(s, k, e) = upTo \o after
  BY DEF InsertAt
<1>1. Len(s) \in Nat /\ \A i \in 1..Len(s) : s[i] \in S
  BY LenProperties
<1>2. before \in Seq(S) /\ Len(before) = k - 1 /\ \A i \in 1..(k - 1) : before[i] = s[i]
  BY <1>1, SubSeqProperties
<1>3. after \in Seq(S) /\ Len(after) = Len(s) - k + 1 /\ \A i \in 1..(Len(s) - k + 1) : after[i] = s[k + i - 1]
  BY <1>1, SubSeqProperties
<1> HIDE DEF before, after
<1>4. /\ upTo \in Seq(S) /\ Len(upTo) = k
      /\ \A i \in 1..k : upTo[i] = IF i < k THEN before[i] ELSE e
  BY <1>1, <1>2
<1> HIDE DEF upTo
<1>5. /\ upTo \o after \in Seq(S) /\ Len(upTo \o after) = Len(s) + 1
      /\ \A i \in 1..(Len(s) + 1) : (upTo \o after)[i] = IF i <= k THEN upTo[i] ELSE after[i - k]
  BY <1>1, <1>3, <1>4, ConcatProperties
<1>6. ASSUME NEW j \in 1..(Len(s) + 1)
      PROVE  (upTo \o after)[j] = IF j < k THEN s[j] ELSE IF j = k THEN e ELSE s[j - 1]
  <2>1. CASE j <= k
    BY <1>1, <1>2, <1>4, <1>5, <2>1
  <2>2. CASE ~(j <= k)
    <3>1. j - k \in 1..(Len(s) - k + 1) /\ k + (j - k) - 1 = j - 1 /\ j # k /\ ~(j < k)
      BY <1>1, <2>2
    <3>2. (upTo \o after)[j] = after[j - k]
      BY <1>5, <2>2
    <3> QED
      BY <1>3, <3>1, <3>2
  <2> QED  BY <2>1, <2>2
<1> QED
  BY <1>0, <1>5, <1>6

\* The smaller of two numbers is one of them.
LEMMA LeastIs ==
  ASSUME NEW a \in Nat, NEW b \in Nat
  PROVE  /\ Least(a, b) \in Nat /\ Least(a, b) <= a /\ Least(a, b) <= b
         /\ Least(a, b) = a \/ Least(a, b) = b
BY DEF Least

\* The sizes are numbers.
LEMMA CInPSizes == PageSize \in Nat /\ ChunkSize \in Nat
BY CInPAssumption

\* What the assumption says of the records that are to come.
LEMMA CInPConstants ==
  /\ Len(NewRecords) \in Nat /\ \A k \in 1..Len(NewRecords) : NewRecords[k] \in ToSet(NewRecords)
  /\ \A k, l \in 1..Len(NewRecords) : NewRecords[k] = NewRecords[l] => k = l
  /\ \A k \in 1..Len(NewRecords) : NewRecords[k] \notin ToSet(Records)
<1>1. DOMAIN NewRecords = 1..Len(NewRecords) /\ Len(NewRecords) \in Nat
  BY CInPAssumption, LenProperties
<1>2. IsInjective(NewRecords) /\ ToSet(Records) \cap ToSet(NewRecords) = {}
  BY CInPAssumption
<1>3. \A k \in 1..Len(NewRecords) : NewRecords[k] \in ToSet(NewRecords)
  BY <1>1 DEF ToSet
<1>4. \A k, l \in 1..Len(NewRecords) : NewRecords[k] = NewRecords[l] => k = l
  BY <1>1, <1>2 DEF IsInjective
<1> QED
  BY <1>1, <1>2, <1>3, <1>4

\* A page holds what stands between two positions.
LEMMA PageHolds ==
  ASSUME RecordsInv, NEW position \in Nat
  PROVE  /\ Page(position) \in Seq(AnyRecord)
         /\ position + Len(Page(position)) \in Nat
         /\ IsInjective(Page(position))
         /\ ToSet(Page(position)) \subseteq ToSet(records)
         /\ Beyond(position) \subseteq ToSet(Page(position)) \cup Beyond(position + Len(Page(position)))
         /\ position + Len(Page(position)) >= Len(records) => Beyond(position) \subseteq ToSet(Page(position))
         /\ position = 0 /\ Len(records) <= PageSize => ToSet(Page(position)) = ToSet(records)
<1> DEFINE last == Least(position + PageSize, Len(records))
           page == Page(position)
<1>0. PageSize \in Nat
  BY CInPSizes
<1>1. CameSoFar \subseteq AnyRecord
  BY CInPConstants DEF CameSoFar, AnyRecord, RecordsInv
<1>2. records \in Seq(AnyRecord) /\ Len(records) \in Nat /\ DOMAIN records = 1..Len(records)
  BY <1>1, SeqMonotonic, LenProperties DEF RecordsInv
<1>3. last \in Nat /\ last <= Len(records) /\ last <= position + PageSize
      /\ (last = Len(records) \/ last = position + PageSize)
  <2>1. position + PageSize \in Nat
    BY <1>0
  <2> QED
    BY <1>2, <2>1, LeastIs
<1> HIDE DEF last
<1>4. page = SubSeq(records, position + 1, last)
  BY DEF Page, last
<1> HIDE DEF page
<1>5. /\ page \in Seq(AnyRecord)
      /\ Len(page) = IF position < last THEN last - position ELSE 0
      /\ \A k \in 1..Len(page) : page[k] = records[position + k]
  <2>1. \A i \in (position + 1)..last : i \in 1..Len(records)
    <3>1. Len(records) \in Nat
      BY <1>2
    <3> QED
      BY <1>0, <1>3, <3>1
  <2>2. \A i \in (position + 1)..last : records[i] \in AnyRecord
    BY <1>2, <2>1, LenProperties
  <2>3. /\ page \in Seq(AnyRecord)
        /\ Len(page) = IF position + 1 <= last THEN last - (position + 1) + 1 ELSE 0
        /\ \A i \in 1..(last - (position + 1) + 1) : page[i] = records[position + 1 + i - 1]
    BY <1>0, <1>3, <1>4, <2>2, SubSeqProperties
  <2>4. Len(page) = IF position < last THEN last - position ELSE 0
    BY <1>3, <2>3
  <2>5. ASSUME NEW k \in 1..Len(page)
        PROVE  page[k] = records[position + k]
    <3>1. k \in 1..(last - (position + 1) + 1) /\ position + 1 + k - 1 = position + k
      BY <1>3, <2>4
    <3> QED
      BY <2>3, <3>1
  <2> QED
    BY <2>3, <2>4, <2>5
<1>6. DOMAIN page = 1..Len(page) /\ Len(page) \in Nat
  BY <1>5, LenProperties
<1>7. ASSUME NEW k \in 1..Len(page)
      PROVE  position + k \in 1..Len(records)
  <2>1. Len(records) \in Nat /\ last \in Nat /\ last <= Len(records)
    BY <1>2, <1>3
  <2>2. k \in Nat /\ 1 <= k /\ position + k <= last
    BY <1>3, <1>5
  <2> QED
    BY <2>1, <2>2
<1>8. IsInjective(page) /\ ToSet(page) \subseteq ToSet(records)
  <2>1. ASSUME NEW k \in 1..Len(page), NEW l \in 1..Len(page), page[k] = page[l]
        PROVE  k = l
    <3>1. records[position + k] = records[position + l]
      BY <1>5, <2>1
    <3>2. position + k = position + l
      BY <1>2, <1>7, <3>1 DEF RecordsInv, IsInjective
    <3> QED
      BY <3>2
  <2> QED
    BY <1>2, <1>5, <1>6, <1>7, <2>1 DEF IsInjective, ToSet
<1>9. ASSUME NEW k \in 1..Len(records), k > position
      PROVE  k > position + Len(page) \/ records[k] \in ToSet(page)
  <2>1. CASE k <= last
    <3>1. k - position \in 1..Len(page) /\ position + (k - position) = k
      BY <1>3, <1>5, <1>9, <2>1
    <3>2. page[k - position] = records[k]
      BY <1>5, <3>1
    <3> QED
      BY <1>6, <3>1, <3>2 DEF ToSet
  <2>2. CASE ~(k <= last)
    BY <1>3, <1>5, <1>9, <2>2
  <2> QED  BY <2>1, <2>2
<1>10. Beyond(position) \subseteq ToSet(page) \cup Beyond(position + Len(page))
  BY <1>2, <1>9 DEF Beyond
<1>11. position + Len(page) >= Len(records) => Beyond(position) \subseteq ToSet(page)
  BY <1>2, <1>6, <1>9 DEF Beyond
<1>12. position = 0 /\ Len(records) <= PageSize => ToSet(page) = ToSet(records)
  <2>1. ASSUME position = 0, Len(records) <= PageSize, NEW k \in 1..Len(records)
        PROVE  records[k] \in ToSet(page)
    <3>2. Len(records) \in Nat /\ position + PageSize = PageSize /\ k > position
      BY <1>0, <1>2, <2>1
    <3>0. Len(records) \in Nat /\ last = Len(records) /\ k > position
      BY <1>0, <1>3, <2>1, <3>2
    <3>1. Len(page) = last /\ ~(k > position + Len(page))
      BY <1>5, <2>1, <3>0
    <3> QED
      BY <1>9, <3>0, <3>1
  <2> QED
    BY <1>2, <1>8, <2>1 DEF ToSet
<1> QED
  BY <1>5, <1>6, <1>8, <1>10, <1>11, <1>12 DEF page
\* Of an injective sequence a part stays injective, and loses only what is taken.
LEMMA RemovedKeeps ==
  ASSUME NEW S, NEW s \in Seq(S), NEW k \in DOMAIN s, IsInjective(s)
  PROVE  IsInjective(RemoveAt(s, k)) /\ ToSet(s) \ {s[k]} \subseteq ToSet(RemoveAt(s, k))
<1> DEFINE t == RemoveAt(s, k)
<1>1. Len(s) \in Nat /\ DOMAIN s = 1..Len(s) /\ k \in 1..Len(s)
  BY LenProperties
<1>2. /\ t \in Seq(S) /\ Len(t) = Len(s) - 1
      /\ \A j \in 1..(Len(s) - 1) : t[j] = IF j < k THEN s[j] ELSE s[j + 1]
  BY Removed
<1> HIDE DEF t
<1>3. DOMAIN t = 1..(Len(s) - 1)
  BY <1>2, LenProperties
<1>4. ASSUME NEW i \in DOMAIN t, NEW j \in DOMAIN t, t[i] = t[j]
      PROVE  i = j
  <2> DEFINE before(x) == IF x < k THEN x ELSE x + 1
  <2>1. before(i) \in DOMAIN s /\ before(j) \in DOMAIN s
    BY <1>1, <1>3
  <2>2. t[i] = s[before(i)] /\ t[j] = s[before(j)]
    BY <1>2, <1>3
  <2>3. before(i) = before(j)
    BY <1>4, <2>1, <2>2 DEF IsInjective
  <2> QED
    BY <1>1, <1>3, <2>3
<1>5. ASSUME NEW i \in DOMAIN s, i # k
      PROVE  s[i] \in ToSet(t)
  <2>1. CASE i < k
    <3>1. i \in 1..(Len(s) - 1) /\ t[i] = s[i]
      BY <1>1, <1>2, <2>1
    <3> QED
      BY <1>3, <3>1 DEF ToSet
  <2>2. CASE ~(i < k)
    <3>1. i - 1 \in 1..(Len(s) - 1) /\ ~(i - 1 < k) /\ i - 1 + 1 = i
      BY <1>1, <1>5, <2>2
    <3>2. t[i - 1] = s[i]
      BY <1>2, <3>1
    <3> QED
      BY <1>3, <3>1, <3>2 DEF ToSet
  <2> QED  BY <2>1, <2>2
<1> QED
  BY <1>4, <1>5 DEF IsInjective, ToSet, t

\* An element that is new leaves a sequence injective; the others are where they
\* were, or one further.
LEMMA InsertedKeeps ==
  ASSUME NEW S, NEW s \in Seq(S), NEW k \in 1..(Len(s) + 1), NEW e \in S
  PROVE  /\ IsInjective(s) /\ e \notin ToSet(s) => IsInjective(InsertAt(s, k, e))
         /\ \A i \in DOMAIN s : \E j \in DOMAIN InsertAt(s, k, e) : j >= i /\ InsertAt(s, k, e)[j] = s[i]
<1>1. Len(s) \in Nat /\ DOMAIN s = 1..Len(s) /\ k \in 1..(Len(s) + 1)
  BY LenProperties
<1> DEFINE t == InsertAt(s, k, e)
<1>2. /\ t \in Seq(S) /\ Len(t) = Len(s) + 1
      /\ \A j \in 1..(Len(s) + 1) : t[j] = IF j < k THEN s[j] ELSE IF j = k THEN e ELSE s[j - 1]
  <2>1. t \in Seq(S)
    BY Inserted
  <2>2. Len(t) = Len(s) + 1
    BY Inserted
  <2>3. ASSUME NEW j \in 1..(Len(s) + 1)
        PROVE  t[j] = IF j < k THEN s[j] ELSE IF j = k THEN e ELSE s[j - 1]
    BY Inserted
  <2> QED
    BY <2>1, <2>2, <2>3
<1> HIDE DEF t
<1>3. DOMAIN t = 1..(Len(s) + 1)
  BY <1>2, LenProperties DEF t
<1>4. ASSUME IsInjective(s), e \notin ToSet(s), NEW i \in DOMAIN t, NEW j \in DOMAIN t, t[i] = t[j]
      PROVE  i = j
  <2> DEFINE before(x) == IF x < k THEN x ELSE x - 1
  <2>1. \A x \in DOMAIN t : x # k => before(x) \in DOMAIN s /\ t[x] = s[before(x)] /\ t[x] # e
    <3>1. ASSUME NEW x \in DOMAIN t, x # k
          PROVE  before(x) \in DOMAIN s /\ t[x] = s[before(x)]
      BY <1>1, <1>2, <1>3, <3>1
    <3> QED
      BY <1>4, <3>1 DEF ToSet
  <2>2. t[k] = e /\ k \in DOMAIN t
    BY <1>1, <1>2, <1>3
  <2>3. CASE i = k \/ j = k
    BY <1>4, <2>1, <2>2, <2>3
  <2>4. CASE i # k /\ j # k
    <3>1. before(i) = before(j)
      BY <1>4, <2>1, <2>4 DEF IsInjective
    <3> QED
      BY <1>1, <1>3, <2>4, <3>1
  <2> QED  BY <2>3, <2>4
<1>5. ASSUME NEW i \in DOMAIN s
      PROVE  \E j \in DOMAIN t : j >= i /\ t[j] = s[i]
  <2>1. CASE i < k
    <3>1. i \in DOMAIN t /\ t[i] = s[i] /\ i >= i
      BY <1>1, <1>2, <1>3, <2>1
    <3> QED  BY <3>1
  <2>2. CASE ~(i < k)
    <3>1. i + 1 \in DOMAIN t /\ ~(i + 1 < k) /\ i + 1 # k /\ i + 1 >= i /\ (i + 1) - 1 = i
      BY <1>1, <1>3, <2>2
    <3>2. t[i + 1] = s[i]
      BY <1>2, <1>3, <3>1
    <3> QED
      BY <3>1, <3>2
  <2> QED  BY <2>1, <2>2
<1> QED
  BY <1>4, <1>5 DEF IsInjective, t
\* What a change makes of the records.
LEMMA ChangeStep ==
  ASSUME RecordsInv, Change
  PROVE  /\ RecordsInv'
         /\ \/ \E r : /\ walk' = [walk EXCEPT !.always = @ \ {r}, !.deleted = TRUE]
                      /\ ToSet(records) \ {r} \subseteq ToSet(records')
            \/ /\ UNCHANGED walk /\ ToSet(records) \subseteq ToSet(records')
               /\ \A position \in Nat : Beyond(position) \subseteq Beyond(position)'
<1>1. /\ changes' \in 0..Len(NewRecords) /\ changes' = changes + 1 /\ changes \in Nat /\ changes + 1 \in 1..Len(NewRecords)
  <2>1. Len(NewRecords) \in Nat
    BY CInPConstants
  <2>2. changes \in 0..Len(NewRecords) /\ changes < Len(NewRecords) /\ changes' = changes + 1
    BY DEF RecordsInv, Change
  <2> QED
    BY <2>1, <2>2
<1>2. CameSoFar \subseteq CameSoFar' /\ NewRecords[changes + 1] \in CameSoFar'
  BY <1>1 DEF CameSoFar
<1>3. records \in Seq(CameSoFar') /\ DOMAIN records = 1..Len(records)
  BY <1>2, SeqMonotonic, LenProperties DEF RecordsInv
<1>4. CASE \E k \in DOMAIN records :
             /\ records' = RemoveAt(records, k)
             /\ walk' = [walk EXCEPT !.always = @ \ {records[k]}, !.deleted = TRUE]
  <2>1. PICK k \in DOMAIN records :
             /\ records' = RemoveAt(records, k)
             /\ walk' = [walk EXCEPT !.always = @ \ {records[k]}, !.deleted = TRUE]
    BY <1>4
  <2>2. records' \in Seq(CameSoFar')
    BY <1>3, <2>1, Removed
  <2>3. IsInjective(records') /\ ToSet(records) \ {records[k]} \subseteq ToSet(records')
    BY <1>3, <2>1, RemovedKeeps DEF RecordsInv
  <2> QED
    BY <1>1, <2>1, <2>2, <2>3 DEF RecordsInv
<1>5. CASE \E k \in 1..(Len(records) + 1) :
             /\ records' = InsertAt(records, k, NewRecords[changes + 1])
             /\ UNCHANGED walk
  <2>1. PICK k \in 1..(Len(records) + 1) :
             records' = InsertAt(records, k, NewRecords[changes + 1]) /\ UNCHANGED walk
    BY <1>5
  <2>2. NewRecords[changes + 1] \notin CameSoFar
    <3>1. \A l \in 1..changes : l \in 1..Len(NewRecords) /\ l # changes + 1
      BY <1>1, CInPConstants
    <3> QED
      BY <1>1, <3>1, CInPConstants DEF CameSoFar
  <2>3. NewRecords[changes + 1] \notin ToSet(records)
    BY <2>2, <1>3, LenProperties DEF RecordsInv, ToSet
  <2>4. records' \in Seq(CameSoFar')
    BY <1>2, <1>3, <2>1, Inserted
  <2>5. /\ IsInjective(records')
        /\ \A i \in DOMAIN records : \E j \in DOMAIN records' : j >= i /\ records'[j] = records[i]
    BY <1>2, <1>3, <2>1, <2>3, InsertedKeeps DEF RecordsInv
  <2>6. ToSet(records) \subseteq ToSet(records')
    BY <2>5 DEF ToSet
  <2>7. DOMAIN records' = 1..Len(records') /\ Len(records') \in Nat /\ Len(records) \in Nat
    BY <1>3, <2>4, LenProperties
  <2>8. ASSUME NEW position \in Nat, NEW r \in Beyond(position)
        PROVE  r \in Beyond(position)'
    <3>1. PICK i \in DOMAIN records : i > position /\ r = records[i]
      BY <2>8 DEF Beyond
    <3>2. PICK j \in DOMAIN records' : j >= i /\ records'[j] = records[i]
      BY <2>5
    <3>3. j > position
      BY <1>3, <2>7, <3>1, <3>2
    <3> QED
      BY <3>1, <3>2, <3>3 DEF Beyond
  <2> QED
    BY <1>1, <2>1, <2>4, <2>5, <2>6, <2>8 DEF RecordsInv
<1> QED
  BY <1>4, <1>5 DEF Change

\* What is taken from the head of one sequence and appended to another is in one
\* of them.
LEMMA HeadIsKept ==
  ASSUME NEW S, NEW given \in Seq(S), NEW left \in Seq(S), left # <<>>
  PROVE  /\ Append(given, Head(left)) \in Seq(S) /\ Tail(left) \in Seq(S)
         /\ ToSet(given) \cup ToSet(left) \subseteq ToSet(Append(given, Head(left))) \cup ToSet(Tail(left))
<1>1. /\ Head(left) \in S /\ Head(left) = left[1] /\ Tail(left) \in Seq(S) /\ Len(Tail(left)) = Len(left) - 1
      /\ \A i \in 1..(Len(left) - 1) : Tail(left)[i] = left[i + 1]
  BY HeadTailProperties
<1>2. DOMAIN given = 1..Len(given) /\ Len(given) \in Nat /\ DOMAIN left = 1..Len(left) /\ Len(left) \in Nat
  BY LenProperties
<1>3. /\ Append(given, Head(left)) \in Seq(S) /\ Len(Append(given, Head(left))) = Len(given) + 1
      /\ \A i \in 1..Len(given) : Append(given, Head(left))[i] = given[i]
      /\ Append(given, Head(left))[Len(given) + 1] = Head(left)
  BY <1>1, <1>2, AppendProperties
<1>4. DOMAIN Append(given, Head(left)) = 1..(Len(given) + 1) /\ DOMAIN Tail(left) = 1..(Len(left) - 1)
  BY <1>1, <1>3, LenProperties
<1>5. ASSUME NEW i \in 1..Len(left)
      PROVE  left[i] = Head(left) \/ left[i] \in ToSet(Tail(left))
  <2>1. CASE i = 1
    BY <1>1, <2>1
  <2>2. CASE i # 1
    <3>1. i - 1 \in 1..(Len(left) - 1) /\ (i - 1) + 1 = i
      BY <1>2, <2>2
    <3>2. Tail(left)[i - 1] = left[i]
      BY <1>1, <3>1
    <3> QED
      BY <1>4, <3>1, <3>2 DEF ToSet
  <2> QED  BY <2>1, <2>2
<1>6. Head(left) \in ToSet(Append(given, Head(left)))
  BY <1>2, <1>3, <1>4 DEF ToSet
<1>7. \A i \in 1..Len(given) : given[i] \in ToSet(Append(given, Head(left)))
  BY <1>2, <1>3, <1>4 DEF ToSet
<1>8. ToSet(given) \subseteq ToSet(Append(given, Head(left)))
  BY <1>2, <1>7 DEF ToSet
<1>9. ToSet(left) \subseteq {Head(left)} \cup ToSet(Tail(left))
  BY <1>2, <1>5 DEF ToSet
<1> QED
  BY <1>1, <1>3, <1>6, <1>8, <1>9

\* What stands behind the k-th element of a sequence.
LEMMA RestOf ==
  ASSUME NEW S, NEW s \in Seq(S), NEW k \in 0..Len(s)
  PROVE  /\ SubSeq(s, k + 1, Len(s)) \in Seq(S) /\ Len(SubSeq(s, k + 1, Len(s))) = Len(s) - k
         /\ \A i \in 1..(Len(s) - k) : SubSeq(s, k + 1, Len(s))[i] = s[k + i]
<1> SUFFICES ASSUME NEW m, m = k + 1, NEW n, n = Len(s)
             PROVE  /\ SubSeq(s, m, n) \in Seq(S) /\ Len(SubSeq(s, m, n)) = n - k
                    /\ \A i \in 1..(n - k) : SubSeq(s, m, n)[i] = s[k + i]
  OBVIOUS
<1>1. k \in Nat /\ n \in Nat /\ k <= n /\ m \in Int /\ n \in Int
  BY LenProperties
<1>2. \A i \in m..n : s[i] \in S
  BY <1>1, LenProperties
<1> DEFINE t == SubSeq(s, m, n)
<1>3. t \in Seq(S) /\ Len(t) = (IF m <= n THEN n - m + 1 ELSE 0) /\ \A i \in 1..(n - m + 1) : t[i] = s[m + i - 1]
  BY <1>1, <1>2, SubSeqProperties
<1> HIDE DEF t
<1>4. Len(t) = n - k
  BY <1>1, <1>3
<1>5. ASSUME NEW i \in 1..(n - k) PROVE t[i] = s[k + i]
  <2>1. i \in 1..(n - m + 1) /\ m + i - 1 = k + i
    BY <1>1
  <2> QED
    BY <1>3, <2>1
<1> QED
  BY <1>3, <1>4, <1>5 DEF t

\* A chunk that goes from one sequence to another leaves them without a double, and
\* all that was in them is still there.
LEMMA ChunkIsKept ==
  ASSUME NEW S, NEW given \in Seq(S), NEW left \in Seq(S), NEW k \in 0..Len(left),
         IsInjective(given), IsInjective(left), ToSet(given) \cap ToSet(left) = {}
  PROVE  LET more == given \o SubSeq(left, 1, k)
             rest == SubSeq(left, k + 1, Len(left))
         IN  /\ more \in Seq(S) /\ rest \in Seq(S)
             /\ ToSet(given) \cup ToSet(left) \subseteq ToSet(more) \cup ToSet(rest)
             /\ IsInjective(more) /\ IsInjective(rest) /\ ToSet(more) \cap ToSet(rest) = {}
<1> DEFINE chunk == SubSeq(left, 1, k)
           more == given \o chunk
           rest == SubSeq(left, k + 1, Len(left))
           n == Len(given)
<1>1. /\ DOMAIN given = 1..n /\ n \in Nat /\ DOMAIN left = 1..Len(left) /\ Len(left) \in Nat /\ k \in Nat /\ k <= Len(left)
      /\ \A i \in 1..Len(left) : left[i] \in S
  BY LenProperties
<1>2. chunk \in Seq(S) /\ Len(chunk) = k /\ \A i \in 1..k : chunk[i] = left[i]
  BY <1>1, SubSeqProperties
<1>3. rest \in Seq(S) /\ Len(rest) = Len(left) - k /\ \A i \in 1..(Len(left) - k) : rest[i] = left[k + i]
  BY RestOf
<1> HIDE DEF chunk, rest
<1>4. more \in Seq(S) /\ Len(more) = n + k /\ \A i \in 1..(n + k) : more[i] = IF i <= n THEN given[i] ELSE chunk[i - n]
  <2>1. /\ given \o chunk \in Seq(S) /\ Len(given \o chunk) = Len(given) + Len(chunk)
        /\ \A i \in 1..(Len(given) + Len(chunk)) :
             (given \o chunk)[i] = IF i <= Len(given) THEN given[i] ELSE chunk[i - Len(given)]
    BY <1>2, ConcatProperties, Zenon
  <2> QED
    BY <1>2, <2>1, Zenon
<1> HIDE DEF more, n
<1>5. DOMAIN more = 1..(n + k) /\ DOMAIN rest = 1..(Len(left) - k)
  BY <1>3, <1>4, LenProperties
<1>6. ASSUME NEW i \in DOMAIN more
      PROVE  \/ i \in DOMAIN given /\ more[i] = given[i]
             \/ i - n \in 1..k /\ i - n \in DOMAIN left /\ more[i] = left[i - n]
  <2>1. CASE i <= n
    BY <1>1, <1>4, <1>5, <2>1
  <2>2. CASE ~(i <= n)
    <3>1. i - n \in 1..k /\ i - n \in DOMAIN left
      BY <1>1, <1>5, <2>2
    <3>2. more[i] = chunk[i - n]
      BY <1>4, <1>5, <2>2
    <3> QED
      BY <1>2, <3>1, <3>2
  <2> QED  BY <2>1, <2>2
<1>7. ASSUME NEW i \in DOMAIN rest
      PROVE  k + i \in DOMAIN left /\ rest[i] = left[k + i]
  BY <1>1, <1>3, <1>5
<1>8. \A i \in DOMAIN given, j \in DOMAIN left : given[i] # left[j]
  BY DEF ToSet
<1>9. IsInjective(more)
  <2> SUFFICES ASSUME NEW i \in DOMAIN more, NEW j \in DOMAIN more, more[i] = more[j]
               PROVE  i = j
    BY DEF IsInjective
  <2>1. CASE more[i] = given[i] /\ i \in DOMAIN given /\ more[j] = given[j] /\ j \in DOMAIN given
    BY <2>1 DEF IsInjective
  <2>2. CASE /\ i - n \in DOMAIN left /\ more[i] = left[i - n]
             /\ j - n \in DOMAIN left /\ more[j] = left[j - n]
    <3>1. i - n = j - n
      BY <2>2 DEF IsInjective
    <3> QED
      BY <1>1, <1>5, <3>1
  <2> QED
    BY <1>6, <1>8, <2>1, <2>2
<1>10. IsInjective(rest)
  <2> SUFFICES ASSUME NEW i \in DOMAIN rest, NEW j \in DOMAIN rest, rest[i] = rest[j]
               PROVE  i = j
    BY DEF IsInjective
  <2>1. k + i = k + j
    BY <1>7 DEF IsInjective
  <2> QED
    BY <1>1, <1>5, <2>1
<1>11. ASSUME NEW i \in DOMAIN more, NEW j \in DOMAIN rest, more[i] = rest[j]
       PROVE  FALSE
  <2>1. k + j \in DOMAIN left /\ rest[j] = left[k + j] /\ j \in 1..(Len(left) - k)
    BY <1>5, <1>7
  <2>2. CASE i - n \in 1..k /\ i - n \in DOMAIN left /\ more[i] = left[i - n]
    <3>1. i - n = k + j
      BY <1>11, <2>1, <2>2 DEF IsInjective
    <3> QED
      BY <1>1, <2>1, <2>2, <3>1
  <2> QED
    BY <1>6, <1>8, <1>11, <2>1, <2>2
<1>12. ASSUME NEW i \in DOMAIN given
       PROVE  given[i] \in ToSet(more)
  <2>1. i \in DOMAIN more /\ more[i] = given[i]
    BY <1>1, <1>4, <1>5
  <2> QED
    BY <2>1 DEF ToSet
<1>13. ASSUME NEW i \in DOMAIN left
       PROVE  left[i] \in ToSet(more) \cup ToSet(rest)
  <2>1. CASE i <= k
    <3>1. n + i \in 1..(n + k) /\ ~(n + i <= n) /\ (n + i) - n = i /\ i \in 1..k
      BY <1>1, <2>1
    <3>2. more[n + i] = chunk[i]
      BY <1>4, <3>1
    <3> QED
      BY <1>2, <1>5, <3>1, <3>2 DEF ToSet
  <2>2. CASE ~(i <= k)
    <3>1. i - k \in 1..(Len(left) - k) /\ k + (i - k) = i
      BY <1>1, <2>2
    <3> QED
      BY <1>3, <1>5, <3>1 DEF ToSet
  <2> QED  BY <2>1, <2>2
<1>14. ToSet(given) \cup ToSet(left) \subseteq ToSet(more) \cup ToSet(rest)
  BY <1>12, <1>13 DEF ToSet
<1>15. ToSet(more) \cap ToSet(rest) = {}
  BY <1>11 DEF ToSet
<1> QED
  BY <1>3, <1>4, <1>9, <1>10, <1>14, <1>15 DEF more, chunk, rest

\* Every step of the client keeps the records and the walk over them.
LEMMA WalkStep ==
  ASSUME RecordsInv, WalkInv, CInPNext
  PROVE  RecordsInv' /\ WalkInv'
<1>1. CASE AskCInP \/ AskContractor \/ Refuse \/ Answer \/ Silence
  <2>1. UNCHANGED <<records, changes, walk>>
    BY <1>1 DEF AskCInP, AskContractor, Refuse, Answer, Silence
  <2> QED
    BY <2>1 DEF RecordsInv, CameSoFar, WalkInv, URIsInv, ObjectsInv, InHand, Beyond
<1>2. CASE Change
  <2>1. RecordsInv' /\ walk # Missing
    BY <1>2, ChangeStep DEF Change
  <2>2. CASE \E r : /\ walk' = [walk EXCEPT !.always = @ \ {r}, !.deleted = TRUE]
                    /\ ToSet(records) \ {r} \subseteq ToSet(records')
    <3>1. PICK r : /\ walk' = [walk EXCEPT !.always = @ \ {r}, !.deleted = TRUE]
                   /\ ToSet(records) \ {r} \subseteq ToSet(records')
      BY <2>2
    <3>2. walk \in WalkType
      BY <2>1 DEF WalkInv
    <3>3. /\ walk'.how = walk.how /\ walk'.position = walk.position /\ walk'.total = walk.total
          /\ walk'.left = walk.left /\ walk'.given = walk.given /\ walk'.state = walk.state
          /\ walk'.always = walk.always \ {r} /\ walk'.deleted = TRUE /\ walk' \in WalkType
      BY <3>1, <3>2 DEF WalkType
    <3>4. walk.how = "uris" => URIsInv'
      BY <2>1, <3>3 DEF WalkInv, URIsInv
    <3>5. walk.how = "objects" => ObjectsInv'
      BY <2>1, <3>1, <3>3 DEF WalkInv, ObjectsInv, InHand
    <3> QED
      BY <2>1, <3>3, <3>4, <3>5 DEF WalkInv
  <2>3. CASE /\ UNCHANGED walk /\ ToSet(records) \subseteq ToSet(records')
             /\ \A position \in Nat : Beyond(position) \subseteq Beyond(position)'
    BY <2>1, <2>3 DEF WalkInv, WalkType, URIsInv, ObjectsInv, InHand
  <2> QED
    BY <1>2, <2>1, <2>2, <2>3, ChangeStep
<1>3. CASE WalkURIs \/ WalkObjects
  <2>1. PICK how \in {"uris", "objects"} :
          walk' = [how |-> how, position |-> 0, total |-> 1, left |-> <<>>, given |-> <<>>,
                   always |-> ToSet(records), deleted |-> FALSE, state |-> "list"]
    BY <1>3 DEF WalkURIs, WalkObjects, Walk
  <2>2. UNCHANGED <<records, changes>>
    BY <1>3 DEF WalkURIs, WalkObjects, Walk
  <2>3. records \in Seq(AnyRecord) /\ DOMAIN records = 1..Len(records) /\ Len(records) \in Nat
    BY CInPConstants, SeqMonotonic, LenProperties DEF RecordsInv, CameSoFar, AnyRecord
  <2>4. ToSet(records) \subseteq AnyRecord /\ ToSet(records) = Beyond(0)
    BY <2>3, LenProperties DEF ToSet, Beyond
  <2>5. walk' \in WalkType
    BY <2>1, <2>4, EmptySeq DEF WalkType
  <2>6. RecordsInv'
    BY <2>2 DEF RecordsInv, CameSoFar
  <2>7. walk'.how = "uris" => URIsInv'
    BY <2>1, <2>2, <2>4 DEF URIsInv, InHand, Beyond
  <2>8. walk'.how = "objects" => ObjectsInv'
    BY <2>1, <2>2 DEF ObjectsInv, InHand, IsInjective, ToSet
  <2> QED
    BY <2>5, <2>6, <2>7, <2>8 DEF WalkInv
<1>4. CASE ListPage
  <2> DEFINE page == Page(walk.position)
             past == walk.position + Len(page)
  <2>1. /\ walk # Missing /\ walk.state = "list" /\ UNCHANGED <<records, changes>>
        /\ walk' = [walk EXCEPT !.position = past, !.total = Len(records), !.left = page,
                                !.state = IF walk.how = "uris" THEN "give" ELSE "get"]
    BY <1>4 DEF ListPage, AfterPage
  <2>2. walk \in WalkType /\ walk.position \in Nat
    BY <2>1 DEF WalkInv, WalkType
  <2>3. /\ page \in Seq(AnyRecord) /\ past \in Nat /\ IsInjective(page)
        /\ Beyond(walk.position) \subseteq ToSet(page) \cup Beyond(past)
        /\ past >= Len(records) => Beyond(walk.position) \subseteq ToSet(page)
        /\ walk.position = 0 /\ Len(records) <= PageSize => ToSet(page) = ToSet(records)
    BY <2>2, PageHolds
  <2> HIDE DEF page, past
  <2>4. Len(records) \in Nat
    BY LenProperties DEF RecordsInv
  <2>5. walk' \in WalkType
    BY <2>1, <2>2, <2>3, <2>4 DEF WalkType
  <2>6. RecordsInv'
    BY <2>1 DEF RecordsInv, CameSoFar
  <2>7. /\ walk'.position = past /\ walk'.total = Len(records) /\ walk'.left = page
        /\ walk'.given = walk.given /\ walk'.always = walk.always /\ walk'.deleted = walk.deleted
        /\ walk'.how = walk.how /\ walk'.state = IF walk.how = "uris" THEN "give" ELSE "get"
    BY <2>1, <2>2 DEF WalkType
  <2>8. ASSUME walk.how = "uris" PROVE URIsInv'
    <3>0. URIsInv /\ walk.left = <<>>
      BY <2>1, <2>8 DEF WalkInv, URIsInv
    <3>1. URIsInv /\ ToSet(walk.left) = {}
      BY <3>0 DEF ToSet
    <3>5. Beyond(walk.position)' = Beyond(past)
      BY <2>1, <2>7 DEF Beyond
    <3>2. ~walk.deleted => walk.always \subseteq ToSet(walk.given) \cup Beyond(walk.position)
      BY <3>1 DEF URIsInv, InHand
    <3>3. ~walk.deleted => walk.always \subseteq ToSet(walk.given) \cup ToSet(page) \cup Beyond(past)
      BY <2>3, <3>2
    <3>4. ~walk.deleted /\ past >= Len(records) => walk.always \subseteq ToSet(walk.given) \cup ToSet(page)
      BY <2>3, <3>2
    <3> QED
      BY <2>4, <2>3, <2>7, <2>8, <3>3, <3>4, <3>5 DEF URIsInv, InHand
  <2>9. ASSUME walk.how = "objects" PROVE ObjectsInv'
    <3>1. walk.position = 0 /\ walk.given = <<>> /\ walk.always \subseteq ToSet(records)
      BY <2>1, <2>9 DEF WalkInv, ObjectsInv
    <3>2. ToSet(walk.given) = {} /\ IsInjective(walk.given)
      BY <3>1 DEF ToSet, IsInjective
    <3> QED
      BY <2>3, <2>7, <2>9, <3>1, <3>2 DEF ObjectsInv, InHand
  <2> QED
    BY <2>5, <2>6, <2>7, <2>8, <2>9 DEF WalkInv
<1>5. CASE Give
  <2>1. /\ walk # Missing /\ walk.state = "give" /\ walk.left # <<>> /\ UNCHANGED <<records, changes>>
        /\ walk' = [walk EXCEPT !.given = Append(@, Head(walk.left)), !.left = Tail(@)]
    BY <1>5 DEF Give
  <2>2. walk \in WalkType /\ walk.left \in Seq(AnyRecord) /\ walk.given \in Seq(AnyRecord)
    BY <2>1 DEF WalkInv, WalkType
  <2>3. walk.how = "uris" /\ URIsInv
    BY <2>1, <2>2 DEF WalkInv, WalkType, ObjectsInv
  <2>4. /\ Append(walk.given, Head(walk.left)) \in Seq(AnyRecord) /\ Tail(walk.left) \in Seq(AnyRecord)
        /\ ToSet(walk.given) \cup ToSet(walk.left)
             \subseteq ToSet(Append(walk.given, Head(walk.left))) \cup ToSet(Tail(walk.left))
    BY <2>1, <2>2, HeadIsKept
  <2>5. /\ walk'.given = Append(walk.given, Head(walk.left)) /\ walk'.left = Tail(walk.left)
        /\ walk'.position = walk.position /\ walk'.total = walk.total /\ walk'.state = "give"
        /\ walk'.always = walk.always /\ walk'.deleted = walk.deleted /\ walk'.how = "uris"
    BY <2>1, <2>2, <2>3 DEF WalkType
  <2>6. walk' \in WalkType
    BY <2>1, <2>2, <2>4 DEF WalkType
  <2>7. RecordsInv' /\ Beyond(walk.position)' = Beyond(walk.position)
    BY <2>1, <2>5 DEF RecordsInv, CameSoFar, Beyond
  <2>8. URIsInv'
    BY <2>1, <2>3, <2>4, <2>5, <2>7 DEF URIsInv, InHand
  <2> QED
    BY <2>5, <2>6, <2>7, <2>8 DEF WalkInv
<1>6. CASE NextPage
  <2>1. /\ walk # Missing /\ walk.state = "give" /\ walk.left = <<>> /\ UNCHANGED <<records, changes>>
        /\ walk' = [walk EXCEPT !.state = IF walk.position < walk.total THEN "list" ELSE "done"]
    BY <1>6 DEF NextPage
  <2>2. walk \in WalkType /\ walk.position \in Nat /\ walk.total \in Nat
    BY <2>1 DEF WalkInv, WalkType
  <2>3. walk.how = "uris" /\ URIsInv
    BY <2>1, <2>2 DEF WalkInv, WalkType, ObjectsInv
  <2>4. /\ walk' \in WalkType /\ walk'.given = walk.given /\ walk'.left = walk.left /\ walk'.how = "uris"
        /\ walk'.position = walk.position /\ walk'.always = walk.always /\ walk'.deleted = walk.deleted
        /\ walk'.state = IF walk.position < walk.total THEN "list" ELSE "done"
    BY <2>1, <2>2, <2>3 DEF WalkType
  <2>5. RecordsInv' /\ Beyond(walk.position)' = Beyond(walk.position)
    BY <2>1, <2>4 DEF RecordsInv, CameSoFar, Beyond
  <2>6. URIsInv'
    BY <2>1, <2>2, <2>3, <2>4, <2>5 DEF URIsInv, InHand
  <2> QED
    BY <2>4, <2>5, <2>6 DEF WalkInv
<1>7. CASE GetChunk
  <2> DEFINE k == Least(Len(walk.left), ChunkSize)
             chunk == SubSeq(walk.left, 1, k)
             rest == SubSeq(walk.left, k + 1, Len(walk.left))
  <2>1. walk # Missing /\ walk.state = "get" /\ UNCHANGED <<records, changes>>
    BY <1>7 DEF GetChunk
  <2>2. walk \in WalkType /\ walk.left \in Seq(AnyRecord) /\ walk.given \in Seq(AnyRecord)
    BY <2>1 DEF WalkInv, WalkType
  <2>3. walk.how = "objects" /\ ObjectsInv
    BY <2>1, <2>2 DEF WalkInv, WalkType, URIsInv
  <2>4. RecordsInv'
    BY <2>1 DEF RecordsInv, CameSoFar
  <2>5. CASE walk.left = <<>> /\ walk' = [walk EXCEPT !.state = "done"]
    <3>1. /\ walk' \in WalkType /\ walk'.given = walk.given /\ walk'.left = walk.left /\ walk'.how = "objects"
          /\ walk'.always = walk.always /\ walk'.total = walk.total /\ walk'.state = "done"
      BY <2>2, <2>3, <2>5 DEF WalkType
    <3>2. ObjectsInv'
      BY <2>1, <2>3, <2>5, <3>1 DEF ObjectsInv, InHand
    <3> QED
      BY <2>4, <3>1, <3>2 DEF WalkInv
  <2>6. CASE walk' = [walk EXCEPT !.given = @ \o chunk, !.left = rest]
    <3>1. Len(walk.left) \in Nat
      BY <2>2, LenProperties
    <3>2. k \in 0..Len(walk.left)
      <4>1. ChunkSize \in Nat
        BY CInPSizes
      <4>2. k \in Nat /\ k <= Len(walk.left)
        BY <3>1, <4>1, LeastIs
      <4> HIDE DEF k
      <4> QED
        BY <3>1, <4>2
    <3> HIDE DEF k
    <3>3. /\ walk.given \o chunk \in Seq(AnyRecord) /\ rest \in Seq(AnyRecord)
          /\ ToSet(walk.given) \cup ToSet(walk.left) \subseteq ToSet(walk.given \o chunk) \cup ToSet(rest)
          /\ IsInjective(walk.given \o chunk) /\ IsInjective(rest) /\ ToSet(walk.given \o chunk) \cap ToSet(rest) = {}
      BY <2>2, <2>3, <3>2, ChunkIsKept DEF ObjectsInv
    <3> HIDE DEF chunk, rest
    <3>4. /\ walk'.given = walk.given \o chunk /\ walk'.left = rest /\ walk'.how = "objects"
          /\ walk'.always = walk.always /\ walk'.total = walk.total /\ walk'.state = "get"
      BY <2>1, <2>2, <2>3, <2>6 DEF WalkType
    <3>5. walk' \in WalkType
      BY <2>2, <2>6, <3>3 DEF WalkType
    <3>6. ObjectsInv'
      BY <2>1, <2>3, <3>3, <3>4 DEF ObjectsInv, InHand
    <3> QED
      BY <2>4, <3>4, <3>5, <3>6 DEF WalkInv
  <2>7. CASE walk' = [walk EXCEPT !.state = "NotFound"]
    <3>1. /\ walk' \in WalkType /\ walk'.given = walk.given /\ walk'.left = walk.left /\ walk'.how = "objects"
          /\ walk'.state = "NotFound"
      BY <2>2, <2>3, <2>7 DEF WalkType
    <3>2. ObjectsInv'
      BY <2>3, <3>1 DEF ObjectsInv
    <3> QED
      BY <2>4, <3>1, <3>2 DEF WalkInv
  <2> QED
    BY <1>7, <2>5, <2>6, <2>7 DEF GetChunk
<1> QED
  BY <1>1, <1>2, <1>3, <1>4, <1>5, <1>6, <1>7 DEF CInPNext

CInPSpec == CInPInit /\ [][CInPNext]_cinpVars

\* What comes of the client is what was asked: a request that returns was carried
\* out, and no more often than its retries allow; a walk over a list gives what was
\* there all along (_request, getFilteredURIs and getFilteredObjects, client.py).
THEOREM AnswersTrue == CInPSpec => []AnswersAreTrue
<1>1. CInPInit => RequestInv /\ RecordsInv /\ WalkInv
  <2> SUFFICES ASSUME CInPInit PROVE RequestInv /\ RecordsInv /\ WalkInv
    OBVIOUS
  <2>0. asked = Missing /\ tries = 0 /\ executed = 0 /\ outcome = Missing /\ Missing # "returned"
    BY CInPAssumption DEF CInPInit, Outcomes
  <2>1. RequestInv
    BY <2>0 DEF RequestInv, RequestsAreCounted
  <2>2. PICK k \in 0..Len(Records) : records = SubSeq(Records, 1, k)
    BY DEF CInPInit
  <2>3. Len(Records) \in Nat /\ DOMAIN Records = 1..Len(Records) /\ \A i \in 1..Len(Records) : Records[i] \in ToSet(Records)
    BY CInPAssumption, LenProperties
  <2>4. records \in Seq(ToSet(Records)) /\ Len(records) = k /\ \A i \in 1..k : records[i] = Records[i]
    BY <2>2, <2>3, SubSeqProperties
  <2>5. IsInjective(records)
    <3>1. DOMAIN records = 1..k
      BY <2>4, LenProperties
    <3>2. IsInjective(Records)
      BY CInPAssumption
    <3> QED
      BY <2>3, <2>4, <3>1, <3>2 DEF IsInjective
  <2>6. records \in Seq(CameSoFar) /\ changes \in 0..Len(NewRecords)
    BY <2>4, SeqMonotonic, CInPConstants DEF CameSoFar, CInPInit
  <2> QED
    BY <2>1, <2>5, <2>6 DEF CInPInit, RecordsInv, WalkInv
<1>2. RequestInv /\ RecordsInv /\ WalkInv /\ [CInPNext]_cinpVars => (RequestInv /\ RecordsInv /\ WalkInv)'
  <2>1. CASE UNCHANGED cinpVars
    BY <2>1 DEF cinpVars, RequestInv, RequestsAreCounted, Sendable, Allowed, RecordsInv, CameSoFar,
                WalkInv, URIsInv, ObjectsInv, InHand, Beyond
  <2> QED
    BY <2>1, RequestStep, WalkStep
<1>3. RequestInv /\ WalkInv => AnswersAreTrue
  <2> SUFFICES ASSUME RequestInv, WalkInv PROVE RequestsAreCounted /\ WalksAreWhole
    BY DEF AnswersAreTrue
  <2>1. RequestsAreCounted
    BY DEF RequestInv
  <2>2. ASSUME walk # Missing, walk.state = "done"
        PROVE  walk.left = <<>> /\ InHand = ToSet(walk.given)
    <3>1. walk.left = <<>>
      BY <2>2 DEF WalkInv, WalkType, URIsInv, ObjectsInv
    <3> QED
      BY <3>1 DEF InHand, ToSet
  <2>3. WalksAreWhole
    BY <2>2 DEF WalksAreWhole, WalkInv, URIsInv, ObjectsInv
  <2> QED
    BY <2>1, <2>3
<1> QED
  BY <1>1, <1>2, <1>3, PTL DEF CInPSpec
-----------------------------------------------------------------------------
(* Inventory: what is told of a machine.                                   *)

\* The list of the VPD after n devices: a slot holds what the last of them that
\* wrote it wrote, and of each letter of its value the last that had as many; the
\* first slot nothing older than the last device.
Holds(list, n) ==
  /\ DOMAIN list = 1..ListSize
  /\ \A s \in 1..ListSize : list[s].by \in Seq(1..n)
  /\ \A s \in 1..ListSize : list[s].id = "" => list[s] = NoEntry
  /\ \A s \in 1..ListSize : list[s].id # "" => WrittenLast(list[s], s, n)

PCIInv ==
  /\ bus \in Buses /\ pci \in Seq(ToSet(pci)) /\ Len(pci) <= Len(bus)
  /\ survey = "hardware" => Holds(vpdList, Len(pci))
  /\ OwnVPDIsHeld

\* What was heard is a table of interfaces, and what is told of it is what was heard.
NeighboursInv ==
  /\ waits \in 0..MaxWaits
  /\ survey \in {"hardware", "lldp", "network", "reported", "exit1"}
  /\ DOMAIN lldp \subseteq DOMAIN heard /\ \A i \in DOMAIN lldp : lldp[i] = PortOf(heard[i])
  /\ survey \in {"hardware", "lldp"} => DOMAIN lldp = {}
  /\ survey \in {"network", "reported"} => DOMAIN heard = {} \/ DOMAIN lldp # {} \/ waits = MaxWaits
  /\ NetworkIsWhole

\* A group of entries is told of once, and none of them is left out, whatever the
\* entries are (dmiInfo).
LEMMA EntriesAreTold == TablesAreKept
<1> DEFINE RecordOf(g) ==
             LET least == CHOOSE k \in Named(dmi, g) : \A l \in Named(dmi, g) : k <= l
             IN  [type |-> dmi[least].type, group |-> g, names |-> {dmi[k].name : k \in Named(dmi, g)}]
<1>1. DMIInfo(dmi) = {RecordOf(g) : g \in {dmi[k].group : k \in Typed(dmi)}}
  BY DEF DMIInfo
<1>2. \A g : RecordOf(g).group = g /\ RecordOf(g).names = {dmi[k].name : k \in Named(dmi, g)}
  OBVIOUS
<1> HIDE DEF RecordOf
<1>3. ASSUME NEW k \in Typed(dmi)
      PROVE  \E r \in DMIInfo(dmi) : r.group = dmi[k].group /\ dmi[k].name \in r.names
  <2>1. k \in Named(dmi, dmi[k].group)
    BY DEF Named
  <2>2. RecordOf(dmi[k].group) \in DMIInfo(dmi)
    BY <1>1
  <2> QED
    BY <1>2, <2>1, <2>2
<1>4. \A r, s \in DMIInfo(dmi) : r.group = s.group => r = s
  BY <1>1, <1>2
<1> QED
  BY <1>3, <1>4 DEF TablesAreKept

\* A sequence that is made longer is one of its elements and the new one.
LEMMA Appended ==
  ASSUME NEW s, s \in Seq(ToSet(s)), NEW e
  PROVE  /\ Append(s, e) \in Seq(ToSet(Append(s, e))) /\ Len(Append(s, e)) = Len(s) + 1 /\ Len(s) \in Nat
         /\ \A i \in 1..Len(s) : Append(s, e)[i] = s[i]
         /\ Append(s, e)[Len(s) + 1] = e
<1> DEFINE S == ToSet(s) \cup {e}
           t == Append(s, e)
<1>1. s \in Seq(S) /\ e \in S
  BY SeqMonotonic
<1>2. /\ t \in Seq(S) /\ Len(t) = Len(s) + 1 /\ Len(s) \in Nat
      /\ \A i \in 1..Len(s) : t[i] = s[i]
      /\ t[Len(s) + 1] = e
  BY <1>1, AppendProperties, LenProperties
<1> HIDE DEF S, t
<1>3. t \in Seq(ToSet(t))
  <2>1. DOMAIN t = 1..Len(t)
    BY <1>2, LenProperties
  <2>2. \A i \in 1..Len(t) : t[i] \in ToSet(t)
    BY <2>1 DEF ToSet
  <2>3. Len(t) \in Nat /\ t = [i \in 1..Len(t) |-> t[i]]
    BY <1>2, <2>1
  <2> QED
    BY <2>2, <2>3
<1> QED
  BY <1>2, <1>3 DEF t

\* The places of a sequence.
LEMMA PlaceInSeq ==
  ASSUME NEW S, NEW f \in Seq(S), NEW i \in DOMAIN f
  PROVE  i \in Nat \ {0}
  OBVIOUS

\* A value of which the k-th device wrote the first n letters, and no other.
IsOver(new, value, n, k) ==
  /\ new \in Seq(ToSet(value) \cup {k})
  /\ \A i \in 1..n : i \in DOMAIN new /\ new[i] = k
  /\ \A i \in DOMAIN new : i > n => i \in DOMAIN value /\ new[i] = value[i]

\* A text is written to its last letter, and what is behind it stays.
LEMMA OverIs ==
  ASSUME NEW k \in Nat, NEW n \in Nat, NEW value \in Seq(Nat)
  PROVE  IsOver(Over(value, n, k), value, n, k)
<1> DEFINE longer == IF n >= Len(value) THEN n ELSE Len(value)
<1>1. Len(value) \in Nat /\ DOMAIN value = 1..Len(value)
  BY LenProperties
<1>2. longer \in Nat /\ longer >= n /\ longer >= Len(value) /\ (longer = n \/ longer = Len(value))
  BY <1>1
<1>3. Over(value, n, k) = [i \in 1..longer |-> IF i <= n THEN k ELSE value[i]]
  BY DEF Over
<1> HIDE DEF longer
<1>4. ASSUME NEW i \in 1..longer, i > n
      PROVE  i \in DOMAIN value /\ value[i] \in ToSet(value)
  <2>1. longer = Len(value)
    <3>1. i \in Int /\ i <= longer
      BY <1>2
    <3>2. longer # n
      BY <1>4, <3>1
    <3> QED
      BY <1>2, <3>2
  <2>2. i \in DOMAIN value
    BY <1>1, <2>1
  <2> QED
    BY <2>2 DEF ToSet
<1>5. Over(value, n, k) \in [1..longer -> ToSet(value) \cup {k}]
  BY <1>2, <1>3, <1>4
<1> QED
  BY <1>2, <1>3, <1>4, <1>5 DEF IsOver

\* The device that is read writes its slots over: its own are of it to their last
\* letter, and what is behind it, or in another slot, is what was there before.
LEMMA FilledHolds ==
  ASSUME bus \in Buses, NEW n \in Nat, n + 1 \in DOMAIN bus, Holds(vpdList, n)
  PROVE  /\ Holds(Filled(vpdList, n + 1), n + 1)
         /\ TextsAreTold(SlotsInUse(Filled(vpdList, n + 1)), n + 1)
<1> DEFINE k == n + 1
           list == Filled(vpdList, k)
           Old(s) == IF s = 1 THEN NoEntry ELSE vpdList[s]
<1>1. \A s \in DOMAIN bus[k] : s \in 1..ListSize /\ bus[k][s].id # "" /\ bus[k][s].length \in 0..255
  BY InventoryAssumption, Zenon
<1>2. /\ DOMAIN list = 1..ListSize
      /\ \A s \in DOMAIN bus[k] : list[s] = VPDEntry(Old(s), bus[k][s], k)
      /\ \A s \in 1..ListSize : s \notin DOMAIN bus[k] => list[s] = Old(s)
  BY <1>1, Zenon DEF Filled, Holds
<1>3. NoEntry.id = "" /\ NoEntry.by = <<>>
  BY Zenon DEF NoEntry
<1>4. \A s \in 1..ListSize : Old(s).by \in Seq(1..n)
  <2>1. NoEntry.by = <<>>
    BY <1>3
  <2>2. NoEntry.by \in Seq(1..n)
    BY <2>1
  <2>3. \A s \in 1..ListSize : vpdList[s].by \in Seq(1..n)
    BY Zenon DEF Holds
  <2> QED
    BY <2>2, <2>3
<1>5. k \in Nat /\ k \notin 1..n /\ (1..n) \cup {k} = 1..k
  OBVIOUS
<1> HIDE DEF k, list, Old
<1>6. ASSUME NEW s \in DOMAIN bus[k]
      PROVE  /\ s \in 1..ListSize /\ list[s].id = bus[k][s].id
             /\ list[s].by \in Seq(1..k)
             /\ \A i \in 1..bus[k][s].length : i \in DOMAIN list[s].by /\ list[s].by[i] = k
             /\ \A i \in DOMAIN list[s].by : i > bus[k][s].length =>
                  i \in DOMAIN Old(s).by /\ list[s].by[i] = Old(s).by[i]
  <2> DEFINE value == Old(s).by
             length == bus[k][s].length
  <2>1. value \in Seq(1..n) /\ value \in Seq(Nat) /\ length \in Nat /\ s \in 1..ListSize
    <3>1. value \in Seq(1..n)
      BY <1>1, <1>4, Zenon
    <3>2. value \in Seq(Nat)
      BY <3>1, SeqMonotonic
    <3>3. length \in 0..255 /\ s \in 1..ListSize
      BY <1>1, Zenon
    <3>4. length \in Nat
      BY <3>3
    <3> QED
      BY <3>1, <3>2, <3>3, <3>4
  <2>2. list[s].id = bus[k][s].id /\ list[s].by = Over(value, length, k)
    <3>1. list[s] = [id |-> bus[k][s].id, by |-> Over(value, length, k)]
      BY <1>2, Zenon DEF VPDEntry
    <3> QED
      BY <3>1
  <2> HIDE DEF value, length
  <2>3. ToSet(value) \cup {k} \subseteq 1..k
    <3>1. ToSet(value) \subseteq 1..n
      BY <2>1 DEF ToSet
    <3> QED
      BY <1>5, <3>1
  <2>4. IsOver(Over(value, length, k), value, length, k)
    BY <1>5, <2>1, OverIs
  <2>5. Over(value, length, k) \in Seq(1..k)
    <3>1. Over(value, length, k) \in Seq(ToSet(value) \cup {k})
      BY <2>4 DEF IsOver
    <3> QED
      BY <2>3, <3>1, SeqMonotonic
  <2> QED
    BY <2>1, <2>2, <2>4, <2>5 DEF IsOver, value, length
<1>7. \A s \in 1..ListSize : list[s].by \in Seq(1..k)
  <2> SUFFICES ASSUME NEW s \in 1..ListSize PROVE list[s].by \in Seq(1..k)
    OBVIOUS
  <2>1. CASE s \in DOMAIN bus[k]
    BY <1>6, <2>1
  <2>2. CASE s \notin DOMAIN bus[k]
    <3>1. list[s].by \in Seq(1..n)
      BY <1>2, <1>4, <2>2
    <3> QED
      BY <1>5, <3>1, SeqMonotonic
  <2> QED  BY <2>1, <2>2
<1>8. ASSUME NEW s \in 1..ListSize
      PROVE  /\ Writers(s, k) = (IF s = 1 THEN {} ELSE Writers(s, n)) \cup (IF s \in DOMAIN bus[k] THEN {k} ELSE {})
             /\ Writers(s, n) \subseteq 1..n
  <2>1. \A l : l \in 1..k <=> l \in 1..n \/ l = k
    BY <1>5
  <2>2. CASE s = 1
    BY <1>5, <2>1, <2>2 DEF Writers
  <2>3. CASE s # 1
    BY <1>5, <2>1, <2>3 DEF Writers
  <2> QED  BY <2>2, <2>3
<1>9. ASSUME NEW s \in 1..ListSize, list[s].id # ""
      PROVE  WrittenLast(list[s], s, k)
  <2>1. CASE s \in DOMAIN bus[k]
    <3>1. k \in Writers(s, k) /\ \A w \in Writers(s, k) : w \in 1..k
      BY <1>5, <1>8, <2>1 DEF Writers
    <3>2. list[s].id = bus[k][s].id /\ \A w \in Writers(s, k) : w <= k
      BY <1>6, <2>1, <3>1
    <3>3. ASSUME NEW i \in DOMAIN list[s].by
          PROVE  /\ list[s].by[i] \in Writers(s, k) /\ bus[list[s].by[i]][s].length >= i
                 /\ \A w \in Writers(s, k) : w > list[s].by[i] => bus[w][s].length < i
      <4>1. i \in Nat \ {0} /\ bus[k][s].length \in Nat
        <5>1. list[s].by \in Seq(1..k)
          BY <1>7
        <5>2. bus[k][s].length \in 0..255
          BY <1>1, <2>1, Zenon
        <5>3. i \in Nat \ {0}
          BY <5>1, PlaceInSeq, Zenon
        <5> QED
          BY <5>2, <5>3
      <4>2. CASE i <= bus[k][s].length
        <5>1. list[s].by[i] = k
          BY <1>6, <2>1, <4>1, <4>2
        <5>2. \A w \in Writers(s, k) : ~ (w > k)
          BY <3>1
        <5> QED
          BY <3>1, <4>2, <4>1, <5>1, <5>2
      <4>3. CASE i > bus[k][s].length
        <5>1. i \in DOMAIN Old(s).by /\ list[s].by[i] = Old(s).by[i]
          BY <1>6, <2>1, <4>3
        <5>2. s # 1 /\ Old(s) = vpdList[s] /\ vpdList[s].id # ""
          <6>1. NoEntry.by = <<>>
            BY <1>3, Zenon
          <6>2. Old(s) # NoEntry
            BY <5>1, <6>1
          <6> QED
            BY <6>2, Zenon DEF Old, Holds
        <5>3. WrittenLast(vpdList[s], s, n)
          BY <5>2 DEF Holds
        <5>4. /\ list[s].by[i] \in Writers(s, n) /\ bus[list[s].by[i]][s].length >= i
              /\ \A w \in Writers(s, n) : w > list[s].by[i] => bus[w][s].length < i
          BY <5>1, <5>2, <5>3 DEF WrittenLast
        <5>5. Writers(s, k) = Writers(s, n) \cup {k}
          BY <1>8, <2>1, <5>2
        <5> QED
          BY <4>3, <5>4, <5>5
      <4> QED
        BY <4>1, <4>2, <4>3
    <3> QED
      BY <3>1, <3>2, <3>3 DEF WrittenLast
  <2>2. CASE s \notin DOMAIN bus[k]
    <3>1. s # 1 /\ list[s] = vpdList[s]
      BY <1>2, <1>3, <1>9, <2>2 DEF Old
    <3>2. WrittenLast(vpdList[s], s, n)
      BY <1>9, <3>1 DEF Holds
    <3>3. Writers(s, k) = Writers(s, n)
      BY <1>8, <2>2, <3>1
    <3> QED
      BY <3>1, <3>2, <3>3 DEF WrittenLast
  <2> QED  BY <2>1, <2>2
<1>10. \A s \in 1..ListSize : list[s].id = "" => s \notin DOMAIN bus[k] /\ list[s] = Old(s)
  BY <1>1, <1>2, <1>6
<1>11. Holds(list, k)
  <2>1. \A s \in 1..ListSize : list[s].id = "" => list[s] = NoEntry
    BY <1>10 DEF Holds, Old
  <2> QED
    BY <1>2, <1>7, <1>9, <2>1 DEF Holds
<1>12. TextsAreTold(SlotsInUse(list), k)
  <2> SUFFICES ASSUME NEW s \in DOMAIN bus[k]
               PROVE  /\ s \in DOMAIN SlotsInUse(list) /\ SlotsInUse(list)[s].id = bus[k][s].id
                      /\ \A i \in 1..bus[k][s].length :
                           i \in DOMAIN SlotsInUse(list)[s].by /\ SlotsInUse(list)[s].by[i] = k
    BY DEF TextsAreTold
  <2>1. s \in DOMAIN list /\ list[s].id # ""
    BY <1>1, <1>2, <1>6
  <2>2. s \in DOMAIN SlotsInUse(list) /\ SlotsInUse(list)[s] = list[s]
    BY <2>1 DEF SlotsInUse
  <2> QED
    BY <1>6, <2>2, Zenon
<1> QED
  BY <1>11, <1>12 DEF k, list

\* Every step of the survey keeps what is told of the devices.
LEMMA DevicesStep ==
  ASSUME PCIInv, InventoryNext
  PROVE  PCIInv'
<1>1. CASE ReadDevice
  <2> DEFINE n == Len(pci)
             k == n + 1
             list == Filled(vpdList, k)
             told == SlotsInUse(list)
  <2>1. survey = "hardware" /\ n < Len(bus) /\ vpdList' = list /\ UNCHANGED bus
    BY <1>1 DEF ReadDevice
  <2>2. bus \in Seq(ToSet(bus)) /\ Len(bus) \in Nat /\ n \in Nat
    BY InventoryAssumption, LenProperties DEF PCIInv
  <2>3. n + 1 \in DOMAIN bus
    BY <2>1, <2>2, LenProperties
  <2>4. Holds(list, k) /\ TextsAreTold(told, k)
    BY <2>1, <2>2, <2>3, FilledHolds DEF PCIInv
  <2>5. CASE pci' = Append(pci, told) /\ UNCHANGED survey
    <3> HIDE DEF told, list, n
    <3>1. /\ pci' \in Seq(ToSet(pci')) /\ Len(pci') = n + 1
          /\ \A i \in 1..n : pci'[i] = pci[i]
          /\ pci'[n + 1] = told
      BY <2>5, Appended DEF PCIInv, n
    <3>2. DOMAIN pci' = 1..(n + 1) /\ DOMAIN pci = 1..n
      BY <3>1, LenProperties DEF PCIInv, n
    <3>3. \A s \in DOMAIN told : WrittenLast(told[s], s, k)
      BY <2>4 DEF told, SlotsInUse, Holds
    <3>4. OwnVPDIsHeld'
      <4> SUFFICES ASSUME NEW i \in DOMAIN pci'
                   PROVE  /\ TextsAreTold(pci'[i], i)
                          /\ \A s \in DOMAIN pci'[i] : WrittenLast(pci'[i][s], s, i)
        BY <2>1 DEF OwnVPDIsHeld, WrittenLast, Writers, TextsAreTold
      <4>1. CASE i \in 1..n
        BY <3>1, <3>2, <4>1 DEF PCIInv, OwnVPDIsHeld
      <4>2. CASE i = n + 1
        BY <2>4, <3>1, <3>3, <4>2
      <4> QED
        BY <2>2, <3>2, <4>1, <4>2
    <3>5. Holds(vpdList, Len(pci))'
      BY <2>1, <2>4, <3>1 DEF Holds, WrittenLast, Writers
    <3> QED
      BY <2>1, <2>2, <3>1, <3>4, <3>5 DEF PCIInv
  <2>6. CASE survey' = "exit1" /\ UNCHANGED pci
    BY <2>1, <2>6 DEF PCIInv, OwnVPDIsHeld, WrittenLast, Writers, TextsAreTold
  <2> QED
    BY <1>1, <2>5, <2>6 DEF ReadDevice
<1>2. CASE GetPlatform \/ Hear \/ AskLLDP \/ Report
  <2>1. UNCHANGED <<bus, pci, vpdList>> /\ survey' # "hardware"
    BY <1>2 DEF GetPlatform, Hear, AskLLDP, Report
  <2> QED
    BY <2>1 DEF PCIInv, OwnVPDIsHeld, WrittenLast, Writers, TextsAreTold
<1> QED
  BY <1>1, <1>2 DEF InventoryNext

\* Every step of the survey keeps what is told of the neighbours.
LEMMA NeighboursStep ==
  ASSUME NeighboursInv, InventoryNext
  PROVE  NeighboursInv'
<1>0. MaxWaits \in Nat
  BY InventoryAssumption
<1>1. CASE ReadDevice \/ GetPlatform
  <2>1. UNCHANGED <<waits, heard, lldp, network>> /\ survey = "hardware" /\ survey' \in {"hardware", "exit1", "lldp"}
    BY <1>1 DEF ReadDevice, GetPlatform
  <2> QED
    BY <2>1 DEF NeighboursInv, NetworkIsWhole
<1>2. CASE Hear
  <2>2. UNCHANGED <<survey, waits, lldp, network>> /\ survey = "lldp" /\ DOMAIN lldp = {}
    BY <1>2 DEF Hear, NeighboursInv
  <2> QED
    BY <2>2 DEF NeighboursInv, NetworkIsWhole
<1>3. CASE AskLLDP
  <2>1. survey = "lldp" /\ DOMAIN lldp = {} /\ UNCHANGED <<heard, network>>
    BY <1>3 DEF AskLLDP, NeighboursInv
  <2>2. CASE DOMAIN heard # {} /\ survey' = "network" /\ lldp' = [i \in DOMAIN heard |-> PortOf(heard[i])] /\ UNCHANGED waits
    BY <2>1, <2>2 DEF NeighboursInv, NetworkIsWhole
  <2>3. CASE survey' = "exit1" /\ UNCHANGED <<waits, lldp>>
    BY <2>1, <2>3 DEF NeighboursInv, NetworkIsWhole
  <2>4. CASE DOMAIN heard = {} /\ waits >= MaxWaits /\ survey' = "network" /\ UNCHANGED <<waits, lldp>>
    BY <1>0, <2>1, <2>4 DEF NeighboursInv, NetworkIsWhole
  <2>5. CASE waits < MaxWaits /\ waits' = waits + 1 /\ UNCHANGED <<survey, lldp>>
    BY <1>0, <2>1, <2>5 DEF NeighboursInv, NetworkIsWhole
  <2> QED
    BY <1>0, <1>3, <2>2, <2>3, <2>4, <2>5 DEF AskLLDP, NeighboursInv
<1>4. CASE Report
  <2>1. survey = "network" /\ survey' = "reported" /\ UNCHANGED <<waits, heard, lldp>>
    BY <1>4 DEF Report
  <2>2. PICK primary \in Interfaces \cup {"other"} :
          network' = [i \in Interfaces \cup PlatformNetwork \cup {primary} |->
                        [lldp |-> IF i \in (Interfaces \cup PlatformNetwork) \cap DOMAIN lldp THEN lldp[i] ELSE <<>>,
                         primary |-> i = primary]]
    BY <1>4 DEF Report
  <2>3. /\ DOMAIN network' = Interfaces \cup PlatformNetwork \cup {primary}
        /\ \A i \in DOMAIN network' : /\ network'[i].primary <=> i = primary
                                      /\ network'[i].lldp = <<>> \/ (i \in DOMAIN lldp /\ network'[i].lldp = lldp[i])
    BY <2>2
  <2>4. NetworkIsWhole'
    BY <2>1, <2>3 DEF NeighboursInv, NetworkIsWhole
  <2> QED
    BY <2>1, <2>4 DEF NeighboursInv
<1> QED
  BY <1>1, <1>2, <1>3, <1>4 DEF InventoryNext

\* Contractor is told what the tables of the machine, its devices and its network
\* say: of a device every text of its VPD to the last letter, and after it, or in a
\* slot that it does not write, what the last device before it with as many letters
\* left there (dmiInfo and pciInfo, libhardware.py; pci.c; bootstrap.py).
THEOREM InventoryKept == InventorySpec => []InventoryIsKept
<1>1. InventoryInit => PCIInv /\ NeighboursInv
  <2> SUFFICES ASSUME InventoryInit PROVE PCIInv /\ NeighboursInv
    OBVIOUS
  <2>1. bus \in Buses /\ pci = <<>> /\ vpdList = [s \in 1..ListSize |-> NoEntry] /\ survey = "hardware"
    BY DEF InventoryInit
  <2>2. Len(bus) \in Nat
    BY <2>1, InventoryAssumption, LenProperties
  <2>3. pci \in Seq(ToSet(pci)) /\ Len(pci) = 0 /\ DOMAIN pci = {}
    BY <2>1, EmptySeq
  <2>4. Holds(vpdList, 0)
    <3>1. NoEntry.id = "" /\ NoEntry.by = <<>>
      BY Zenon DEF NoEntry
    <3>2. NoEntry.by = <<>>
      BY <3>1, Zenon
    <3>3. NoEntry.by \in Seq(1..0)
      BY <3>2
    <3>4. DOMAIN vpdList = 1..ListSize /\ \A s \in 1..ListSize : vpdList[s] = NoEntry
      BY <2>1, Zenon
    <3> QED
      BY <3>1, <3>3, <3>4, Zenon DEF Holds
  <2>5. PCIInv
    BY <2>1, <2>2, <2>3, <2>4 DEF PCIInv, OwnVPDIsHeld
  <2>6. MaxWaits \in Nat
    BY InventoryAssumption
  <2>7. NeighboursInv
    <3>1. waits = 0 /\ heard = <<>> /\ lldp = <<>> /\ survey = "hardware"
      BY DEF InventoryInit
    <3>2. DOMAIN heard = {} /\ DOMAIN lldp = {}
      BY <2>1, <2>3, <3>1
    <3> QED
      BY <2>6, <3>1, <3>2 DEF NeighboursInv, NetworkIsWhole
  <2> QED
    BY <2>5, <2>7
<1>2. PCIInv /\ NeighboursInv /\ [InventoryNext]_inventoryVars => (PCIInv /\ NeighboursInv)'
  <2>1. CASE UNCHANGED inventoryVars
    <3>1. PCIInv => PCIInv'
      <4>1. UNCHANGED <<survey, bus, pci, vpdList>>
        BY <2>1 DEF inventoryVars
      <4>2. OwnVPDIsHeld => OwnVPDIsHeld'
        BY <4>1 DEF OwnVPDIsHeld, WrittenLast, Writers, TextsAreTold
      <4>3. Holds(vpdList, Len(pci)) => Holds(vpdList, Len(pci))'
        BY <4>1 DEF Holds, WrittenLast, Writers
      <4> QED
        BY <4>1, <4>2, <4>3 DEF PCIInv
    <3>2. NeighboursInv => NeighboursInv'
      BY <2>1 DEF inventoryVars, NeighboursInv, NetworkIsWhole
    <3> QED
      BY <3>1, <3>2
  <2> QED
    BY <2>1, DevicesStep, NeighboursStep
<1>3. PCIInv /\ NeighboursInv => InventoryIsKept
  BY EntriesAreTold DEF PCIInv, NeighboursInv, InventoryIsKept
<1> QED
  BY <1>1, <1>2, <1>3, PTL DEF InventorySpec
-----------------------------------------------------------------------------
(* Handlers: the output of a command.                                      *)

\* A log that has what was said goes on having it when both get the same lines.
LEMMA HoldingSaid ==
  ASSUME NEW S, NEW log \in Seq(S), NEW said \in Seq(S), NEW more \in Seq(S), NEW n \in Nat,
         Holding(log, said, n)
  PROVE  Holding(log \o more, said \o more, n)
<1> DEFINE log2 == log \o more
           said2 == said \o more
           ls == Len(said)
           ll == Len(log)
           lm == Len(more)
<1>1. /\ ls \in Nat /\ ll \in Nat /\ lm \in Nat /\ ll = ls + n
      /\ DOMAIN said = 1..ls /\ DOMAIN log = 1..ll
  BY LenProperties DEF Holding
<1>2. /\ Len(said2) = ls + lm /\ DOMAIN said2 = 1..(ls + lm)
      /\ \A i \in 1..(ls + lm) : said2[i] = IF i <= ls THEN said[i] ELSE more[i - ls]
  BY ConcatProperties, LenProperties
<1>3. /\ Len(log2) = ll + lm /\ DOMAIN log2 = 1..(ll + lm)
      /\ \A i \in 1..(ll + lm) : log2[i] = IF i <= ll THEN log[i] ELSE more[i - ll]
  BY ConcatProperties, LenProperties
<1>4. PICK place \in [DOMAIN said -> DOMAIN log] :
        /\ \A i, j \in DOMAIN said : i < j => place[i] < place[j]
        /\ \A i \in DOMAIN said : log[place[i]] = said[i]
        /\ \A k \in DOMAIN log : log[k] = Noise \/ \E i \in DOMAIN said : place[i] = k
  BY DEF Holding
<1> HIDE DEF log2, said2, ls, ll, lm
<1> DEFINE place2 == [i \in DOMAIN said2 |-> IF i <= ls THEN place[i] ELSE i + n]
<1>5. \A i \in 1..ls : place[i] \in 1..ll
  BY <1>1, <1>4
<1>6. /\ \A i \in 1..ls : place2[i] = place[i]
      /\ \A i \in (ls + 1)..(ls + lm) : place2[i] = i + n /\ i + n \in (ll + 1)..(ll + lm)
  BY <1>1, <1>2
<1>7. place2 \in [DOMAIN said2 -> DOMAIN log2]
  <2> SUFFICES ASSUME NEW i \in 1..(ls + lm) PROVE (IF i <= ls THEN place[i] ELSE i + n) \in 1..(ll + lm)
    BY <1>2, <1>3
  <2>1. CASE i <= ls
    BY <1>1, <1>5, <2>1
  <2>2. CASE ~(i <= ls)
    BY <1>1, <2>2
  <2> QED  BY <2>1, <2>2
<1> HIDE DEF place2
<1>8. ASSUME NEW i \in DOMAIN said2, NEW j \in DOMAIN said2, i < j
      PROVE  place2[i] < place2[j]
  <2>1. CASE j <= ls
    <3>1. i \in 1..ls /\ j \in 1..ls
      BY <1>1, <1>2, <1>8, <2>1
    <3>2. place2[i] = place[i] /\ place2[j] = place[j]
      BY <1>6, <3>1
    <3> QED
      BY <1>1, <1>4, <1>8, <3>1, <3>2
  <2>2. CASE i <= ls /\ ~(j <= ls)
    <3>1. place2[i] \in 1..ll
      BY <1>1, <1>2, <1>5, <1>6, <2>2
    <3>2. place2[j] \in (ll + 1)..(ll + lm)
      BY <1>1, <1>2, <1>6, <2>2
    <3> QED
      BY <1>1, <3>1, <3>2
  <2>3. CASE ~(i <= ls)
    <3>1. i \in (ls + 1)..(ls + lm) /\ j \in (ls + 1)..(ls + lm)
      BY <1>1, <1>2, <1>8, <2>3
    <3>2. place2[i] = i + n /\ place2[j] = j + n
      BY <1>6, <3>1
    <3> QED
      BY <1>1, <1>8, <3>1, <3>2
  <2> QED
    BY <1>1, <1>2, <1>8, <2>1, <2>2, <2>3
<1>9. ASSUME NEW i \in DOMAIN said2
      PROVE  log2[place2[i]] = said2[i]
  <2>1. CASE i <= ls
    <3>1. i \in 1..ls /\ place[i] \in 1..ll /\ place2[i] = place[i]
      BY <1>1, <1>2, <1>5, <1>6, <2>1
    <3>2. log2[place[i]] = log[place[i]]
      BY <1>1, <1>3, <3>1
    <3> QED
      BY <1>1, <1>2, <1>4, <2>1, <3>1, <3>2
  <2>2. CASE ~(i <= ls)
    <3>0. i \in (ls + 1)..(ls + lm)
      BY <1>1, <1>2, <2>2
    <3>1. place2[i] = i + n
      BY <1>6, <3>0
    <3> DEFINE x == i + n
    <3>2. x \in 1..(ll + lm) /\ ~(x <= ll) /\ x - ll = i - ls
      <4>1. ls \in Nat /\ ll \in Nat /\ lm \in Nat /\ n \in Nat /\ ll = ls + n
        BY <1>1
      <4> QED
        BY <3>0, <4>1
    <3> HIDE DEF x
    <3>3. log2[x] = more[x - ll]
      BY <1>3, <3>2
    <3>4. said2[i] = more[i - ls]
      BY <1>2, <2>2
    <3>5. place2[i] = x
      BY <3>1 DEF x
    <3> QED
      BY <3>2, <3>3, <3>4, <3>5
  <2> QED  BY <2>1, <2>2
<1>10. ASSUME NEW k \in DOMAIN log2
       PROVE  log2[k] = Noise \/ \E i \in DOMAIN said2 : place2[i] = k
  <2>1. CASE k <= ll
    <3>1. k \in 1..ll /\ log2[k] = log[k]
      BY <1>1, <1>3, <2>1
    <3>2. \A i \in 1..ls : i \in DOMAIN said2 /\ place2[i] = place[i]
      BY <1>1, <1>2, <1>6
    <3> QED
      BY <1>1, <1>4, <3>1, <3>2
  <2>2. CASE ~(k <= ll)
    <3>1. k - n \in (ls + 1)..(ls + lm) /\ k - n \in DOMAIN said2 /\ k - n + n = k
      BY <1>1, <1>2, <1>3, <2>2
    <3> QED
      BY <1>6, <3>1
  <2> QED  BY <2>1, <2>2
<1>11. Len(log2) = Len(said2) + n
  BY <1>1, <1>2, <1>3
<1> QED
  BY <1>7, <1>8, <1>9, <1>10, <1>11 DEF Holding, log2, said2

\* It goes on having it when noise is added.
LEMMA HoldingNoise ==
  ASSUME NEW S, NEW log \in Seq(S), NEW said \in Seq(S), NEW more \in Seq({Noise}), NEW n \in Nat,
         Holding(log, said, n)
  PROVE  Holding(log \o more, said, n + Len(more))
<1> DEFINE log2 == log \o more
           ll == Len(log)
           lm == Len(more)
<1>1. /\ Len(said) \in Nat /\ ll \in Nat /\ lm \in Nat /\ ll = Len(said) + n
      /\ DOMAIN log = 1..ll /\ DOMAIN more = 1..lm
  BY LenProperties DEF Holding
<1>2. log \in Seq(S \cup {Noise}) /\ more \in Seq(S \cup {Noise})
  BY SeqMonotonic
<1>3. /\ Len(log2) = ll + lm /\ DOMAIN log2 = 1..(ll + lm)
      /\ \A i \in 1..(ll + lm) : log2[i] = IF i <= ll THEN log[i] ELSE more[i - ll]
  BY <1>2, ConcatProperties, LenProperties
<1>4. PICK place \in [DOMAIN said -> DOMAIN log] :
        /\ \A i, j \in DOMAIN said : i < j => place[i] < place[j]
        /\ \A i \in DOMAIN said : log[place[i]] = said[i]
        /\ \A k \in DOMAIN log : log[k] = Noise \/ \E i \in DOMAIN said : place[i] = k
  BY DEF Holding
<1>5. \A i \in 1..lm : more[i] = Noise
  BY <1>1, LenProperties
<1> HIDE DEF log2, ll, lm
<1>6. /\ DOMAIN log \subseteq DOMAIN log2
      /\ \A k \in DOMAIN log : log2[k] = log[k]
  BY <1>1, <1>3
<1>7. place \in [DOMAIN said -> DOMAIN log2]
  BY <1>4, <1>6
<1>8. \A i \in DOMAIN said : log2[place[i]] = said[i]
  BY <1>4, <1>6
<1>9. ASSUME NEW k \in DOMAIN log2
      PROVE  log2[k] = Noise \/ \E i \in DOMAIN said : place[i] = k
  <2>1. CASE k \in DOMAIN log
    BY <1>4, <1>6, <2>1
  <2>2. CASE k \notin DOMAIN log
    <3>1. k - ll \in 1..lm /\ ~(k <= ll) /\ k \in 1..(ll + lm)
      BY <1>1, <1>3, <2>2
    <3> QED
      BY <1>3, <1>5, <3>1
  <2> QED  BY <2>1, <2>2
<1>10. Len(log2) = Len(said) + (n + lm)
  BY <1>1, <1>3
<1> QED
  BY <1>4, <1>7, <1>8, <1>9, <1>10 DEF Holding, log2, lm

\* What is kept of a sequence is a part of it, and all of it when it is shorter
\* than what fits.
LEMMA LatestIsKept ==
  ASSUME NEW S, NEW s \in Seq(S)
  PROVE  /\ Latest(s) \in Seq(S) /\ ToSet(Latest(s)) \subseteq ToSet(s)
         /\ Len(Latest(s)) = IF Len(s) <= KeptLines THEN Len(s) ELSE KeptLines
         /\ \A i \in 1..Len(Latest(s)) : Latest(s)[i] = s[i + (Len(s) - Len(Latest(s)))]
         /\ Len(Latest(s)) < KeptLines => Latest(s) = s
<1>0. Len(s) \in Nat /\ DOMAIN s = 1..Len(s) /\ KeptLines \in Nat \ {0} /\ \A i \in 1..Len(s) : s[i] \in S
  BY HandlersAssumption, LenProperties
<1>1. CASE Len(s) <= KeptLines
  <2>1. Latest(s) = s
    BY <1>1 DEF Latest
  <2> QED
    BY <1>0, <1>1, <2>1
<1>2. CASE ~(Len(s) <= KeptLines)
  <2> DEFINE m == Len(s) - KeptLines + 1
             k == Latest(s)
  <2>1. k = SubSeq(s, m, Len(s))
    BY <1>2 DEF Latest
  <2>2. m \in 1..Len(s) /\ Len(s) - m + 1 = KeptLines /\ m - 1 = Len(s) - KeptLines
    BY <1>0, <1>2
  <2>3. /\ k \in Seq(S) /\ Len(k) = KeptLines /\ DOMAIN k = 1..KeptLines
        /\ \A i \in 1..KeptLines : k[i] = s[m + i - 1]
    <3> HIDE DEF k
    <3>1. \A i \in m..Len(s) : s[i] \in S
      BY <1>0, <2>2
    <3> QED
      BY <1>0, <2>1, <2>2, <3>1, SubSeqProperties
  <2> HIDE DEF k
  <2>4. \A i \in 1..KeptLines : m + i - 1 \in 1..Len(s) /\ m + i - 1 = i + (Len(s) - KeptLines)
    BY <1>0, <2>2
  <2>5. ToSet(k) \subseteq ToSet(s)
    <3>1. ASSUME NEW e \in ToSet(k) PROVE e \in ToSet(s)
      <4>1. PICK i \in 1..KeptLines : e = k[i]
        BY <2>3 DEF ToSet
      <4>2. m + i - 1 \in DOMAIN s /\ e = s[m + i - 1]
        BY <1>0, <2>3, <2>4, <4>1
      <4> HIDE DEF m
      <4> QED
        BY <4>2 DEF ToSet
    <3> QED
      BY <3>1
  <2>6. /\ Len(k) = IF Len(s) <= KeptLines THEN Len(s) ELSE KeptLines
        /\ ~(Len(k) < KeptLines)
    BY <1>0, <1>2, <2>3
  <2>7. \A i \in 1..Len(k) : k[i] = s[i + (Len(s) - Len(k))]
    BY <2>3, <2>4
  <2> QED
    BY <2>3, <2>5, <2>6, <2>7 DEF k
<1> QED  BY <1>1, <1>2

\* The same line counted from the front of what is put behind a sequence that was cut,
\* or behind all of it.
LEMMA PlacesOfBoth ==
  ASSUME NEW K \in Nat \ {0}, NEW ls \in Nat, NEW lt \in Nat, NEW lk \in Nat, NEW la \in Nat,
         lk = IF ls <= K THEN ls ELSE K,
         la = IF lk + lt <= K THEN lk + lt ELSE K,
         NEW i \in 1..la
  PROVE  /\ i + (lk + lt - la) \in 1..(lk + lt) /\ i + (ls + lt - la) \in 1..(ls + lt)
         /\ i + (ls + lt - la) = i + (lk + lt - la) + (ls - lk)
         /\ (i + (lk + lt - la) <= lk <=> i + (ls + lt - la) <= ls)
         /\ i + (lk + lt - la) - lk = i + (ls + lt - la) - ls
         /\ (i + (lk + lt - la) <= lk => i + (lk + lt - la) \in 1..lk)
OBVIOUS

\* What is kept of all that was read does not depend on what was cut before.
LEMMA LatestOfBoth ==
  ASSUME NEW S, NEW s \in Seq(S), NEW t \in Seq(S)
  PROVE  Latest(Latest(s) \o t) = Latest(s \o t)
<1> DEFINE k == Latest(s)
           kt == k \o t
           st == s \o t
           a == Latest(kt)
           b == Latest(st)
<1>1. /\ Len(s) \in Nat /\ Len(t) \in Nat /\ KeptLines \in Nat \ {0}
      /\ k \in Seq(S) /\ Len(k) = IF Len(s) <= KeptLines THEN Len(s) ELSE KeptLines
      /\ \A i \in 1..Len(k) : k[i] = s[i + (Len(s) - Len(k))]
  BY HandlersAssumption, LenProperties, LatestIsKept
<1> HIDE DEF k
<1>2. /\ kt \in Seq(S) /\ Len(kt) = Len(k) + Len(t)
      /\ \A i \in 1..(Len(k) + Len(t)) : kt[i] = IF i <= Len(k) THEN k[i] ELSE t[i - Len(k)]
  BY <1>1, ConcatProperties
<1>3. /\ st \in Seq(S) /\ Len(st) = Len(s) + Len(t)
      /\ \A i \in 1..(Len(s) + Len(t)) : st[i] = IF i <= Len(s) THEN s[i] ELSE t[i - Len(s)]
  BY ConcatProperties
<1> HIDE DEF kt, st
<1>4. /\ a \in Seq(S) /\ Len(a) = IF Len(kt) <= KeptLines THEN Len(kt) ELSE KeptLines
      /\ \A i \in 1..Len(a) : a[i] = kt[i + (Len(kt) - Len(a))]
  BY <1>2, LatestIsKept
<1>5. /\ b \in Seq(S) /\ Len(b) = IF Len(st) <= KeptLines THEN Len(st) ELSE KeptLines
      /\ \A i \in 1..Len(b) : b[i] = st[i + (Len(st) - Len(b))]
  BY <1>3, LatestIsKept
<1> HIDE DEF a, b
<1>6. Len(a) = Len(b) /\ Len(a) \in Nat /\ Len(a) <= Len(k) + Len(t) /\ Len(k) \in Nat /\ Len(k) <= Len(s)
  BY <1>1, <1>2, <1>3, <1>4, <1>5
<1>7. ASSUME NEW i \in 1..Len(a) PROVE a[i] = b[i]
  <2> DEFINE x == i + (Len(kt) - Len(a))
             y == i + (Len(st) - Len(a))
  <2>1. /\ x \in 1..(Len(k) + Len(t)) /\ y \in 1..(Len(s) + Len(t)) /\ y = x + (Len(s) - Len(k))
        /\ (x <= Len(k) <=> y <= Len(s)) /\ x - Len(k) = y - Len(s)
        /\ (x <= Len(k) => x \in 1..Len(k))
    <3>1. Len(kt) = Len(k) + Len(t) /\ Len(st) = Len(s) + Len(t)
      BY <1>2, <1>3
    <3>2. /\ Len(k) = IF Len(s) <= KeptLines THEN Len(s) ELSE KeptLines
          /\ Len(a) = IF Len(k) + Len(t) <= KeptLines THEN Len(k) + Len(t) ELSE KeptLines
      BY <1>1, <1>4, <3>1
    <3>3. Len(s) \in Nat /\ Len(t) \in Nat /\ Len(k) \in Nat /\ Len(a) \in Nat /\ KeptLines \in Nat \ {0}
      BY <1>1, <1>6
    <3>4. PICK K \in Nat \ {0}, ls \in Nat, lt \in Nat, lk \in Nat, la \in Nat :
            K = KeptLines /\ ls = Len(s) /\ lt = Len(t) /\ lk = Len(k) /\ la = Len(a)
      BY <3>3
    <3>5. /\ lk = IF ls <= K THEN ls ELSE K
          /\ la = IF lk + lt <= K THEN lk + lt ELSE K
          /\ i \in 1..la
      BY <3>2, <3>4
    <3>6. /\ i + (lk + lt - la) \in 1..(lk + lt) /\ i + (ls + lt - la) \in 1..(ls + lt)
          /\ i + (ls + lt - la) = i + (lk + lt - la) + (ls - lk)
          /\ (i + (lk + lt - la) <= lk <=> i + (ls + lt - la) <= ls)
          /\ i + (lk + lt - la) - lk = i + (ls + lt - la) - ls
          /\ (i + (lk + lt - la) <= lk => i + (lk + lt - la) \in 1..lk)
      BY <3>5, PlacesOfBoth
    <3> QED
      BY <3>1, <3>4, <3>6
  <2>2. a[i] = kt[x] /\ b[i] = st[y]
    BY <1>4, <1>5, <1>6
  <2> HIDE DEF x, y
  <2>3. kt[x] = IF x <= Len(k) THEN k[x] ELSE t[x - Len(k)]
    BY <1>2, <2>1
  <2>4. st[y] = IF y <= Len(s) THEN s[y] ELSE t[y - Len(s)]
    BY <1>3, <2>1
  <2>5. x <= Len(k) => k[x] = s[y]
    BY <1>1, <2>1
  <2> QED
    BY <2>1, <2>2, <2>3, <2>4, <2>5
<1>8. a = b
  BY <1>4, <1>5, <1>6, <1>7, SeqEqual
<1> QED
  BY <1>8 DEF a, b, kt, st, k

Said == [key : {"version", "PSID", "other"}, of : {"BIOS", "BMC", NoDevice} \cup ToSet(Cards)]
Logged == Said \cup {Noise}

\* What was read of a command so far: the rest is in the pipes, or not yet written.
ReadSoFar(got) ==
  /\ Head(todo) = got \o (out \o toWrite)
  /\ Len(err) <= noise /\ Holding(logged, got, noise - Len(err))
  /\ ToSet(lines) \subseteq ToSet(got)
  /\ noise = 0 => lines = Latest(got) /\ reader \notin {"errout", "lasterrout"}

PipesType ==
  /\ toWrite \in Seq(Said) /\ out \in Seq(Said) /\ lines \in Seq(Said)
  /\ err \in Seq({Noise}) /\ logged \in Seq(Logged)

\* The reader has read what the process wrote, and all of it when it is done.
ReaderInv ==
  /\ reader \in {"idle", "poll", "out", "lastout", "err", "lasterr", "errout", "lasterrout", "done"}
  /\ todo \in Seq(Seq(Said)) /\ (calling = "command" => todo # <<>>)
  /\ noise \in Nat /\ rc \in {Running, 0, 1}
  /\ reader # "idle" =>
       /\ calling = "command" /\ PipesType
       /\ rc = 0 => toWrite = <<>>
       /\ \E got \in Seq(Said) : ReadSoFar(got)
       /\ reader \in {"lastout", "lasterr", "lasterrout", "done"} => rc # Running
       /\ reader \in {"lasterr", "lasterrout", "done"} => out = <<>>
       /\ reader \in {"lasterrout", "done"} => err = <<>>

\* A line goes from what is to be written to what was.
LEMMA WrittenOn ==
  ASSUME NEW S, NEW s \in Seq(S), NEW t \in Seq(S), t # <<>>
  PROVE  /\ Append(s, Head(t)) \in Seq(S) /\ Tail(t) \in Seq(S)
         /\ Append(s, Head(t)) \o Tail(t) = s \o t
<1> DEFINE h == <<Head(t)>>
<1>1. Head(t) \in S /\ Tail(t) \in Seq(S) /\ Len(Tail(t)) = Len(t) - 1 /\ Head(t) = t[1]
      /\ \A i \in 1..(Len(t) - 1) : Tail(t)[i] = t[i + 1]
  BY HeadTailProperties
<1>2. h \in Seq(S) /\ Len(h) = 1 /\ h[1] = t[1]
  BY <1>1
<1>3. Len(t) \in Nat /\ Len(t) # 0
  BY LenProperties, EmptySeq
<1> HIDE DEF h
<1>4. /\ h \o Tail(t) \in Seq(S) /\ Len(h \o Tail(t)) = 1 + (Len(t) - 1)
      /\ \A i \in 1..(1 + (Len(t) - 1)) : (h \o Tail(t))[i] = IF i <= 1 THEN h[i] ELSE Tail(t)[i - 1]
  <2> DEFINE tail == Tail(t)
  <2>1. tail \in Seq(S) /\ Len(tail) = Len(t) - 1
    BY <1>1
  <2> HIDE DEF tail
  <2>2. /\ h \o tail \in Seq(S) /\ Len(h \o tail) = Len(h) + Len(tail)
        /\ \A i \in 1..(Len(h) + Len(tail)) : (h \o tail)[i] = IF i <= Len(h) THEN h[i] ELSE tail[i - Len(h)]
    BY <1>2, <2>1, ConcatProperties
  <2>3. /\ Len(h \o tail) = 1 + (Len(t) - 1)
        /\ \A i \in 1..(1 + (Len(t) - 1)) : (h \o tail)[i] = IF i <= 1 THEN h[i] ELSE tail[i - 1]
    BY <1>2, <2>1, <2>2
  <2> QED
    BY <2>2, <2>3 DEF tail
<1>5. ASSUME NEW i \in 1..Len(t) PROVE (h \o Tail(t))[i] = t[i]
  <2>1. CASE i = 1
    BY <1>2, <1>3, <1>4, <2>1
  <2>2. CASE i # 1
    <3>1. i \in 1..(1 + (Len(t) - 1)) /\ ~(i <= 1) /\ i - 1 \in 1..(Len(t) - 1) /\ i - 1 + 1 = i
      BY <1>3, <2>2
    <3> QED
      BY <1>1, <1>4, <3>1
  <2> QED  BY <2>1, <2>2
<1>6. h \o Tail(t) = t
  <2>1. Len(h \o Tail(t)) = Len(t)
    BY <1>3, <1>4
  <2> QED
    BY <1>4, <1>5, <2>1, SeqEqual
<1>7. Append(s, Head(t)) = s \o h
  BY <1>1, AppendIsConcat DEF h
<1>8. (s \o h) \o Tail(t) = s \o (h \o Tail(t))
  BY <1>1, <1>2, ConcatAssociative
<1> QED
  BY <1>1, <1>6, <1>7, <1>8, AppendProperties

\* Two sequences put together have the elements of both.
LEMMA ToSetOfBoth ==
  ASSUME NEW S, NEW s \in Seq(S), NEW t \in Seq(S)
  PROVE  ToSet(s \o t) = ToSet(s) \cup ToSet(t)
<1> DEFINE n == Len(s)
           m == Len(t)
           u == s \o t
<1>1. n \in Nat /\ m \in Nat /\ DOMAIN s = 1..n /\ DOMAIN t = 1..m
  BY LenProperties
<1>2. DOMAIN u = 1..(n + m) /\ \A i \in 1..(n + m) : u[i] = IF i <= n THEN s[i] ELSE t[i - n]
  BY ConcatProperties, LenProperties
<1> HIDE DEF n, m, u
<1>3. ASSUME NEW i \in 1..n PROVE i \in DOMAIN u /\ u[i] = s[i]
  BY <1>1, <1>2
<1>4. ASSUME NEW i \in 1..m PROVE n + i \in DOMAIN u /\ u[n + i] = t[i]
  <2>1. PICK x \in 1..(n + m) : x = n + i /\ ~(x <= n) /\ x - n = i
    BY <1>1
  <2> QED
    BY <1>2, <2>1
<1>5. ASSUME NEW i \in 1..(n + m) PROVE u[i] \in ToSet(s) \cup ToSet(t)
  <2>1. CASE i <= n
    <3>1. i \in DOMAIN s
      BY <1>1, <2>1
    <3>2. u[i] = s[i]
      BY <1>2, <2>1
    <3> QED
      BY <3>1, <3>2 DEF ToSet
  <2>2. CASE ~(i <= n)
    <3>1. i - n \in DOMAIN t
      BY <1>1, <2>2
    <3>2. u[i] = t[i - n]
      BY <1>2, <2>2
    <3> QED
      BY <3>1, <3>2 DEF ToSet
  <2> QED  BY <2>1, <2>2
<1>6. ToSet(s) \cup ToSet(t) \subseteq ToSet(u)
  BY <1>1, <1>3, <1>4 DEF ToSet
<1>7. ToSet(u) \subseteq ToSet(s) \cup ToSet(t)
  BY <1>2, <1>5 DEF ToSet
<1> QED
  BY <1>6, <1>7 DEF u

\* What is read of stdout was written, and nothing of it is lost or read twice.
LEMMA OutIsRead ==
  ASSUME PipesType, NEW got \in Seq(Said), ReadSoFar(got), noise \in Nat,
         logged' = logged \o out, out' = <<>>, UNCHANGED <<toWrite, noise, err, todo>>,
         \/ lines' = Latest(lines \o out)
         \/ UNCHANGED lines /\ noise # 0,
         noise = 0 => reader' \notin {"errout", "lasterrout"}
  PROVE  PipesType' /\ \E more \in Seq(Said) : ReadSoFar(more)'
<1>1. /\ toWrite \in Seq(Said) /\ out \in Seq(Said) /\ lines \in Seq(Said) /\ err \in Seq({Noise})
      /\ logged \in Seq(Logged) /\ out \in Seq(Logged) /\ got \in Seq(Logged)
  BY SeqMonotonic DEF PipesType, Logged
<1>2. /\ got \o out \in Seq(Said) /\ Latest(lines \o out) \in Seq(Said) /\ logged \o out \in Seq(Logged)
      /\ ToSet(Latest(lines \o out)) \subseteq ToSet(lines \o out)
  <2>1. got \o out \in Seq(Said) /\ lines \o out \in Seq(Said) /\ logged \o out \in Seq(Logged)
    BY <1>1, ConcatProperties
  <2> QED
    BY <2>1, LatestIsKept
<1>3. Head(todo) = (got \o out) \o (<<>> \o toWrite)
  <2>1. Head(todo) = got \o (out \o toWrite)
    BY DEF ReadSoFar
  <2>2. <<>> \o toWrite = toWrite
    BY <1>1, ConcatEmptySeq
  <2>3. (got \o out) \o toWrite = got \o (out \o toWrite)
    <3>1. out \in Seq(Said) /\ toWrite \in Seq(Said)
      BY <1>1
    <3> QED
      BY <3>1, ConcatAssociative
  <2> QED
    BY <2>1, <2>2, <2>3
<1>4. Len(err) \in Nat /\ Len(err) <= noise /\ noise - Len(err) \in Nat
  BY <1>1, LenProperties DEF ReadSoFar
<1>5. Holding(logged \o out, got \o out, noise - Len(err))
  BY <1>1, <1>4, HoldingSaid DEF ReadSoFar
<1>6. ToSet(got) \subseteq ToSet(got \o out) /\ ToSet(lines) \subseteq ToSet(got)
      /\ (ToSet(lines) \subseteq ToSet(got) => ToSet(lines \o out) \subseteq ToSet(got \o out))
  BY <1>1, ToSetOfBoth DEF ReadSoFar
<1>7. PipesType'
  BY <1>1, <1>2, EmptySeq DEF PipesType
<1>8. PICK more \in Seq(Said) : more = got \o out
  BY <1>2
<1>9. ReadSoFar(more)'
  <2>1. Head(todo') = more \o (out' \o toWrite')
    BY <1>3, <1>8
  <2>2. Len(err') <= noise' /\ Holding(logged', more, noise' - Len(err'))
    BY <1>4, <1>5, <1>8
  <2>3. ToSet(lines') \subseteq ToSet(more)
    BY <1>2, <1>6, <1>8
  <2>4. noise' = 0 => lines' = Latest(more) /\ reader' \notin {"errout", "lasterrout"}
    BY <1>1, <1>8, LatestOfBoth DEF ReadSoFar
  <2> QED
    BY <2>1, <2>2, <2>3, <2>4 DEF ReadSoFar
<1> QED
  BY <1>7, <1>9
\* What is said beside it says nothing of a device.
LEMMA LinesAreSaid ==
  ASSUME NEW s \in Seq(Said), NEW n \in Nat
  PROVE  /\ s \o Chatter(n) \in Seq(Said)
         /\ ToSet(s) \subseteq ToSet(s \o Chatter(n))
         /\ \A l \in ToSet(s \o Chatter(n)) : l \in ToSet(s) \/ l.key = "other"
<1>1. Chatter(n) \in Seq(Said)
  BY DEF Chatter, Line, Said
<1>2. \A l \in ToSet(Chatter(n)) : l.key = "other"
  BY DEF Chatter, Line, ToSet
<1>3. ToSet(s \o Chatter(n)) = ToSet(s) \cup ToSet(Chatter(n))
  BY <1>1, ToSetOfBoth
<1> QED
  BY <1>1, <1>2, <1>3, ConcatProperties

LEMMA VersionIsSaid ==
  ASSUME NEW d \in {"BIOS", "BMC"}, NEW n \in Nat
  PROVE  /\ VersionLines(d, n) \in Seq(Said) /\ Line("version", d) \in ToSet(VersionLines(d, n))
         /\ \A l \in ToSet(VersionLines(d, n)) : l.key = "other" \/ l.of = d
<1> DEFINE s == <<Line("version", d)>>
<1>1. s \in Seq(Said) /\ ToSet(s) = {Line("version", d)} /\ Line("version", d).of = d
  BY DEF Line, Said, ToSet
<1> HIDE DEF s
<1> QED
  BY <1>1, LinesAreSaid DEF VersionLines, s

LEMMA CardIsSaid ==
  ASSUME NEW c \in ToSet(Cards), NEW n \in Nat
  PROVE  /\ CardLines(c, n) \in Seq(Said) /\ Line("version", c) \in ToSet(CardLines(c, n))
         /\ \A l \in ToSet(CardLines(c, n)) : l.key = "other" \/ l.of = c
<1> DEFINE s == <<Line("PSID", c), Line("version", c)>>
<1>1. s \in Seq(Said) /\ ToSet(s) = {Line("PSID", c), Line("version", c)}
  BY DEF Line, Said, ToSet
<1>2. Line("PSID", c).of = c /\ Line("version", c).of = c
  BY DEF Line
<1> HIDE DEF s
<1> QED
  BY <1>1, <1>2, LinesAreSaid DEF CardLines, s

\* What the commands of getTargets write.
LEMMA QueriesAreSaid == \A h : \A n \in 0..MaxChatter : Queries(h, n) \in Seq(Seq(Said))
<1> SUFFICES ASSUME NEW h, NEW n \in 0..MaxChatter PROVE Queries(h, n) \in Seq(Seq(Said))
  OBVIOUS
<1>0. n \in Nat
  BY HandlersAssumption
<1>1. ASSUME NEW c \in ToSet(Cards) PROVE CardLines(c, n) \in Seq(Said)
  BY <1>0, CardIsSaid
<1>2. [k \in DOMAIN Cards |-> CardLines(Cards[k], n)] \in Seq(Seq(Said))
  <2>1. Len(Cards) \in Nat /\ DOMAIN Cards = 1..Len(Cards) /\ \A k \in 1..Len(Cards) : Cards[k] \in ToSet(Cards)
    BY HandlersAssumption, LenProperties
  <2> QED
    BY <1>1, <2>1
<1>3. VersionLines("BIOS", n) \in Seq(Said) /\ VersionLines("BMC", n) \in Seq(Said)
  BY <1>0, VersionIsSaid
<1>4. <<VersionLines("BIOS", n), VersionLines("BMC", n)>> \in Seq(Seq(Said)) /\ <<>> \in Seq(Seq(Said))
  BY <1>3, EmptySeq
<1> QED
  BY <1>2, <1>4 DEF Queries

\* Every step of the handlers keeps what was read of the command.
LEMMA ReaderStep ==
  ASSUME ReaderInv, HandlersNext
  PROVE  ReaderInv'
<1>0. 0 # Running /\ 1 # Running
  BY DEF Running
<1>1. CASE LoadHandlers \/ RebootLate
  <2>1. reader' = reader /\ todo' = todo /\ noise' = noise /\ rc' = rc /\ toWrite' = toWrite /\ out' = out
        /\ err' = err /\ logged' = logged /\ lines' = lines /\ calling # "command" /\ calling' # "command"
    BY <1>1 DEF LoadHandlers, RebootLate, processVars
  <2>2. reader = "idle"
    BY <2>1 DEF ReaderInv
  <2> QED
    BY <2>1, <2>2 DEF ReaderInv
<1>2. CASE GetTargets
  <2>1. UNCHANGED processVars /\ calling # "command"
    BY <1>2 DEF GetTargets
  <2>2. reader' = "idle" /\ UNCHANGED <<noise, rc>>
    BY <2>1 DEF ReaderInv, processVars
  <2>3. PICK h : \E n \in 0..MaxChatter : todo' = Queries(h, n)
    BY <1>2 DEF GetTargets
  <2>4. calling' = "command" => todo' # <<>>
    BY <1>2 DEF GetTargets
  <2> QED
    BY <2>2, <2>3, <2>4, QueriesAreSaid DEF ReaderInv
<1>3. CASE UpdateTarget
  <2>1. UNCHANGED processVars /\ calling # "command"
    BY <1>3 DEF UpdateTarget
  <2>2. reader' = "idle" /\ UNCHANGED <<noise, rc>>
    BY <2>1 DEF ReaderInv, processVars
  <2>3. todo' \in {<<>>, <<<<>>>>} /\ (calling' = "command" => todo' # <<>>)
    BY <1>3 DEF UpdateTarget
  <2>4. {<<>>, <<<<>>>>} \subseteq Seq(Seq(Said))
    BY EmptySeq
  <2> QED
    BY <2>2, <2>3, <2>4 DEF ReaderInv
<1>4. CASE Start
  <2>1. /\ calling = "command" /\ reader' = "poll" /\ toWrite' = Head(todo) /\ noise' = 0 /\ out' = <<>> /\ err' = <<>>
        /\ rc' = Running /\ logged' = <<>> /\ lines' = <<>> /\ UNCHANGED <<calling, todo>>
    BY <1>4 DEF Start, callVars
  <2>2. Head(todo) \in Seq(Said)
    BY <2>1, HeadTailProperties DEF ReaderInv
  <2>3. PipesType'
    BY <2>1, <2>2, EmptySeq DEF PipesType
  <2>4. PICK got \in Seq(Said) : got = <<>>
    BY EmptySeq
  <2>5. ReadSoFar(got)'
    <3>1. Head(todo) = <<>> \o (<<>> \o Head(todo))
      BY <2>2, ConcatEmptySeq
    <3>2. Len(<<>>) = 0 /\ DOMAIN <<>> = {} /\ Latest(<<>>) = <<>>
      BY HandlersAssumption DEF Latest
    <3>3. PICK empty : empty = <<>> /\ Len(empty) = 0 /\ DOMAIN empty = {}
      BY <3>2
    <3>4. Holding(empty, empty, 0)
      <4>1. [i \in {} |-> i] \in [{} -> {}]
        OBVIOUS
      <4>2. PICK place : place \in [DOMAIN empty -> DOMAIN empty]
        BY <3>3, <4>1
      <4>3. /\ \A i, j \in DOMAIN empty : i < j => place[i] < place[j]
            /\ \A i \in DOMAIN empty : empty[place[i]] = empty[i]
            /\ \A k \in DOMAIN empty : empty[k] = Noise \/ \E i \in DOMAIN empty : place[i] = k
        BY <3>3
      <4>4. Len(empty) = Len(empty) + 0
        BY <3>3
      <4> QED
        BY <4>2, <4>3, <4>4, Zenon DEF Holding
    <3> QED
      BY <2>1, <2>4, <3>1, <3>2, <3>3, <3>4 DEF ReadSoFar
  <2> QED
    BY <1>0, <2>1, <2>3, <2>5 DEF ReaderInv
<1>5. CASE ProcessWrites
  <2>1. reader # "idle" /\ rc = Running /\ UNCHANGED <<reader, rc, logged, lines, todo, calling>>
    BY <1>5 DEF ProcessWrites, callVars
  <2>2. PipesType /\ calling = "command"
    BY <2>1 DEF ReaderInv
  <2>3. PICK got \in Seq(Said) : ReadSoFar(got)
    BY <2>1 DEF ReaderInv
  <2>4. CASE toWrite # <<>> /\ out' = Append(out, Head(toWrite)) /\ toWrite' = Tail(toWrite) /\ UNCHANGED <<err, noise>>
    <3>0. toWrite \in Seq(Said) /\ out \in Seq(Said)
      BY <2>2 DEF PipesType
    <3>1. out' \in Seq(Said) /\ toWrite' \in Seq(Said) /\ out' \o toWrite' = out \o toWrite
      BY <3>0, <2>4, WrittenOn
    <3>2. PipesType' /\ ReadSoFar(got)'
      BY <2>1, <2>2, <2>3, <2>4, <3>1 DEF PipesType, ReadSoFar
    <3> QED
      BY <1>0, <2>1, <2>2, <2>4, <3>2 DEF ReaderInv
  <2>5. CASE err' = Append(err, Noise) /\ noise' = noise + 1 /\ UNCHANGED <<out, toWrite>>
    <3>0. err \in Seq({Noise}) /\ Noise \in {Noise} /\ noise \in Nat
      BY <2>2 DEF PipesType, ReaderInv
    <3>1. err' \in Seq({Noise}) /\ Len(err') = Len(err) + 1 /\ Len(err) \in Nat
      BY <2>5, <3>0, AppendProperties, LenProperties
    <3>2. noise' \in Nat /\ noise' # 0 /\ noise' - Len(err') = noise - Len(err) /\ (Len(err) <= noise => Len(err') <= noise')
      BY <2>5, <3>0, <3>1
    <3>3. PipesType' /\ ReadSoFar(got)'
      BY <2>1, <2>2, <2>3, <2>5, <3>1, <3>2 DEF PipesType, ReadSoFar
    <3> QED
      BY <1>0, <2>1, <2>2, <2>5, <3>2, <3>3 DEF ReaderInv
  <2> QED
    BY <1>5, <2>4, <2>5 DEF ProcessWrites
<1>6. CASE ProcessEnds
  <2>1. /\ reader # "idle" /\ rc = Running /\ rc' \in {0, 1} /\ (rc' = 0 => toWrite = <<>>)
        /\ UNCHANGED <<calling, todo, reader, toWrite, noise, out, err, logged, lines>>
    BY <1>6 DEF ProcessEnds
  <2>2. \E got \in Seq(Said) : ReadSoFar(got)'
    BY <2>1 DEF ReaderInv, ReadSoFar
  <2> QED
    BY <1>0, <2>1, <2>2 DEF ReaderInv, PipesType
<1>7. CASE Poll
  <2>1. /\ reader = "poll" /\ reader' = IF rc = Running THEN "out" ELSE "lastout"
        /\ UNCHANGED <<calling, todo, toWrite, noise, out, err, rc, logged, lines>>
    BY <1>7 DEF Poll, callVars
  <2>2. \E got \in Seq(Said) : ReadSoFar(got)'
    BY <2>1 DEF ReaderInv, ReadSoFar
  <2> QED
    BY <2>1, <2>2 DEF ReaderInv, PipesType
<1>8. CASE ReadOut
  <2>1. /\ reader \in {"out", "lastout"} /\ logged' = logged \o out /\ lines' = Latest(lines \o out) /\ out' = <<>>
        /\ reader' = IF out # <<>> THEN reader ELSE IF reader = "out" THEN "err" ELSE "lasterr"
        /\ UNCHANGED <<calling, todo, toWrite, noise, err, rc>>
    BY <1>8 DEF ReadOut, callVars
  <2>2. PICK got \in Seq(Said) : ReadSoFar(got)
    BY <2>1 DEF ReaderInv
  <2>3. PipesType' /\ \E more \in Seq(Said) : ReadSoFar(more)'
    <3>1. PipesType /\ noise \in Nat /\ reader' \notin {"errout", "lasterrout"}
      BY <2>1 DEF ReaderInv
    <3> QED
      BY <2>1, <2>2, <3>1, OutIsRead
  <2> QED
    BY <2>1, <2>3 DEF ReaderInv
<1>9. CASE ReadErr
  <2>1. /\ reader \in {"err", "lasterr"} /\ logged' = logged \o err /\ err' = <<>>
        /\ reader' = IF err # <<>> THEN (IF reader = "err" THEN "errout" ELSE "lasterrout")
                     ELSE IF reader = "err" THEN "poll" ELSE "done"
        /\ UNCHANGED <<calling, todo, toWrite, noise, out, rc, lines>>
    BY <1>9 DEF ReadErr, callVars
  <2>2. PICK got \in Seq(Said) : ReadSoFar(got)
    BY <2>1 DEF ReaderInv
  <2>3. PipesType /\ noise \in Nat
    BY <2>1 DEF ReaderInv
  <2>4. /\ err \in Seq({Noise}) /\ Len(err) \in Nat /\ logged \in Seq(Logged) /\ got \in Seq(Logged) /\ err \in Seq(Logged)
        /\ (err # <<>> => Len(err) # 0)
    BY <2>3, SeqMonotonic, LenProperties, EmptySeq DEF PipesType, Logged
  <2>5. noise - Len(err) \in Nat /\ noise - Len(err) + Len(err) = noise - 0
    BY <2>2, <2>3, <2>4 DEF ReadSoFar
  <2>6. Holding(logged \o err, got, noise - 0)
    <3>1. Holding(logged \o err, got, noise - Len(err) + Len(err))
      BY <2>2, <2>4, <2>5, HoldingNoise DEF ReadSoFar
    <3> QED
      BY <2>5, <3>1
  <2>7. Len(err') = 0 /\ err' \in Seq({Noise}) /\ logged \o err \in Seq(Logged)
    BY <2>1, <2>4, EmptySeq, ConcatProperties
  <2>8. PipesType'
    BY <2>1, <2>3, <2>7 DEF PipesType
  <2>9. Len(err') <= noise' /\ Holding(logged', got, noise' - Len(err'))
    BY <2>1, <2>3, <2>6, <2>7
  <2>10. noise' = 0 => lines' = Latest(got) /\ reader' \notin {"errout", "lasterrout"}
    BY <2>1, <2>2, <2>3, <2>4 DEF ReadSoFar
  <2>11. Head(todo') = got \o (out' \o toWrite') /\ ToSet(lines') \subseteq ToSet(got)
    BY <2>1, <2>2 DEF ReadSoFar
  <2>12. ReadSoFar(got)'
    BY <2>9, <2>10, <2>11 DEF ReadSoFar
  <2> QED
    BY <2>1, <2>8, <2>12 DEF ReaderInv
<1>10. CASE ReadOutAsErr
  <2>1. /\ reader \in {"errout", "lasterrout"} /\ logged' = logged \o out /\ out' = <<>>
        /\ reader' = IF out # <<>> THEN reader ELSE IF reader = "errout" THEN "poll" ELSE "done"
        /\ UNCHANGED <<calling, todo, toWrite, noise, err, rc, lines>>
    BY <1>10 DEF ReadOutAsErr, callVars
  <2>2. PICK got \in Seq(Said) : ReadSoFar(got)
    BY <2>1 DEF ReaderInv
  <2>3. PipesType' /\ \E more \in Seq(Said) : ReadSoFar(more)'
    <3>1. PipesType /\ noise \in Nat /\ noise # 0
      BY <2>1, <2>2 DEF ReaderInv, ReadSoFar
    <3> QED
      BY <2>1, <2>2, <3>1, OutIsRead
  <2> QED
    BY <2>1, <2>3 DEF ReaderInv
<1>11. CASE JudgeQuery
  <2>1. calling = "command" /\ reader' = "idle" /\ UNCHANGED <<noise, rc>>
    BY <1>11 DEF JudgeQuery
  <2>2. \/ todo' = todo /\ calling' = "raised"
        \/ todo' = Tail(todo) /\ calling' = IF todo' = <<>> THEN "told" ELSE "command"
    BY <1>11 DEF JudgeQuery
  <2>3. Tail(todo) \in Seq(Seq(Said))
    BY <2>1, HeadTailProperties DEF ReaderInv
  <2> QED
    BY <2>1, <2>2, <2>3 DEF ReaderInv
<1>12. CASE JudgeUpdate
  <2>1. reader' = "idle" /\ todo' = <<>> /\ calling' \in {"reboot", "told"} /\ UNCHANGED <<noise, rc>>
    BY <1>12 DEF JudgeUpdate
  <2> QED
    BY <2>1, EmptySeq DEF ReaderInv
<1> QED
  BY <1>1, <1>2, <1>3, <1>4, <1>5, <1>6, <1>7, <1>8, <1>9, <1>10, <1>11, <1>12 DEF HandlersNext

\* When the process has ended well and was read to its end, the log and the lines
\* have what it wrote.
LEMMA OutputStays ==
  ASSUME ReaderInv
  PROVE  OutputIsKept
<1> SUFFICES ASSUME reader = "done", rc = 0
             PROVE  /\ Holding(logged, Head(todo), noise)
                    /\ ToSet(lines) \subseteq ToSet(Head(todo))
                    /\ noise = 0 => lines = Latest(Head(todo))
  BY DEF OutputIsKept
<1>1. PICK got \in Seq(Said) : ReadSoFar(got)
  BY DEF ReaderInv
<1>2. out = <<>> /\ toWrite = <<>> /\ err = <<>> /\ noise \in Nat
  BY DEF ReaderInv
<1>3. Head(todo) = got
  BY <1>1, <1>2, EmptySeq, ConcatEmptySeq DEF ReadSoFar
<1>4. noise - Len(err) = noise
  BY <1>2
<1> QED
  BY <1>1, <1>3, <1>4 DEF ReadSoFar
-----------------------------------------------------------------------------
(* Handlers: what a handler makes of it.                                   *)

\* The queries that are still to be made.
Asking ==
  \E n \in Nat :
    \/ /\ handler = "saa" /\ board = "Supermicro"
       /\ todo \in {<<VersionLines("BIOS", n), VersionLines("BMC", n)>>, <<VersionLines("BMC", n)>>}
    \/ handler = "mellanox" /\ \A i \in DOMAIN todo : \E c \in ToSet(Cards) : todo[i] = CardLines(c, n)

\* A card is found, or still to be asked.
AsksFor(wanted, c) == \E n \in Nat : wanted = CardLines(c, n)
CardsAreFound ==
  \A c \in ToSet(Cards) :
    c \in found \/ (calling = "command" /\ updating = NoDevice /\ \E i \in DOMAIN todo : AsksFor(todo[i], c))

HonestInv ==
  /\ calling \in {"load", "idle", "command", "told", "raised", "reboot"}
  /\ \A k \in DOMAIN handlers : handlers[k] \in Loadable
  /\ handler \in Loadable \cup {NoDevice} /\ (calling \in {"command", "told", "reboot"} => handler # NoDevice)
  /\ calling \in {"load", "idle"} => updating = NoDevice /\ handler = NoDevice
  /\ calling = "reboot" => updating # NoDevice
  /\ calling \in {"load", "idle", "command"} => success = FALSE
  /\ found \subseteq (IF handler = NoDevice THEN {} ELSE Devices(handler))
  /\ handler = "harddrive" => found = HardDrives
  /\ handler = "mellanox" /\ calling \in {"command", "told", "reboot"} => CardsAreFound
  /\ calling = "command" /\ updating = NoDevice => Asking
  /\ calling = "told" /\ updating = NoDevice /\ handler = "saa" /\ noise = 0 /\ Len(lines) < KeptLines =>
       Devices("saa") \ found \subseteq {"BIOS"}
  /\ success \/ calling = "reboot" => written = {updating}
  /\ reader # "idle" /\ rc = 0 /\ updating # NoDevice => written = {updating}

\* No device of the machine is called none.
LEMMA NoneIsNoDevice ==
  ASSUME NEW h \in Loadable
  PROVE  h # NoDevice /\ NoDevice \notin Devices(h)
BY HandlersAssumption DEF Loadable, Devices, NoDevice

\* A query that went well finds what it asked for.
LEMMA QueryFinds ==
  ASSUME ReaderInv, HonestInv, JudgeQuery
  PROVE  HonestInv'
<1>1. /\ calling = "command" /\ reader = "done" /\ updating = NoDevice /\ reader' = "idle"
      /\ UNCHANGED <<board, handlers, handler, updating, written, success, noise, rc, lines>>
  BY DEF JudgeQuery
<1>2. CASE calling' = "raised" /\ UNCHANGED <<found, todo>>
  <2>1. UNCHANGED Devices(handler)
    BY <1>1 DEF Devices
  <2> QED
    BY <1>1, <1>2, <2>1 DEF HonestInv, CardsAreFound
<1>3. CASE /\ rc = 0 /\ (handler = "mellanox" => {l.key : l \in ToSet(lines)} \ {"other"} = {"PSID", "version"})
           /\ found' = found \cup {l.of : l \in {x \in ToSet(lines) : x.key = "version"}} /\ todo' = Tail(todo)
           /\ calling' = IF todo' = <<>> THEN "told" ELSE "command"
  <2>1. /\ todo # <<>> /\ todo \in Seq(Seq(Said)) /\ ToSet(lines) \subseteq ToSet(Head(todo))
        /\ noise = 0 => lines = Latest(Head(todo))
    BY <1>1, <1>3, OutputStays DEF ReaderInv, OutputIsKept
  <2>2. /\ Head(todo) = todo[1] /\ Len(todo) \in Nat /\ Len(todo) # 0 /\ DOMAIN todo = 1..Len(todo)
        /\ todo' \in Seq(Seq(Said)) /\ DOMAIN todo' = 1..(Len(todo) - 1)
        /\ \A i \in 1..(Len(todo) - 1) : todo'[i] = todo[i + 1]
    BY <1>3, <2>1, HeadTailProperties, LenProperties, EmptySeq
  <2>0. PICK n \in Nat :
          \/ /\ handler = "saa" /\ board = "Supermicro"
             /\ todo \in {<<VersionLines("BIOS", n), VersionLines("BMC", n)>>, <<VersionLines("BMC", n)>>}
          \/ handler = "mellanox" /\ \A i \in DOMAIN todo : \E c \in ToSet(Cards) : todo[i] = CardLines(c, n)
    BY <1>1 DEF HonestInv, Asking
  <2>3. CASE /\ handler = "saa" /\ board = "Supermicro"
             /\ todo \in {<<VersionLines("BIOS", n), VersionLines("BMC", n)>>, <<VersionLines("BMC", n)>>}
    <3>1. Devices("saa") = {"BIOS", "BMC"} /\ Devices("saa")' = {"BIOS", "BMC"}
      BY <1>1, <2>3 DEF Devices
    <3>2. Head(todo) \in {VersionLines("BIOS", n), VersionLines("BMC", n)}
      BY <2>2, <2>3
    <3>3. {l.of : l \in {x \in ToSet(lines) : x.key = "version"}} \subseteq {"BIOS", "BMC"}
      <4>1. \A l \in ToSet(Head(todo)) : l.key = "other" \/ l.of \in {"BIOS", "BMC"}
        BY <3>2, VersionIsSaid
      <4> QED
        BY <2>1, <4>1
    <3>4. CASE todo = <<VersionLines("BIOS", n), VersionLines("BMC", n)>>
      <4>1. todo' = <<VersionLines("BMC", n)>> /\ calling' = "command"
        BY <1>3, <3>4
      <4>2. Asking'
        BY <1>1, <2>3, <4>1 DEF Asking
      <4> QED
        BY <1>1, <1>3, <2>3, <3>1, <3>3, <4>1, <4>2 DEF HonestInv
    <3>5. CASE todo = <<VersionLines("BMC", n)>>
      <4>1. todo' = <<>> /\ calling' = "told"
        BY <1>3, <3>5
      <4>2. noise = 0 /\ Len(lines) < KeptLines => "BMC" \in found'
        <5>1. VersionLines("BMC", n) \in Seq(Said) /\ Line("version", "BMC") \in ToSet(VersionLines("BMC", n))
          BY VersionIsSaid
        <5>2. noise = 0 /\ Len(lines) < KeptLines => lines = VersionLines("BMC", n)
          BY <2>1, <2>2, <3>5, <5>1, LatestIsKept
        <5>3. Line("version", "BMC").of = "BMC" /\ Line("version", "BMC").key = "version"
          BY DEF Line
        <5> QED
          BY <1>3, <5>1, <5>2, <5>3
      <4> QED
        BY <1>1, <1>3, <2>3, <3>1, <3>3, <4>1, <4>2 DEF HonestInv
    <3> QED  BY <2>3, <3>4, <3>5
  <2>4. CASE handler = "mellanox" /\ \A i \in DOMAIN todo : \E c \in ToSet(Cards) : todo[i] = CardLines(c, n)
    <3>1. PICK c \in ToSet(Cards) : Head(todo) = CardLines(c, n)
      BY <2>2, <2>4
    <3>2. \A l \in ToSet(CardLines(c, n)) : l.key = "other" \/ l.of = c
      BY CardIsSaid
    <3>3. \A l \in ToSet(lines) : l.key = "version" => l.of = c
      BY <2>1, <3>1, <3>2
    <3>4. \E l \in ToSet(lines) : l.key = "version"
      <4>1. "version" \in {l.key : l \in ToSet(lines)}
        BY <1>3, <2>4
      <4> QED
        BY <4>1
    <3>5. found' = found \cup {c}
      BY <1>3, <3>3, <3>4
    <3>6. Devices("mellanox") = ToSet(Cards) /\ Devices("mellanox")' = ToSet(Cards)
      BY DEF Devices
    <3>7. ASSUME NEW i \in DOMAIN todo'
          PROVE  \E d \in ToSet(Cards) : todo'[i] = CardLines(d, n)
      <4>1. i + 1 \in DOMAIN todo /\ todo'[i] = todo[i + 1]
        BY <2>2
      <4> QED
        BY <2>4, <4>1
    <3>8. ASSUME NEW d \in ToSet(Cards), d \notin found'
          PROVE  \E i \in DOMAIN todo' : AsksFor(todo'[i], d)
      <4>1. PICK i \in DOMAIN todo : AsksFor(todo[i], d)
        BY <1>1, <2>4, <3>5, <3>8 DEF HonestInv, CardsAreFound
      <4>2. ASSUME i = 1 PROVE FALSE
        <5>1. PICK m \in Nat : CardLines(c, n) = CardLines(d, m)
          BY <2>2, <3>1, <4>1, <4>2 DEF AsksFor
        <5>2. Line("version", d) \in ToSet(CardLines(c, n))
          BY <5>1, CardIsSaid
        <5>3. Line("version", d).key = "version" /\ Line("version", d).of = d
          BY DEF Line
        <5>4. d = c
          BY <3>2, <5>2, <5>3
        <5> QED
          BY <3>5, <3>8, <5>4
      <4>4. i - 1 \in 1..(Len(todo) - 1) /\ i - 1 + 1 = i
        BY <2>2, <4>1, <4>2
      <4> QED
        BY <2>2, <4>1, <4>4
    <3>9. CardsAreFound'
      <4>1. DOMAIN todo' # {} => calling' = "command"
        BY <1>3, EmptySeq
      <4> QED
        BY <1>1, <3>8, <4>1 DEF CardsAreFound, AsksFor
    <3>10. Asking'
      BY <1>1, <2>4, <3>7 DEF Asking
    <3> QED
      BY <1>1, <1>3, <2>4, <3>5, <3>6, <3>9, <3>10 DEF HonestInv
  <2> QED
    BY <2>0, <2>3, <2>4
<1> QED
  BY <1>2, <1>3 DEF JudgeQuery

\* Every step of the handlers keeps what they tell.
LEMMA HonestStep ==
  ASSUME ReaderInv, HonestInv, HandlersNext
  PROVE  HonestInv'
<1>0. 0 # Running
  BY DEF Running
<1>1. CASE LoadHandlers
  <2>1. /\ calling = "load" /\ calling' \in {"idle", "raised"}
        /\ UNCHANGED <<handler, updating, found, written, success, reader, noise, rc>>
    BY <1>1 DEF LoadHandlers, processVars
  <2>2. reader = "idle" /\ updating = NoDevice /\ success = FALSE
    BY <2>1 DEF ReaderInv, HonestInv
  <2>3. handler = NoDevice /\ found = {}
    BY <2>1 DEF HonestInv
  <2>4. \A k \in DOMAIN handlers' : handlers'[k] \in Loadable
    <3>1. CASE UNCHANGED handlers
      BY <3>1 DEF HonestInv
    <3>2. CASE plugins \subseteq Loadable /\ handlers' \in SetToSeqs(plugins \cup {"harddrive"})
      <4>1. plugins \cup {"harddrive"} \subseteq Loadable
        BY <3>2 DEF Loadable
      <4>2. handlers' \in [1..Cardinality(plugins \cup {"harddrive"}) -> plugins \cup {"harddrive"}]
        BY <3>2 DEF SetToSeqs
      <4> QED
        BY <4>1, <4>2
    <3> QED
      BY <1>1, <3>1, <3>2 DEF LoadHandlers
  <2>5. "saa" # NoDevice /\ "mellanox" # NoDevice /\ "harddrive" # NoDevice
    BY DEF NoDevice
  <2> QED
    BY <2>1, <2>2, <2>3, <2>4, <2>5 DEF HonestInv
<1>2. CASE GetTargets
  <2>1. PICK h \in Loadable, n \in Nat :
          /\ handler' = h /\ todo' = Queries(h, n) /\ found' = IF h = "harddrive" THEN HardDrives ELSE {}
          /\ calling' = IF todo' = <<>> THEN "told" ELSE "command"
    BY <1>2, HandlersAssumption DEF GetTargets, HonestInv
  <2>2. /\ calling = "idle" /\ updating' = NoDevice /\ success' = FALSE /\ reader' = "idle"
        /\ UNCHANGED <<board, handlers, written>>
    BY <1>2 DEF GetTargets, HonestInv, ReaderInv, processVars
  <2>3. CASE h = "saa"
    <3>1. CASE board = "Supermicro"
      <4>1. todo' = <<VersionLines("BIOS", n), VersionLines("BMC", n)>>
        BY <2>1, <2>3, <3>1 DEF Queries
      <4>2. Asking'
        BY <2>1, <2>2, <2>3, <3>1, <4>1 DEF Asking
      <4> QED
        BY <2>1, <2>2, <2>3, <3>1, <4>1, <4>2 DEF HonestInv, NoDevice
    <3>2. CASE board # "Supermicro"
      <4>1. todo' = <<>> /\ Devices("saa")' = {}
        BY <2>1, <2>2, <2>3, <3>2 DEF Queries, Devices
      <4> QED
        BY <2>1, <2>2, <2>3, <4>1 DEF HonestInv, NoDevice
    <3> QED  BY <3>1, <3>2
  <2>4. CASE h = "mellanox"
    <3>1. todo' = [k \in DOMAIN Cards |-> CardLines(Cards[k], n)]
      BY <2>1, <2>4 DEF Queries
    <3>2. \A k \in DOMAIN todo' : \E c \in ToSet(Cards) : todo'[k] = CardLines(c, n)
      BY <3>1 DEF ToSet
    <3>3. \A c \in ToSet(Cards) : \E k \in DOMAIN todo' : AsksFor(todo'[k], c)
      BY <3>1 DEF ToSet, AsksFor
    <3>4. CardsAreFound'
      <4>1. DOMAIN todo' # {} => calling' = "command"
        BY <2>1, EmptySeq
      <4> QED
        BY <2>2, <3>3, <4>1 DEF CardsAreFound
    <3>5. Asking'
      BY <2>1, <2>4, <3>2 DEF Asking
    <3> QED
      BY <2>1, <2>2, <2>4, <3>4, <3>5 DEF HonestInv, NoDevice
  <2>5. CASE h = "harddrive"
    <3>1. todo' = <<>> /\ found' = HardDrives /\ Devices("harddrive")' = HardDrives
      BY <2>1, <2>5 DEF Queries, Devices
    <3> QED
      BY <2>1, <2>2, <2>5, <3>1 DEF HonestInv, NoDevice
  <2> QED
    BY <2>1, <2>3, <2>4, <2>5 DEF Loadable
<1>3. CASE UpdateTarget
  <2>1. /\ calling = "told" /\ updating = NoDevice /\ updating' \in found /\ success' = FALSE
        /\ calling' = IF todo' = <<>> THEN "told" ELSE "command"
        /\ UNCHANGED <<board, handlers, handler, found, noise, rc, reader>>
    BY <1>3 DEF UpdateTarget, processVars
  <2>2. handler \in Loadable /\ found \subseteq Devices(handler) /\ reader = "idle"
    BY <2>1 DEF HonestInv, ReaderInv
  <2>3. updating' # NoDevice
    BY <2>1, <2>2, NoneIsNoDevice
  <2>4. handler = "mellanox" => CardsAreFound'
    BY <2>1 DEF HonestInv, CardsAreFound
  <2>5. UNCHANGED Devices(handler)
    BY <2>1 DEF Devices
  <2> QED
    BY <2>1, <2>2, <2>3, <2>4, <2>5 DEF HonestInv
<1>4. CASE Start \/ ProcessWrites \/ Poll \/ ReadOut \/ ReadErr \/ ReadOutAsErr
  <2>1. /\ UNCHANGED <<board, handlers, calling, handler, updating, todo, found, written, success>>
        /\ reader' # "idle" /\ rc' = 0 => reader # "idle" /\ rc = 0
    BY <1>0, <1>4 DEF Start, ProcessWrites, Poll, ReadOut, ReadErr, ReadOutAsErr, callVars
  <2>2. calling = "command"
    BY <1>4 DEF Start, ProcessWrites, Poll, ReadOut, ReadErr, ReadOutAsErr, ReaderInv
  <2>3. UNCHANGED Devices(handler)
    BY <2>1 DEF Devices
  <2> QED
    BY <2>1, <2>2, <2>3 DEF HonestInv, Asking, CardsAreFound
<1>5. CASE ProcessEnds
  <2>1. /\ UNCHANGED <<board, handlers, calling, handler, updating, todo, found, success, reader, noise>>
        /\ updating # NoDevice /\ rc' = 0 => written' = {updating}
        /\ reader # "idle"
    BY <1>5 DEF ProcessEnds
  <2>2. calling = "command"
    BY <2>1 DEF ReaderInv
  <2>3. UNCHANGED Devices(handler)
    BY <2>1 DEF Devices
  <2> QED
    BY <2>1, <2>2, <2>3 DEF HonestInv, Asking, CardsAreFound
<1>6. CASE JudgeQuery
  BY <1>6, QueryFinds
<1>7. CASE JudgeUpdate
  <2>1. /\ calling = "command" /\ reader = "done" /\ updating # NoDevice /\ reader' = "idle"
        /\ success' = (rc = 0 /\ updating # "BIOS")
        /\ calling' = IF rc = 0 /\ updating = "BIOS" THEN "reboot" ELSE "told"
        /\ UNCHANGED <<board, handlers, handler, updating, found, written>>
    BY <1>7 DEF JudgeUpdate, Succeeds
  <2>2. rc = 0 => written = {updating}
    BY <2>1 DEF HonestInv
  <2>3. UNCHANGED Devices(handler) /\ (handler = "mellanox" => CardsAreFound')
    BY <2>1 DEF Devices, HonestInv, CardsAreFound
  <2> QED
    BY <2>1, <2>2, <2>3 DEF HonestInv
<1>8. CASE RebootLate
  <2>1. /\ calling = "reboot" /\ calling' = "told"
        /\ UNCHANGED <<board, handlers, handler, updating, todo, found, written, success, noise, rc, reader>>
    BY <1>8 DEF RebootLate, processVars
  <2>2. UNCHANGED Devices(handler) /\ (handler = "mellanox" => CardsAreFound')
    BY <2>1 DEF Devices, HonestInv, CardsAreFound
  <2> QED
    BY <2>1, <2>2 DEF HonestInv
<1> QED
  BY <1>1, <1>2, <1>3, <1>4, <1>5, <1>6, <1>7, <1>8 DEF HandlersNext

HandlersSpec == HandlersInit /\ [][HandlersNext]_handlersVars

\* firmware.py is told what the tool of the vendor said and did: no line is lost or
\* told twice, the targets are the devices, and an update that is told done was
\* carried out (_execute, handler.py; the handlers).
THEOREM HandlersTrue == HandlersSpec => []HandlersAreTrue
<1>1. HandlersInit => ReaderInv /\ HonestInv
  <2> SUFFICES ASSUME HandlersInit PROVE ReaderInv /\ HonestInv
    OBVIOUS
  <2>1. ReaderInv
    BY EmptySeq DEF HandlersInit, ReaderInv, Running
  <2>2. "saa" # NoDevice /\ "mellanox" # NoDevice /\ "harddrive" # NoDevice
    BY DEF NoDevice
  <2>3. HonestInv
    BY <2>2 DEF HandlersInit, HonestInv
  <2> QED
    BY <2>1, <2>3
<1>2. ReaderInv /\ HonestInv /\ [HandlersNext]_handlersVars => (ReaderInv /\ HonestInv)'
  <2>1. CASE UNCHANGED handlersVars
    <3>1. ReaderInv => ReaderInv'
      BY <2>1 DEF handlersVars, ReaderInv, PipesType, ReadSoFar
    <3>2. HonestInv => HonestInv'
      BY <2>1 DEF handlersVars, HonestInv, Asking, CardsAreFound, Devices
    <3> QED
      BY <3>1, <3>2
  <2> QED
    BY <2>1, ReaderStep, HonestStep
<1>3. ReaderInv /\ HonestInv => HandlersAreTrue
  <2> SUFFICES ASSUME ReaderInv, HonestInv PROVE HandlersAreHonest
    BY OutputStays DEF HandlersAreTrue
  <2>1. calling = "told" /\ handler = "mellanox" => found = Devices(handler)
    BY DEF HonestInv, CardsAreFound, Devices, NoDevice
  <2>2. handler = "harddrive" => found = Devices(handler)
    BY DEF HonestInv, Devices
  <2> QED
    BY <2>1, <2>2 DEF HonestInv, HandlersAreHonest
<1> QED
  BY <1>1, <1>2, <1>3, PTL DEF HandlersSpec
-----------------------------------------------------------------------------
(* Drives.                                                                 *)

\* The families that are scanned when the ports of the next are read.
Families ==
  LET direct == {"IDE", "ATA", "NVME"}
  IN  [ide |-> {}, ata |-> {"IDE"}, nvme |-> {"IDE", "ATA"}, megaraid |-> direct, raised |-> direct, enclosures |-> direct,
       direct |-> direct \cup {"SAS"}, scsi |-> direct \cup {"SAS"},
       unknown |-> direct \cup {"SAS", "SCSI"}, done |-> direct \cup {"SAS", "SCSI"}]

\* The disks of NVMe are found in one scan, or never.
NVMEFound ==
  source \notin {"ide", "ata", "nvme"} =>
    {d \in present : Place[d].kind = "nvme" /\ Place[d].controller \in Controllers} \subseteq BlockList

DrivesInv ==
  /\ source \in DOMAIN Families
  /\ present \subseteq attached /\ attached \subseteq Disks /\ DOMAIN info = Disks
  /\ \A p \in ports : p.type \in Families[source]
  /\ NVMEFound
  /\ DrivesAreWhole /\ NothingIsLost

\* Ports of one family, each of which has a disk no other has, and a location of
\* its own where the map of ports asks for it.
Distinct(new) ==
  /\ \A p, q \in new : p.disk = q.disk /\ p.disk # NoDisk => p = q
  /\ \A p, q \in new : p.type = q.type /\ p.at = q.at /\ p.type \notin {"SAS", "SCSI"} => p = q

\* What is taken for any of some disks is one of them.
LEMMA AnyOfThem ==
  ASSUME NEW disks, AnyOf(disks) # NoDisk
  PROVE  AnyOf(disks) \in disks
BY DEF AnyOf

\* The IDE ports have names that differ, and so do their disks.
LEMMA IDEDistinct ==
  Distinct(IDEPorts) /\ \A p \in IDEPorts : p.type = "IDE"
<1> DEFINE On(k) == {d \in attached : Place[d].kind = "ide" /\ Place[d].name = IDEPortNames[k]}
<1>1. IDEPorts = {Port("IDE", k, AnyOf(On(k))) : k \in DOMAIN IDEPortNames}
  BY DEF IDEPorts
<1>2. ASSUME NEW k \in DOMAIN IDEPortNames, AnyOf(On(k)) # NoDisk
      PROVE  Place[AnyOf(On(k))].name = IDEPortNames[k]
  BY <1>2, AnyOfThem
<1> HIDE DEF On
<1>3. ASSUME NEW p \in IDEPorts, NEW q \in IDEPorts
      PROVE  /\ p.type = "IDE" /\ (p.at = q.at => p = q)
             /\ p.disk = q.disk /\ p.disk # NoDisk => p = q
  <2>1. PICK k \in DOMAIN IDEPortNames : p = Port("IDE", k, AnyOf(On(k)))
    BY <1>1
  <2>2. PICK l \in DOMAIN IDEPortNames : q = Port("IDE", l, AnyOf(On(l)))
    BY <1>1
  <2>3. /\ p.type = "IDE" /\ p.at = k /\ p.disk = AnyOf(On(k))
        /\ q.at = l /\ q.disk = AnyOf(On(l))
    BY <2>1, <2>2 DEF Port
  <2>4. k = l => p = q
    BY <2>1, <2>2
  <2>5. AnyOf(On(k)) = AnyOf(On(l)) /\ AnyOf(On(k)) # NoDisk => k = l
    BY <1>2, PlaceAssumption DEF IsInjective
  <2> QED
    BY <2>3, <2>4, <2>5
<1> QED
  BY <1>3 DEF Distinct

\* The numbers that the ports of a host have are those no host before it has.
LEMMA NumbersGrow ==
  ASSUME NEW k \in ATAHosts, NEW l \in ATAHosts, k < l
  PROVE  /\ ATANumber(k) \in Nat /\ ATANumber(l) \in Nat
         /\ ATANumber(k) + Width(Hosts[k]) <= ATANumber(l)
<1> DEFINE Double(j) == {i \in HostsBefore(j) : Hosts[i] \in DoubleHosts}
<1>1. IsFiniteSet(DOMAIN Hosts) /\ DOMAIN Hosts \subseteq Int
  <2>1. Len(Hosts) \in Nat /\ DOMAIN Hosts = 1..Len(Hosts)
    BY PlaceAssumption, LenProperties
  <2> QED
    BY <2>1, FS_Interval
<1>2. k \in Int /\ l \in Int
  BY <1>1 DEF ATAHosts
<1>3. \A j : IsFiniteSet(HostsBefore(j)) /\ IsFiniteSet(Double(j))
  <2> SUFFICES ASSUME NEW j PROVE IsFiniteSet(HostsBefore(j)) /\ IsFiniteSet(Double(j))
    OBVIOUS
  <2>1. HostsBefore(j) \subseteq DOMAIN Hosts /\ Double(j) \subseteq DOMAIN Hosts
    BY DEF HostsBefore, ATAHosts
  <2> QED
    BY <1>1, <2>1, FS_Subset
<1>4. k \notin HostsBefore(k) /\ HostsBefore(k) \cup {k} \subseteq HostsBefore(l)
  BY <1>1, <1>2 DEF HostsBefore, ATAHosts
<1>5. Cardinality(HostsBefore(k)) + 1 <= Cardinality(HostsBefore(l))
  <2>1. /\ IsFiniteSet(HostsBefore(k) \cup {k})
        /\ Cardinality(HostsBefore(k) \cup {k}) = Cardinality(HostsBefore(k)) + 1
    BY <1>3, <1>4, FS_AddElement
  <2> QED
    BY <1>3, <1>4, <2>1, FS_Subset
<1>6. Cardinality(Double(k)) + (Width(Hosts[k]) - 1) <= Cardinality(Double(l))
  <2>0. Cardinality(Double(k)) \in Nat /\ Cardinality(Double(l)) \in Nat
    BY <1>3, FS_CardinalityType
  <2>1. CASE Hosts[k] \in DoubleHosts
    <3>1. k \notin Double(k) /\ Double(k) \cup {k} \subseteq Double(l)
      BY <1>4, <2>1
    <3>2. /\ IsFiniteSet(Double(k) \cup {k})
          /\ Cardinality(Double(k) \cup {k}) = Cardinality(Double(k)) + 1
      BY <1>3, <3>1, FS_AddElement
    <3>3. Cardinality(Double(k) \cup {k}) <= Cardinality(Double(l))
      BY <1>3, <3>1, FS_Subset
    <3>4. Width(Hosts[k]) = 2
      BY <2>1 DEF Width
    <3> QED
      BY <2>0, <3>2, <3>3, <3>4
  <2>2. CASE Hosts[k] \notin DoubleHosts
    <3>1. Double(k) \subseteq Double(l)
      BY <1>4
    <3>2. Cardinality(Double(k)) <= Cardinality(Double(l))
      BY <1>3, <3>1, FS_Subset
    <3>3. Width(Hosts[k]) = 1
      BY <2>2 DEF Width
    <3> QED
      BY <2>0, <3>2, <3>3
  <2> QED  BY <2>1, <2>2
<1>7. \A j : /\ Cardinality(HostsBefore(j)) \in Nat /\ Cardinality(Double(j)) \in Nat
             /\ ATANumber(j) = Cardinality(HostsBefore(j)) + Cardinality(Double(j))
  BY <1>3, FS_CardinalityType DEF ATANumber
<1>8. Width(Hosts[k]) \in Int
  BY DEF Width
<1> HIDE DEF Double
<1> QED
  BY <1>5, <1>6, <1>7, <1>8

\* Two ports of ATA that have one number are of one host, and one of its two.
LEMMA NumbersAreDistinct ==
  ASSUME NEW k \in ATAHosts, NEW l \in ATAHosts, NEW m \in 1..Width(Hosts[k]), NEW n \in 1..Width(Hosts[l]),
         ATANumber(k) + m - 1 = ATANumber(l) + n - 1
  PROVE  k = l /\ m = n
<1>1. \A j : Width(Hosts[j]) \in 1..2
  BY DEF Width
<1>2. k \in Int /\ l \in Int
  BY PlaceAssumption, LenProperties DEF ATAHosts
<1>3. CASE k < l
  BY <1>1, <1>3, NumbersGrow
<1>4. CASE l < k
  BY <1>1, <1>4, NumbersGrow
<1>5. CASE k = l
  <2>1. ATANumber(k) \in Int
    <3>1. IsFiniteSet(HostsBefore(k)) /\ IsFiniteSet({j \in HostsBefore(k) : Hosts[j] \in DoubleHosts})
      <4>1. Len(Hosts) \in Nat /\ DOMAIN Hosts = 1..Len(Hosts)
        BY PlaceAssumption, LenProperties
      <4>2. IsFiniteSet(DOMAIN Hosts)
        BY <4>1, FS_Interval
      <4>3. /\ HostsBefore(k) \subseteq DOMAIN Hosts
            /\ {j \in HostsBefore(k) : Hosts[j] \in DoubleHosts} \subseteq DOMAIN Hosts
        BY DEF HostsBefore, ATAHosts
      <4> QED
        BY <4>2, <4>3, FS_Subset
    <3> QED
      BY <3>1, FS_CardinalityType DEF ATANumber
  <2> QED
    BY <1>1, <1>5, <2>1
<1> QED
  BY <1>2, <1>3, <1>4, <1>5

\* The disks of a listing are those behind its hosts, and a disk comes once in it.
LEMMA ATADistinct ==
  ASSUME NEW listing \in Listings
  PROVE  Distinct(ATAPorts(listing)) /\ \A p \in ATAPorts(listing) : p.type = "ATA"
<1>1. ASSUME NEW k \in ATAHosts
      PROVE  /\ listing[k][1] \in OnHost(Hosts[k]) \cup {NoDisk}
             /\ listing[k][2] \in OnHost(Hosts[k]) \cup {NoDisk}
             /\ listing[k][1] = listing[k][2] => listing[k][1] = NoDisk
  <2>1. listing[k] \in FirstTwo(OnHost(Hosts[k]))
    BY DEF Listings
  <2> QED
    BY <2>1 DEF FirstTwo
<1>2. \A k \in ATAHosts : \A n \in 1..Width(Hosts[k]) : n \in 1..2
  BY DEF Width
<1>3. ASSUME NEW k \in ATAHosts, NEW l \in ATAHosts, NEW m \in 1..Width(Hosts[k]), NEW n \in 1..Width(Hosts[l]),
             listing[k][m] = listing[l][n], listing[k][m] # NoDisk
      PROVE  k = l /\ m = n
  <2>1. listing[k][m] \in OnHost(Hosts[k]) /\ listing[l][n] \in OnHost(Hosts[l]) /\ m \in 1..2 /\ n \in 1..2
    BY <1>1, <1>2, <1>3
  <2>2. Hosts[k] = Hosts[l]
    BY <1>3, <2>1 DEF OnHost
  <2>3. k = l
    BY <2>2, PlaceAssumption DEF IsInjective, ATAHosts
  <2> QED
    BY <1>1, <1>3, <2>1, <2>3
<1>4. ASSUME NEW p \in ATAPorts(listing), NEW q \in ATAPorts(listing)
      PROVE  /\ p.type = "ATA" /\ (p.at = q.at => p = q)
             /\ p.disk = q.disk /\ p.disk # NoDisk => p = q
  <2>1. PICK k \in ATAHosts, m \in 1..2 : m \in 1..Width(Hosts[k]) /\ p = Port("ATA", ATANumber(k) + m - 1, listing[k][m])
    BY <1>2 DEF ATAPorts
  <2>2. PICK l \in ATAHosts, n \in 1..2 : n \in 1..Width(Hosts[l]) /\ q = Port("ATA", ATANumber(l) + n - 1, listing[l][n])
    BY <1>2 DEF ATAPorts
  <2>3. /\ p.type = "ATA" /\ p.at = ATANumber(k) + m - 1 /\ p.disk = listing[k][m]
        /\ q.at = ATANumber(l) + n - 1 /\ q.disk = listing[l][n]
    BY <2>1, <2>2 DEF Port
  <2>4. k = l /\ m = n => p = q
    BY <2>1, <2>2
  <2>5. p.at = q.at => k = l /\ m = n
    BY <2>1, <2>2, <2>3, NumbersAreDistinct
  <2>6. ASSUME p.disk = q.disk, p.disk # NoDisk
        PROVE  k = l /\ m = n
    <3>1. listing[k][m] = listing[l][n] /\ listing[k][m] # NoDisk
      BY <2>3, <2>6
    <3>2. m \in 1..Width(Hosts[k]) /\ n \in 1..Width(Hosts[l])
      BY <2>1, <2>2
    <3> QED
      BY <1>3, <3>1, <3>2
  <2> QED
    BY <2>3, <2>4, <2>5, <2>6
<1> QED
  BY <1>4 DEF Distinct

\* A namespace is one port, and its place tells it from the others.
LEMMA NVMEDistinct ==
  ASSUME attached \subseteq Disks
  PROVE  Distinct(NVMEPorts) /\ \A p \in NVMEPorts : p.type = "NVME"
<1>1. ASSUME NEW p \in NVMEPorts, NEW q \in NVMEPorts
      PROVE  p.type = "NVME" /\ (p.at = q.at => p = q) /\ (p.disk = q.disk => p = q)
  <2>1. PICK d \in Disks : /\ p = Port("NVME", <<Place[d].controller, Place[d].namespace>>, d)
                           /\ Place[d].kind = "nvme"
    BY DEF NVMEPorts
  <2>2. PICK e \in Disks : /\ q = Port("NVME", <<Place[e].controller, Place[e].namespace>>, e)
                           /\ Place[e].kind = "nvme"
    BY DEF NVMEPorts
  <2>3. /\ p.type = "NVME" /\ p.at = <<Place[d].controller, Place[d].namespace>> /\ p.disk = d
        /\ q.at = <<Place[e].controller, Place[e].namespace>> /\ q.disk = e
    BY <2>1, <2>2 DEF Port
  <2>4. p.at = q.at => d = e
    BY <2>1, <2>2, <2>3, PlaceAssumption
  <2> QED
    BY <2>1, <2>2, <2>3, <2>4
<1> QED
  BY <1>1 DEF Distinct

\* The disks that are directly on a SAS host, and those of any host, are one port each.
LEMMA DirectDistinct ==
  /\ Distinct(SASDirectPorts) /\ \A p \in SASDirectPorts : p.type = "SAS"
  /\ Distinct(SCSIPorts) /\ \A p \in SCSIPorts : p.type = "SCSI"
<1>1. ASSUME NEW p \in SASDirectPorts, NEW q \in SASDirectPorts
      PROVE  p.type = "SAS" /\ (p.disk = q.disk => p = q)
  BY DEF SASDirectPorts, Port
<1>2. ASSUME NEW p \in SCSIPorts, NEW q \in SCSIPorts
      PROVE  p.type = "SCSI" /\ (p.disk = q.disk => p = q)
  <2>1. PICK h, d : p = Port("SCSI", <<h, Place[d].target>>, d) /\ d \in OnHost(h)
    BY DEF SCSIPorts
  <2>2. PICK g, e : q = Port("SCSI", <<g, Place[e].target>>, e) /\ e \in OnHost(g)
    BY DEF SCSIPorts
  <2>3. Place[d].host = h /\ Place[e].host = g
    BY <2>1, <2>2 DEF OnHost
  <2>4. p.type = "SCSI" /\ p.disk = d /\ q.disk = e
    BY <2>1, <2>2 DEF Port
  <2> QED
    BY <2>1, <2>2, <2>3, <2>4
<1> QED
  BY <1>1, <1>2 DEF Distinct

\* Claiming the ports of a family that was not scanned before, or of SAS, leaves
\* the drives and ports distinct.
LEMMA Claimed ==
  ASSUME DrivesInv, NEW new, Distinct(new), NEW type, \A p \in new : p.type = type,
         type \notin Families[source] \/ type = "SAS", Claim(new), UNCHANGED info
  PROVE  DrivesAreWhole'
<1>1. /\ ports' = ports \cup new
      /\ drives' = drives \cup {[disk |-> p.disk, port |-> p] : p \in {p \in new : p.disk # NoDisk /\ p.disk \notin BlockList}}
  BY DEF Claim
<1>2. ASSUME NEW e \in drives'
      PROVE  /\ e.port \in ports' /\ e.port.disk = e.disk
             /\ e \in drives \/ (e.port \in new /\ e.disk \notin BlockList /\ e.disk # NoDisk
                                 /\ e = [disk |-> e.disk, port |-> e.port])
  BY <1>1 DEF DrivesInv, DrivesAreWhole
<1>3. \A e \in drives : e.disk \in BlockList
  BY DEF BlockList
<1>4. ASSUME NEW e \in drives', NEW f \in drives', e.disk = f.disk
      PROVE  e = f
  <2>1. CASE e \in drives /\ f \in drives
    BY <1>4, <2>1 DEF DrivesInv, DrivesAreWhole
  <2>2. CASE e \notin drives /\ f \notin drives
    <3>1. e.port = f.port
      BY <1>2, <1>4, <2>2 DEF Distinct
    <3> QED
      BY <1>2, <1>4, <2>2, <3>1
  <2>3. CASE (e \in drives) # (f \in drives)
    BY <1>2, <1>3, <1>4, <2>3
  <2> QED
    BY <2>1, <2>2, <2>3
<1>5. ASSUME NEW p \in ports', NEW q \in ports', p.type = q.type, p.at = q.at, p.type \notin {"SAS", "SCSI"}
      PROVE  p = q
  <2>1. CASE p \in ports /\ q \in ports
    BY <1>5, <2>1 DEF DrivesInv, DrivesAreWhole
  <2>2. CASE p \in new /\ q \in new
    BY <1>5, <2>2 DEF Distinct
  <2>3. type = "SAS" \/ \A r \in ports : r.type # type
    BY DEF DrivesInv
  <2> QED
    BY <1>1, <1>5, <2>1, <2>2, <2>3
<1>6. info' = info
  OBVIOUS
<1> QED
  BY <1>2, <1>4, <1>5, <1>6 DEF DrivesInv, DrivesAreWhole

\* Where the scan goes on, and which families it has then.
LEMMA ScanGoesOn ==
  /\ \A s \in DOMAIN After : After[s] \in DOMAIN Families \ {"done", "raised"} /\ Families[s] \subseteq Families[After[s]]
  /\ After["ide"] = "ata" /\ After["ata"] = "nvme" /\ After["nvme"] = "megaraid" /\ After["megaraid"] = "enclosures"
  /\ After["enclosures"] = "direct" /\ After["direct"] = "scsi" /\ After["scsi"] = "unknown"
  /\ "IDE" \in Families["ata"] /\ "IDE" \notin Families["ide"]
  /\ "ATA" \in Families["nvme"] /\ "ATA" \notin Families["ata"]
  /\ "NVME" \in Families["megaraid"] /\ "NVME" \notin Families["nvme"]
  /\ "SAS" \in Families["direct"] /\ "SAS" \notin Families["enclosures"]
  /\ "SCSI" \in Families["unknown"] /\ "SCSI" \notin Families["scsi"]
  /\ "SAS" \in Families["scsi"]
BY DEF After, Families

\* The bays of the enclosures: of the expanders that see one, the first has its disk.
LEMMA EnclosuresClaimed ==
  ASSUME DrivesInv, ScanEnclosures
  PROVE  DrivesAreWhole' /\ \A p \in ports' : p.type \in Families[source] \cup {"SAS"}
<1> DEFINE claimed == UNION {SASEnclosurePorts(k) : k \in DOMAIN Enclosures}
           foremost == {p \in claimed : \A q \in claimed : q.disk = p.disk => p.by <= q.by}
<1>1. /\ ports' = ports \cup claimed /\ info' = info
      /\ drives' = drives \cup {[disk |-> p.disk, port |-> p] : p \in {p \in foremost : p.disk # NoDisk /\ p.disk \notin BlockList}}
  BY DEF ScanEnclosures
<1>2. ASSUME NEW p \in claimed
      PROVE  /\ p.type = "SAS" /\ p.by \in DOMAIN Enclosures
             /\ \E s : p = [type |-> "SAS", at |-> <<Enclosures[p.by][1], s>>, by |-> p.by, disk |-> p.disk]
                       /\ (p.disk # NoDisk => Place[p.disk].slot = s)
  <2>1. PICK k \in DOMAIN Enclosures : p \in SASEnclosurePorts(k)
    OBVIOUS
  <2> DEFINE In(s) == {d \in attached : Place[d].kind = "enclosure"
                                         /\ Place[d].enclosure = Enclosures[k][2] /\ Place[d].slot = s}
  <2>2. PICK s \in Slots : p = [type |-> "SAS", at |-> <<Enclosures[k][1], s>>, by |-> k, disk |-> AnyOf(In(s))]
    BY <2>1 DEF SASEnclosurePorts
  <2>3. AnyOf(In(s)) # NoDisk => Place[AnyOf(In(s))].slot = s
    BY AnyOfThem
  <2> HIDE DEF In
  <2> QED
    BY <2>2, <2>3
<1> HIDE DEF claimed
<1>3. ASSUME NEW p \in foremost, NEW q \in foremost, p.disk = q.disk, p.disk # NoDisk
      PROVE  p = q
  <2>1. p.by <= q.by /\ q.by <= p.by /\ p.by \in Int /\ q.by \in Int
    BY <1>2, <1>3, PlaceAssumption
  <2>2. p.by = q.by
    BY <2>1
  <2> QED
    BY <1>2, <1>3, <2>2
<1>4. ASSUME NEW e \in drives'
      PROVE  /\ e.port \in ports' /\ e.port.disk = e.disk
             /\ e \in drives \/ (e.port \in foremost /\ e.disk \notin BlockList /\ e.disk # NoDisk
                                 /\ e = [disk |-> e.disk, port |-> e.port])
  BY <1>1 DEF DrivesInv, DrivesAreWhole
<1>5. \A e \in drives : e.disk \in BlockList
  BY DEF BlockList
<1> HIDE DEF foremost
<1>6. ASSUME NEW e \in drives', NEW f \in drives', e.disk = f.disk
      PROVE  e = f
  <2>1. CASE e \in drives /\ f \in drives
    BY <1>6, <2>1 DEF DrivesInv, DrivesAreWhole
  <2>2. CASE e \notin drives /\ f \notin drives
    <3>1. e.port = f.port
      BY <1>3, <1>4, <1>6, <2>2
    <3> QED
      BY <1>4, <1>6, <2>2, <3>1
  <2>3. CASE (e \in drives) # (f \in drives)
    BY <1>4, <1>5, <1>6, <2>3
  <2> QED
    BY <2>1, <2>2, <2>3
<1>7. ASSUME NEW p \in ports', NEW q \in ports', p.type = q.type, p.at = q.at, p.type \notin {"SAS", "SCSI"}
      PROVE  p = q
  <2>1. p \in ports /\ q \in ports
    BY <1>1, <1>2, <1>7
  <2> QED
    BY <1>7, <2>1 DEF DrivesInv, DrivesAreWhole
<1>8. DrivesAreWhole'
  BY <1>1, <1>4, <1>6, <1>7 DEF DrivesInv, DrivesAreWhole
<1> QED
  BY <1>1, <1>2, <1>8 DEF DrivesInv

\* The scan of a family that is read in one go.
LEMMA PortsStep ==
  ASSUME DrivesInv, NEW new, Distinct(new), NEW type, \A p \in new : p.type = type,
         source \in DOMAIN After, type \notin Families[source] \/ type = "SAS", type \in Families[After[source]], Claim(new),
         source' = After[source], UNCHANGED <<attached, plugs, cli, unknown, present, loads, info>>,
         source = "nvme" => {d \in attached : Place[d].kind = "nvme" /\ Place[d].controller \in Controllers}
                              \subseteq {p.disk : p \in new} \ {NoDisk}
  PROVE  DrivesInv'
<1>1. DrivesAreWhole'
  BY Claimed
<1>2. source' \in DOMAIN Families /\ source' # "done" /\ Families[source] \subseteq Families[source']
  BY ScanGoesOn
<1>3. ports' = ports \cup new
  BY DEF Claim
<1>4. \A p \in ports' : p.type \in Families[source']
  BY <1>2, <1>3 DEF DrivesInv
<1>5. NVMEFound'
  <2>1. BlockList \subseteq BlockList'
    BY DEF Claim, BlockList
  <2>2. CASE source = "nvme"
    <3>1. {p.disk : p \in new} \ {NoDisk} \subseteq BlockList'
      <4>1. SUFFICES ASSUME NEW p \in new, p.disk # NoDisk, p.disk \notin BlockList PROVE p.disk \in BlockList'
        BY <2>1
      <4>2. [disk |-> p.disk, port |-> p] \in drives'
        BY <4>1 DEF Claim
      <4> QED
        BY <4>2 DEF BlockList
    <3> QED
      BY <2>2, <3>1 DEF DrivesInv, NVMEFound
  <2>3. CASE source \in {"ide", "ata"}
    BY <2>3, ScanGoesOn DEF NVMEFound
  <2>4. CASE source \notin {"ide", "ata", "nvme"}
    BY <2>1, <2>4 DEF DrivesInv, NVMEFound
  <2> QED
    BY <2>2, <2>3, <2>4
<1>6. NothingIsLost'
  BY <1>2 DEF NothingIsLost
<1> QED
  BY <1>1, <1>2, <1>4, <1>5, <1>6 DEF DrivesInv

\* Every step of a scan, and whatever is plugged in between, keeps the invariant.
LEMMA DrivesNextStep ==
  ASSUME DrivesInv, DrivesNext
  PROVE  DrivesInv'
<1>1. CASE Plug
  <2>1. /\ attached' \subseteq Disks /\ present' \subseteq attached' /\ present' \subseteq present
        /\ UNCHANGED <<source, ports, drives, unknown, info>>
    BY <1>1 DEF Plug, DrivesInv
  <2>2. BlockList' = BlockList
    BY <2>1 DEF BlockList
  <2>3. NVMEFound' /\ NothingIsLost'
    BY <2>1, <2>2 DEF DrivesInv, NVMEFound, NothingIsLost
  <2>4. DrivesAreWhole'
    BY <2>1 DEF DrivesInv, DrivesAreWhole
  <2> QED
    BY <2>1, <2>3, <2>4 DEF DrivesInv
<1>2. CASE ScanPorts
  <2>1. source' = After[source] /\ UNCHANGED <<attached, plugs, cli, unknown, present, loads, info>>
    BY <1>2 DEF ScanPorts
  <2>2. CASE source = "ide" /\ Claim(IDEPorts)
    BY <2>1, <2>2, IDEDistinct, ScanGoesOn, PortsStep DEF After
  <2>3. ASSUME source = "ata", NEW listing \in Listings, Claim(ATAPorts(listing))
        PROVE  DrivesInv'
    BY <2>1, <2>3, ATADistinct, ScanGoesOn, PortsStep DEF After
  <2>4. CASE source = "nvme" /\ Claim(NVMEPorts)
    <3>1. {d \in attached : Place[d].kind = "nvme" /\ Place[d].controller \in Controllers} \subseteq {p.disk : p \in NVMEPorts} \ {NoDisk}
      <4> SUFFICES ASSUME NEW d \in attached, Place[d].kind = "nvme", Place[d].controller \in Controllers
                   PROVE  d \in {p.disk : p \in NVMEPorts} \ {NoDisk}
        OBVIOUS
      <4>1. Port("NVME", <<Place[d].controller, Place[d].namespace>>, d) \in NVMEPorts
        BY DEF NVMEPorts
      <4>2. Port("NVME", <<Place[d].controller, Place[d].namespace>>, d).disk = d
        BY DEF Port
      <4>3. d # NoDisk
        BY PlaceAssumption DEF DrivesInv
      <4> QED
        BY <4>1, <4>2, <4>3
    <3>2. Distinct(NVMEPorts) /\ \A p \in NVMEPorts : p.type = "NVME"
      BY NVMEDistinct DEF DrivesInv
    <3> QED
      BY <2>1, <2>4, <3>1, <3>2, ScanGoesOn, PortsStep DEF After
  <2>5. CASE source = "direct" /\ Claim(SASDirectPorts)
    BY <2>1, <2>5, DirectDistinct, ScanGoesOn, PortsStep DEF After
  <2>6. CASE source = "scsi" /\ Claim(SCSIPorts)
    BY <2>1, <2>6, DirectDistinct, ScanGoesOn, PortsStep DEF After
  <2> QED
    BY <1>2, <2>2, <2>3, <2>4, <2>5, <2>6 DEF ScanPorts
<1>3. CASE ScanEnclosures
  <2>1. /\ source = "enclosures" /\ source' = "direct"
        /\ UNCHANGED <<attached, plugs, cli, unknown, present, loads, info>>
    BY <1>3, ScanGoesOn DEF ScanEnclosures
  <2>2. DrivesAreWhole' /\ \A p \in ports' : p.type \in Families[source']
    <3>1. Families[source] \cup {"SAS"} \subseteq Families[source']
      BY <2>1 DEF Families
    <3> QED
      BY <1>3, <3>1, EnclosuresClaimed
  <2>3. BlockList \subseteq BlockList'
    BY <1>3 DEF ScanEnclosures, BlockList
  <2>4. NVMEFound' /\ NothingIsLost'
    BY <2>1, <2>3 DEF DrivesInv, NVMEFound, NothingIsLost
  <2> QED
    BY <2>1, <2>2, <2>4 DEF DrivesInv, Families
<1>4. CASE ScanMegaRAID
  <2>1. /\ source = "megaraid" /\ source' \in {"enclosures", "raised"}
        /\ UNCHANGED <<attached, plugs, cli, ports, drives, unknown, present, loads, info>>
    BY <1>4, ScanGoesOn DEF ScanMegaRAID
  <2>2. Families[source'] = Families[source] /\ source' \in DOMAIN Families
    BY <2>1 DEF Families
  <2>3. BlockList' = BlockList
    BY <2>1 DEF BlockList
  <2>4. NVMEFound' /\ NothingIsLost'
    BY <2>1, <2>3 DEF DrivesInv, NVMEFound, NothingIsLost
  <2>5. DrivesAreWhole'
    BY <2>1 DEF DrivesInv, DrivesAreWhole
  <2> QED
    BY <2>1, <2>2, <2>4, <2>5 DEF DrivesInv
<1>5. CASE ListUnknown
  <2>1. /\ source = "unknown" /\ source' = "done"
        /\ unknown' = {d \in attached \ NoBlock : Place[d].kind # "nvme"} \ BlockList
        /\ UNCHANGED <<attached, plugs, cli, ports, drives, present, loads, info>>
    BY <1>5 DEF ListUnknown
  <2>2. Families[source'] = Families[source] /\ source' \in DOMAIN Families
    BY <2>1 DEF Families
  <2>3. BlockList' = BlockList
    BY <2>1 DEF BlockList
  <2>4. NVMEFound'
    BY <2>1, <2>3 DEF DrivesInv, NVMEFound
  <2>5. NothingIsLost'
    BY <2>1, <2>3 DEF DrivesInv, NVMEFound, NothingIsLost, Hidden
  <2>6. DrivesAreWhole'
    BY <2>1 DEF DrivesInv, DrivesAreWhole
  <2> QED
    BY <2>1, <2>2, <2>4, <2>5, <2>6 DEF DrivesInv
<1>6. CASE Rescan
  <2>1. /\ source' = "ide" /\ ports' = {} /\ drives' = {} /\ present' = attached /\ attached' = attached
        /\ info' = [d \in Disks |-> {}]
    BY <1>6 DEF Rescan
  <2> QED
    BY <2>1 DEF DrivesInv, Families, NVMEFound, NothingIsLost, DrivesAreWhole
<1>7. CASE LoadInfo
  <2>1. /\ UNCHANGED <<attached, source, ports, drives, unknown, present>>
    BY <1>7 DEF LoadInfo
  <2>2. PICK d, names : info' = [info EXCEPT ![d] = {Item(d, n) : n \in names}]
    BY <1>7 DEF LoadInfo, Load
  <2>3. \A e \in Disks : \A i, j \in info'[e] : i.of = j.of
    <3>1. \A e \in Disks : info'[e] = info[e] \/ info'[e] = {Item(d, n) : n \in names}
      BY <2>2 DEF DrivesInv
    <3>2. \A i, j \in {Item(d, n) : n \in names} : i.of = j.of
      BY DEF Item
    <3> QED
      BY <3>1, <3>2 DEF DrivesInv, DrivesAreWhole
  <2>4. BlockList' = BlockList /\ DOMAIN info' = Disks
    BY <2>1, <2>2 DEF BlockList, DrivesInv
  <2>5. DrivesAreWhole'
    BY <2>1, <2>3 DEF DrivesInv, DrivesAreWhole
  <2> QED
    BY <2>1, <2>4, <2>5 DEF DrivesInv, NVMEFound, NothingIsLost
<1> QED
  BY <1>1, <1>2, <1>3, <1>4, <1>5, <1>6, <1>7 DEF DrivesNext

DrivesSpec == DrivesInit /\ [][DrivesNext]_drivesVars

\* Whatever is plugged while a machine is scanned, and in any order of the listings, a
\* block device is one drive at one port, the numbers of the ATA ports are theirs
\* alone, and a disk that stays attached is not lost (DriveManager of libdrive.py).
THEOREM ScansTrue == DrivesSpec => []ScansAreTrue
<1>1. DrivesInit => DrivesInv
  <2> SUFFICES ASSUME DrivesInit PROVE DrivesInv
    OBVIOUS
  <2>1. /\ source = "ide" /\ ports = {} /\ drives = {} /\ present = attached /\ attached \subseteq Disks
        /\ info = [d \in Disks |-> {}]
    BY DEF DrivesInit
  <2> QED
    BY <2>1 DEF DrivesInv, Families, NVMEFound, NothingIsLost, DrivesAreWhole
<1>2. DrivesInv /\ [DrivesNext]_drivesVars => DrivesInv'
  <2> SUFFICES ASSUME DrivesInv, [DrivesNext]_drivesVars PROVE DrivesInv'
    OBVIOUS
  <2>1. CASE DrivesNext
    BY <2>1, DrivesNextStep
  <2>2. CASE UNCHANGED drivesVars
    BY <2>2 DEF drivesVars, DrivesInv, NVMEFound, NothingIsLost, DrivesAreWhole, BlockList
  <2> QED
    BY <2>1, <2>2
<1>3. DrivesInv => ScansAreTrue
  BY DEF DrivesInv, ScansAreTrue
<1> QED
  BY <1>1, <1>2, <1>3, PTL DEF DrivesSpec

-----------------------------------------------------------------------------
(* Templates: sequences.                                                   *)

Sequence(s) == s \in Seq(ToSet(s))
Once(s) == \A i, j \in DOMAIN s : s[i] = s[j] => i = j

\* What is left of a list that is gone through from its head.
IsRest(left, whole) ==
  /\ Sequence(left) /\ Sequence(whole) /\ Len(left) <= Len(whole)
  /\ \A i \in 1..Len(left) : left[i] = whole[Len(whole) - Len(left) + i]

LEMMA SequenceIs ==
  ASSUME NEW s, Sequence(s)
  PROVE  /\ Len(s) \in Nat /\ DOMAIN s = 1..Len(s) /\ ToSet(s) = {s[i] : i \in 1..Len(s)}
         /\ s # <<>> => Len(s) > 0 /\ Head(s) = s[1] /\ Head(s) \in ToSet(s)
         /\ Len(s) = 0 <=> s = <<>>
<1>1. Len(s) \in Nat /\ DOMAIN s = 1..Len(s)
  BY LenProperties DEF Sequence
<1>2. ToSet(s) = {s[i] : i \in 1..Len(s)}
  BY <1>1 DEF ToSet
<1>3. Len(s) = 0 <=> s = <<>>
  BY EmptySeq DEF Sequence
<1>4. Head(s) = s[1]
  OBVIOUS
<1> QED  BY <1>1, <1>2, <1>3, <1>4

\* What holds its own elements holds any that it is made of.
LEMMA SequenceOf ==
  ASSUME NEW S, NEW s \in Seq(S)
  PROVE  Sequence(s)
<1>1. /\ Len(s) \in Nat /\ s \in [1..Len(s) -> S] /\ DOMAIN s = 1..Len(s)
  BY LenProperties
<1>2. s \in [1..Len(s) -> ToSet(s)]
  BY <1>1 DEF ToSet
<1>3. s \in UNION {[1..k -> ToSet(s)] : k \in Nat}
  BY <1>1, <1>2
<1> QED  BY <1>3, SeqDef DEF Sequence

LEMMA TailIs ==
  ASSUME NEW s, Sequence(s), s # <<>>
  PROVE  /\ Sequence(Tail(s)) /\ Len(Tail(s)) = Len(s) - 1 /\ Len(s) \in Nat \ {0}
         /\ \A i \in 1..(Len(s) - 1) : Tail(s)[i] = s[i + 1]
<1>1. /\ Tail(s) \in Seq(ToSet(s)) /\ Len(Tail(s)) = Len(s) - 1
      /\ \A i \in 1..Len(Tail(s)) : Tail(s)[i] = s[i + 1]
  BY HeadTailProperties DEF Sequence
<1>2. Len(s) \in Nat \ {0}
  BY SequenceIs
<1>3. Sequence(Tail(s))
  BY <1>1, SequenceOf
<1>4. Len(Tail(s)) = Len(s) - 1 /\ \A i \in 1..(Len(s) - 1) : Tail(s)[i] = s[i + 1]
  BY ONLY <1>1
<1> QED  BY ONLY <1>2, <1>3, <1>4

LEMMA RestBegins == ASSUME NEW s, Sequence(s) PROVE IsRest(s, s)
BY SequenceIs DEF IsRest

LEMMA RestGoesOn ==
  ASSUME NEW left, NEW whole, IsRest(left, whole), left # <<>>
  PROVE  /\ IsRest(Tail(left), whole) /\ Len(Tail(left)) = Len(left) - 1
         /\ Len(left) \in Nat \ {0} /\ Len(whole) \in Nat /\ Len(left) <= Len(whole)
         /\ Head(left) = whole[Len(whole) - Len(left) + 1]
<1>1. Sequence(left) /\ Sequence(whole) /\ Len(left) <= Len(whole)
  BY DEF IsRest
<1>2. /\ Sequence(Tail(left)) /\ Len(Tail(left)) = Len(left) - 1 /\ Len(left) \in Nat \ {0} /\ Len(whole) \in Nat
      /\ \A i \in 1..(Len(left) - 1) : Tail(left)[i] = left[i + 1]
  BY <1>1, TailIs, SequenceIs
<1>3. Head(left) = left[1]
  BY <1>1, SequenceIs
<1>4. \A i \in 1..(Len(left) - 1) : Tail(left)[i] = whole[Len(whole) - (Len(left) - 1) + i]
  <2> TAKE i \in 1..(Len(left) - 1)
  <2>1. i + 1 \in 1..Len(left)
    BY <1>2
  <2>2. left[i + 1] = whole[Len(whole) - Len(left) + (i + 1)]
    BY <2>1 DEF IsRest
  <2>3. Len(whole) - Len(left) + (i + 1) = Len(whole) - (Len(left) - 1) + i
    BY <1>2
  <2> QED  BY <1>2, <2>2, <2>3
<1>5. left[1] = whole[Len(whole) - Len(left) + 1]
  BY <1>2 DEF IsRest
<1> QED  BY <1>1, <1>2, <1>3, <1>4, <1>5 DEF IsRest

\* The part that is gone through already.
Behind(left, whole) == {whole[i] : i \in 1..(Len(whole) - Len(left))}

LEMMA BehindIs ==
  ASSUME NEW left, NEW whole, IsRest(left, whole)
  PROVE  /\ ToSet(SubSeq(whole, 1, Len(whole) - Len(left))) = Behind(left, whole)
         /\ left # <<>> => Behind(Tail(left), whole) = Behind(left, whole) \cup {Head(left)}
         /\ left = <<>> => Behind(left, whole) = ToSet(whole)
         /\ Behind(whole, whole) = {}
<1>1. Sequence(left) /\ Sequence(whole) /\ Len(left) \in Nat /\ Len(whole) \in Nat /\ Len(left) <= Len(whole)
  BY SequenceIs DEF IsRest
<1> DEFINE m == Len(whole) - Len(left)
           front == SubSeq(whole, 1, m)
<1>2. m \in Nat /\ m <= Len(whole)
  BY <1>1
<1>3. ToSet(front) = Behind(left, whole)
  <2>1. \A i \in 1..m : whole[i] \in ToSet(whole)
    BY <1>1, <1>2, SequenceIs
  <2>2. front \in Seq(ToSet(whole)) /\ Len(front) = m /\ \A i \in 1..m : front[i] = whole[i]
    BY <1>2, <2>1, SubSeqProperties
  <2>3. DOMAIN front = 1..m
    BY <2>2, LenProperties
  <2> HIDE DEF front
  <2> QED  BY <2>2, <2>3 DEF ToSet, Behind
<1>4. ASSUME left # <<>> PROVE Behind(Tail(left), whole) = Behind(left, whole) \cup {Head(left)}
  <2>1. /\ Len(Tail(left)) = Len(left) - 1 /\ Len(left) \in Nat \ {0} /\ Head(left) = whole[m + 1]
    BY <1>4, RestGoesOn
  <2>2. Len(whole) - Len(Tail(left)) = m + 1
    BY <1>1, <2>1
  <2>3. 1..(m + 1) = (1..m) \cup {m + 1}
    BY <1>2
  <2> QED  BY <2>1, <2>2, <2>3 DEF Behind
<1>5. left = <<>> => Behind(left, whole) = ToSet(whole)
  <2>1. left = <<>> => Len(left) = 0 /\ m = Len(whole)
    BY <1>1, SequenceIs
  <2> QED  BY <1>1, <2>1, SequenceIs DEF Behind
<1>6. Behind(whole, whole) = {}
  BY <1>1 DEF Behind
<1> QED  BY <1>3, <1>4, <1>5, <1>6

\* What a list is that a name is added to, or moved to the end of.
LEMMA LongerIs ==
  ASSUME NEW s, Sequence(s), NEW e
  PROVE  /\ Sequence(Append(s, e)) /\ Len(Append(s, e)) = Len(s) + 1 /\ Len(s) \in Nat
         /\ \A i \in 1..Len(s) : Append(s, e)[i] = s[i]
         /\ Append(s, e)[Len(s) + 1] = e /\ ToSet(Append(s, e)) = ToSet(s) \cup {e}
<1>1. /\ Sequence(Append(s, e)) /\ Len(Append(s, e)) = Len(s) + 1 /\ Len(s) \in Nat
      /\ \A i \in 1..Len(s) : Append(s, e)[i] = s[i]
      /\ Append(s, e)[Len(s) + 1] = e
  BY Appended DEF Sequence
<1>2. PICK t : t = Append(s, e)
  OBVIOUS
<1>3. Sequence(t) /\ Len(t) = Len(s) + 1 /\ Len(s) \in Nat /\ (\A i \in 1..Len(s) : t[i] = s[i]) /\ t[Len(s) + 1] = e
  BY <1>1, <1>2
<1>4. ToSet(t) = {t[i] : i \in 1..(Len(s) + 1)} /\ ToSet(s) = {s[i] : i \in 1..Len(s)}
  BY <1>3, SequenceIs
<1>5. 1..(Len(s) + 1) = (1..Len(s)) \cup {Len(s) + 1}
  BY <1>3
<1>6. ToSet(t) = ToSet(s) \cup {e}
  BY <1>3, <1>4, <1>5
<1> QED  BY <1>1, <1>2, <1>6

LEMMA WithoutOne ==
  ASSUME NEW s, Sequence(s), NEW i \in 1..Len(s)
  PROVE  /\ Sequence(RemoveAt(s, i)) /\ Len(RemoveAt(s, i)) = Len(s) - 1 /\ Len(s) \in Nat
         /\ \A j \in 1..(Len(s) - 1) : RemoveAt(s, i)[j] = IF j < i THEN s[j] ELSE s[j + 1]
<1> DEFINE front == SubSeq(s, 1, i - 1)  back == SubSeq(s, i + 1, Len(s))  S == ToSet(s)
<1>0. Len(s) \in Nat /\ \A j \in 1..Len(s) : s[j] \in S
  BY SequenceIs
<1> HIDE DEF S
<1>1. front \in Seq(S) /\ Len(front) = i - 1 /\ \A j \in 1..(i - 1) : front[j] = s[j]
  BY <1>0, SubSeqProperties
<1>2. back \in Seq(S) /\ Len(back) = Len(s) - i /\ \A j \in 1..(Len(s) - i) : back[j] = s[i + j]
  <2>1. \A j \in (i + 1)..Len(s) : s[j] \in S
    BY <1>0
  <2>2. /\ back \in Seq(S) /\ Len(back) = (IF i + 1 <= Len(s) THEN Len(s) - (i + 1) + 1 ELSE 0)
        /\ \A j \in 1..(Len(s) - (i + 1) + 1) : back[j] = s[i + 1 + j - 1]
    BY <1>0, <2>1, SubSeqProperties
  <2> HIDE DEF back
  <2> QED  BY <1>0, <2>2
<1>3. RemoveAt(s, i) = front \o back
  BY DEF RemoveAt
<1> HIDE DEF front, back
<1>4. /\ front \o back \in Seq(S) /\ Len(front \o back) = Len(s) - 1
      /\ \A j \in 1..(Len(s) - 1) : (front \o back)[j] = IF j < i THEN s[j] ELSE s[j + 1]
  <2>1. /\ front \o back \in Seq(S) /\ Len(front \o back) = Len(front) + Len(back)
        /\ \A j \in 1..(Len(front) + Len(back)) :
             (front \o back)[j] = IF j <= Len(front) THEN front[j] ELSE back[j - Len(front)]
    BY <1>1, <1>2, ConcatProperties
  <2>2. PICK len : len = Len(s)
    OBVIOUS
  <2>3. len \in Nat /\ i \in 1..len /\ Len(front) = i - 1 /\ Len(back) = len - i
    BY <1>0, <1>1, <1>2, <2>2
  <2>4. Len(front) + Len(back) = len - 1
    BY <2>3
  <2>5. ASSUME NEW j \in 1..(len - 1) PROVE (front \o back)[j] = IF j < i THEN s[j] ELSE s[j + 1]
    <3>1. (front \o back)[j] = IF j <= i - 1 THEN front[j] ELSE back[j - (i - 1)]
      BY <2>1, <2>3, <2>4, <2>5
    <3>2. CASE j < i
      <4>1. j \in 1..(i - 1) /\ j <= i - 1
        BY <2>3, <2>5, <3>2
      <4> QED  BY <1>1, <3>1, <3>2, <4>1
    <3>3. CASE ~(j < i)
      <4>1. j - (i - 1) \in 1..(len - i) /\ ~(j <= i - 1) /\ i + (j - (i - 1)) = j + 1
        BY <2>3, <2>5, <3>3
      <4>2. back[j - (i - 1)] = s[i + (j - (i - 1))]
        BY <1>2, <2>2, <4>1
      <4> QED  BY <3>1, <3>3, <4>1, <4>2
    <3> QED  BY <3>2, <3>3
  <2> QED  BY <2>1, <2>2, <2>4, <2>5
<1>5. Sequence(front \o back)
  BY <1>4, SequenceOf
<1> QED  BY <1>0, <1>3, <1>4, <1>5

\* Touched, in a list of different names: the others come in their order, and it is last.
LEMMA TouchedNew ==
  ASSUME NEW s, Sequence(s), NEW name, name \notin ToSet(s)
  PROVE  Touched(s, name) = Append(s, name)
<1>1. ~(\E i \in 1..Len(s) : s[i] = name)
  BY SequenceIs
<1> QED  BY <1>1 DEF Touched, RemoveFirst

LEMMA TouchedOld ==
  ASSUME NEW s, Sequence(s), Once(s), NEW i \in 1..Len(s)
  PROVE  /\ Sequence(Touched(s, s[i])) /\ Len(Touched(s, s[i])) = Len(s) /\ Len(s) \in Nat \ {0}
         /\ \A j \in 1..(Len(s) - 1) : Touched(s, s[i])[j] = IF j < i THEN s[j] ELSE s[j + 1]
         /\ Touched(s, s[i])[Len(s)] = s[i] /\ ToSet(Touched(s, s[i])) = ToSet(s) /\ Once(Touched(s, s[i]))
<1>1. Len(s) \in Nat \ {0} /\ DOMAIN s = 1..Len(s) /\ i \in Nat
  BY SequenceIs
<1>2. SelectInSeq(s, LAMBDA v : v = s[i]) = i
  <2>1. {j \in 1..Len(s) : s[j] = s[i]} = {i}
    BY <1>1 DEF Once
  <2>2. SelectInSeq(s, LAMBDA v : v = s[i]) = Min({i})
    BY <2>1 DEF SelectInSeq
  <2>3. Min({i}) = i
    BY <1>1 DEF Min
  <2> QED  BY <2>2, <2>3
<1>3. Touched(s, s[i]) = Append(RemoveAt(s, i), s[i])
  BY <1>2 DEF Touched, RemoveFirst
<1>4. PICK rest, t, e, len : rest = RemoveAt(s, i) /\ t = Append(rest, e) /\ e = s[i] /\ len = Len(s)
  OBVIOUS
<1>5. /\ Sequence(rest) /\ Len(rest) = len - 1 /\ len \in Nat \ {0} /\ i \in 1..len
      /\ \A j \in 1..(len - 1) : rest[j] = IF j < i THEN s[j] ELSE s[j + 1]
  BY <1>1, <1>4, WithoutOne
<1>6. /\ Sequence(t) /\ Len(t) = Len(rest) + 1 /\ (\A j \in 1..Len(rest) : t[j] = rest[j])
      /\ t[Len(rest) + 1] = e
  BY <1>4, <1>5, LongerIs
<1>7. /\ Len(t) = len /\ t[len] = s[i]
      /\ \A j \in 1..(len - 1) : t[j] = IF j < i THEN s[j] ELSE s[j + 1]
  <2>1. Len(t) = len /\ t[len] = s[i]
    BY <1>4, <1>5, <1>6
  <2>2. \A j \in 1..(len - 1) : t[j] = rest[j]
    BY <1>5, <1>6
  <2> QED  BY <1>5, <2>1, <2>2
<1>8. /\ DOMAIN t = 1..len /\ ToSet(t) = {t[j] : j \in 1..len} /\ ToSet(s) = {s[j] : j \in 1..len}
      /\ \A j, k \in 1..len : s[j] = s[k] => j = k
  <2>1. DOMAIN t = 1..len /\ ToSet(t) = {t[j] : j \in 1..len}
    BY <1>6, <1>7, SequenceIs
  <2>2. ToSet(s) = {s[j] : j \in 1..len}
    BY <1>4, SequenceIs
  <2>3. \A j, k \in 1..len : s[j] = s[k] => j = k
    BY <1>1, <1>4 DEF Once
  <2> QED  BY <2>1, <2>2, <2>3
<1>a. PICK of : /\ of \in [1..len -> 1..len]
                /\ \A l \in 1..len : of[l] = IF l = len THEN i ELSE IF l < i THEN l ELSE l + 1
  <2>1. \A l \in 1..len : (IF l = len THEN i ELSE IF l < i THEN l ELSE l + 1) \in 1..len
    BY <1>5
  <2>2. PICK g : g = [l \in 1..len |-> IF l = len THEN i ELSE IF l < i THEN l ELSE l + 1]
    OBVIOUS
  <2>3. g \in [1..len -> 1..len]
    BY <2>1, <2>2
  <2>4. \A l \in 1..len : g[l] = IF l = len THEN i ELSE IF l < i THEN l ELSE l + 1
    BY <2>2
  <2> QED  BY <2>3, <2>4
<1>b. \A l \in 1..len : t[l] = s[of[l]]
  <2> TAKE l \in 1..len
  <2>1. l = len \/ l \in 1..(len - 1)
    BY <1>5
  <2>2. CASE l = len
    BY <1>7, <1>a, <2>2
  <2>3. CASE l \in 1..(len - 1)
    <3>1. l # len
      BY <1>5, <2>3
    <3> QED  BY <1>7, <1>a, <2>3, <3>1
  <2> QED  BY <2>1, <2>2, <2>3
<1>c. \A j, k \in 1..len : of[j] = of[k] => j = k
  <2> TAKE j, k \in 1..len
  <2>1. /\ of[j] = (IF j = len THEN i ELSE IF j < i THEN j ELSE j + 1)
        /\ of[k] = (IF k = len THEN i ELSE IF k < i THEN k ELSE k + 1)
    BY <1>a
  <2> QED  BY <1>5, <2>1
<1>9. ToSet(t) = ToSet(s)
  <2>1. ASSUME NEW j \in 1..len PROVE \E k \in 1..len : of[k] = j
    <3>1. CASE j < i
      BY <1>5, <1>a, <3>1
    <3>2. CASE j = i
      BY <1>5, <1>a, <3>2
    <3>3. CASE j > i
      <4>1. j - 1 \in 1..len /\ j - 1 # len /\ ~(j - 1 < i) /\ (j - 1) + 1 = j
        BY <1>5, <2>1, <3>3
      <4>2. of[j - 1] = j
        BY <1>a, <4>1
      <4> QED  BY <4>1, <4>2
    <3> QED  BY <1>5, <2>1, <3>1, <3>2, <3>3
  <2>2. \A j \in 1..len : \E k \in 1..len : t[k] = s[j]
    BY <1>b, <2>1
  <2>3. \A j \in 1..len : \E k \in 1..len : t[j] = s[k]
    BY <1>a, <1>b
  <2>4. ToSet(t) \subseteq ToSet(s)
    BY <1>8, <2>3
  <2>5. ToSet(s) \subseteq ToSet(t)
    BY <1>8, <2>2
  <2> QED  BY <2>4, <2>5
<1>10. Once(t)
  <2>1. ASSUME NEW j \in 1..len, NEW k \in 1..len, t[j] = t[k] PROVE of[j] = of[k]
    <3>1. of[j] \in 1..len /\ of[k] \in 1..len
      BY <1>a
    <3>2. s[of[j]] = s[of[k]]
      BY <1>b, <2>1
    <3> QED  BY <1>8, <3>1, <3>2
  <2> QED  BY <1>8, <1>c, <2>1 DEF Once
<1> QED  BY <1>3, <1>4, <1>5, <1>6, <1>7, <1>9, <1>10

LEMMA TouchedIs ==
  ASSUME NEW s, Sequence(s), Once(s), NEW name
  PROVE  /\ Sequence(Touched(s, name)) /\ Once(Touched(s, name)) /\ ToSet(Touched(s, name)) = ToSet(s) \cup {name}
         /\ Len(Touched(s, name)) = (IF name \in ToSet(s) THEN Len(s) ELSE Len(s) + 1) /\ Len(s) \in Nat
<1>0. Len(s) \in Nat /\ DOMAIN s = 1..Len(s) /\ ToSet(s) = {s[i] : i \in 1..Len(s)}
  BY SequenceIs
<1>1. CASE name \in ToSet(s)
  <2>1. PICK i \in 1..Len(s) : name = s[i]
    BY <1>0, <1>1
  <2>2. /\ Sequence(Touched(s, s[i])) /\ Once(Touched(s, s[i])) /\ ToSet(Touched(s, s[i])) = ToSet(s)
        /\ Len(Touched(s, s[i])) = Len(s)
    BY TouchedOld
  <2>3. ToSet(s) = ToSet(s) \cup {name}
    BY <1>1
  <2> QED  BY <1>0, <1>1, <2>1, <2>2, <2>3
<1>2. CASE name \notin ToSet(s)
  <2>1. PICK t, len : t = Append(s, name) /\ t = Touched(s, name) /\ len = Len(s)
    BY <1>2, TouchedNew
  <2>2. /\ Sequence(t) /\ Len(t) = len + 1 /\ len \in Nat /\ (\A i \in 1..len : t[i] = s[i]) /\ t[len + 1] = name
        /\ ToSet(t) = ToSet(s) \cup {name}
    <3>1. /\ Sequence(Append(s, name)) /\ Len(Append(s, name)) = Len(s) + 1 /\ Len(s) \in Nat
          /\ \A i \in 1..Len(s) : Append(s, name)[i] = s[i]
          /\ Append(s, name)[Len(s) + 1] = name /\ ToSet(Append(s, name)) = ToSet(s) \cup {name}
      BY ONLY Sequence(s), LongerIs
    <3> QED  BY ONLY <2>1, <3>1
  <2>3. DOMAIN t = 1..(len + 1)
    BY <2>2, SequenceIs
  <2>4. \A i, j \in 1..len : s[i] = s[j] => i = j
    BY <1>0, <2>1 DEF Once
  <2>5. \A i \in 1..len : t[i] # name
    BY <1>0, <1>2, <2>1, <2>2
  <2>6. \A i \in 1..(len + 1) : i \in 1..len \/ i = len + 1
    BY <2>2
  <2>7. Once(t)
    <3> SUFFICES ASSUME NEW i \in 1..(len + 1), NEW j \in 1..(len + 1), t[i] = t[j] PROVE i = j
      BY <2>3 DEF Once
    <3>1. CASE i \in 1..len /\ j \in 1..len
      BY <2>2, <2>4, <3>1
    <3>2. CASE i = len + 1 \/ j = len + 1
      BY <2>2, <2>5, <2>6, <3>2
    <3> QED  BY <2>6, <3>1, <3>2
  <2> QED  BY <1>2, <2>1, <2>2, <2>7
<1> QED  BY <1>1, <1>2

\* As many names as a list of different ones is long.
LEMMA OnceCounts ==
  ASSUME NEW s, Sequence(s), Once(s)
  PROVE  Cardinality(ToSet(s)) = Len(s) /\ IsFiniteSet(ToSet(s))
<1>1. Len(s) \in Nat /\ DOMAIN s = 1..Len(s) /\ ToSet(s) = {s[i] : i \in 1..Len(s)} /\ s \in [1..Len(s) -> ToSet(s)]
  BY SequenceIs, LenProperties DEF Sequence
<1>2. s \in Surjection(1..Len(s), ToSet(s)) /\ s \in Injection(1..Len(s), ToSet(s))
  BY <1>1 DEF Surjection, Injection, Once, IsInjective
<1>3. PICK len, S, T : len = Len(s) /\ S = 1..len /\ T = ToSet(s)
  OBVIOUS
<1>4. IsFiniteSet(S) /\ Cardinality(S) = len
  <2>1. len \in Int /\ 1 \in Int /\ len \in Nat
    BY <1>1, <1>3
  <2>2. IsFiniteSet(1..len) /\ Cardinality(1..len) = IF 1 > len THEN 0 ELSE len - 1 + 1
    BY ONLY <2>1, FS_Interval
  <2>3. (IF 1 > len THEN 0 ELSE len - 1 + 1) = len
    BY ONLY <2>1
  <2> QED  BY ONLY <1>3, <2>2, <2>3
<1>5. s \in Surjection(S, T) /\ s \in Injection(S, T)
  BY ONLY <1>2, <1>3
<1>6. IsFiniteSet(T) /\ (Cardinality(T) = Cardinality(S) <=> s \in Injection(S, T))
  BY ONLY <1>4, <1>5, FS_Surjection
<1> QED  BY ONLY <1>3, <1>4, <1>5, <1>6

LEMMA RestOnce ==
  ASSUME NEW q, NEW u, IsRest(q, u), Once(u)
  PROVE  Once(q) /\ ToSet(q) \subseteq ToSet(u)
<1>1. PICK m, k : m = Len(q) /\ k = Len(u) - Len(q)
  OBVIOUS
<1>2. /\ m \in Nat /\ k \in Nat /\ Len(u) = k + m /\ DOMAIN q = 1..m /\ DOMAIN u = 1..(k + m)
      /\ ToSet(q) = {q[i] : i \in 1..m} /\ ToSet(u) = {u[i] : i \in 1..(k + m)}
      /\ \A i \in 1..m : q[i] = u[k + i]
  BY <1>1, SequenceIs DEF IsRest
<1>3. \A i \in 1..m : k + i \in 1..(k + m)
  BY <1>2
<1>4. \A i, j \in 1..m : k + i = k + j => i = j
  BY <1>2
<1>5. Once(q)
  <2>1. ASSUME NEW i \in 1..m, NEW j \in 1..m, q[i] = q[j] PROVE i = j
    <3>1. u[k + i] = u[k + j] /\ k + i \in 1..(k + m) /\ k + j \in 1..(k + m)
      BY <1>2, <1>3, <2>1
    <3>2. k + i = k + j
      BY <1>2, <3>1 DEF Once
    <3> QED  BY <1>4, <3>2
  <2> QED  BY <1>2, <2>1 DEF Once
<1> QED  BY <1>2, <1>3, <1>5

LEMMA RestAll ==
  ASSUME NEW left, NEW whole, IsRest(left, whole), Len(left) = Len(whole)
  PROVE  left = whole
<1>1. PICK len : len = Len(left)
  OBVIOUS
<1>2. Sequence(left) /\ Sequence(whole) /\ len \in Nat /\ DOMAIN left = 1..len /\ DOMAIN whole = 1..len
  BY <1>1, SequenceIs DEF IsRest
<1>3. \A i \in 1..len : left[i] = whole[len - len + i]
  BY <1>1 DEF IsRest
<1>4. \A i \in 1..len : len - len + i = i
  BY <1>2
<1>5. \A i \in 1..len : left[i] = whole[i]
  BY <1>3, <1>4
<1>6. left \in Seq(ToSet(left)) /\ whole \in Seq(ToSet(whole))
  BY <1>2 DEF Sequence
<1>7. \A i \in 1..len : left[i] \in ToSet(left) /\ whole[i] \in ToSet(whole)
  BY <1>2 DEF ToSet
<1>8. left = [i \in 1..len |-> left[i]] /\ whole = [i \in 1..len |-> whole[i]]
  BY <1>1, <1>6, LenProperties
<1> QED  BY <1>5, <1>8

\* What is left of a list is its end.
LEMMA RestIs ==
  ASSUME NEW left, NEW whole, IsRest(left, whole)
  PROVE  SubSeq(whole, Len(whole) - Len(left) + 1, Len(whole)) = left
<1>1. PICK m, n, back : m = Len(left) /\ n = Len(whole) /\ back = SubSeq(whole, n - m + 1, n)
  OBVIOUS
<1>2. /\ m \in Nat /\ n \in Nat /\ m <= n /\ Sequence(left) /\ Sequence(whole)
      /\ \A i \in 1..m : left[i] = whole[n - m + i]
  BY <1>1, SequenceIs DEF IsRest
<1>3. \A i \in (n - m + 1)..n : whole[i] \in ToSet(whole)
  <2>1. \A i \in (n - m + 1)..n : i \in 1..n
    BY <1>2
  <2> QED  BY <1>1, <1>2, <2>1, SequenceIs
<1>4. /\ back \in Seq(ToSet(whole)) /\ Len(back) = (IF n - m + 1 <= n THEN n - (n - m + 1) + 1 ELSE 0)
      /\ \A i \in 1..(n - (n - m + 1) + 1) : back[i] = whole[n - m + 1 + i - 1]
  <2>1. n - m + 1 \in Int /\ n \in Int /\ n - m + 1 >= 1
    BY <1>2
  <2> QED  BY <1>1, <1>3, <2>1, SubSeqProperties
<1>5. Len(back) = m /\ \A i \in 1..m : back[i] = left[i]
  <2>1. n - (n - m + 1) + 1 = m /\ \A i \in 1..m : n - m + 1 + i - 1 = n - m + i
    BY <1>2
  <2>2. (IF n - m + 1 <= n THEN n - (n - m + 1) + 1 ELSE 0) = m
    BY <1>2
  <2> QED  BY <1>2, <1>4, <2>1, <2>2
<1>6. IsRest(back, left)
  <2>1. Sequence(back)
    BY <1>4, SequenceOf
  <2>2. \A i \in 1..m : m - m + i = i
    BY <1>2
  <2>3. \A i \in 1..Len(back) : back[i] = left[Len(left) - Len(back) + i]
    <3>1. \A i \in 1..m : back[i] = left[m - m + i]
      BY <1>5, <2>2
    <3> QED  BY ONLY <1>1, <1>5, <3>1
  <2>4. Len(back) <= Len(left)
    BY ONLY <1>1, <1>2, <1>5
  <2> QED  BY ONLY <1>2, <2>1, <2>3, <2>4 DEF IsRest
<1> QED  BY <1>1, <1>5, <1>6, RestAll

\* A name that is in the queue goes to the end of both.
LEMMA RestTouched ==
  ASSUME NEW q, NEW u, IsRest(q, u), Once(u), NEW name, name \in ToSet(q)
  PROVE  /\ IsRest(Touched(q, name), Touched(u, name))
         /\ Len(Touched(q, name)) = Len(q) /\ Len(Touched(u, name)) = Len(u)
<1>1. PICK m, k, len : m = Len(q) /\ len = Len(u) /\ k = len - m
  OBVIOUS
<1>2. /\ m \in Nat /\ k \in Nat /\ len \in Nat /\ k + m = len
      /\ ToSet(q) = {q[i] : i \in 1..m} /\ Sequence(q) /\ Sequence(u)
      /\ \A i \in 1..m : q[i] = u[k + i]
  BY <1>1, SequenceIs DEF IsRest
<1>3. PICK i \in 1..m : name = q[i]
  BY <1>2
<1>4. PICK tq, tu : tq = Touched(q, name) /\ tu = Touched(u, name)
  OBVIOUS
<1>5. Once(q)
  BY RestOnce
<1>6. /\ Sequence(tq) /\ Len(tq) = m /\ tq[m] = name
      /\ \A j \in 1..(m - 1) : tq[j] = IF j < i THEN q[j] ELSE q[j + 1]
  <2>1. PICK h \in 1..Len(q) : h = i /\ name = q[h]
    BY <1>1, <1>3
  <2>2. /\ Sequence(Touched(q, q[h])) /\ Len(Touched(q, q[h])) = Len(q)
        /\ \A j \in 1..(Len(q) - 1) : Touched(q, q[h])[j] = IF j < h THEN q[j] ELSE q[j + 1]
        /\ Touched(q, q[h])[Len(q)] = q[h]
    BY ONLY <1>2, <1>5, <2>1, TouchedOld
  <2> QED  BY ONLY <1>1, <1>4, <2>1, <2>2
<1>7. k + i \in 1..len /\ name = u[k + i]
  BY <1>2, <1>3
<1>8. /\ Sequence(tu) /\ Len(tu) = len /\ tu[len] = name
      /\ \A j \in 1..(len - 1) : tu[j] = IF j < k + i THEN u[j] ELSE u[j + 1]
  <2>1. PICK h \in 1..Len(u) : h = k + i /\ name = u[h]
    BY <1>1, <1>7
  <2>2. /\ Sequence(Touched(u, u[h])) /\ Len(Touched(u, u[h])) = Len(u)
        /\ \A j \in 1..(Len(u) - 1) : Touched(u, u[h])[j] = IF j < h THEN u[j] ELSE u[j + 1]
        /\ Touched(u, u[h])[Len(u)] = u[h]
    BY ONLY Once(u), <1>2, <2>1, TouchedOld
  <2> QED  BY ONLY <1>1, <1>4, <2>1, <2>2
<1>9. ASSUME NEW j \in 1..m PROVE tq[j] = tu[k + j]
  <2>1. CASE j = m
    BY <1>2, <1>6, <1>8, <2>1
  <2>2. CASE j < m
    <3>1. j \in 1..(m - 1) /\ k + j \in 1..(len - 1) /\ j + 1 \in 1..m /\ (k + j) + 1 = k + (j + 1) /\ (k + j < k + i <=> j < i)
      BY <1>2, <1>3, <1>9, <2>2
    <3>2. q[j] = u[k + j] /\ q[j + 1] = u[k + (j + 1)]
      BY <1>2, <1>9, <3>1
    <3>3. tq[j] = (IF j < i THEN q[j] ELSE q[j + 1]) /\ tu[k + j] = (IF k + j < k + i THEN u[k + j] ELSE u[(k + j) + 1])
      BY <1>6, <1>8, <3>1
    <3> QED  BY <3>1, <3>2, <3>3
  <2> QED  BY <1>2, <1>9, <2>1, <2>2
<1> QED  BY <1>1, <1>2, <1>4, <1>6, <1>8, <1>9 DEF IsRest

\* One that is not takes the place of the first of the queue, which goes.
LEMMA RestMoves ==
  ASSUME NEW q, NEW u, IsRest(q, u), Once(u), q # <<>>, NEW name, name \notin ToSet(q)
  PROVE  /\ IsRest(Append(Tail(q), name), Touched(u, name))
         /\ Len(Append(Tail(q), name)) = Len(q)
         /\ name \notin ToSet(Tail(q))
         /\ ToSet(Append(Tail(q), name)) = (ToSet(q) \ {Head(q)}) \cup {name}
<1>1. PICK m, k, len : m = Len(q) /\ len = Len(u) /\ k = len - m
  OBVIOUS
<1>2. /\ m \in Nat /\ k \in Nat /\ len \in Nat /\ k + m = len
      /\ ToSet(q) = {q[i] : i \in 1..m} /\ Sequence(q) /\ Sequence(u) /\ DOMAIN q = 1..m
      /\ ToSet(u) = {u[i] : i \in 1..len}
      /\ \A i \in 1..m : q[i] = u[k + i]
  BY <1>1, SequenceIs DEF IsRest
<1>3. PICK rest, tq, tu : rest = Tail(q) /\ tq = Append(rest, name) /\ tu = Touched(u, name)
  OBVIOUS
<1>4. /\ Sequence(rest) /\ Len(rest) = m - 1 /\ m \in Nat \ {0} /\ (\A i \in 1..(m - 1) : rest[i] = q[i + 1])
      /\ Head(q) = q[1]
  BY <1>1, <1>2, <1>3, TailIs, SequenceIs
<1>5. /\ Sequence(tq) /\ Len(tq) = m /\ (\A i \in 1..(m - 1) : tq[i] = rest[i]) /\ tq[m] = name
      /\ ToSet(tq) = ToSet(rest) \cup {name}
  <2>1. /\ Sequence(tq) /\ Len(tq) = Len(rest) + 1 /\ (\A i \in 1..Len(rest) : tq[i] = rest[i]) /\ tq[Len(rest) + 1] = name
        /\ ToSet(tq) = ToSet(rest) \cup {name}
    BY <1>3, <1>4, LongerIs
  <2>2. (m - 1) + 1 = m
    BY <1>4
  <2> QED  BY <1>4, <2>1, <2>2
<1>6. \A i, j \in 1..m : q[i] = q[j] => i = j
  BY <1>2, RestOnce DEF Once
<1>7. ToSet(rest) = ToSet(q) \ {Head(q)}
  <2>1. ToSet(rest) = {rest[i] : i \in 1..(m - 1)}
    BY <1>4, SequenceIs
  <2>2. \A i \in 1..(m - 1) : i + 1 \in 1..m /\ i + 1 # 1 /\ 1 \in 1..m
    BY <1>4
  <2>3. \A i \in 1..(m - 1) : q[i + 1] \in ToSet(q) /\ q[i + 1] # q[1]
    BY <1>2, <1>6, <2>2
  <2>4. \A i \in 1..m : i = 1 \/ (i - 1 \in 1..(m - 1) /\ (i - 1) + 1 = i)
    BY <1>4
  <2>5. \A i \in 1..m : i # 1 => rest[i - 1] = q[i] /\ i - 1 \in 1..(m - 1)
    BY <1>4, <2>4
  <2>6. ToSet(rest) \subseteq ToSet(q) \ {Head(q)}
    BY <1>4, <2>1, <2>3
  <2>7. ToSet(q) \ {Head(q)} \subseteq ToSet(rest)
    <3> SUFFICES ASSUME NEW i \in 1..m, q[i] # Head(q) PROVE q[i] \in ToSet(rest)
      BY <1>2
    <3>1. i # 1
      BY <1>4
    <3> QED  BY <2>1, <2>5, <3>1
  <2> QED  BY <2>6, <2>7
<1>8. /\ Sequence(tu) /\ k + m <= Len(tu) /\ Len(tu) \in Nat
      /\ \A j \in 1..(m - 1) : tu[(Len(tu) - m) + j] = q[j + 1]
      /\ tu[Len(tu)] = name
  <2>1. CASE name \notin ToSet(u)
    <3>1. /\ Sequence(tu) /\ Len(tu) = len + 1 /\ (\A j \in 1..len : tu[j] = u[j]) /\ tu[len + 1] = name
      <4>1. tu = Append(u, name)
        BY <1>2, <1>3, <2>1, TouchedNew
      <4>2. /\ Sequence(Append(u, name)) /\ Len(Append(u, name)) = Len(u) + 1 /\ (\A j \in 1..Len(u) : Append(u, name)[j] = u[j])
            /\ Append(u, name)[Len(u) + 1] = name
        BY ONLY <1>2, LongerIs
      <4> QED  BY ONLY <1>1, <4>1, <4>2
    <3>2. \A j \in 1..(m - 1) : (Len(tu) - m) + j = k + (j + 1) /\ j + 1 \in 1..m /\ k + (j + 1) \in 1..len
      BY <1>2, <1>4, <3>1
    <3>3. \A j \in 1..(m - 1) : tu[(Len(tu) - m) + j] = u[k + (j + 1)]
      BY <3>1, <3>2
    <3>4. \A j \in 1..(m - 1) : u[k + (j + 1)] = q[j + 1]
      BY <1>2, <3>2
    <3>5. k + m <= Len(tu) /\ Len(tu) \in Nat /\ tu[Len(tu)] = name
      BY <1>2, <3>1
    <3> QED  BY <3>1, <3>3, <3>4, <3>5
  <2>2. CASE name \in ToSet(u)
    <3>1. PICK i \in 1..len : u[i] = name
      BY <1>2, <2>2
    <3>2. ~(i > k)
      <4>1. i > k => i - k \in 1..m /\ k + (i - k) = i
        BY <1>2, <3>1
      <4>2. i > k => q[i - k] = name
        BY <1>2, <3>1, <4>1
      <4> QED  BY <1>2, <4>1, <4>2
    <3>3. /\ Sequence(tu) /\ Len(tu) = len /\ tu[len] = name
          /\ \A j \in 1..(len - 1) : tu[j] = IF j < i THEN u[j] ELSE u[j + 1]
      <4>1. PICK h \in 1..Len(u) : h = i /\ name = u[h]
        BY <1>1, <3>1
      <4>2. /\ Sequence(Touched(u, u[h])) /\ Len(Touched(u, u[h])) = Len(u)
            /\ \A j \in 1..(Len(u) - 1) : Touched(u, u[h])[j] = IF j < h THEN u[j] ELSE u[j + 1]
            /\ Touched(u, u[h])[Len(u)] = u[h]
        BY ONLY Once(u), <1>2, <4>1, TouchedOld
      <4> QED  BY ONLY <1>1, <1>3, <4>1, <4>2
    <3>4. \A j \in 1..(m - 1) : /\ (Len(tu) - m) + j \in 1..(len - 1) /\ ~((Len(tu) - m) + j < i)
                                /\ ((Len(tu) - m) + j) + 1 = k + (j + 1) /\ j + 1 \in 1..m
      BY <1>2, <1>4, <3>1, <3>2, <3>3
    <3>5. \A j \in 1..(m - 1) : tu[(Len(tu) - m) + j] = u[k + (j + 1)]
      BY <3>3, <3>4
    <3>6. \A j \in 1..(m - 1) : u[k + (j + 1)] = q[j + 1]
      BY <1>2, <3>4
    <3>7. k + m <= Len(tu) /\ Len(tu) \in Nat /\ tu[Len(tu)] = name
      BY <1>2, <3>3
    <3> QED  BY <3>3, <3>5, <3>6, <3>7
  <2> QED  BY <2>1, <2>2
<1>9. ASSUME NEW j \in 1..m PROVE tq[j] = tu[(Len(tu) - m) + j]
  <2>1. CASE j = m
    BY <1>4, <1>5, <1>8, <2>1
  <2>2. CASE j < m
    <3>1. j \in 1..(m - 1)
      BY <1>4, <1>9, <2>2
    <3> QED  BY <1>4, <1>5, <1>8, <3>1
  <2> QED  BY <1>4, <1>9, <2>1, <2>2
<1>10. IsRest(tq, tu)
  <2>1. Len(tq) <= Len(tu)
    BY <1>2, <1>5, <1>8
  <2> QED  BY <1>5, <1>8, <1>9, <2>1 DEF IsRest
<1> QED  BY <1>1, <1>3, <1>5, <1>7, <1>10

-----------------------------------------------------------------------------
(* Templates: what holds of every call, every template and the caches.     *)

CallFields == {"step", "compile", "asked", "names", "places", "got", "cached", "quiet"}
TemplateFields == {"how", "spot", "name", "source", "code", "read", "mtime"}

WhenCompiling == {"unlistable", "next", "open", "stat", "read", "compile", "compiled", "vanished"}
WhenAsking == {"idle", "look", "check", "open", "stat", "read", "code", "dump", "write", "removed", "keep",
               "given", "notFound", "syntax", "vanished", "diskFull"}
Nameless == {"idle", "unlistable", "next", "compiled"}
Opened == {"stat", "read", "code", "dump", "write", "removed", "keep", "compile", "syntax"}
Coded == {"dump", "write", "removed", "keep", "check", "given"}

LoaderOf(call) == IF call.compile THEN environment.sources ELSE environment.loader
PlacesOf(call) == LooksAt(LoaderOf(call), Head(call.names))

\* A template is from one of the places of its name, and is what was read there.
From(t, places) ==
  /\ DOMAIN t = TemplateFields
  /\ \E place \in ToSet(places) : t.how = place.how /\ t.spot = place.spot /\ place.fits
  /\ t.how # "modules" => t.spot \in Spots
WasRead(t) == t.how # "modules" => t.source = Source(t.spot, t.read)
IsCompiled(t) == t.how # "modules" => t.code = t.source

\* How far a call is, and what it has.
CallInv(call) ==
  /\ DOMAIN call = CallFields /\ call.compile \in BOOLEAN /\ call.cached \in BOOLEAN /\ call.quiet \in BOOLEAN
  /\ call.step \in IF call.compile THEN WhenCompiling ELSE WhenAsking
  /\ IsRest(call.names, call.asked)
  /\ call.step \notin Nameless => call.names # <<>>
  /\ call.step = "compiled" => call.names = <<>>
  /\ call.cached => call.step \in {"check", "given"}
  /\ call.step = "check" => call.cached
  /\ call.compile /\ call.step # "unlistable" => CanList(environment.sources)
  /\ call.step = "open" => IsRest(call.places, PlacesOf(call))
HoldInv(call) ==
  /\ call.step \in Opened \cup Coded => From(call.got, PlacesOf(call))
  /\ call.step = "stat" => call.got.how = "file"
  /\ call.step = "read" => call.got.how = "package"
  /\ call.step \in (Opened \cup Coded) \ {"read"} => WasRead(call.got)
  /\ call.step \in Coded => IsCompiled(call.got)
  /\ call.step \in {"code", "dump", "write", "removed", "compile", "syntax"} => call.got.how # "modules"

MapInv == \A name \in DOMAIN mapping : /\ From(mapping[name], LooksAt(environment.loader, name))
                                       /\ WasRead(mapping[name]) /\ IsCompiled(mapping[name])
BytecodeInv == \A key \in DOMAIN bytecode : bytecode[key].code = bytecode[key].checksum

\* The first of the places that has something.
IsFirst(k, places) == k \in DOMAIN places /\ There(places[k]) /\ \A j \in 1..(k - 1) : ~There(places[j])
NoneThere(places) == \A k \in DOMAIN places : ~There(places[k])

\* What a call that nobody edited under has is what there is.
QuietInv(call) ==
  /\ ~call.compile => call.step # "vanished" /\ \A name \in Behind(call.names, call.asked) : NoneThere(LooksAt(environment.loader, name))
  /\ call.step = "notFound" => Len(call.names) = 1 /\ NoneThere(PlacesOf(call))
  /\ call.step = "open" => \A k \in 1..(Len(PlacesOf(call)) - Len(call.places)) : ~There(PlacesOf(call)[k])
  /\ call.step \in Opened \/ (call.step = "given" /\ ~call.cached) =>
       \E k \in DOMAIN PlacesOf(call) :
         /\ IsFirst(k, PlacesOf(call))
         /\ call.got.how = PlacesOf(call)[k].how /\ call.got.spot = PlacesOf(call)[k].spot
         /\ call.step # "read" /\ call.got.how # "modules" => call.got.source = SourceNow(call.got.spot)
  /\ call.step = "syntax" => call.got.source \in Broken
  /\ call.step = "given" /\ call.cached /\ ~CannotTell(call.got) =>
       store[call.got.spot] > 0 /\ call.got.source = SourceNow(call.got.spot)

\* What was compiled is in the folder, as the first of its places has it.
InFolder(name, places) ==
  \E k \in DOMAIN places : LET content == SourceNow(places[k].spot)
                           IN  /\ IsFirst(k, places)
                               /\ content \in Broken \/ (name \in DOMAIN modules /\ modules[name] = content)
CompileInv(call) ==
  call.compile /\ call.step # "unlistable" =>
    /\ ToSet(call.asked) = ListTemplates(environment.sources)
    /\ \A name \in Behind(call.names, call.asked) : InFolder(name, LooksAt(environment.sources, name))

CallerInv(call) == CallInv(call) /\ HoldInv(call) /\ (call.quiet => QuietInv(call) /\ CompileInv(call))
CallsInv == DOMAIN calls = Callers /\ \A c \in Callers : CallerInv(calls[c])

\* The names of the cache are the last of those that were asked for, all of them
\* while there is room.
CacheInv ==
  /\ Sequence(used) /\ Once(used)
  /\ environment.size > 0 =>
       /\ IsRest(queue, used) /\ DOMAIN mapping = ToSet(queue) /\ Len(queue) <= environment.size
       /\ Len(queue) < environment.size => Len(queue) = Len(used)
  /\ environment.size = 0 => DOMAIN mapping = {} /\ used = <<>>
  /\ environment.size < 0 => DOMAIN mapping = ToSet(used)

TemplatesInv ==
  /\ environment \in Environments /\ DOMAIN store = Spots
  /\ CallsInv /\ MapInv /\ BytecodeInv /\ CacheInv

LEMMA LoaderIs ==
  ASSUME TemplatesAssumption, environment \in Environments
  PROVE  /\ Sequence(environment.loader) /\ Sequence(environment.sources)
         /\ environment.size \in Int /\ environment.bytecode \in {"none", "files", "memcached"}
BY DEF TemplatesAssumption, Sequence

\* A place of a list is where one of the branches looks.
LEMMA PlacesAre ==
  ASSUME NEW loader, Sequence(loader), NEW name
  PROVE  /\ Sequence(LooksAt(loader, name)) /\ DOMAIN LooksAt(loader, name) = DOMAIN loader
         /\ Len(LooksAt(loader, name)) = Len(loader)
         /\ \A k \in DOMAIN loader : LooksAt(loader, name)[k] = PlaceOf(loader[k], name)
<1>1. PICK places : places = LooksAt(loader, name)
  OBVIOUS
<1>2. Len(loader) \in Nat /\ DOMAIN loader = 1..Len(loader)
  BY SequenceIs
<1>3. DOMAIN places = DOMAIN loader /\ \A k \in DOMAIN loader : places[k] = PlaceOf(loader[k], name)
  BY <1>1 DEF LooksAt
<1>4. places \in [1..Len(loader) -> ToSet(places)]
  BY <1>1, <1>2, <1>3 DEF LooksAt, ToSet
<1>5. places \in Seq(ToSet(places)) /\ Len(places) = Len(loader)
  <2>1. PICK len : len = Len(loader)
    OBVIOUS
  <2>2. len \in Nat /\ places \in [1..len -> ToSet(places)]
    BY <1>2, <1>4, <2>1
  <2>3. places \in Seq(ToSet(places))
    BY <2>2, SeqDef
  <2>4. Len(places) = len
    BY <2>2, <2>3, LenProperties
  <2> QED  BY <2>1, <2>3, <2>4
<1> QED  BY <1>1, <1>3, <1>5 DEF Sequence

\* What a caller has does not change with the calls of others.
LEMMA SameCall ==
  ASSUME NEW call, CallerInv(call), UNCHANGED <<environment, store, modules>>
  PROVE  CallerInv(call)'
<1>1. \A place : There(place)' <=> There(place)
  BY DEF There
<1>2. \A spot : SourceNow(spot)' = SourceNow(spot)
  BY DEF SourceNow
<1>3. LoaderOf(call)' = LoaderOf(call)
  BY DEF LoaderOf
<1>4. PlacesOf(call)' = PlacesOf(call)
  BY <1>3 DEF PlacesOf
<1>5. CallInv(call)'
  BY <1>4 DEF CallerInv, CallInv
<1>6. HoldInv(call)'
  BY <1>4 DEF CallerInv, HoldInv
<1>7. CannotTell(call.got)' <=> CannotTell(call.got)
  BY DEF CannotTell
<1>8. (\A places : NoneThere(places)' <=> NoneThere(places)) /\ \A k, places : IsFirst(k, places)' <=> IsFirst(k, places)
  BY <1>1 DEF NoneThere, IsFirst
<1>9. call.quiet => QuietInv(call)'
  BY <1>1, <1>2, <1>4, <1>7, <1>8 DEF CallerInv, QuietInv
<1>10. call.quiet => CompileInv(call)'
  <2>1. \A name, places : InFolder(name, places)' <=> InFolder(name, places)
    BY <1>2, <1>8 DEF InFolder
  <2>2. ListTemplates(environment.sources)' = ListTemplates(environment.sources)
    BY DEF ListTemplates, StemsIn
  <2> QED  BY <2>1, <2>2 DEF CallerInv, CompileInv
<1> QED  BY <1>5, <1>6, <1>9, <1>10 DEF CallerInv

LEMMA CallsMove ==
  ASSUME CallsInv, NEW c \in Callers, NEW new, CallerInv(new), Call(c, new), UNCHANGED <<environment, store, modules>>
  PROVE  CallsInv'
<1>1. DOMAIN calls' = Callers /\ calls'[c] = new /\ \A d \in Callers : d # c => calls'[d] = calls[d]
  BY DEF CallsInv, Call
<1>2. ASSUME NEW d \in Callers PROVE CallerInv(calls[d])'
  <2>1. PICK call : call = calls'[d] /\ CallerInv(call)
    BY <1>1, <1>2 DEF CallsInv
  <2>2. CallerInv(call)'
    BY ONLY <2>1, UNCHANGED <<environment, store, modules>>, SameCall
  <2> QED  BY ONLY <2>1, <2>2
<1> QED  BY <1>1, <1>2 DEF CallsInv

LEMMA CallsStay ==
  ASSUME CallsInv, UNCHANGED <<environment, store, modules, calls>>
  PROVE  CallsInv'
<1>2. ASSUME NEW d \in Callers PROVE CallerInv(calls[d])'
  <2>1. PICK call : call = calls'[d] /\ CallerInv(call)
    BY <1>2 DEF CallsInv
  <2>2. CallerInv(call)'
    BY ONLY <2>1, UNCHANGED <<environment, store, modules>>, SameCall
  <2> QED  BY ONLY <2>1, <2>2
<1> QED  BY <1>2 DEF CallsInv

\* The caches are as they were.
LEMMA CachesStay ==
  ASSUME TemplatesInv, CallsInv', UNCHANGED <<environment, store, bytecode, mapping, queue, used>>
  PROVE  TemplatesInv'
<1>1. MapInv'
  BY DEF TemplatesInv, MapInv
<1>2. BytecodeInv'
  BY DEF TemplatesInv, BytecodeInv
<1>3. CacheInv'
  BY DEF TemplatesInv, CacheInv
<1> QED  BY <1>1, <1>2, <1>3 DEF TemplatesInv

\* The fields of a call, and what the names of its steps are.
LEMMA NewCalls ==
  /\ DOMAIN NoCall = CallFields /\ NoCall.compile = FALSE /\ NoCall.cached = FALSE /\ NoCall.quiet = TRUE
  /\ NoCall.names = <<>> /\ NoCall.asked = <<>> /\ NoCall.step = "idle"
BY DEF NoCall, CallFields

LEMMA EmptyIs == Sequence(<<>>) /\ IsRest(<<>>, <<>>) /\ Len(<<>>) = 0 /\ Once(<<>>) /\ ToSet(<<>>) = {} /\ DOMAIN <<>> = {}
<1>1. Sequence(<<>>) /\ Len(<<>>) = 0
  BY EmptySeq DEF Sequence
<1> QED  BY <1>1, RestBegins DEF Once, ToSet

LEMMA IdleInv == CallerInv(NoCall)
<1>1. Behind(NoCall.names, NoCall.asked) = {}
  BY NewCalls, EmptyIs, BehindIs
<1>2. CallInv(NoCall)
  BY NewCalls, EmptyIs DEF CallInv, WhenAsking, Nameless
<1>3. HoldInv(NoCall)
  BY NewCalls DEF HoldInv, Opened, Coded
<1>4. QuietInv(NoCall) /\ CompileInv(NoCall)
  BY <1>1, NewCalls DEF QuietInv, CompileInv, Opened
<1> QED  BY <1>2, <1>3, <1>4 DEF CallerInv

LEMMA AskStep ==
  ASSUME TemplatesAssumption, TemplatesInv, NEW c \in Callers, Ask(c)
  PROVE  TemplatesInv'
<1>1. PICK names, new : /\ names \in Requests
                         /\ new = [NoCall EXCEPT !.step = "look", !.asked = names, !.names = names]
                                     /\ Call(c, new)
  BY DEF Ask
<1>2. Sequence(names) /\ names # <<>>
  BY <1>1 DEF TemplatesAssumption, Sequence
<1>3. /\ DOMAIN new = CallFields /\ new.step = "look" /\ new.names = names /\ new.asked = names
      /\ new.compile = FALSE /\ new.cached = FALSE /\ new.quiet = TRUE
  BY <1>1, NewCalls DEF CallFields
<1>4. IsRest(names, names) /\ Behind(names, names) = {}
  BY <1>2, RestBegins, BehindIs
<1>5. CallInv(new)
  BY <1>2, <1>3, <1>4 DEF CallInv, WhenAsking, Nameless
<1>6. HoldInv(new)
  BY <1>3 DEF HoldInv, Opened, Coded
<1>7. QuietInv(new) /\ CompileInv(new)
  BY <1>3, <1>4 DEF QuietInv, CompileInv, Opened
<1>8. CallsInv'
  BY <1>1, <1>5, <1>6, <1>7, CallsMove DEF CallerInv, Ask, TemplatesInv
<1> QED  BY <1>8, CachesStay DEF Ask

\* A call that goes on has the names it had.
GoesOn(call, new) ==
  /\ DOMAIN new = CallFields /\ new.compile = call.compile /\ new.quiet = call.quiet
  /\ new.asked = call.asked /\ new.names = call.names

LEMMA GoesOnIs ==
  ASSUME NEW call, NEW new, CallerInv(call), GoesOn(call, new)
  PROVE  /\ LoaderOf(new) = LoaderOf(call) /\ PlacesOf(new) = PlacesOf(call)
         /\ IsRest(new.names, new.asked) /\ Behind(new.names, new.asked) = Behind(call.names, call.asked)
         /\ new.compile \in BOOLEAN /\ new.quiet \in BOOLEAN /\ DOMAIN call = CallFields
         /\ call.compile => call.step \in WhenCompiling
         /\ ~call.compile => call.step \in WhenAsking
         /\ call.step \notin Nameless => new.names # <<>>
         /\ new.compile /\ call.step # "unlistable" => CanList(environment.sources)
         /\ new.compile /\ new.quiet /\ call.step # "unlistable" => CompileInv(new)
         /\ ~new.compile => CompileInv(new)
         /\ ~new.compile /\ new.quiet => \A name \in Behind(new.names, new.asked) : NoneThere(LooksAt(environment.loader, name))
<1>1. LoaderOf(new) = LoaderOf(call) /\ PlacesOf(new) = PlacesOf(call)
  BY DEF GoesOn, LoaderOf, PlacesOf
<1> QED  BY <1>1 DEF GoesOn, CallerInv, CallInv, CompileInv, QuietInv

\* Once a call begins to look, it has all places of its name before it.
LEMMA OpensAll ==
  ASSUME TemplatesAssumption, environment \in Environments, NEW call, NEW new, CallerInv(call), GoesOn(call, new),
         call.step \notin Nameless \/ (call.step = "next" /\ call.names # <<>>),
         new.step = "open", new.places = PlacesOf(call), new.cached = FALSE
  PROVE  CallerInv(new)
<1>1. PlacesOf(new) = new.places /\ Sequence(new.places)
  BY GoesOnIs, LoaderIs, PlacesAre DEF PlacesOf, LoaderOf
<1>2. IsRest(new.places, PlacesOf(new)) /\ Len(new.places) \in Nat
  BY <1>1, RestBegins, SequenceIs
<1>3. CallInv(new)
  <2>1. /\ new.names # <<>> /\ IsRest(new.names, new.asked) /\ DOMAIN new = CallFields /\ new.quiet \in BOOLEAN
        /\ new.compile \in BOOLEAN
    BY GoesOnIs DEF GoesOn
  <2>2. new.compile => CanList(environment.sources)
    BY GoesOnIs DEF Nameless, GoesOn
  <2> QED  BY <1>2, <2>1, <2>2 DEF CallInv, WhenAsking, WhenCompiling
<1>4. HoldInv(new)
  BY DEF HoldInv, Opened, Coded
<1>5. new.quiet => QuietInv(new) /\ CompileInv(new)
  <2>1. \A k : ~(k \in 1..(Len(PlacesOf(new)) - Len(new.places)))
    BY <1>1, <1>2
  <2>2. new.step \notin Opened /\ new.step # "given" /\ new.step # "vanished"
    BY DEF Opened
  <2>3. new.quiet => CompileInv(new)
    BY GoesOnIs DEF Nameless, GoesOn
  <2>4. new.quiet /\ ~new.compile => \A name \in Behind(new.names, new.asked) : NoneThere(LooksAt(environment.loader, name))
    BY GoesOnIs
  <2> QED  BY <2>1, <2>2, <2>3, <2>4 DEF QuietInv
<1> QED  BY <1>3, <1>4, <1>5 DEF CallerInv

\* What a call finds in the cache was from one of the places of its name.
LEMMA Hits ==
  ASSUME TemplatesInv, NEW c \in Callers, At(c, "look"), Name(c) \in DOMAIN mapping,
         NEW new, new = [calls[c] EXCEPT !.step = "check", !.got = mapping[Name(c)], !.cached = TRUE]
  PROVE  CallerInv(new)
<1>1. PICK call, t : /\ call = calls[c] /\ CallerInv(call) /\ call.step = "look" /\ t = mapping[Name(c)]
                     /\ new = [call EXCEPT !.step = "check", !.got = t, !.cached = TRUE]
  BY DEF TemplatesInv, CallsInv, At
<1>2. GoesOn(call, new) /\ new.step = "check" /\ new.got = t /\ new.cached = TRUE /\ new.compile = FALSE
  BY <1>1 DEF CallerInv, CallInv, CallFields, GoesOn, WhenCompiling
<1>3. PlacesOf(new) = LooksAt(environment.loader, Name(c))
  BY <1>1, <1>2 DEF PlacesOf, LoaderOf, GoesOn, Name
<1>4. From(t, PlacesOf(new)) /\ WasRead(t) /\ IsCompiled(t)
  BY <1>1, <1>3 DEF TemplatesInv, MapInv
<1>5. CallInv(new)
  <2>1. /\ new.names # <<>> /\ IsRest(new.names, new.asked) /\ DOMAIN new = CallFields /\ new.quiet \in BOOLEAN
        /\ new.compile \in BOOLEAN
    BY <1>1, <1>2, GoesOnIs DEF GoesOn, Nameless
  <2> QED  BY <1>2, <2>1 DEF CallInv, WhenAsking
<1>6. HoldInv(new)
  BY <1>2, <1>4 DEF HoldInv, Opened, Coded
<1>7. new.quiet => QuietInv(new) /\ CompileInv(new)
  <2>1. new.step \notin Opened /\ new.step # "given" /\ new.step # "vanished"
    BY <1>2 DEF Opened
  <2>2. CompileInv(new)
    BY <1>2 DEF CompileInv
  <2>4. new.quiet => \A name \in Behind(new.names, new.asked) : NoneThere(LooksAt(environment.loader, name))
    BY <1>1, <1>2, GoesOnIs
  <2> QED  BY <1>2, <2>1, <2>2, <2>4 DEF QuietInv
<1> QED  BY <1>5, <1>6, <1>7 DEF CallerInv

LEMMA LookUpCalls ==
  ASSUME TemplatesAssumption, TemplatesInv, NEW c \in Callers, LookUp(c)
  PROVE  CallsInv'
<1>1. PICK call : call = calls[c] /\ CallerInv(call) /\ call.step = "look"
  BY DEF LookUp, TemplatesInv, CallsInv, At
<1>2. CASE Name(c) \in DOMAIN mapping
  <2>1. PICK new : Call(c, new) /\ new = [calls[c] EXCEPT !.step = "check", !.got = mapping[Name(c)], !.cached = TRUE]
    BY <1>2 DEF LookUp
  <2>2. CallerInv(new)
    BY <1>2, <2>1, Hits DEF LookUp
  <2> QED  BY <2>1, <2>2, CallsMove DEF LookUp, TemplatesInv
<1>3. CASE Name(c) \notin DOMAIN mapping
  <2>1. PICK new : Call(c, new) /\ new = [call EXCEPT !.step = "open", !.places = LooksAt(Loader(c), Name(c))]
    BY <1>1, <1>3 DEF LookUp
  <2>2. LooksAt(Loader(c), Name(c)) = PlacesOf(call)
    BY <1>1 DEF Loader, Name, PlacesOf, LoaderOf
  <2>3. GoesOn(call, new) /\ new.step = "open" /\ new.places = PlacesOf(call) /\ new.cached = FALSE
    BY <1>1, <2>1, <2>2 DEF CallerInv, CallInv, CallFields, GoesOn
  <2>4. CallerInv(new)
    BY <1>1, <2>3, OpensAll DEF TemplatesInv, Nameless
  <2> QED  BY <2>1, <2>4, CallsMove DEF LookUp, TemplatesInv
<1> QED  BY <1>2, <1>3

LEMMA NextNameStep ==
  ASSUME TemplatesAssumption, TemplatesInv, NEW c \in Callers, NextName(c)
  PROVE  TemplatesInv'
<1>1. PICK call : call = calls[c] /\ CallerInv(call) /\ call.step = "next"
  BY DEF NextName, TemplatesInv, CallsInv, At
<1>2. CASE call.names = <<>>
  <2>1. PICK new : Call(c, new) /\ new = [call EXCEPT !.step = "compiled"]
    BY <1>1, <1>2 DEF NextName
  <2>2. GoesOn(call, new) /\ new.step = "compiled" /\ new.cached = FALSE /\ new.compile = TRUE
    BY <1>1, <2>1 DEF CallerInv, CallInv, CallFields, GoesOn, WhenAsking
  <2>3. /\ new.names = <<>> /\ IsRest(new.names, new.asked) /\ DOMAIN new = CallFields /\ new.quiet \in BOOLEAN
        /\ CanList(environment.sources) /\ (new.quiet => CompileInv(new))
    BY <1>1, <1>2, <2>2, GoesOnIs DEF GoesOn
  <2>4. CallInv(new)
    BY <2>2, <2>3 DEF CallInv, WhenCompiling, Nameless
  <2>5. HoldInv(new)
    BY <2>2 DEF HoldInv, Opened, Coded
  <2>6. QuietInv(new)
    BY <2>2 DEF QuietInv, Opened
  <2>7. CallerInv(new)
    BY <2>3, <2>4, <2>5, <2>6 DEF CallerInv
  <2>8. CallsInv'
    BY <2>1, <2>7, CallsMove DEF NextName, TemplatesInv
  <2> QED  BY <2>8, CachesStay DEF NextName
<1>3. CASE call.names # <<>>
  <2>1. PICK new : Call(c, new) /\ new = [call EXCEPT !.step = "open", !.places = LooksAt(Loader(c), Name(c))]
    BY <1>1, <1>3 DEF NextName
  <2>2. LooksAt(Loader(c), Name(c)) = PlacesOf(call)
    BY <1>1 DEF Loader, Name, PlacesOf, LoaderOf
  <2>3. GoesOn(call, new) /\ new.step = "open" /\ new.places = PlacesOf(call) /\ new.cached = FALSE
    BY <1>1, <2>1, <2>2 DEF CallerInv, CallInv, CallFields, GoesOn
  <2>4. CallerInv(new)
    BY <1>1, <1>3, <2>3, OpensAll DEF TemplatesInv, Nameless
  <2>5. CallsInv'
    BY <2>1, <2>4, CallsMove DEF NextName, TemplatesInv
  <2> QED  BY <2>5, CachesStay DEF NextName
<1> QED  BY <1>2, <1>3

\* A template that the cache has and that tells is as it is now.
LEMMA CheckStep ==
  ASSUME TemplatesAssumption, TemplatesInv, NEW c \in Callers, Check(c)
  PROVE  TemplatesInv'
<1>1. PICK call : call = calls[c] /\ CallerInv(call) /\ call.step = "check"
  BY DEF Check, TemplatesInv, CallsInv, At
<1>2. CASE environment.autoReload => UpToDate(call.got)
  <2>1. PICK new : Call(c, new) /\ new = [call EXCEPT !.step = "given"]
    BY <1>1, <1>2 DEF Check
  <2>2. GoesOn(call, new) /\ new.step = "given" /\ new.cached = TRUE /\ new.compile = FALSE /\ new.got = call.got
    BY <1>1, <2>1 DEF CallerInv, CallInv, CallFields, GoesOn, WhenCompiling
  <2>3. /\ new.names # <<>> /\ IsRest(new.names, new.asked) /\ DOMAIN new = CallFields /\ new.quiet \in BOOLEAN
        /\ PlacesOf(new) = PlacesOf(call)
        /\ new.quiet => \A name \in Behind(new.names, new.asked) : NoneThere(LooksAt(environment.loader, name))
    BY <1>1, <2>2, GoesOnIs DEF GoesOn, Nameless
  <2>4. CallInv(new)
    BY <2>2, <2>3 DEF CallInv, WhenAsking
  <2>5. From(call.got, PlacesOf(call)) /\ WasRead(call.got) /\ IsCompiled(call.got)
    BY <1>1 DEF CallerInv, HoldInv, Coded
  <2>6. HoldInv(new)
    BY <2>2, <2>3, <2>5 DEF HoldInv, Opened, Coded
  <2>7. ~CannotTell(call.got) => store[call.got.spot] > 0 /\ call.got.source = SourceNow(call.got.spot)
    BY <1>2, <2>5 DEF CannotTell, UpToDate, WasRead, SourceNow, Telling
  <2>8. new.quiet => QuietInv(new) /\ CompileInv(new)
    <3>1. new.step \notin Opened
      BY <2>2 DEF Opened
    <3> QED  BY <2>2, <2>3, <2>7, <3>1 DEF QuietInv, CompileInv
  <2>9. CallsInv'
    BY <2>1, <2>4, <2>6, <2>8, CallsMove DEF CallerInv, Check, TemplatesInv
  <2> QED  BY <2>9, CachesStay DEF Check
<1>3. CASE ~(environment.autoReload => UpToDate(call.got))
  <2>1. PICK new : /\ Call(c, new)
                   /\ new = [call EXCEPT !.step = "open", !.cached = FALSE, !.places = LooksAt(Loader(c), Name(c))]
    BY <1>1, <1>3 DEF Check
  <2>2. LooksAt(Loader(c), Name(c)) = PlacesOf(call)
    BY <1>1 DEF Loader, Name, PlacesOf, LoaderOf
  <2>3. GoesOn(call, new) /\ new.step = "open" /\ new.places = PlacesOf(call) /\ new.cached = FALSE
    BY <1>1, <2>1, <2>2 DEF CallerInv, CallInv, CallFields, GoesOn
  <2>4. CallerInv(new)
    BY <1>1, <2>3, OpensAll DEF TemplatesInv, Nameless
  <2>5. CallsInv'
    BY <2>1, <2>4, CallsMove DEF Check, TemplatesInv
  <2> QED  BY <2>5, CachesStay DEF Check
<1> QED  BY <1>2, <1>3

\* A call that fails has nothing, and if nobody edited it is the compiler's.
LEMMA Fails ==
  ASSUME NEW call, NEW new, CallerInv(call), GoesOn(call, new), call.step \notin Nameless, new.cached = FALSE,
         \/ new.step = "vanished" /\ (call.compile \/ ~call.quiet)
         \/ new.step = "diskFull" /\ ~call.compile
  PROVE  CallerInv(new)
<1>1. /\ new.names # <<>> /\ IsRest(new.names, new.asked) /\ DOMAIN new = CallFields /\ new.quiet \in BOOLEAN
      /\ new.compile \in BOOLEAN /\ new.compile = call.compile /\ new.quiet = call.quiet
      /\ new.compile => CanList(environment.sources)
      /\ new.quiet => CompileInv(new)
      /\ new.quiet /\ ~new.compile => \A name \in Behind(new.names, new.asked) : NoneThere(LooksAt(environment.loader, name))
  BY GoesOnIs DEF GoesOn, Nameless
<1>2. new.step \notin Opened /\ new.step \notin Coded /\ new.step \in {"vanished", "diskFull"}
  BY DEF Opened, Coded
<1>3. CallInv(new)
  BY <1>1, <1>2 DEF CallInv, WhenAsking, WhenCompiling
<1>4. HoldInv(new)
  BY <1>2 DEF HoldInv, Opened
<1>5. new.quiet => QuietInv(new)
  BY <1>1, <1>2 DEF QuietInv
<1> QED  BY <1>1, <1>3, <1>4, <1>5 DEF CallerInv

LEMMA PassOverStep ==
  ASSUME TemplatesAssumption, TemplatesInv, NEW c \in Callers, PassOver(c)
  PROVE  TemplatesInv'
<1>1. PICK call : call = calls[c] /\ CallerInv(call) /\ call.step = "open" /\ call.places = <<>>
  BY DEF PassOver, TemplatesInv, CallsInv, At
<1>2. call.names # <<>> /\ call.cached = FALSE /\ Sequence(call.names) /\ DOMAIN call = CallFields
  BY <1>1 DEF CallerInv, CallInv, Nameless, IsRest
<1>3. call.quiet => NoneThere(PlacesOf(call))
  <2>1. Len(call.places) = 0 /\ Sequence(PlacesOf(call))
    BY <1>1, EmptyIs DEF CallerInv, CallInv, IsRest
  <2>2. DOMAIN PlacesOf(call) = 1..(Len(PlacesOf(call)) - Len(call.places))
    BY <2>1, SequenceIs
  <2> QED  BY <1>1, <2>2 DEF CallerInv, QuietInv, NoneThere
<1>4. CASE call.compile
  <2>1. PICK new : Call(c, new) /\ new = [call EXCEPT !.step = "vanished"]
    BY <1>1, <1>4 DEF PassOver
  <2>2. GoesOn(call, new) /\ new.step = "vanished" /\ new.cached = FALSE
    BY <1>2, <2>1 DEF CallFields, GoesOn
  <2>3. CallerInv(new)
    BY <1>1, <1>4, <2>2, Fails DEF Nameless
  <2>4. CallsInv'
    BY <2>1, <2>3, CallsMove DEF PassOver, TemplatesInv
  <2> QED  BY <2>4, CachesStay DEF PassOver
<1>5. CASE ~call.compile /\ Len(call.names) = 1
  <2>1. PICK new : Call(c, new) /\ new = [call EXCEPT !.step = "notFound"]
    BY <1>1, <1>5 DEF PassOver
  <2>2. GoesOn(call, new) /\ new.step = "notFound" /\ new.cached = FALSE
    BY <1>2, <2>1 DEF CallFields, GoesOn
  <2>3. /\ IsRest(new.names, new.asked) /\ DOMAIN new = CallFields /\ new.quiet \in BOOLEAN /\ PlacesOf(new) = PlacesOf(call)
        /\ new.compile \in BOOLEAN /\ ~new.compile /\ new.names = call.names /\ new.quiet = call.quiet
        /\ new.quiet => \A name \in Behind(new.names, new.asked) : NoneThere(LooksAt(environment.loader, name))
    BY <1>1, <1>5, <2>2, GoesOnIs DEF GoesOn
  <2>4. CallInv(new)
    BY <1>2, <2>2, <2>3 DEF CallInv, WhenAsking
  <2>5. HoldInv(new)
    BY <2>2 DEF HoldInv, Opened, Coded
  <2>6. new.quiet => QuietInv(new) /\ CompileInv(new)
    <3>1. new.step \notin Opened
      BY <2>2 DEF Opened
    <3> QED  BY <1>3, <1>5, <2>2, <2>3, <3>1 DEF QuietInv, CompileInv
  <2>7. CallsInv'
    BY <2>1, <2>4, <2>5, <2>6, CallsMove DEF CallerInv, PassOver, TemplatesInv
  <2> QED  BY <2>7, CachesStay DEF PassOver
<1>6. CASE ~call.compile /\ Len(call.names) # 1
  <2>1. PICK new : Call(c, new) /\ new = [call EXCEPT !.step = "look", !.names = Tail(call.names)]
    BY <1>1, <1>6 DEF PassOver
  <2>2. /\ DOMAIN new = CallFields /\ new.step = "look" /\ new.cached = FALSE /\ new.compile = FALSE
        /\ new.names = Tail(call.names) /\ new.asked = call.asked /\ new.quiet = call.quiet /\ call.quiet \in BOOLEAN
    BY <1>1, <1>2, <1>6, <2>1 DEF CallFields, CallerInv, CallInv
  <2>3. IsRest(call.names, call.asked)
    BY <1>1 DEF CallerInv, CallInv
  <2>4. IsRest(new.names, new.asked) /\ new.names # <<>>
    <3>1. IsRest(Tail(call.names), call.asked) /\ Len(Tail(call.names)) = Len(call.names) - 1 /\ Len(call.names) \in Nat \ {0}
      BY <1>2, <2>3, RestGoesOn
    <3>2. Len(Tail(call.names)) # 0
      BY <1>6, <3>1
    <3> QED  BY <2>2, <3>1, <3>2, EmptyIs
  <2>5. CallInv(new)
    BY <2>2, <2>4 DEF CallInv, WhenAsking
  <2>6. HoldInv(new)
    BY <2>2 DEF HoldInv, Opened, Coded
  <2>7. new.quiet => QuietInv(new) /\ CompileInv(new)
    <3>1. new.step \notin Opened
      BY <2>2 DEF Opened
    <3>2. Behind(new.names, new.asked) = Behind(call.names, call.asked) \cup {Head(call.names)}
      BY <1>2, <2>2, <2>3, BehindIs
    <3>3. PlacesOf(call) = LooksAt(environment.loader, Head(call.names))
      BY <1>6 DEF PlacesOf, LoaderOf
    <3>4. new.quiet => \A name \in Behind(call.names, call.asked) : NoneThere(LooksAt(environment.loader, name))
      BY <1>1, <1>6, <2>2 DEF CallerInv, QuietInv
    <3> QED  BY <1>3, <2>2, <3>1, <3>2, <3>3, <3>4 DEF QuietInv, CompileInv
  <2>8. CallsInv'
    BY <2>1, <2>5, <2>6, <2>7, CallsMove DEF CallerInv, PassOver, TemplatesInv
  <2> QED  BY <2>8, CachesStay DEF PassOver
<1> QED  BY <1>4, <1>5, <1>6

\* What a call has of a template goes on to be what was read, from where it was found.
LEMMA HoldsOn ==
  ASSUME NEW call, NEW new, CallerInv(call), GoesOn(call, new), call.step \in Opened, call.step # "syntax",
         new.cached = FALSE, DOMAIN new.got = TemplateFields, new.got.how = call.got.how, new.got.spot = call.got.spot,
         new.step \in {"code", "compile", "dump", "write", "removed", "keep", "given", "syntax"},
         new.step = "compile" <=> call.compile,
         new.step \in {"keep", "given"} \/ call.got.how # "modules",
         WasRead(new.got), new.step \in Coded => IsCompiled(new.got),
         call.quiet /\ call.got.how # "modules" => new.got.source = SourceNow(call.got.spot),
         new.step = "syntax" => new.got.source \in Broken
  PROVE  CallerInv(new)
<1>1. /\ new.names # <<>> /\ IsRest(new.names, new.asked) /\ DOMAIN new = CallFields /\ new.quiet \in BOOLEAN
      /\ new.compile \in BOOLEAN /\ new.compile = call.compile /\ new.quiet = call.quiet /\ PlacesOf(new) = PlacesOf(call)
      /\ new.compile => CanList(environment.sources)
      /\ new.quiet => CompileInv(new)
      /\ new.quiet /\ ~new.compile => \A name \in Behind(new.names, new.asked) : NoneThere(LooksAt(environment.loader, name))
  BY GoesOnIs DEF GoesOn, Nameless, Opened
<1>2. new.step \in Opened \cup {"given"} /\ new.step \notin {"stat", "read", "vanished", "open", "notFound", "check", "compiled"}
  BY DEF Opened
<1>3. CallInv(new)
  BY <1>1, <1>2 DEF CallInv, WhenAsking, WhenCompiling
<1>4. From(new.got, PlacesOf(new))
  BY <1>1 DEF CallerInv, HoldInv, From
<1>5. HoldInv(new)
  BY <1>2, <1>4 DEF HoldInv, Opened
<1>6. new.quiet => QuietInv(new)
  <2>1. ASSUME new.quiet
        PROVE  \E k \in DOMAIN PlacesOf(new) :
                 /\ IsFirst(k, PlacesOf(new))
                 /\ new.got.how = PlacesOf(new)[k].how /\ new.got.spot = PlacesOf(new)[k].spot
                 /\ new.step # "read" /\ new.got.how # "modules" => new.got.source = SourceNow(new.got.spot)
    <3>1. PICK k \in DOMAIN PlacesOf(call) :
            IsFirst(k, PlacesOf(call)) /\ call.got.how = PlacesOf(call)[k].how /\ call.got.spot = PlacesOf(call)[k].spot
      BY <1>1, <2>1 DEF CallerInv, QuietInv
    <3> QED  BY <1>1, <2>1, <3>1
  <2> QED  BY <1>1, <1>2, <2>1 DEF QuietInv
<1> QED  BY <1>1, <1>3, <1>5, <1>6 DEF CallerInv

LEMMA ReadOnStep ==
  ASSUME TemplatesAssumption, TemplatesInv, NEW c \in Callers, ReadOn(c)
  PROVE  TemplatesInv'
<1>1. PICK call, t : call = calls[c] /\ CallerInv(call) /\ call.step \in {"stat", "read"} /\ t = call.got
  BY DEF ReadOn, TemplatesInv, CallsInv
<1>2. /\ call.cached = FALSE /\ DOMAIN call = CallFields /\ call.step \in Opened /\ call.step \notin Nameless
      /\ From(t, PlacesOf(call)) /\ DOMAIN t = TemplateFields /\ t.how # "modules"
      /\ call.step = "stat" => WasRead(t)
  BY <1>1 DEF CallerInv, CallInv, HoldInv, Opened, Nameless, From
<1>3. CASE store[t.spot] = 0
  <2>1. PICK new : Call(c, new) /\ new = [call EXCEPT !.step = "vanished"]
    BY <1>1, <1>3 DEF ReadOn
  <2>2. GoesOn(call, new) /\ new.step = "vanished" /\ new.cached = FALSE
    BY <1>2, <2>1 DEF CallFields, GoesOn
  <2>3. ~call.quiet
    <3>1. call.quiet => \E k \in DOMAIN PlacesOf(call) :
                         IsFirst(k, PlacesOf(call)) /\ t.how = PlacesOf(call)[k].how /\ t.spot = PlacesOf(call)[k].spot
      BY <1>1, <1>2 DEF CallerInv, QuietInv
    <3>2. call.quiet => store[t.spot] > 0
      BY <1>2, <3>1 DEF IsFirst, There
    <3> QED  BY <1>3, <3>2
  <2>4. CallerInv(new)
    BY <1>1, <1>2, <2>2, <2>3, Fails
  <2>5. CallsInv'
    BY <2>1, <2>4, CallsMove DEF ReadOn, TemplatesInv
  <2> QED  BY <2>5, CachesStay DEF ReadOn
<1>4. CASE store[t.spot] # 0
  <2>1. PICK new, after : /\ Call(c, new) /\ after = AfterSource(c)
                   /\ new = [call EXCEPT !.step = after,
                       !.got = IF At(c, "stat") THEN [t EXCEPT !.mtime = store[t.spot]]
                               ELSE [t EXCEPT !.read = store[t.spot], !.source = SourceNow(t.spot)]]
    BY <1>1, <1>4 DEF ReadOn
  <2>2. after = (IF call.compile THEN "compile" ELSE "code")
    BY <1>1, <2>1 DEF AfterSource
  <2>3. GoesOn(call, new) /\ new.step = after /\ new.cached = FALSE
    BY <1>2, <2>1 DEF CallFields, GoesOn
  <2>4. /\ DOMAIN new.got = TemplateFields /\ new.got.how = t.how /\ new.got.spot = t.spot /\ WasRead(new.got)
        /\ call.quiet => new.got.source = SourceNow(t.spot)
    <3>1. CASE call.step = "stat"
      <4>1. new.got = [t EXCEPT !.mtime = store[t.spot]]
        BY <1>1, <1>2, <2>1, <3>1 DEF At, CallFields
      <4>2. /\ DOMAIN new.got = TemplateFields /\ new.got.how = t.how /\ new.got.spot = t.spot
            /\ new.got.source = t.source /\ new.got.read = t.read
        BY <1>2, <4>1 DEF TemplateFields
      <4>3. call.quiet => t.source = SourceNow(t.spot)
        BY <1>1, <1>2, <3>1 DEF CallerInv, QuietInv
      <4> QED  BY <1>2, <3>1, <4>2, <4>3 DEF WasRead
    <3>2. CASE call.step = "read"
      <4>1. new.got = [t EXCEPT !.read = store[t.spot], !.source = SourceNow(t.spot)]
        BY <1>1, <1>2, <2>1, <3>2 DEF At, CallFields
      <4>2. /\ DOMAIN new.got = TemplateFields /\ new.got.how = t.how /\ new.got.spot = t.spot
            /\ new.got.source = SourceNow(t.spot) /\ new.got.read = store[t.spot]
        BY <1>2, <4>1 DEF TemplateFields
      <4> QED  BY <4>2 DEF WasRead, SourceNow
    <3> QED  BY <1>1, <3>1, <3>2
  <2>5. CallerInv(new)
    BY <1>1, <1>2, <2>2, <2>3, <2>4, HoldsOn DEF Coded
  <2>6. CallsInv'
    BY <2>1, <2>5, CallsMove DEF ReadOn, TemplatesInv
  <2> QED  BY <2>6, CachesStay DEF ReadOn
<1> QED  BY <1>3, <1>4

LEMMA OpenStep ==
  ASSUME TemplatesAssumption, TemplatesInv, NEW c \in Callers, Open(c)
  PROVE  TemplatesInv'
<1>1. PICK call, place, version, blank :
        /\ call = calls[c] /\ CallerInv(call) /\ call.step = "open" /\ call.places # <<>>
        /\ place = Head(call.places) /\ version = store[place.spot]
        /\ blank = [how |-> place.how, spot |-> place.spot, name |-> place.name,
                    source |-> "", code |-> "", read |-> 0, mtime |-> 0]
  BY DEF Open, TemplatesInv, CallsInv, At
<1>0. PICK looks, k : looks = PlacesOf(call) /\ k = Len(looks) - Len(call.places) + 1
  OBVIOUS
<1>2. /\ call.cached = FALSE /\ DOMAIN call = CallFields /\ call.names # <<>> /\ IsRest(call.places, looks)
      /\ call.quiet => \A j \in 1..(k - 1) : ~There(looks[j])
  <2>1. call.cached = FALSE /\ DOMAIN call = CallFields /\ call.names # <<>> /\ IsRest(call.places, looks)
    BY <1>0, <1>1 DEF CallerInv, CallInv, Nameless
  <2>2. Len(looks) \in Nat /\ Len(call.places) \in Nat
    BY <2>1, SequenceIs DEF IsRest
  <2>3. k - 1 = Len(looks) - Len(call.places)
    BY <1>0, <2>2
  <2> QED  BY <1>0, <1>1, <2>1, <2>3 DEF CallerInv, QuietInv
<1>3. /\ IsRest(Tail(call.places), looks) /\ Len(Tail(call.places)) = Len(call.places) - 1
      /\ k \in 1..Len(looks) /\ Len(looks) - Len(Tail(call.places)) = k /\ DOMAIN looks = 1..Len(looks)
      /\ place = looks[k] /\ place \in ToSet(looks)
  <2>1. /\ IsRest(Tail(call.places), looks) /\ Len(Tail(call.places)) = Len(call.places) - 1
        /\ Len(call.places) \in Nat \ {0} /\ Len(looks) \in Nat /\ Len(call.places) <= Len(looks) /\ place = looks[k]
    BY <1>0, <1>1, <1>2, RestGoesOn
  <2>2. DOMAIN looks = 1..Len(looks) /\ ToSet(looks) = {looks[i] : i \in 1..Len(looks)}
    BY <1>2, SequenceIs DEF IsRest
  <2>3. k \in 1..Len(looks) /\ Len(looks) - Len(Tail(call.places)) = k
    <3>1. PICK m, n, l : m = Len(looks) /\ n = Len(call.places) /\ l = Len(Tail(call.places))
      OBVIOUS
    <3>2. k = m - n + 1 /\ l = n - 1 /\ n \in Nat \ {0} /\ m \in Nat /\ n <= m
      BY ONLY <1>0, <2>1, <3>1
    <3>3. k \in 1..m /\ m - l = k
      BY ONLY <3>2
    <3> QED  BY ONLY <3>1, <3>3
  <2> QED  BY <2>1, <2>2, <2>3
<1>4. CASE ~There(place)
  <2>1. PICK new : Call(c, new) /\ new = [call EXCEPT !.places = Tail(call.places)]
    BY <1>1, <1>4 DEF Open
  <2>2. GoesOn(call, new) /\ new.step = "open" /\ new.cached = FALSE /\ new.places = Tail(call.places)
    BY <1>1, <1>2, <2>1 DEF CallFields, GoesOn
  <2>3. /\ new.names # <<>> /\ IsRest(new.names, new.asked) /\ DOMAIN new = CallFields /\ new.quiet \in BOOLEAN
        /\ new.compile \in BOOLEAN /\ new.compile = call.compile /\ new.quiet = call.quiet /\ PlacesOf(new) = looks
        /\ new.compile => CanList(environment.sources)
        /\ new.quiet => CompileInv(new)
        /\ new.quiet /\ ~new.compile => \A name \in Behind(new.names, new.asked) : NoneThere(LooksAt(environment.loader, name))
    <3>1. CallerInv(call) /\ GoesOn(call, new) /\ call.step \notin Nameless /\ call.step # "unlistable"
      BY <1>1, <2>2 DEF Nameless
    <3> QED  BY ONLY <1>0, <3>1, GoesOnIs DEF GoesOn
  <2>4. CallInv(new)
    BY <1>3, <2>2, <2>3 DEF CallInv, WhenAsking, WhenCompiling
  <2>5. HoldInv(new)
    BY <2>2 DEF HoldInv, Opened, Coded
  <2>6. new.quiet => QuietInv(new)
    <3>1. new.step \notin Opened
      BY <2>2 DEF Opened
    <3>2. call.quiet => \A j \in 1..k : ~There(looks[j])
      <4>1. \A j \in 1..k : j \in 1..(k - 1) \/ j = k
        <5>1. k \in 1..Len(looks)
          BY ONLY <1>3
        <5>2. k \in Int
          BY ONLY <5>1
        <5> QED  BY ONLY <5>2
      <4> QED  BY <1>2, <1>3, <1>4, <4>1
    <3> QED  BY <1>3, <2>2, <2>3, <3>1, <3>2 DEF QuietInv
  <2>7. CallsInv'
    BY <2>1, <2>3, <2>4, <2>5, <2>6, CallsMove DEF CallerInv, Open, TemplatesInv
  <2> QED  BY <2>7, CachesStay DEF Open
<1>5. CASE There(place)
  <2>1. PICK new : /\ Call(c, new)
                   /\ CASE place.how = "modules" ->
                             new = [call EXCEPT !.step = "keep", !.got = [blank EXCEPT !.code = modules[place.spot[2]]]]
                        [] place.how = "package" -> new = [call EXCEPT !.step = "read", !.got = [blank EXCEPT !.mtime = version]]
                        [] OTHER -> new = [call EXCEPT !.step = IF place.how = "file" THEN "stat" ELSE AfterSource(c),
                                                       !.got = [blank EXCEPT !.source = SourceNow(place.spot), !.read = version]]
    BY <1>1, <1>5 DEF Open
  <2>2. GoesOn(call, new) /\ new.cached = FALSE
    BY <1>2, <2>1 DEF CallFields, GoesOn
  <2>3. new.step = CASE place.how = "modules" -> "keep" [] place.how = "package" -> "read" [] place.how = "file" -> "stat"
                     [] OTHER -> IF call.compile THEN "compile" ELSE "code"
    BY <1>1, <1>2, <2>1 DEF CallFields, AfterSource
  <2>4. /\ DOMAIN new.got = TemplateFields /\ new.got.how = place.how /\ new.got.spot = place.spot
        /\ place.how \notin {"modules", "package"} => new.got.source = SourceNow(place.spot) /\ new.got.read = store[place.spot]
    <3>1. CASE place.how = "modules"
      <4>1. new.got = [blank EXCEPT !.code = modules[place.spot[2]]]
        BY <1>2, <2>1, <3>1 DEF CallFields
      <4> QED  BY <1>1, <3>1, <4>1 DEF TemplateFields
    <3>2. CASE place.how = "package"
      <4>1. new.got = [blank EXCEPT !.mtime = version]
        BY <1>2, <2>1, <3>2 DEF CallFields
      <4> QED  BY <1>1, <3>2, <4>1 DEF TemplateFields
    <3>3. CASE place.how \notin {"modules", "package"}
      <4>1. new.got = [blank EXCEPT !.source = SourceNow(place.spot), !.read = version]
        BY <1>2, <2>1, <3>3 DEF CallFields
      <4> QED  BY <1>1, <4>1 DEF TemplateFields
    <3> QED  BY <3>1, <3>2, <3>3
  <2>5. /\ new.names # <<>> /\ IsRest(new.names, new.asked) /\ DOMAIN new = CallFields /\ new.quiet \in BOOLEAN
        /\ new.compile \in BOOLEAN /\ new.compile = call.compile /\ new.quiet = call.quiet /\ PlacesOf(new) = looks
        /\ new.compile => CanList(environment.sources)
        /\ new.quiet => CompileInv(new)
        /\ new.quiet /\ ~new.compile => \A name \in Behind(new.names, new.asked) : NoneThere(LooksAt(environment.loader, name))
    <3>1. CallerInv(call) /\ GoesOn(call, new) /\ call.step \notin Nameless /\ call.step # "unlistable"
      BY <1>1, <2>2 DEF Nameless
    <3> QED  BY ONLY <1>0, <3>1, GoesOnIs DEF GoesOn
  <2>6. call.compile => place.how # "modules"
    <3>1. SUFFICES ASSUME call.compile PROVE place.how \in Listing
      BY DEF Listing
    <3>2. looks = LooksAt(environment.sources, Head(call.names))
      BY <1>0, <3>1 DEF PlacesOf, LoaderOf
    <3>3. place = PlaceOf(environment.sources[k], Head(call.names)) /\ k \in DOMAIN environment.sources
      BY <1>3, <3>2, LoaderIs, PlacesAre DEF TemplatesInv
    <3>4. place.how = environment.sources[k].kind
      BY <3>3 DEF PlaceOf
    <3> QED  BY <2>5, <3>1, <3>3, <3>4 DEF CanList
  <2>7. new.step \in IF new.compile THEN {"read", "stat", "compile"} ELSE {"keep", "read", "stat", "code"}
    BY <2>3, <2>5, <2>6
  <2>8. CallInv(new)
    BY <2>2, <2>5, <2>7 DEF CallInv, WhenAsking, WhenCompiling
  <2>9. From(new.got, looks)
    <3>1. place.fits /\ (place.how # "modules" => place.spot \in Spots)
      BY <1>5 DEF There
    <3> QED  BY <1>3, <2>4, <3>1 DEF From
  <2>10. HoldInv(new)
    <3>1. new.step # "read" => WasRead(new.got)
      BY <2>3, <2>4 DEF WasRead, SourceNow
    <3>2. new.step \in Coded => place.how = "modules"
      BY <2>3 DEF Coded
    <3>3. /\ new.step = "stat" => place.how = "file"
          /\ new.step = "read" => place.how = "package"
          /\ new.step \in {"code", "dump", "write", "removed", "compile", "syntax"} => place.how # "modules"
      BY <2>3
    <3>4. IsCompiled(new.got) \/ place.how # "modules"
      BY <2>4 DEF IsCompiled
    <3> QED  BY <2>4, <2>5, <2>9, <3>1, <3>2, <3>3, <3>4 DEF HoldInv
  <2>11. new.quiet => QuietInv(new)
    <3>1. SUFFICES ASSUME new.quiet PROVE QuietInv(new)
      OBVIOUS
    <3>2. new.step \notin {"vanished", "notFound", "open", "syntax", "given"}
      BY <2>7
    <3>3. IsFirst(k, looks)
      BY <1>2, <1>3, <1>5, <2>5, <3>1 DEF IsFirst
    <3>4. new.step # "read" /\ place.how # "modules" => new.got.source = SourceNow(place.spot)
      BY <2>3, <2>4
    <3> QED  BY <1>3, <2>4, <2>5, <3>1, <3>2, <3>3, <3>4 DEF QuietInv
  <2>12. CallsInv'
    BY <2>1, <2>5, <2>8, <2>10, <2>11, CallsMove DEF CallerInv, Open, TemplatesInv
  <2> QED  BY <2>12, CachesStay DEF Open
<1> QED  BY <1>4, <1>5

\* A bucket that is for a source has the code of it.
LEMMA CodeStep ==
  ASSUME TemplatesAssumption, TemplatesInv, NEW c \in Callers, Code(c)
  PROVE  TemplatesInv'
<1>1. PICK call, t : call = calls[c] /\ CallerInv(call) /\ call.step = "code" /\ t = call.got
  BY DEF Code, TemplatesInv, CallsInv, At
<1>2. /\ call.cached = FALSE /\ DOMAIN call = CallFields /\ call.compile = FALSE
      /\ call.step \in Opened /\ call.step \notin Nameless
      /\ DOMAIN t = TemplateFields /\ t.how # "modules" /\ WasRead(t)
      /\ call.quiet => t.source = SourceNow(t.spot)
  <2>1. call.cached = FALSE /\ DOMAIN call = CallFields /\ call.compile = FALSE
    BY <1>1 DEF CallerInv, CallInv, WhenCompiling
  <2>2. call.step \in Opened /\ call.step \notin Nameless
    BY <1>1 DEF Opened, Nameless
  <2>3. DOMAIN t = TemplateFields /\ t.how # "modules" /\ WasRead(t)
    BY <1>1, <2>2 DEF CallerInv, HoldInv, From, Coded
  <2>4. call.quiet => t.source = SourceNow(t.spot)
    BY <1>1, <2>2, <2>3 DEF CallerInv, QuietInv
  <2> QED  BY <2>1, <2>2, <2>3, <2>4
<1>3. ASSUME NEW code, NEW next, NEW new, code = t.source, next \in {"keep", "dump"},
             new = [call EXCEPT !.step = next, !.got = [t EXCEPT !.code = code]]
      PROVE  CallerInv(new)
  <2>1. GoesOn(call, new) /\ new.step = next /\ new.cached = FALSE /\ new.got = [t EXCEPT !.code = code]
    BY <1>2, <1>3 DEF CallFields, GoesOn
  <2>2. /\ DOMAIN new.got = TemplateFields /\ new.got.how = t.how /\ new.got.spot = t.spot /\ new.got.source = t.source
        /\ new.got.read = t.read /\ new.got.code = code
    BY <1>2, <2>1 DEF TemplateFields
  <2>3. WasRead(new.got) /\ IsCompiled(new.got)
    BY <1>2, <1>3, <2>2 DEF WasRead, IsCompiled
  <2>4. new.step \in {"keep", "dump"}
    BY <1>3, <2>1
  <2> QED  BY ONLY <1>1, <1>2, <2>1, <2>2, <2>3, <2>4, HoldsOn
<1>4. PICK new : Call(c, new) /\ CallerInv(new)
  <2>1. CASE /\ environment.bytecode # "none" /\ InBucket(t)
             /\ Call(c, [call EXCEPT !.step = "keep", !.got = [t EXCEPT !.code = bytecode[Key(t)].code]])
    <3>1. PICK code, new : /\ code = bytecode[Key(t)].code /\ Call(c, new)
                           /\ new = [call EXCEPT !.step = "keep", !.got = [t EXCEPT !.code = code]]
      BY <2>1
    <3>2. code = t.source
      BY <2>1, <3>1 DEF InBucket, TemplatesInv, BytecodeInv
    <3> QED  BY <1>3, <3>1, <3>2
  <2>2. CASE Compiled(c, t, IF environment.bytecode = "none" THEN "keep" ELSE "dump")
    <3>1. CASE t.source \in Broken
      <4>1. PICK new : Call(c, new) /\ new = [call EXCEPT !.step = "syntax"]
        BY <1>1, <2>2, <3>1 DEF Compiled
      <4>2. GoesOn(call, new) /\ new.step = "syntax" /\ new.cached = FALSE /\ new.got = t
        BY <1>1, <1>2, <4>1 DEF CallFields, GoesOn
      <4>3. CallerInv(new)
        BY <1>1, <1>2, <3>1, <4>2, HoldsOn DEF Coded
      <4> QED  BY <4>1, <4>3
    <3>2. CASE t.source \notin Broken
      <4>1. PICK code, next, new : /\ code = t.source /\ Call(c, new)
                                   /\ next = (IF environment.bytecode = "none" THEN "keep" ELSE "dump")
                                   /\ new = [call EXCEPT !.step = next, !.got = [t EXCEPT !.code = code]]
        BY <1>1, <2>2, <3>2 DEF Compiled
      <4> QED  BY <1>3, <4>1
    <3> QED  BY <3>1, <3>2
  <2> QED  BY <1>1, <2>1, <2>2 DEF Code
<1>5. CallsInv'
  BY <1>4, CallsMove DEF Code, TemplatesInv
<1> QED  BY <1>5, CachesStay DEF Code

\* What is in the caches stays true when a bucket is written.
LEMMA BucketIs ==
  ASSUME BytecodeInv, NEW key, NEW bucket, bucket.code = bucket.checksum, bytecode' = With(bytecode, key, bucket)
  PROVE  BytecodeInv'
BY DEF BytecodeInv, With

LEMMA BuildsOn ==
  ASSUME TemplatesInv, CallsInv', BytecodeInv', UNCHANGED <<environment, store, mapping, queue, used>>
  PROVE  TemplatesInv'
<1>1. MapInv'
  BY DEF TemplatesInv, MapInv
<1>2. CacheInv'
  BY DEF TemplatesInv, CacheInv
<1> QED  BY <1>1, <1>2 DEF TemplatesInv

\* Compiled code is on its way to the cache.
LEMMA OnItsWay ==
  ASSUME NEW call, CallerInv(call), call.step \in {"dump", "write", "removed", "keep"}, NEW new, NEW next,
         next \in {"write", "removed", "keep", "given"}, next \in {"keep", "given"} \/ call.step # "keep",
         new = [call EXCEPT !.step = next]
  PROVE  CallerInv(new)
<1>1. /\ call.cached = FALSE /\ DOMAIN call = CallFields /\ call.compile = FALSE
      /\ call.step \in Opened /\ call.step \notin Nameless
      /\ DOMAIN call.got = TemplateFields /\ WasRead(call.got) /\ IsCompiled(call.got)
      /\ call.quiet /\ call.got.how # "modules" => call.got.source = SourceNow(call.got.spot)
      /\ call.step # "keep" => call.got.how # "modules"
  <2>1. call.cached = FALSE /\ DOMAIN call = CallFields /\ call.compile = FALSE
    BY DEF CallerInv, CallInv, WhenCompiling
  <2>2. call.step \in Opened /\ call.step \notin Nameless /\ call.step \in Coded /\ call.step # "read"
    BY DEF Opened, Nameless, Coded
  <2>3. DOMAIN call.got = TemplateFields /\ WasRead(call.got) /\ IsCompiled(call.got) /\ (call.step # "keep" => call.got.how # "modules")
    BY <2>2 DEF CallerInv, HoldInv, From
  <2>4. call.quiet /\ call.got.how # "modules" => call.got.source = SourceNow(call.got.spot)
    BY <2>2 DEF CallerInv, QuietInv
  <2> QED  BY <2>1, <2>2, <2>3, <2>4
<1>2. GoesOn(call, new) /\ new.step = next /\ new.cached = FALSE /\ new.got = call.got
  BY <1>1 DEF CallFields, GoesOn
<1> QED  BY <1>1, <1>2, HoldsOn

LEMMA DumpStep ==
  ASSUME TemplatesAssumption, TemplatesInv, NEW c \in Callers, Dump(c)
  PROVE  TemplatesInv'
<1>1. PICK call : call = calls[c] /\ CallerInv(call) /\ call.step = "dump"
  BY DEF Dump, TemplatesInv, CallsInv, At
<1>2. PICK next, new : next \in {"write", "keep"} /\ Call(c, new) /\ new = [call EXCEPT !.step = next]
  BY <1>1 DEF Dump
<1>3. CallerInv(new)
  BY <1>1, <1>2, OnItsWay
<1>4. CallsInv'
  BY <1>2, <1>3, CallsMove DEF Dump, TemplatesInv
<1>5. call.got.code = call.got.source
  BY <1>1 DEF CallerInv, HoldInv, Coded, IsCompiled
<1>6. BytecodeInv'
  <2>1. Bucket(call.got).code = Bucket(call.got).checksum /\ Emptied.code = Emptied.checksum
    BY DEF Bucket, Emptied
  <2>2. \/ bytecode' = bytecode
        \/ \E key, bucket : bucket.code = bucket.checksum /\ bytecode' = With(bytecode, key, bucket)
    BY <1>1, <2>1 DEF Dump
  <2>3. CASE bytecode' = bytecode
    BY <2>3 DEF TemplatesInv, BytecodeInv
  <2>4. CASE \E key, bucket : bucket.code = bucket.checksum /\ bytecode' = With(bytecode, key, bucket)
    BY <2>4, BucketIs DEF TemplatesInv
  <2> QED  BY <2>2, <2>3, <2>4
<1> QED  BY <1>4, <1>6, BuildsOn DEF Dump

LEMMA WriteBytecodeStep ==
  ASSUME TemplatesAssumption, TemplatesInv, NEW c \in Callers, WriteBytecode(c)
  PROVE  TemplatesInv'
<1>1. PICK call : call = calls[c] /\ CallerInv(call) /\ call.step \in {"write", "removed"}
  BY DEF WriteBytecode, TemplatesInv, CallsInv
<1>2. PICK new : Call(c, new) /\ CallerInv(new)
  <2>1. CASE Call(c, [call EXCEPT !.step = "keep"])
    <3>1. PICK next, new : next = "keep" /\ Call(c, new) /\ new = [call EXCEPT !.step = next]
      BY <2>1
    <3> QED  BY <1>1, <3>1, OnItsWay
  <2>2. CASE Call(c, [call EXCEPT !.step = "diskFull"])
    <3>1. PICK new : Call(c, new) /\ new = [call EXCEPT !.step = "diskFull"]
      BY <2>2
    <3>2. call.cached = FALSE /\ DOMAIN call = CallFields /\ ~call.compile /\ call.step \notin Nameless
      BY <1>1 DEF CallerInv, CallInv, WhenCompiling, Nameless
    <3>3. GoesOn(call, new) /\ new.step = "diskFull" /\ new.cached = FALSE
      BY <3>1, <3>2 DEF CallFields, GoesOn
    <3> QED  BY <1>1, <3>1, <3>2, <3>3, Fails
  <2> QED  BY <1>1, <2>1, <2>2 DEF WriteBytecode
<1>3. CallsInv'
  BY <1>2, CallsMove DEF WriteBytecode, TemplatesInv
<1>4. BytecodeInv'
  <2>1. Bucket(call.got).code = Bucket(call.got).checksum
    BY DEF Bucket
  <2>2. \/ bytecode' = bytecode
        \/ \E key, bucket : bucket.code = bucket.checksum /\ bytecode' = With(bytecode, key, bucket)
    BY <1>1, <2>1 DEF WriteBytecode
  <2>3. CASE bytecode' = bytecode
    BY <2>3 DEF TemplatesInv, BytecodeInv
  <2>4. CASE \E key, bucket : bucket.code = bucket.checksum /\ bytecode' = With(bytecode, key, bucket)
    BY <2>4, BucketIs DEF TemplatesInv
  <2> QED  BY <2>2, <2>3, <2>4
<1> QED  BY <1>3, <1>4, BuildsOn DEF WriteBytecode

\* The cache, when a template is found in it.
LEMMA CacheHit ==
  ASSUME TemplatesInv, environment.size \in Int, NEW name \in DOMAIN mapping,
         queue' = IF LRU THEN Touched(queue, name) ELSE queue, used' = Touched(used, name), UNCHANGED <<environment, mapping>>
  PROVE  CacheInv'
<1>1. Sequence(used) /\ Once(used)
  BY DEF TemplatesInv, CacheInv
<1>2. PICK u, v, q, r : u = used /\ v = Touched(u, name) /\ q = queue /\ r = Touched(q, name)
  OBVIOUS
<1>3. Sequence(v) /\ Once(v) /\ ToSet(v) = ToSet(u) \cup {name}
  BY <1>1, <1>2, TouchedIs
<1>4. CASE environment.size > 0
  <2>1. IsRest(q, u) /\ name \in ToSet(q) /\ DOMAIN mapping = ToSet(q) /\ Once(u)
    BY <1>1, <1>2, <1>4 DEF TemplatesInv, CacheInv
  <2>2. IsRest(r, v) /\ Len(r) = Len(q) /\ Len(v) = Len(u)
    BY ONLY <1>2, <2>1, RestTouched
  <2>3. ToSet(r) = ToSet(q)
    <3>1. Sequence(q) /\ Once(q)
      BY <2>1, RestOnce DEF IsRest
    <3>2. ToSet(r) = ToSet(q) \cup {name}
      BY ONLY <1>2, <3>1, TouchedIs
    <3> QED  BY <2>1, <3>2
  <2>4. used' = v /\ queue' = r
    BY <1>2, <1>4 DEF LRU
  <2>5. Len(q) <= environment.size /\ (Len(q) < environment.size => Len(q) = Len(u))
    BY <1>2, <1>4 DEF TemplatesInv, CacheInv
  <2> QED  BY <1>3, <1>4, <2>1, <2>2, <2>3, <2>4, <2>5 DEF CacheInv
<1>5. CASE environment.size = 0
  BY <1>5 DEF TemplatesInv, CacheInv
<1>6. CASE environment.size < 0
  <2>1. DOMAIN mapping = ToSet(u)
    BY <1>2, <1>6 DEF TemplatesInv, CacheInv
  <2>2. ToSet(v) = ToSet(u)
    BY <1>3, <2>1
  <2> QED  BY <1>2, <1>3, <1>6, <2>1, <2>2 DEF CacheInv
<1> QED  BY <1>4, <1>5, <1>6

LEMMA LookUpStep ==
  ASSUME TemplatesAssumption, TemplatesInv, NEW c \in Callers, LookUp(c)
  PROVE  TemplatesInv'
<1>1. CallsInv'
  BY LookUpCalls
<1>2. CASE Name(c) \in DOMAIN mapping
  <2>1. PICK name : name = Name(c)
    OBVIOUS
  <2>2. /\ name \in DOMAIN mapping /\ queue' = (IF LRU THEN Touched(queue, name) ELSE queue)
        /\ used' = Touched(used, name) /\ UNCHANGED <<environment, store, modules, bytecode, mapping, events>>
    BY <1>2, <2>1 DEF LookUp, Seen
  <2>3. CacheInv'
    BY <2>2, LoaderIs, CacheHit DEF TemplatesInv
  <2>4. MapInv' /\ BytecodeInv'
    BY <2>2 DEF TemplatesInv, MapInv, BytecodeInv
  <2> QED  BY <1>1, <2>2, <2>3, <2>4 DEF TemplatesInv
<1>3. CASE Name(c) \notin DOMAIN mapping
  BY <1>1, <1>3, CachesStay DEF LookUp
<1> QED  BY <1>2, <1>3

\* The names of the cache after a template was put into it.
LEMMA CacheSet ==
  ASSUME TemplatesInv, environment.size \in Int, NEW name, NEW t, Set(name, t),
         used' = IF environment.size = 0 THEN used ELSE Touched(used, name), UNCHANGED environment
  PROVE  CacheInv'
<1>1. Sequence(used) /\ Once(used)
  BY DEF TemplatesInv, CacheInv
<1>2. PICK u, v, q, size : u = used /\ v = Touched(u, name) /\ q = queue /\ size = environment.size
  OBVIOUS
<1>3. Sequence(v) /\ Once(v) /\ ToSet(v) = ToSet(u) \cup {name} /\ Len(u) \in Nat
      /\ Len(v) = IF name \in ToSet(u) THEN Len(u) ELSE Len(u) + 1
  BY ONLY <1>1, <1>2, TouchedIs
<1>4. CASE size > 0
  <2>1. /\ IsRest(q, u) /\ DOMAIN mapping = ToSet(q) /\ Once(u) /\ Sequence(q) /\ LRU
        /\ Len(q) <= size /\ (Len(q) < size => Len(q) = Len(u))
    BY <1>1, <1>2, <1>4 DEF TemplatesInv, CacheInv, IsRest, LRU
  <2>2. Once(q) /\ ToSet(q) \subseteq ToSet(u)
    BY <2>1, RestOnce
  <2>3. Cardinality(DOMAIN mapping) = Len(q)
    BY <2>1, <2>2, OnceCounts
  <2>4. Len(q) \in Nat /\ size \in Nat
    BY <1>2, <1>4, <2>1, SequenceIs
  <2>5. used' = v
    BY <1>2, <1>4
  <2>6. CASE name \in ToSet(q)
    <3>1. PICK r : r = Touched(q, name)
      OBVIOUS
    <3>2. queue' = r /\ DOMAIN mapping' = ToSet(q)
      <4>1. mapping' = With(mapping, name, t) /\ queue' = Touched(queue, name)
        BY <1>2, <1>4, <2>1, <2>6 DEF Set
      <4> QED  BY <1>2, <2>1, <2>6, <3>1, <4>1 DEF With
    <3>3. IsRest(r, v) /\ Len(r) = Len(q) /\ Len(v) = Len(u)
      BY ONLY <1>2, <2>1, <2>6, <3>1, RestTouched
    <3>4. ToSet(r) = ToSet(q)
      <4>1. ToSet(r) = ToSet(q) \cup {name}
        BY ONLY <2>1, <2>2, <3>1, TouchedIs
      <4> QED  BY <2>6, <4>1
    <3> QED  BY <1>2, <1>3, <1>4, <2>1, <2>5, <3>2, <3>3, <3>4 DEF CacheInv
  <2>7. CASE name \notin ToSet(q) /\ Len(q) < size
    <3>1. PICK r : r = Touched(q, name)
      OBVIOUS
    <3>2. queue' = r /\ DOMAIN mapping' = ToSet(q) \cup {name}
      <4>1. mapping' = With(mapping, name, t) /\ queue' = Touched(queue, name)
        BY <1>2, <1>4, <2>1, <2>3, <2>4, <2>7 DEF Set
      <4> QED  BY <1>2, <2>1, <3>1, <4>1 DEF With
    <3>3. q = u
      BY <2>1, <2>7, RestAll
    <3>4. r = v /\ IsRest(r, v)
      BY <1>2, <1>3, <3>1, <3>3, RestBegins
    <3>5. Len(v) = Len(q) + 1
      BY <1>3, <2>7, <3>3
    <3>6. Len(v) <= size
      BY <2>4, <2>7, <3>5
    <3> QED  BY <1>2, <1>3, <1>4, <2>5, <3>2, <3>3, <3>4, <3>6 DEF CacheInv
  <2>8. CASE name \notin ToSet(q) /\ Len(q) = size
    <3>1. q # <<>>
      BY <1>4, <2>8, EmptyIs
    <3>2. PICK rest, r : rest = Tail(q) /\ r = Append(rest, name)
      OBVIOUS
    <3>3. /\ IsRest(r, v) /\ Len(r) = Len(q) /\ name \notin ToSet(rest) /\ ToSet(r) = (ToSet(q) \ {Head(q)}) \cup {name}
      BY ONLY <1>2, <2>1, <2>8, <3>1, <3>2, RestMoves
    <3>4. Touched(rest, name) = r
      <4>1. Sequence(rest)
        BY <2>1, <3>1, <3>2, TailIs
      <4> QED  BY ONLY <3>2, <3>3, <4>1, TouchedNew
    <3>5. queue' = r /\ DOMAIN mapping' = (ToSet(q) \ {Head(q)}) \cup {name}
      <4>1. mapping' = With(Without(mapping, Head(queue)), name, t) /\ queue' = Touched(Tail(queue), name)
        BY <1>2, <1>4, <2>1, <2>3, <2>8 DEF Set
      <4> QED  BY <1>2, <2>1, <3>2, <3>4, <4>1 DEF With, Without
    <3>6. Len(r) = size
      BY <2>8, <3>3
    <3> QED  BY <1>2, <1>3, <1>4, <2>4, <2>5, <3>3, <3>5, <3>6 DEF CacheInv
  <2> QED  BY <2>1, <2>4, <2>6, <2>7, <2>8
<1>5. CASE size = 0
  <2>1. mapping' = mapping /\ used' = used
    BY <1>2, <1>5 DEF Set, LRU
  <2> QED  BY <1>2, <1>5, <2>1 DEF TemplatesInv, CacheInv
<1>6. CASE size < 0
  <2>1. ~LRU /\ DOMAIN mapping = ToSet(u)
    BY <1>2, <1>6 DEF TemplatesInv, CacheInv, LRU
  <2>2. DOMAIN mapping' = ToSet(u) \cup {name}
    BY <1>2, <1>6, <2>1 DEF Set, With
  <2>3. used' = v
    BY <1>2, <1>6
  <2> QED  BY <1>2, <1>3, <1>6, <2>2, <2>3 DEF CacheInv
<1> QED  BY <1>2, <1>4, <1>5, <1>6

LEMMA KeepStep ==
  ASSUME TemplatesAssumption, TemplatesInv, NEW c \in Callers, Keep(c)
  PROVE  TemplatesInv'
<1>1. PICK call, name, t : call = calls[c] /\ CallerInv(call) /\ call.step = "keep" /\ name = Name(c) /\ t = call.got
  BY DEF Keep, TemplatesInv, CallsInv, At
<1>2. PICK next, new : next = "given" /\ Call(c, new) /\ new = [call EXCEPT !.step = next]
  BY <1>1 DEF Keep
<1>3. CallerInv(new)
  BY <1>1, <1>2, OnItsWay
<1>4. CallsInv'
  BY <1>2, <1>3, CallsMove DEF Keep, TemplatesInv
<1>5. /\ Set(name, t) /\ used' = (IF environment.size = 0 THEN used ELSE Touched(used, name))
      /\ UNCHANGED <<environment, store, modules, bytecode, events>>
  BY <1>1 DEF Keep
<1>6. CacheInv'
  BY <1>5, LoaderIs, CacheSet DEF TemplatesInv
<1>7. MapInv'
  <2>1. From(t, LooksAt(environment.loader, name)) /\ WasRead(t) /\ IsCompiled(t)
    <3>1. ~call.compile
      BY <1>1 DEF CallerInv, CallInv, WhenCompiling
    <3>2. PlacesOf(call) = LooksAt(environment.loader, name)
      BY <1>1, <3>1 DEF PlacesOf, LoaderOf, Name
    <3> QED  BY <1>1, <3>2 DEF CallerInv, HoldInv, Opened, Coded
  <2>2. \A n \in DOMAIN mapping' : (n = name /\ mapping'[n] = t) \/ (n \in DOMAIN mapping /\ mapping'[n] = mapping[n])
    <3>1. \/ mapping' = mapping
          \/ mapping' = With(Without(mapping, Head(queue)), name, t)
          \/ mapping' = With(mapping, name, t)
      BY <1>5 DEF Set
    <3> QED  BY <3>1 DEF With, Without
  <2>3. \A n \in DOMAIN mapping' : From(mapping'[n], LooksAt(environment.loader, n)) /\ WasRead(mapping'[n]) /\ IsCompiled(mapping'[n])
    BY <2>1, <2>2 DEF TemplatesInv, MapInv
  <2> QED  BY <1>5, <2>3 DEF MapInv
<1>8. BytecodeInv'
  BY <1>5 DEF TemplatesInv, BytecodeInv
<1> QED  BY <1>4, <1>5, <1>6, <1>7, <1>8 DEF TemplatesInv

\* There are finitely many templates to list.
LEMMA ListedAreFinite ==
  ASSUME TemplatesAssumption, environment \in Environments
  PROVE  IsFiniteSet(ListTemplates(environment.sources))
<1>1. PICK loader, n : loader = environment.sources /\ n = Len(loader)
  OBVIOUS
<1>2. n \in Nat /\ DOMAIN loader = 1..n
  BY <1>1, LoaderIs, SequenceIs
<1>3. IsFiniteSet(1..n)
  BY <1>2, FS_Interval
<1> DEFINE ListOf(k) == {loader[k].under \o stem : stem \in StemsIn(loader[k].folder)}
<1>4. ASSUME NEW k \in 1..n PROVE IsFiniteSet(ListOf(k))
  <2>1. PICK S, T : S = StemsIn(loader[k].folder) /\ T = ListOf(k)
    OBVIOUS
  <2>2. IsFiniteSet(S)
    <3>1. S \subseteq Stems /\ IsFiniteSet(Stems)
      BY <2>1 DEF StemsIn, TemplatesAssumption
    <3> QED  BY ONLY <3>1, FS_Subset
  <2>3. T = {loader[k].under \o stem : stem \in S}
    BY <2>1
  <2>4. PICK f : f = [stem \in S |-> loader[k].under \o stem]
    OBVIOUS
  <2>5. f \in Surjection(S, T)
    BY <2>3, <2>4 DEF Surjection
  <2>6. IsFiniteSet(T)
    BY ONLY <2>2, <2>5, FS_Surjection
  <2> QED  BY <2>1, <2>6
<1>5. PICK T : T = {ListOf(k) : k \in 1..n}
  OBVIOUS
<1>9. ListTemplates(environment.sources) = UNION T
  BY <1>1, <1>2, <1>5 DEF ListTemplates
<1> HIDE DEF ListOf
<1>6. IsFiniteSet(T)
  <2>1. PICK f, S : S = 1..n /\ f = [k \in S |-> ListOf(k)]
    OBVIOUS
  <2>2. f \in Surjection(S, T)
    BY <1>5, <2>1 DEF Surjection
  <2>3. IsFiniteSet(S)
    BY <1>3, <2>1
  <2> QED  BY ONLY <2>2, <2>3, FS_Surjection
<1>7. \A s \in T : IsFiniteSet(s)
  BY <1>4, <1>5
<1>8. IsFiniteSet(UNION T)
  BY ONLY <1>6, <1>7, FS_UNION
<1> QED  BY <1>8, <1>9

LEMMA CompileTemplatesStep ==
  ASSUME TemplatesAssumption, TemplatesInv, NEW c \in Callers, CompileTemplates(c)
  PROVE  TemplatesInv'
<1>1. CASE CanList(environment.sources)
  <2>1. PICK names, new, all : /\ all = ListTemplates(environment.sources) /\ names \in InSomeOrder(all) /\ Call(c, new)
                               /\ new = [NoCall EXCEPT !.compile = TRUE, !.step = "next", !.asked = names, !.names = names]
    BY <1>1 DEF CompileTemplates
  <2>2. Sequence(names) /\ ToSet(names) = all
    <3>1. PICK n : n = Cardinality(all)
      OBVIOUS
    <3>2. n \in Nat
      BY <2>1, <3>1, ListedAreFinite, FS_CardinalityType DEF TemplatesInv
    <3>3. names \in [1..n -> all] /\ ToSet(names) = all
      BY <2>1, <3>1 DEF InSomeOrder
    <3>4. names \in Seq(all)
      BY <3>2, <3>3, SeqDef
    <3> QED  BY <3>3, <3>4, SequenceOf
  <2>3. /\ DOMAIN new = CallFields /\ new.step = "next" /\ new.names = names /\ new.asked = names
        /\ new.compile = TRUE /\ new.cached = FALSE /\ new.quiet = TRUE
    BY <2>1, NewCalls DEF CallFields
  <2>4. IsRest(names, names) /\ Behind(names, names) = {}
    BY <2>2, RestBegins, BehindIs
  <2>5. CallInv(new)
    BY <1>1, <2>3, <2>4 DEF CallInv, WhenCompiling, Nameless
  <2>6. HoldInv(new)
    BY <2>3 DEF HoldInv, Opened, Coded
  <2>7. QuietInv(new) /\ CompileInv(new)
    BY <2>1, <2>2, <2>3, <2>4 DEF QuietInv, CompileInv, Opened
  <2>8. CallsInv'
    BY <2>1, <2>5, <2>6, <2>7, CallsMove DEF CallerInv, CompileTemplates, TemplatesInv
  <2> QED  BY <2>8, CachesStay DEF CompileTemplates
<1>2. CASE ~CanList(environment.sources)
  <2>1. PICK new : Call(c, new) /\ new = [NoCall EXCEPT !.compile = TRUE, !.step = "unlistable"]
    BY <1>2 DEF CompileTemplates
  <2>2. /\ DOMAIN new = CallFields /\ new.step = "unlistable" /\ new.names = <<>> /\ new.asked = <<>>
        /\ new.compile = TRUE /\ new.cached = FALSE /\ new.quiet = TRUE
    BY <2>1, NewCalls DEF CallFields
  <2>3. CallInv(new)
    BY <2>2, EmptyIs DEF CallInv, WhenCompiling, Nameless
  <2>4. HoldInv(new)
    BY <2>2 DEF HoldInv, Opened, Coded
  <2>5. QuietInv(new) /\ CompileInv(new)
    BY <2>2 DEF QuietInv, CompileInv, Opened
  <2>6. CallsInv'
    BY <2>1, <2>3, <2>4, <2>5, CallsMove DEF CallerInv, CompileTemplates, TemplatesInv
  <2> QED  BY <2>6, CachesStay DEF CompileTemplates
<1> QED  BY <1>1, <1>2

\* A call that somebody edited under promises less.
LEMMA LessQuiet ==
  ASSUME NEW call, CallerInv(call), NEW new, new = [call EXCEPT !.quiet = FALSE]
  PROVE  CallInv(new) /\ HoldInv(new) /\ new.quiet = FALSE
<1>1. DOMAIN call = CallFields
  BY DEF CallerInv, CallInv
<1>2. /\ DOMAIN new = CallFields /\ new.step = call.step /\ new.compile = call.compile /\ new.cached = call.cached
      /\ new.names = call.names /\ new.asked = call.asked /\ new.got = call.got /\ new.places = call.places /\ new.quiet = FALSE
  BY <1>1 DEF CallFields
<1>3. PlacesOf(new) = PlacesOf(call)
  BY <1>2 DEF PlacesOf, LoaderOf
<1>4. CallInv(new)
  BY <1>2, <1>3 DEF CallInv, CallerInv
<1>5. HoldInv(new)
  BY <1>2, <1>3 DEF HoldInv, CallerInv
<1> QED  BY <1>2, <1>4, <1>5

\* These do not look at what there is to load.
LEMMA StillHolds ==
  ASSUME NEW call, CallInv(call), HoldInv(call), UNCHANGED environment
  PROVE  CallInv(call)' /\ HoldInv(call)'
<1>1. PlacesOf(call)' = PlacesOf(call)
  BY DEF PlacesOf, LoaderOf
<1> QED  BY <1>1 DEF CallInv, HoldInv

LEMMA EditStep ==
  ASSUME TemplatesAssumption, TemplatesInv, Edit
  PROVE  TemplatesInv'
<1>1. DOMAIN store' = Spots
  BY DEF Edit, TemplatesInv
<1>2. DOMAIN calls' = Callers
  BY DEF Edit
<1>3. ASSUME NEW c \in Callers PROVE CallerInv(calls[c])'
  <2>1. PICK new : new = calls'[c] /\ CallInv(new) /\ HoldInv(new) /\ new.quiet = FALSE
    <3>1. PICK call, new : call = calls[c] /\ new = calls'[c] /\ CallerInv(call) /\ new = [call EXCEPT !.quiet = FALSE]
      BY <1>3 DEF Edit, TemplatesInv, CallsInv
    <3>2. CallInv(new) /\ HoldInv(new) /\ new.quiet = FALSE
      BY <3>1, LessQuiet
    <3> QED  BY <3>1, <3>2
  <2>2. UNCHANGED environment
    BY DEF Edit
  <2>3. CallInv(new)' /\ HoldInv(new)'
    BY ONLY <2>1, <2>2, StillHolds
  <2>4. CallerInv(new)'
    BY ONLY <2>1, <2>3 DEF CallerInv
  <2> QED  BY ONLY <2>1, <2>4
<1>4. MapInv' /\ BytecodeInv' /\ CacheInv'
  <2>1. UNCHANGED <<environment, mapping, bytecode, queue, used>>
    BY DEF Edit
  <2> QED  BY <2>1 DEF TemplatesInv, MapInv, BytecodeInv, CacheInv
<1>5. environment' \in Environments
  BY DEF Edit, TemplatesInv
<1> QED  BY <1>1, <1>2, <1>3, <1>4, <1>5 DEF TemplatesInv, CallsInv

LEMMA ClearStep ==
  ASSUME TemplatesAssumption, TemplatesInv, Clear
  PROVE  TemplatesInv'
<1>1. BytecodeInv'
  <2>1. \A key \in DOMAIN bytecode' : key \in DOMAIN bytecode /\ bytecode'[key] = bytecode[key]
    BY EmptyIs DEF Clear, Without
  <2> QED  BY <2>1 DEF TemplatesInv, BytecodeInv
<1>2. UNCHANGED <<environment, store, modules>>
  BY DEF Clear
<1>3. CallsInv'
  <2>1. CASE UNCHANGED calls
    BY <1>2, <2>1, CallsStay DEF TemplatesInv
  <2>2. CASE calls' = [c \in Callers |-> IF At(c, "write") THEN [calls[c] EXCEPT !.step = "removed"] ELSE calls[c]]
    <3>1. ASSUME NEW c \in Callers PROVE CallerInv(calls[c])'
      <4>1. PICK call : call = calls[c] /\ CallerInv(call)
        BY <3>1 DEF TemplatesInv, CallsInv
      <4>2. PICK next, new : /\ new = calls'[c] /\ next = "removed"
                               /\ new = IF call.step = "write" THEN [call EXCEPT !.step = next] ELSE call
        BY <2>2, <3>1, <4>1 DEF At
      <4>3. CallerInv(new)
        <5>1. CASE call.step = "write"
          BY <4>1, <4>2, <5>1, OnItsWay
        <5>2. CASE call.step # "write"
          BY <4>1, <4>2, <5>2
        <5> QED  BY <5>1, <5>2
      <4>4. CallerInv(new)'
        BY ONLY <1>2, <4>3, SameCall
      <4> QED  BY ONLY <4>2, <4>4
    <3> QED  BY <2>2, <3>1 DEF CallsInv
  <2> QED  BY <2>1, <2>2 DEF Clear
<1> QED  BY <1>1, <1>3, BuildsOn DEF Clear

LEMMA DiesStep ==
  ASSUME TemplatesAssumption, TemplatesInv, Dies
  PROVE  TemplatesInv'
<1>1. UNCHANGED <<environment, store, modules, bytecode>>
  BY DEF Dies
<1>2. CallsInv'
  <2>1. ASSUME NEW c \in Callers PROVE CallerInv(calls[c])'
    <3>1. PICK new : new = NoCall /\ new = calls'[c]
      BY <2>1 DEF Dies
    <3>2. CallerInv(new)
      BY <3>1, IdleInv
    <3>3. CallerInv(new)'
      BY ONLY <1>1, <3>2, SameCall
    <3> QED  BY ONLY <3>1, <3>3
  <2> QED  BY <2>1 DEF CallsInv, Dies
<1>3. MapInv' /\ BytecodeInv'
  BY <1>1, EmptyIs DEF Dies, TemplatesInv, MapInv, BytecodeInv
<1>4. CacheInv'
  <2>1. mapping' = <<>> /\ queue' = <<>> /\ used' = <<>> /\ environment.size \in Int
    BY LoaderIs DEF Dies, TemplatesInv
  <2> QED  BY <1>1, <2>1, EmptyIs DEF CacheInv
<1> QED  BY <1>1, <1>2, <1>3, <1>4 DEF TemplatesInv

\* A place of a loader that can be listed is where it is whatever was compiled.
LEMMA ListedPlaces ==
  ASSUME TemplatesAssumption, environment \in Environments, CanList(environment.sources), UNCHANGED <<environment, store>>, NEW name
  PROVE  \A k : IsFirst(k, LooksAt(environment.sources, name)) => IsFirst(k, LooksAt(environment.sources, name))'
<1>1. PICK loader, places : loader = environment.sources /\ places = LooksAt(loader, name)
  OBVIOUS
<1>2. DOMAIN places = DOMAIN loader /\ \A k \in DOMAIN loader : places[k] = PlaceOf(loader[k], name)
  BY <1>1, LoaderIs, PlacesAre
<1>3. \A k \in DOMAIN places : places[k].how # "modules"
  <2> TAKE k \in DOMAIN places
  <2>1. loader[k].kind \in Listing
    BY <1>1, <1>2 DEF CanList
  <2>2. places[k] = PlaceOf(loader[k], name)
    BY <1>2
  <2>3. places[k].how = loader[k].kind
    BY ONLY <2>2 DEF PlaceOf
  <2> QED  BY <2>1, <2>3 DEF Listing
<1>4. \A k \in DOMAIN places : There(places[k])' <=> There(places[k])
  BY <1>3 DEF There
<1>5. \A k \in DOMAIN places : \A j \in 1..(k - 1) : j \in DOMAIN places
  <2>1. PICK n : n \in Nat /\ DOMAIN places = 1..n
    BY <1>1, <1>2, LoaderIs, SequenceIs
  <2> QED  BY <2>1
<1>6. \A k : IsFirst(k, places) => IsFirst(k, places)'
  BY <1>4, <1>5 DEF IsFirst
<1>7. environment.sources' = loader
  BY <1>1
<1> QED  BY ONLY <1>1, <1>6, <1>7

\* What is compiled stays in the folder while more is.
LEMMA StaysInFolder ==
  ASSUME TemplatesAssumption, environment \in Environments, CanList(environment.sources), UNCHANGED <<environment, store>>,
         NEW name, NEW content, NEW other, modules' = modules \/ modules' = With(modules, other, content),
         InFolder(name, LooksAt(environment.sources, name)), name # other \/ modules' = modules
  PROVE  InFolder(name, LooksAt(environment.sources, name))'
<1>1. PICK places : places = LooksAt(environment.sources, name)
  OBVIOUS
<1>2. \A k : IsFirst(k, places) => IsFirst(k, places)'
  <2>1. \A k : IsFirst(k, LooksAt(environment.sources, name)) => IsFirst(k, LooksAt(environment.sources, name))'
    BY ListedPlaces
  <2>2. LooksAt(environment.sources, name)' = places
    BY <1>1
  <2> QED  BY ONLY <1>1, <2>1, <2>2
<1>3. \A spot : SourceNow(spot)' = SourceNow(spot)
  BY DEF SourceNow
<1>4. name \in DOMAIN modules => name \in DOMAIN modules' /\ modules'[name] = modules[name]
  BY DEF With
<1>5. InFolder(name, places)'
  BY <1>1, <1>2, <1>3, <1>4 DEF InFolder
<1>6. LooksAt(environment.sources, name)' = places
  BY <1>1
<1> QED  BY ONLY <1>5, <1>6

\* The folder that is compiled to, as the one who compiles sees it and the others do.
LEMMA CompileOneStep ==
  ASSUME TemplatesAssumption, TemplatesInv, NEW c \in Callers, CompileOne(c)
  PROVE  TemplatesInv'
<1>1. PICK call, t, name : call = calls[c] /\ CallerInv(call) /\ call.step = "compile" /\ t = call.got /\ name = Name(c)
  BY DEF CompileOne, TemplatesInv, CallsInv, At
<1>2. PICK new : new = calls'[c] /\ new = [call EXCEPT !.step = "next", !.names = Tail(call.names)]
  BY <1>1 DEF CompileOne
<1>3. UNCHANGED <<environment, store, bytecode, mapping, queue, used>> /\ environment \in Environments
  BY DEF CompileOne, TemplatesInv
<1>4. modules' = IF t.source \in Broken THEN modules ELSE With(modules, name, t.source)
  BY <1>1 DEF CompileOne
<1>5. /\ call.compile = TRUE /\ call.cached = FALSE /\ DOMAIN call = CallFields /\ call.names # <<>> /\ IsRest(call.names, call.asked)
      /\ CanList(environment.sources) /\ call.quiet \in BOOLEAN /\ name = Head(call.names)
  BY <1>1 DEF CallerInv, CallInv, WhenAsking, Nameless, Name
<1>6. /\ DOMAIN new = CallFields /\ new.step = "next" /\ new.names = Tail(call.names) /\ new.asked = call.asked
      /\ new.compile = TRUE /\ new.cached = FALSE /\ new.quiet = call.quiet
  BY <1>2, <1>5 DEF CallFields
<1>7. IsRest(new.names, new.asked) /\ Behind(new.names, new.asked) = Behind(call.names, call.asked) \cup {name}
  BY <1>5, <1>6, RestGoesOn, BehindIs
<1>8. CallInv(new) /\ HoldInv(new)
  <2>1. CallInv(new)
    BY <1>5, <1>6, <1>7 DEF CallInv, WhenCompiling, Nameless
  <2>2. HoldInv(new)
    BY <1>6 DEF HoldInv, Opened, Coded
  <2> QED  BY <2>1, <2>2
<1>9. CallInv(new)' /\ HoldInv(new)'
  BY ONLY <1>3, <1>8, StillHolds
<1>10. QuietInv(new)'
  BY <1>6 DEF QuietInv, Opened
<1>11. ASSUME new.quiet PROVE CompileInv(new)'
  <2>1. /\ ToSet(call.asked) = ListTemplates(environment.sources)
        /\ \A n \in Behind(call.names, call.asked) : InFolder(n, LooksAt(environment.sources, n))
    BY <1>1, <1>5, <1>6, <1>11 DEF CallerInv, CompileInv
  <2>2. InFolder(name, LooksAt(environment.sources, name))'
    <3>1. PICK places : places = LooksAt(environment.sources, name) /\ places = PlacesOf(call)
      BY <1>5 DEF PlacesOf, LoaderOf
    <3>2. PICK k \in DOMAIN places : IsFirst(k, places) /\ t.spot = places[k].spot /\ t.source = SourceNow(t.spot)
      <4>1. call.step \in Opened /\ call.quiet /\ t.how # "modules"
        BY <1>1, <1>6, <1>11 DEF Opened, CallerInv, HoldInv
      <4> QED  BY <1>1, <3>1, <4>1 DEF CallerInv, QuietInv
    <3>3. LooksAt(environment.sources, name)' = places
      BY <1>3, <3>1
    <3>4. IsFirst(k, places)'
      <4>1. IsFirst(k, LooksAt(environment.sources, name)) => IsFirst(k, LooksAt(environment.sources, name))'
        BY <1>3, <1>5, ListedPlaces
      <4> QED  BY ONLY <3>1, <3>2, <3>3, <4>1
    <3>5. SourceNow(places[k].spot)' = t.source
      BY <1>3, <3>2 DEF SourceNow
    <3>6. t.source \in Broken \/ (name \in DOMAIN modules' /\ modules'[name] = t.source)
      BY <1>4 DEF With
    <3>7. InFolder(name, places)'
      BY <3>2, <3>4, <3>5, <3>6 DEF InFolder
    <3> QED  BY ONLY <3>3, <3>7
  <2>3. ASSUME NEW n \in Behind(call.names, call.asked) PROVE InFolder(n, LooksAt(environment.sources, n))'
    <3>1. CASE n = name
      <4>1. LooksAt(environment.sources, name)' = LooksAt(environment.sources, n)'
        BY <3>1
      <4> QED  BY <2>2, <3>1
    <3>2. CASE n # name
      <4>1. PICK content : content = t.source /\ (modules' = modules \/ modules' = With(modules, name, content))
        BY <1>4
      <4> QED  BY ONLY TemplatesAssumption, <1>3, <1>5, <2>1, <2>3, <3>2, <4>1, StaysInFolder
    <3> QED  BY <3>1, <3>2
  <2>4. ListTemplates(environment.sources)' = ListTemplates(environment.sources)
    BY <1>3 DEF ListTemplates, StemsIn
  <2>5. ToSet(new.asked) = ListTemplates(environment.sources)'
    BY <1>6, <2>1, <2>4
  <2>6. \A n \in Behind(new.names, new.asked) : InFolder(n, LooksAt(environment.sources, n))'
    BY <1>7, <2>2, <2>3
  <2> QED  BY ONLY <2>5, <2>6 DEF CompileInv
<1>12. CallerInv(new)'
  BY ONLY <1>9, <1>10, <1>11 DEF CallerInv
<1>13. ASSUME NEW d \in Callers PROVE CallerInv(calls[d])'
  <2>1. CASE d = c
    <3>1. CallerInv(calls[c])'
      BY ONLY <1>2, <1>12
    <3> QED  BY <2>1, <3>1
  <2>2. CASE d # c
    <3>1. PICK old, next : old = calls[d] /\ next = calls'[d] /\ CallerInv(old) /\ next = [old EXCEPT !.quiet = FALSE]
      BY <1>13, <2>2 DEF CompileOne, TemplatesInv, CallsInv
    <3>2. CallInv(next) /\ HoldInv(next) /\ next.quiet = FALSE
      BY <3>1, LessQuiet
    <3>3. CallInv(next)' /\ HoldInv(next)'
      BY ONLY <1>3, <3>2, StillHolds
    <3>4. CallerInv(next)'
      BY ONLY <3>2, <3>3 DEF CallerInv
    <3> QED  BY ONLY <3>1, <3>4
  <2> QED  BY <2>1, <2>2
<1>14. CallsInv'
  BY <1>13 DEF CallsInv, CompileOne
<1>15. MapInv' /\ BytecodeInv' /\ CacheInv'
  BY <1>3 DEF TemplatesInv, MapInv, BytecodeInv, CacheInv
<1> QED  BY <1>3, <1>14, <1>15 DEF TemplatesInv

LEMMA TemplatesStarts ==
  ASSUME TemplatesAssumption, TemplatesInit
  PROVE  TemplatesInv
<1>1. environment \in Environments /\ DOMAIN store = Spots
  BY DEF TemplatesInit
<1>2. CallsInv
  <2>1. \A c \in Callers : calls[c] = NoCall
    BY DEF TemplatesInit
  <2>2. \A c \in Callers : CallerInv(calls[c])
    BY <2>1, IdleInv
  <2> QED  BY <2>2 DEF CallsInv, TemplatesInit
<1>3. MapInv /\ BytecodeInv
  BY EmptyIs DEF TemplatesInit, MapInv, BytecodeInv
<1>4. CacheInv
  <2>1. mapping = <<>> /\ queue = <<>> /\ used = <<>> /\ environment.size \in Int
    BY <1>1, LoaderIs DEF TemplatesInit
  <2> QED  BY <2>1, EmptyIs DEF CacheInv
<1> QED  BY <1>1, <1>2, <1>3, <1>4 DEF TemplatesInv

LEMMA TemplatesStep ==
  ASSUME TemplatesAssumption, TemplatesInv, [TemplatesNext]_templatesVars
  PROVE  TemplatesInv'
<1>1. CASE UNCHANGED templatesVars
  <2>1. UNCHANGED <<environment, store, modules, bytecode, mapping, queue, calls, used, events>>
    BY <1>1 DEF templatesVars
  <2>2. CallsInv'
    BY <2>1, CallsStay DEF TemplatesInv
  <2> QED  BY <2>1, <2>2, CachesStay
<1>2. ASSUME NEW c \in Callers,
             \/ Ask(c) \/ LookUp(c) \/ Check(c) \/ PassOver(c) \/ Open(c) \/ ReadOn(c) \/ Code(c) \/ Dump(c)
             \/ WriteBytecode(c) \/ Keep(c) \/ CompileTemplates(c) \/ NextName(c) \/ CompileOne(c)
      PROVE  TemplatesInv'
  BY <1>2, AskStep, LookUpStep, CheckStep, PassOverStep, OpenStep, ReadOnStep, CodeStep, DumpStep, WriteBytecodeStep,
     KeepStep, CompileTemplatesStep, NextNameStep, CompileOneStep
<1>3. CASE Edit \/ Clear \/ Dies
  BY <1>3, EditStep, ClearStep, DiesStep
<1> QED  BY <1>1, <1>2, <1>3 DEF TemplatesNext

\* The first place that has something, if there is one.
LEMMA FirstIs ==
  ASSUME NEW places, Sequence(places)
  PROVE  /\ NoneThere(places) => FirstThere(places) = Nothing
         /\ \A k : IsFirst(k, places) => FirstThere(places) = places[k]
<1>1. NoneThere(places) => FirstThere(places) = Nothing
  BY DEF NoneThere, FirstThere
<1>2. ASSUME NEW k, IsFirst(k, places) PROVE FirstThere(places) = places[k]
  <2>1. PICK n, those : n \in Nat /\ DOMAIN places = 1..n /\ those = {j \in DOMAIN places : There(places[j])}
    BY SequenceIs
  <2>2. k \in those /\ \A j \in those : k <= j
    BY <1>2, <2>1 DEF IsFirst
  <2>3. those \subseteq Nat /\ those # {}
    BY <2>1, <2>2
  <2>4. (CHOOSE l \in those : \A j \in those : l <= j) = k
    <3>1. PICK l : l = CHOOSE m \in those : \A j \in those : m <= j
      OBVIOUS
    <3>2. l \in those /\ \A j \in those : l <= j
      BY <2>2, <3>1
    <3>3. l <= k /\ k <= l /\ l \in Nat /\ k \in Nat
      BY <2>2, <2>3, <3>2
    <3> QED  BY <3>1, <3>3
  <2> QED  BY <2>1, <2>3, <2>4 DEF FirstThere
<1> QED  BY <1>1, <1>2

\* What a call that nobody edited under is given is what there is.
LEMMA FreshIs ==
  ASSUME TemplatesAssumption, TemplatesInv
  PROVE  SameAsFresh
<1>1. SUFFICES ASSUME NEW c \in Callers, calls[c].quiet, ~calls[c].compile
      PROVE  LET call == calls[c]
                 passed == SubSeq(call.asked, 1, Len(call.asked) - Len(call.names))
                 places == LooksAt(Loader(c), Name(c))
             IN  /\ call.step # "vanished"
                 /\ call.step = "given" =>
                      /\ \A name \in ToSet(passed) : Nowhere(name)
                      /\ ~call.cached => call.got.how = FirstThere(places).how /\ call.got.spot = FirstThere(places).spot
                      /\ call.got.how # "modules" => call.got.code = call.got.source
                      /\ ~(call.cached /\ CannotTell(call.got)) /\ call.got.how # "modules" =>
                           /\ \E place \in ToSet(places) : place.spot = call.got.spot /\ There(place)
                           /\ call.got.code = SourceNow(call.got.spot)
                 /\ call.step = "notFound" => \A name \in ToSet(call.asked) : Nowhere(name)
                 /\ call.step = "syntax" => SourceNow(call.got.spot) \in Broken
  BY Zenon DEF SameAsFresh
<1>2. PICK call, t, places, passed :
        /\ call = calls[c] /\ CallerInv(call) /\ t = call.got /\ places = LooksAt(Loader(c), Name(c))
        /\ passed = SubSeq(call.asked, 1, Len(call.asked) - Len(call.names))
  BY <1>1 DEF TemplatesInv, CallsInv
<1>3. QuietInv(call) /\ CallInv(call) /\ HoldInv(call) /\ ~call.compile /\ IsRest(call.names, call.asked)
  BY <1>1, <1>2 DEF CallerInv, CallInv
<1>4. places = PlacesOf(call) /\ Sequence(places) /\ places = LooksAt(environment.loader, Head(call.names))
  <2>1. places = PlacesOf(call) /\ places = LooksAt(environment.loader, Head(call.names))
    BY <1>1, <1>2 DEF PlacesOf, LoaderOf, Loader, Name
  <2> QED  BY <2>1, LoaderIs, PlacesAre DEF TemplatesInv
<1>5. \A name : NoneThere(LooksAt(environment.loader, name)) => Nowhere(name)
  BY LoaderIs, PlacesAre, FirstIs DEF TemplatesInv, Nowhere
<1>6. call.step # "vanished" /\ \A name \in ToSet(passed) : Nowhere(name)
  BY <1>2, <1>3, <1>5, BehindIs DEF QuietInv
<1>7. call.step = "notFound" => \A name \in ToSet(call.asked) : Nowhere(name)
  <2>1. SUFFICES ASSUME call.step = "notFound" PROVE \A name \in ToSet(call.asked) : Nowhere(name)
    OBVIOUS
  <2>2. Len(call.names) = 1 /\ NoneThere(places) /\ call.names # <<>>
    BY <1>3, <1>4, <2>1 DEF QuietInv, CallInv, Nameless
  <2>3. /\ IsRest(Tail(call.names), call.asked) /\ Len(Tail(call.names)) = 0
        /\ Behind(Tail(call.names), call.asked) = Behind(call.names, call.asked) \cup {Head(call.names)}
    <3>1. IsRest(Tail(call.names), call.asked) /\ Len(Tail(call.names)) = Len(call.names) - 1
      BY <1>3, <2>2, RestGoesOn
    <3> QED  BY <1>3, <2>2, <3>1, BehindIs
  <2>4. Tail(call.names) = <<>>
    BY <2>3, SequenceIs DEF IsRest
  <2>5. Behind(Tail(call.names), call.asked) = ToSet(call.asked)
    BY <2>3, <2>4, BehindIs
  <2>6. \A name \in Behind(call.names, call.asked) : Nowhere(name)
    BY <1>3, <1>5 DEF QuietInv
  <2> QED  BY <1>4, <1>5, <2>2, <2>3, <2>5, <2>6
<1>8. call.step = "syntax" => SourceNow(t.spot) \in Broken
  <2>1. SUFFICES ASSUME call.step = "syntax" PROVE SourceNow(t.spot) \in Broken
    OBVIOUS
  <2>2. call.step \in Opened /\ t.how # "modules"
    BY <1>2, <1>3, <2>1 DEF Opened, HoldInv
  <2>3. t.source = SourceNow(t.spot) /\ t.source \in Broken
    BY <1>2, <1>3, <2>1, <2>2 DEF QuietInv
  <2> QED  BY <2>3
<1>9. ASSUME call.step = "given"
      PROVE  /\ ~call.cached => t.how = FirstThere(places).how /\ t.spot = FirstThere(places).spot
             /\ t.how # "modules" => t.code = t.source
             /\ ~(call.cached /\ CannotTell(t)) /\ t.how # "modules" =>
                  /\ \E place \in ToSet(places) : place.spot = t.spot /\ There(place)
                  /\ t.code = SourceNow(t.spot)
  <2>1. From(t, places) /\ IsCompiled(t)
    BY <1>2, <1>3, <1>4, <1>9 DEF HoldInv, Coded
  <2>2. CASE call.cached
    <3>1. ASSUME ~CannotTell(t), t.how # "modules"
          PROVE  (\E place \in ToSet(places) : place.spot = t.spot /\ There(place)) /\ t.code = SourceNow(t.spot)
      <4>1. store[t.spot] > 0 /\ t.source = SourceNow(t.spot)
        BY <1>2, <1>3, <1>9, <2>2, <3>1 DEF QuietInv
      <4>2. PICK place \in ToSet(places) : t.how = place.how /\ t.spot = place.spot /\ place.fits
        BY <2>1 DEF From
      <4>3. There(place)
        BY <2>1, <3>1, <4>1, <4>2 DEF There, From
      <4> QED  BY <2>1, <3>1, <4>1, <4>2, <4>3 DEF IsCompiled
    <3> QED  BY <2>1, <2>2, <3>1 DEF IsCompiled
  <2>3. CASE ~call.cached
    <3>1. PICK k \in DOMAIN places : /\ IsFirst(k, places) /\ t.how = places[k].how /\ t.spot = places[k].spot
                                     /\ t.how # "modules" => t.source = SourceNow(t.spot)
      BY <1>2, <1>3, <1>4, <1>9, <2>3 DEF QuietInv
    <3>2. FirstThere(places) = places[k]
      BY <1>4, <3>1, FirstIs
    <3>3. places[k] \in ToSet(places) /\ There(places[k])
      BY <3>1 DEF ToSet, IsFirst
    <3> QED  BY <2>1, <2>3, <3>1, <3>2, <3>3 DEF IsCompiled
  <2> QED  BY <2>2, <2>3
<1> QED  BY <1>2, <1>6, <1>7, <1>8, <1>9

LEMMA LatestIs ==
  ASSUME TemplatesAssumption, TemplatesInv
  PROVE  LatestAreKept
<1>1. PICK u, q, size, n : /\ u = used /\ q = queue /\ n = Len(u)
                           /\ size = IF LRU /\ Len(used) > environment.size THEN environment.size ELSE Len(used)
  OBVIOUS
<1>2. Sequence(u) /\ Once(u) /\ environment.size \in Int /\ n \in Nat /\ DOMAIN u = 1..n
  BY <1>1, LoaderIs, SequenceIs DEF TemplatesInv, CacheInv
<1>3. PICK end : end = SubSeq(u, n - size + 1, n)
  OBVIOUS
<1>4. CASE LRU
  <2>1. /\ IsRest(q, u) /\ DOMAIN mapping = ToSet(q) /\ Len(q) <= environment.size
        /\ Len(q) < environment.size => Len(q) = Len(u)
    BY <1>1, <1>4 DEF TemplatesInv, CacheInv, LRU
  <2>2. Len(q) \in Nat /\ Len(q) <= n /\ Sequence(q)
    BY <1>1, <2>1, SequenceIs DEF IsRest
  <2>3. size = Len(q)
    BY <1>1, <1>2, <1>4, <2>1, <2>2 DEF LRU
  <2>4. end = q
    BY ONLY <1>1, <1>3, <2>1, <2>3, RestIs
  <2> QED  BY <1>1, <1>3, <2>1, <2>4 DEF LatestAreKept
<1>5. CASE ~LRU
  <2>1. size = n /\ DOMAIN mapping = ToSet(u)
    <3>1. size = n
      BY <1>1, <1>5
    <3>2. environment.size = 0 \/ environment.size < 0
      BY <1>2, <1>5 DEF LRU
    <3> QED  BY <1>1, <1>2, <3>1, <3>2, EmptyIs DEF TemplatesInv, CacheInv
  <2>2. IsRest(u, u)
    BY <1>2, RestBegins
  <2>3. end = u
    BY ONLY <1>1, <1>3, <2>1, <2>2, RestIs
  <2> QED  BY <1>1, <1>3, <1>5, <2>1, <2>3 DEF LatestAreKept
<1> QED  BY <1>4, <1>5

LEMMA CompiledIs ==
  ASSUME TemplatesAssumption, TemplatesInv
  PROVE  AllAreCompiled
<1>1. SUFFICES ASSUME NEW c \in Callers, calls[c].step = "compiled", calls[c].quiet,
                      NEW name \in ListTemplates(environment.sources)
      PROVE  LET content == SourceNow(FirstThere(LooksAt(environment.sources, name)).spot)
             IN  content \in Broken \/ (name \in DOMAIN modules /\ modules[name] = content)
  BY DEF AllAreCompiled
<1>2. PICK call, places : /\ call = calls[c] /\ CallerInv(call) /\ call.step = "compiled" /\ call.quiet
                          /\ places = LooksAt(environment.sources, name)
  BY <1>1 DEF TemplatesInv, CallsInv
<1>3. call.compile /\ call.names = <<>> /\ IsRest(call.names, call.asked)
  BY <1>2 DEF CallerInv, CallInv, WhenAsking
<1>4. name \in Behind(call.names, call.asked)
  BY <1>1, <1>2, <1>3, BehindIs DEF CallerInv, CompileInv
<1>5. InFolder(name, places)
  BY <1>2, <1>3, <1>4 DEF CallerInv, CompileInv
<1>6. PICK k \in DOMAIN places : /\ IsFirst(k, places)
                                 /\ \/ SourceNow(places[k].spot) \in Broken
                                    \/ name \in DOMAIN modules /\ modules[name] = SourceNow(places[k].spot)
  BY <1>5 DEF InFolder
<1>7. FirstThere(places) = places[k]
  BY <1>2, <1>6, LoaderIs, PlacesAre, FirstIs DEF TemplatesInv
<1> QED  BY <1>2, <1>6, <1>7

TemplatesSpec == TemplatesInit /\ [][TemplatesNext]_templatesVars

\* An environment gives what its loaders would without the caches, its cache holds the
\* templates asked for last, and what it compiled to a folder is all it has
\* (environment.py, loaders.py, bccache.py and LRUCache of utils.py): while nobody
\* edits under a caller, whatever is edited, cleared or dies before, and however the
\* callers get in each other's way.
THEOREM TemplatesTrue == TemplatesSpec => []TemplatesAreCurrent
<1>1. TemplatesInit => TemplatesInv
  BY TemplatesAssumption, TemplatesStarts
<1>2. TemplatesInv /\ [TemplatesNext]_templatesVars => TemplatesInv'
  BY TemplatesAssumption, TemplatesStep
<1>3. TemplatesInv => TemplatesAreCurrent
  BY TemplatesAssumption, FreshIs, LatestIs, CompiledIs DEF TemplatesAreCurrent
<1> QED
  BY <1>1, <1>2, <1>3, PTL DEF TemplatesSpec

-----------------------------------------------------------------------------
(* The new system.                                                         *)

\* What holds of the first number, and of the next one with every number, holds of all.
LEMMA UpTo ==
  ASSUME NEW N \in Nat, NEW S, N > 0 => 1 \in S, \A n \in 1..(N - 1) : n \in S => n + 1 \in S
  PROVE  1..N \subseteq S
<1> DEFINE T == (1..N) \ S
<1>1. ASSUME T # {} PROVE FALSE
  <2>1. T \subseteq Nat
    OBVIOUS
  <2>2. \E x \in T : \A y \in T : ~(<<y, x>> \in OpToRel(<, Nat))
    BY <1>1, <2>1, NatLessThanWellFounded, WFMin
  <2>3. PICK x \in T : \A y \in T : ~(<<y, x>> \in OpToRel(<, Nat))
    BY <2>2
  <2>4. \A y \in T : ~(y < x)
    BY <2>1, <2>3 DEF OpToRel
  <2>5. x \in 1..N /\ x \notin S /\ x # 1
    OBVIOUS
  <2>6. x - 1 \in 1..(N - 1) /\ x - 1 \notin T /\ (x - 1) + 1 = x
    BY <2>4, <2>5
  <2>7. x - 1 \in S
    BY <2>6
  <2>8. (x - 1) + 1 \in S
    BY <2>6, <2>7
  <2> QED  BY <2>5, <2>6, <2>8
<1> QED  BY <1>1

\* One list after another.
LEMMA BothAre ==
  ASSUME NEW s, NEW t, Sequence(s), Sequence(t)
  PROVE  /\ Sequence(s \o t) /\ Len(s \o t) = Len(s) + Len(t) /\ Len(s) \in Nat /\ Len(t) \in Nat
         /\ \A i \in 1..Len(s) : (s \o t)[i] = s[i]
         /\ \A i \in 1..Len(t) : (s \o t)[Len(s) + i] = t[i]
<1> DEFINE S == ToSet(s) \cup ToSet(t)
<1>1. Len(s) \in Nat /\ Len(t) \in Nat
  BY SequenceIs
<1>2. s \in Seq(S) /\ t \in Seq(S)
  <2>1. \A i \in 1..Len(s) : s[i] \in S
    BY SequenceIs
  <2>2. \A i \in 1..Len(t) : t[i] \in S
    BY SequenceIs
  <2>3. s \in [1..Len(s) -> S] /\ t \in [1..Len(t) -> S]
    BY <1>1, <2>1, <2>2, LenProperties DEF Sequence
  <2> QED  BY <1>1, <2>3, SeqDef
<1> HIDE DEF S
<1>3. /\ s \o t \in Seq(S) /\ Len(s \o t) = Len(s) + Len(t)
      /\ \A i \in 1..(Len(s) + Len(t)) : (s \o t)[i] = IF i <= Len(s) THEN s[i] ELSE t[i - Len(s)]
  BY <1>2, ConcatProperties
<1>4. Sequence(s \o t)
  BY <1>3, SequenceOf
<1>5. PICK u : u = s \o t
  OBVIOUS
<1>6. \A i \in 1..(Len(s) + Len(t)) : u[i] = IF i <= Len(s) THEN s[i] ELSE t[i - Len(s)]
  BY <1>3, <1>5
<1>7. \A i \in 1..Len(s) : u[i] = s[i]
  BY <1>1, <1>6
<1>8. ASSUME NEW i \in 1..Len(t) PROVE u[Len(s) + i] = t[i]
  <2>1. Len(s) + i \in 1..(Len(s) + Len(t)) /\ ~(Len(s) + i <= Len(s)) /\ (Len(s) + i) - Len(s) = i
    BY <1>1
  <2> QED  BY <1>6, <2>1
<1> QED  BY <1>1, <1>3, <1>4, <1>5, <1>7, <1>8

\* A list of one, two or more.
LEMMA ListIs ==
  ASSUME NEW s, NEW n \in Nat, NEW S, s \in [1..n -> S]
  PROVE  Sequence(s) /\ Len(s) = n /\ DOMAIN s = 1..n
<1>1. s \in Seq(S)
  BY SeqDef
<1> QED  BY <1>1, SequenceOf, LenProperties
\* Lists put together, one for one.
Follows(before, list, k) == IF k = 1 THEN list[k] ELSE before[k - 1] \o list[k]
Offset(f, k) == IF k = 1 THEN 0 ELSE Len(f[k - 1])

\* What the lists up to one are, put together.
AllTo(f, lists, n) ==
  /\ Sequence(f[n])
  /\ \A k \in 1..n : \A i \in 1..Len(lists[k]) :
       Offset(f, k) + i \in 1..Len(f[n]) /\ f[n][Offset(f, k) + i] = lists[k][i]
  /\ \A p \in 1..Len(f[n]) : \E k \in 1..n : \E i \in 1..Len(lists[k]) : p = Offset(f, k) + i

LEMMA AllToNext ==
  ASSUME NEW lists, NEW N \in Nat, \A k \in 1..N : Sequence(lists[k]), NEW f, f = [k \in 1..N |-> Follows(f, lists, k)],
         NEW n \in 1..(N - 1), AllTo(f, lists, n)
  PROVE  AllTo(f, lists, n + 1)
<1>1. n \in Nat /\ n + 1 \in 1..N /\ n + 1 # 1 /\ (n + 1) - 1 = n
  OBVIOUS
<1>2. f[n + 1] = f[n] \o lists[n + 1]
  BY <1>1 DEF Follows
<1> DEFINE old == f[n]  new == f[n + 1]  next == lists[n + 1]
<1>3. Sequence(old) /\ Sequence(next)
  BY <1>1 DEF AllTo
<1>4. /\ Sequence(new) /\ Len(new) = Len(old) + Len(next) /\ Len(old) \in Nat /\ Len(next) \in Nat
      /\ \A i \in 1..Len(old) : new[i] = old[i]
      /\ \A i \in 1..Len(next) : new[Len(old) + i] = next[i]
  <2> HIDE DEF old, new, next
  <2>1. PICK both : both = old \o next
    OBVIOUS
  <2>2. /\ Sequence(both) /\ Len(both) = Len(old) + Len(next) /\ Len(old) \in Nat /\ Len(next) \in Nat
        /\ \A i \in 1..Len(old) : both[i] = old[i]
        /\ \A i \in 1..Len(next) : both[Len(old) + i] = next[i]
    BY ONLY <1>3, <2>1, BothAre
  <2>3. new = both
    BY <1>2, <2>1 DEF old, new, next
  <2> QED  BY ONLY <2>2, <2>3
<1>5. Offset(f, n + 1) = Len(old)
  BY <1>1 DEF Offset
<1>6. /\ \A k \in 1..n : \A i \in 1..Len(lists[k]) : Offset(f, k) + i \in 1..Len(old) /\ old[Offset(f, k) + i] = lists[k][i]
      /\ \A p \in 1..Len(old) : \E k \in 1..n : \E i \in 1..Len(lists[k]) : p = Offset(f, k) + i
  BY DEF AllTo
<1> HIDE DEF old, new, next
<1>7. ASSUME NEW k \in 1..(n + 1), NEW i \in 1..Len(lists[k])
      PROVE  Offset(f, k) + i \in 1..Len(new) /\ new[Offset(f, k) + i] = lists[k][i]
  <2>1. CASE k = n + 1
    <3>1. i \in 1..Len(next) /\ lists[k] = next
      BY <1>7, <2>1 DEF next
    <3>2. Offset(f, k) = Len(old)
      BY <1>5, <2>1
    <3>3. Len(old) + i \in 1..Len(new)
      BY ONLY <1>4, <3>1
    <3>4. new[Len(old) + i] = next[i]
      BY <1>4, <3>1
    <3> QED  BY <3>1, <3>2, <3>3, <3>4
  <2>2. CASE k # n + 1
    <3>1. k \in 1..n
      BY <1>1, <2>2
    <3>2. Offset(f, k) + i \in 1..Len(old) /\ old[Offset(f, k) + i] = lists[k][i]
      BY <1>6, <3>1
    <3> QED  BY <1>4, <3>2
  <2> QED  BY <2>1, <2>2
<1>8. ASSUME NEW p \in 1..Len(new) PROVE \E k \in 1..(n + 1) : \E i \in 1..Len(lists[k]) : p = Offset(f, k) + i
  <2>1. CASE p <= Len(old)
    <3>1. p \in 1..Len(old)
      BY <1>4, <2>1
    <3>2. PICK k \in 1..n : \E i \in 1..Len(lists[k]) : p = Offset(f, k) + i
      BY <1>6, <3>1
    <3>3. k \in 1..(n + 1)
      BY <1>1
    <3> QED  BY <3>2, <3>3
  <2>2. CASE ~(p <= Len(old))
    <3>0. PICK i : i = p - Len(old)
      OBVIOUS
    <3>1. i \in 1..Len(next) /\ p = Len(old) + i
      BY ONLY <1>4, <2>2, <3>0, p \in 1..Len(new)
    <3>3. i \in 1..Len(lists[n + 1]) /\ p = Offset(f, n + 1) + i
      BY <1>5, <3>1 DEF next
    <3>2. n + 1 \in 1..(n + 1)
      BY <1>1
    <3> QED  BY <3>2, <3>3
  <2> QED  BY <2>1, <2>2
<1> QED  BY <1>4, <1>7, <1>8 DEF AllTo, new

\* Such a function there is.
LEMMA FollowingExists ==
  ASSUME NEW lists, NEW N \in Nat
  PROVE  \E f : f = [k \in 1..N |-> Follows(f, lists, k)]
<1> DEFINE Has(n) == \E f : f = [k \in 1..n |-> Follows(f, lists, k)]
           S == {n \in 0..N : Has(n)}
<1>1. CASE N = 0
  <2>1. PICK f : f = [k \in 1..0 |-> 0]
    OBVIOUS
  <2>2. f = [k \in 1..N |-> Follows(f, lists, k)]
    BY <1>1, <2>1
  <2> QED  BY <2>2
<1>2. CASE N > 0
  <2>1. 1 \in S
    <3>1. PICK f : f = [k \in 1..1 |-> lists[k]]
      OBVIOUS
    <3>2. f = [k \in 1..1 |-> Follows(f, lists, k)]
      BY <3>1 DEF Follows
    <3> QED  BY <1>2, <3>2
  <2>2. ASSUME NEW n \in 1..(N - 1), n \in S PROVE n + 1 \in S
    <3>1. PICK f : f = [k \in 1..n |-> Follows(f, lists, k)]
      BY <2>2
    <3>2. PICK g : g = [k \in 1..(n + 1) |-> IF k = n + 1 THEN Follows(f, lists, k) ELSE f[k]]
      OBVIOUS
    <3>3. n \in Nat /\ n + 1 \in 0..N
      OBVIOUS
    <3>4. ASSUME NEW k \in 1..(n + 1) PROVE g[k] = Follows(g, lists, k)
      <4>1. k # 1 => k - 1 \in 1..n /\ g[k - 1] = f[k - 1]
        BY <3>2, <3>3
      <4>2. Follows(g, lists, k) = Follows(f, lists, k)
        BY <4>1 DEF Follows
      <4>3. CASE k = n + 1
        BY <3>2, <4>2, <4>3
      <4>4. CASE k # n + 1
        <5>1. k \in 1..n
          BY <3>3, <4>4
        <5>2. f[k] = Follows(f, lists, k)
          BY <3>1, <5>1
        <5> QED  BY <3>2, <4>2, <4>4, <5>2
      <4> QED  BY <4>3, <4>4
    <3>5. g = [k \in 1..(n + 1) |-> g[k]]
      BY <3>2
    <3>6. g = [k \in 1..(n + 1) |-> Follows(g, lists, k)]
      BY <3>4, <3>5
    <3>7. Has(n + 1)
      BY <3>6
    <3> QED  BY <3>3, <3>7
  <2> HIDE DEF S
  <2>3. 1..N \subseteq S
    BY <2>1, <2>2, UpTo
  <2>4. N \in S
    BY <1>2, <2>3
  <2> QED  BY <2>4 DEF S
<1> QED  BY <1>1, <1>2

\* A list is others put together, each at its place.
PutTogether(all, lists) ==
  /\ Sequence(all)
  /\ \E at :
       /\ \A k \in 1..Len(lists) : at[k] \in Nat
       /\ \A k \in 1..Len(lists) : \A i \in 1..Len(lists[k]) : at[k] + i \in 1..Len(all) /\ all[at[k] + i] = lists[k][i]
       /\ \A p \in 1..Len(all) : \E k \in 1..Len(lists) : \E i \in 1..Len(lists[k]) : p = at[k] + i

LEMMA FlattenIs ==
  ASSUME NEW lists, Sequence(lists), \A k \in DOMAIN lists : Sequence(lists[k])
  PROVE  PutTogether(FlattenSeq(lists), lists)
<1> DEFINE N == Len(lists)
<1>1. N \in Nat /\ DOMAIN lists = 1..N /\ (N = 0 <=> lists = <<>>)
  BY SequenceIs
<1>2. CASE N = 0
  <2>1. FlattenSeq(lists) = <<>>
    BY <1>1, <1>2 DEF FlattenSeq
  <2>2. Sequence(<<>>) /\ Len(<<>>) = 0
    BY EmptyIs
  <2>3. PutTogether(<<>>, lists)
    BY <1>2, <2>2 DEF PutTogether
  <2> QED  BY <2>1, <2>3
<1>3. CASE N > 0
  <2> HIDE DEF N
  <2> DEFINE f == CHOOSE f : f = [k \in 1..N |-> IF k = 1 THEN lists[k] ELSE f[k - 1] \o lists[k]]
  <2>1. FlattenSeq(lists) = f[N]
    BY <1>3 DEF FlattenSeq, N
  <2>2. f = [k \in 1..N |-> Follows(f, lists, k)]
    <3>1. \E g : g = [k \in 1..N |-> IF k = 1 THEN lists[k] ELSE g[k - 1] \o lists[k]]
      BY <1>1, FollowingExists DEF Follows
    <3>2. f = [k \in 1..N |-> IF k = 1 THEN lists[k] ELSE f[k - 1] \o lists[k]]
      BY <3>1
    <3> HIDE DEF f
    <3> QED  BY <3>2 DEF Follows
  <2> HIDE DEF f
  <2> DEFINE S == {n \in 1..N : AllTo(f, lists, n)}
  <2>3. \A k \in 1..N : Sequence(lists[k])
    BY <1>1
  <2>4. 1 \in S
    <3>1. f[1] = lists[1] /\ Offset(f, 1) = 0
      BY <1>1, <1>3, <2>2 DEF Follows, Offset
    <3>2. Sequence(lists[1]) /\ Len(lists[1]) \in Nat
      BY <1>1, <1>3, <2>3, SequenceIs
    <3>3. \A k \in 1..1 : k = 1
      OBVIOUS
    <3>4. AllTo(f, lists, 1)
      BY <3>1, <3>2, <3>3 DEF AllTo
    <3> QED  BY <1>1, <1>3, <3>4
  <2>5. ASSUME NEW n \in 1..(N - 1), n \in S PROVE n + 1 \in S
    <3>1. AllTo(f, lists, n + 1)
      BY <1>1, <2>2, <2>3, <2>5, AllToNext
    <3> QED  BY <1>1, <3>1
  <2> HIDE DEF S
  <2>6. 1..N \subseteq S
    BY <1>1, <2>4, <2>5, UpTo
  <2>7. N \in S /\ N \in 1..N
    BY <1>1, <1>3, <2>6
  <2>8. AllTo(f, lists, N)
    BY <2>7 DEF S
  <2>9. ASSUME NEW n \in 1..N PROVE Offset(f, n) \in Nat
    <3>1. CASE n = 1
      BY <3>1 DEF Offset
    <3>2. CASE n # 1
      <4>1. n - 1 \in 1..N
        BY <1>1, <3>2
      <4>2. Sequence(f[n - 1])
        BY <2>6, <4>1 DEF S, AllTo
      <4> QED  BY <3>2, <4>2, SequenceIs DEF Offset
    <3> QED  BY <3>1, <3>2
  <2>10. PICK at : at = [k \in 1..N |-> Offset(f, k)]
    OBVIOUS
  <2>11. \A k \in 1..N : at[k] = Offset(f, k) /\ at[k] \in Nat
    BY <2>9, <2>10
  <2>12. PICK all : all = FlattenSeq(lists)
    OBVIOUS
  <2>13. /\ Sequence(all)
         /\ \A k \in 1..N : \A i \in 1..Len(lists[k]) : at[k] + i \in 1..Len(all) /\ all[at[k] + i] = lists[k][i]
         /\ \A p \in 1..Len(all) : \E k \in 1..N : \E i \in 1..Len(lists[k]) : p = at[k] + i
    <3>1. all = f[N]
      BY <2>1, <2>12
    <3>2. Sequence(all)
      BY <2>8, <3>1 DEF AllTo
    <3>3. ASSUME NEW k \in 1..N, NEW i \in 1..Len(lists[k])
          PROVE  at[k] + i \in 1..Len(all) /\ all[at[k] + i] = lists[k][i]
      BY <2>8, <2>11, <3>1 DEF AllTo
    <3>4. ASSUME NEW p \in 1..Len(all) PROVE \E k \in 1..N : \E i \in 1..Len(lists[k]) : p = at[k] + i
      BY <2>8, <2>11, <3>1 DEF AllTo
    <3> QED  BY <3>2, <3>3, <3>4
  <2>14. PutTogether(all, lists)
    BY ONLY <2>11, <2>13 DEF PutTogether, N
  <2> QED  BY ONLY <2>12, <2>14
<1> QED  BY <1>1, <1>2, <1>3

PastUndivert == {"clean", "done"}
PastConfig == {"post", "undivert"} \cup PastUndivert
PastPackages == {"update", "fullConfig"} \cup PastConfig
PastUsers == {"packages"} \cup PastPackages
PastBase == {"users"} \cup PastUsers
PastSources == {"baseConfig", "divert", "preBase", "base"} \cup PastBase
PastBootstrap == {"sources"} \cup PastSources

\* The commands that a part is made of.
Kinds(p) ==
  CASE p = "bootstrap" -> {"unpack", "copy", "get", "install", "makedirs"}
    [] p = "sources" -> {"clearRepos", "get", "key", "render", "lists"}
    [] p = "divert" -> {"divert"}
    [] p = "base" -> {"install", "run", "clearRepos", "render"}
    [] p = "users" -> {"run", "addgroup", "useradd", "sudo"}
    [] p = "packages" -> {"install", "query"}
    [] p \in {"baseConfig", "preBase", "fullConfig"} -> {"render", "run"}
    [] p \in {"update", "post", "clean"} -> {"lists", "get", "write", "run"}
    [] p = "undivert" -> {"restore"}
    [] OTHER -> {}

\* Where the installer is, and what it has before it.
PartInv ==
  /\ profile \in Profiles /\ valueMap \in ValueMaps
  /\ part \in {"bootstrap", "failed"} \cup PastBootstrap
  /\ Sequence(work) /\ \A c \in ToSet(work) : c.do \in Kinds(part)
  /\ DOMAIN system = {"files", "keys", "repos", "written", "packages", "diverted", "groups", "users", "sudo"}
  /\ DOMAIN system.files = {"hostname", "resolv", "stub"} /\ Sequence(system.keys) /\ Sequence(system.sudo)

\* A file of the installer is copied after the last image that has one.
Copied(f) ==
  \/ profile.bootstrap = "tarxz" /\ f \in {"stub", "hostname"}
  \/ profile.bootstrap = "redhatimg" /\ f = "resolv" /\ (profile.live \/ "resolv" \notin image)
CopiesLast(f, list) ==
  \A i \in DOMAIN list : list[i].do = "unpack" /\ f \in list[i].what =>
    \E j \in DOMAIN list : j > i /\ list[j] = Command("copy", f)
FilesInv ==
  \A f \in {"hostname", "resolv", "stub"} : Copied(f) =>
    /\ part = "bootstrap" =>
         (system.files[f] = "installer" \/ Command("copy", f) \in ToSet(work)) /\ CopiesLast(f, work)
    /\ part \in PastBootstrap => system.files[f] = "installer"

\* A key is known, or is to come, once.
KeysOf(list) == {c.what : c \in {c \in ToSet(list) : c.do = "key"}}
KeysOnce(list) ==
  \A i, j \in DOMAIN list : list[i].do = "key" /\ list[j].do = "key" /\ list[j].what = list[i].what => i = j
OwnKeys == {KeyOf(valueMap.repos[k]) : k \in {k \in DOMAIN valueMap.repos : NewKey(k) /\ IsUsed(valueMap.repos[k])}}
KeysInv ==
  /\ Once(system.keys)
  /\ part = "bootstrap" => system.keys = <<>>
  /\ part = "sources" =>
       /\ ToSet(system.keys) \cup KeysOf(work) = OwnKeys /\ ToSet(system.keys) \cap KeysOf(work) = {}
       /\ KeysOnce(work)
  /\ part \in PastSources => ToSet(system.keys) = OwnKeys

\* The repositories of others are gone before those of the configuration are
\* written.
OwnRepos == Yum /\ "repos" \in ToSet(profile.sources) \cap TemplateFiles
Clears(c) == c.do = "clearRepos"
Writes(c) == c.do = "render" /\ "repos" \in c.what
WritesLast(list) ==
  /\ \A i \in DOMAIN list : list[i].do = "install" => \E j \in DOMAIN list : j > i /\ Clears(list[j])
  /\ \A i \in DOMAIN list : Clears(list[i]) => \E j \in DOMAIN list : j > i /\ Writes(list[j])
ReposInv ==
  OwnRepos =>
    /\ part = "sources" \/ (part = "base" /\ profile.base # {}) =>
         /\ WritesLast(work)
         /\ (\E c \in ToSet(work) : Clears(c)) \/ system.repos \subseteq {"repos"}
         /\ (\E c \in ToSet(work) : Writes(c)) \/ system.repos = {"repos"}
    /\ part \in {"baseConfig", "divert", "preBase"} => system.repos = {"repos"}
    /\ part = "users" /\ profile.base # {} => system.repos = {"repos"}

\* A service is diverted, or is to be.
Diverts == {"preBase", "base", "users", "packages", "update", "fullConfig", "post"}
DivertInv ==
  /\ part \in {"bootstrap", "sources", "baseConfig"} \cup PastUndivert => system.diverted = {}
  /\ part \in Diverts => system.diverted = IF Apt THEN Services ELSE {}
  /\ part \in {"divert", "undivert"} =>
       /\ system.diverted \subseteq (IF Apt THEN Services ELSE {})
       /\ \A c \in ToSet(work) : Apt /\ c.what \in Services
  /\ part = "divert" /\ Apt => \A s \in Services : s \in system.diverted \/ Command("divert", s) \in ToSet(work)
  /\ part = "undivert" => \A s \in system.diverted : Command("restore", s) \in ToSet(work)

\* What is installed was asked for, and what is asked for is installed.
Asked == OtherPackages \cup FirstPackages
PackagesInv ==
  /\ system.packages \subseteq Asked
  /\ \A c \in ToSet(work) : c.do = "install" => c.what \subseteq Asked
  /\ part = "base" => profile.base \subseteq system.packages \/ Command("install", profile.base) \in ToSet(work)
  /\ part \in PastBase => profile.base \subseteq system.packages
  /\ part = "packages" =>
       \/ OtherPackages \subseteq system.packages
       \/ Command(IF Yum THEN "query" ELSE "install", OtherPackages) \in ToSet(work)
  /\ part \in PastPackages => OtherPackages \subseteq system.packages

\* A user is made, or is to be, before the lines of sudo.
Made(u) == u.name \in system.users /\ (u.group # "" => u.group \in system.groups)
SudoNext(list) ==
  \A i \in DOMAIN list : list[i].do = "sudo" /\ i > 1 =>
    list[i - 1].do = "useradd" /\ list[i - 1].what.name = list[i].what
UsersInv ==
  /\ part = "users" => \A u \in ToSet(valueMap.users) : Made(u) \/ Command("useradd", u) \in ToSet(work)
  /\ part \in PastUsers => \A u \in ToSet(valueMap.users) : Made(u)
  /\ Once(system.sudo) /\ ToSet(system.sudo) \subseteq system.users
  /\ work # <<>> /\ Head(work).do = "sudo" => Head(work).what \in system.users \ ToSet(system.sudo)
  /\ part = "users" => SudoNext(work)

WrittenInv ==
  /\ part = "fullConfig" => TemplateFiles \subseteq system.written \/ Command("render", TemplateFiles) \in ToSet(work)
  /\ part \in PastConfig => TemplateFiles \subseteq system.written

NewSystemInv ==
  PartInv /\ FilesInv /\ KeysInv /\ ReposInv /\ DivertInv /\ PackagesInv /\ UsersInv /\ WrittenInv

\* A list is two put together.
Joined(s, t, u) ==
  /\ Sequence(u) /\ ToSet(u) = ToSet(s) \cup ToSet(t)
  /\ DOMAIN s = 1..Len(s) /\ DOMAIN t = 1..Len(t) /\ DOMAIN u = 1..(Len(s) + Len(t))
  /\ Len(s) \in Nat /\ Len(t) \in Nat
  /\ \A p \in DOMAIN u :
       \/ p \in DOMAIN s /\ u[p] = s[p]
       \/ \E i \in DOMAIN t : p = Len(s) + i /\ u[p] = t[i]
  /\ \A i \in DOMAIN s : i \in DOMAIN u /\ u[i] = s[i]
  /\ \A i \in DOMAIN t : Len(s) + i \in DOMAIN u /\ u[Len(s) + i] = t[i]

LEMMA BothHold ==
  ASSUME NEW s, NEW t, NEW u, Sequence(s), Sequence(t), u = s \o t
  PROVE  Joined(s, t, u)
<1>2. /\ Sequence(u) /\ Len(u) = Len(s) + Len(t) /\ Len(s) \in Nat /\ Len(t) \in Nat
      /\ \A i \in 1..Len(s) : u[i] = s[i]
      /\ \A i \in 1..Len(t) : u[Len(s) + i] = t[i]
  BY ONLY u = s \o t, Sequence(s), Sequence(t), BothAre
<1>3. DOMAIN s = 1..Len(s) /\ DOMAIN t = 1..Len(t) /\ DOMAIN u = 1..(Len(s) + Len(t))
  BY <1>2, SequenceIs
<1>4. ASSUME NEW p \in DOMAIN u
      PROVE \/ p \in DOMAIN s /\ u[p] = s[p]
            \/ \E i \in DOMAIN t : p = Len(s) + i /\ u[p] = t[i]
  <2>1. CASE p <= Len(s)
    BY <1>2, <1>3, <2>1
  <2>2. CASE ~(p <= Len(s))
    <3>1. PICK i : i = p - Len(s)
      OBVIOUS
    <3>2. i \in 1..Len(t) /\ p = Len(s) + i
      BY <1>2, <1>3, <2>2, <3>1
    <3>3. u[Len(s) + i] = t[i]
      BY <1>2, <3>2
    <3> QED  BY <1>3, <3>2, <3>3
  <2> QED  BY <2>1, <2>2
<1>5. /\ \A i \in DOMAIN s : i \in DOMAIN u /\ u[i] = s[i]
      /\ \A i \in DOMAIN t : Len(s) + i \in DOMAIN u /\ u[Len(s) + i] = t[i]
  BY <1>2, <1>3
<1>6. ToSet(u) = ToSet(s) \cup ToSet(t)
  <2>1. ToSet(u) \subseteq ToSet(s) \cup ToSet(t)
    BY <1>4 DEF ToSet
  <2>2. ToSet(s) \subseteq ToSet(u)
    BY ONLY <1>5 DEF ToSet
  <2>3. ToSet(t) \subseteq ToSet(u)
    BY ONLY <1>5 DEF ToSet
  <2> QED  BY <2>1, <2>2, <2>3
<1> QED  BY ONLY <1>2, <1>3, <1>4, <1>5, <1>6 DEF Joined

\* Short lists.
LEMMA ShortLists ==
  /\ Sequence(<<>>) /\ Len(<<>>) = 0 /\ DOMAIN <<>> = {} /\ ToSet(<<>>) = {}
  /\ \A a : Sequence(<<a>>) /\ Len(<<a>>) = 1 /\ DOMAIN <<a>> = {1} /\ <<a>>[1] = a /\ ToSet(<<a>>) = {a}
  /\ \A a, b : /\ Sequence(<<a, b>>) /\ Len(<<a, b>>) = 2 /\ DOMAIN <<a, b>> = {1, 2} /\ ToSet(<<a, b>>) = {a, b}
               /\ <<a, b>>[1] = a /\ <<a, b>>[2] = b
  /\ \A a, b, c : /\ Sequence(<<a, b, c>>) /\ Len(<<a, b, c>>) = 3 /\ DOMAIN <<a, b, c>> = {1, 2, 3}
                  /\ ToSet(<<a, b, c>>) = {a, b, c}
                  /\ <<a, b, c>>[1] = a /\ <<a, b, c>>[2] = b /\ <<a, b, c>>[3] = c
  /\ \A a, b, c, d, e :
       /\ Sequence(<<a, b, c, d, e>>) /\ DOMAIN <<a, b, c, d, e>> = 1..5 /\ ToSet(<<a, b, c, d, e>>) = {a, b, c, d, e}
       /\ <<a, b, c, d, e>>[1] = a /\ <<a, b, c, d, e>>[2] = b /\ <<a, b, c, d, e>>[3] = c
       /\ <<a, b, c, d, e>>[4] = d /\ <<a, b, c, d, e>>[5] = e
<1>1. Sequence(<<>>) /\ Len(<<>>) = 0 /\ DOMAIN <<>> = {} /\ ToSet(<<>>) = {}
  BY EmptyIs
<1>2. ASSUME NEW a PROVE Sequence(<<a>>) /\ Len(<<a>>) = 1 /\ DOMAIN <<a>> = {1} /\ <<a>>[1] = a /\ ToSet(<<a>>) = {a}
  <2>1. Sequence(<<a>>)
    BY <<a>> \in Seq({a}), SequenceOf
  <2> QED  BY <2>1 DEF ToSet
<1>3. ASSUME NEW a, NEW b
      PROVE  /\ Sequence(<<a, b>>) /\ Len(<<a, b>>) = 2 /\ DOMAIN <<a, b>> = {1, 2} /\ ToSet(<<a, b>>) = {a, b}
             /\ <<a, b>>[1] = a /\ <<a, b>>[2] = b
  <2>1. Sequence(<<a, b>>)
    BY <<a, b>> \in Seq({a, b}), SequenceOf
  <2> QED  BY <2>1 DEF ToSet
<1>4. ASSUME NEW a, NEW b, NEW c
      PROVE  /\ Sequence(<<a, b, c>>) /\ Len(<<a, b, c>>) = 3 /\ DOMAIN <<a, b, c>> = {1, 2, 3} /\ ToSet(<<a, b, c>>) = {a, b, c}
             /\ <<a, b, c>>[1] = a /\ <<a, b, c>>[2] = b /\ <<a, b, c>>[3] = c
  <2>1. Sequence(<<a, b, c>>)
    BY <<a, b, c>> \in Seq({a, b, c}), SequenceOf
  <2> QED  BY <2>1 DEF ToSet
<1>5. ASSUME NEW a, NEW b, NEW c, NEW d, NEW e
      PROVE  /\ Sequence(<<a, b, c, d, e>>) /\ DOMAIN <<a, b, c, d, e>> = 1..5 /\ ToSet(<<a, b, c, d, e>>) = {a, b, c, d, e}
             /\ <<a, b, c, d, e>>[1] = a /\ <<a, b, c, d, e>>[2] = b /\ <<a, b, c, d, e>>[3] = c
             /\ <<a, b, c, d, e>>[4] = d /\ <<a, b, c, d, e>>[5] = e
  <2>1. Sequence(<<a, b, c, d, e>>)
    BY <<a, b, c, d, e>> \in Seq({a, b, c, d, e}), SequenceOf
  <2> QED  BY <2>1 DEF ToSet
<1> QED  BY <1>1, <1>2, <1>3, <1>4, <1>5

\* What is left of the commands.
LEMMA HeadAndTail ==
  ASSUME NEW s, Sequence(s), s # <<>>
  PROVE  /\ Sequence(Tail(s)) /\ ToSet(s) = {Head(s)} \cup ToSet(Tail(s)) /\ Head(s) = s[1]
         /\ 1 \in DOMAIN s /\ (Tail(s) # <<>> => 2 \in DOMAIN s /\ Head(Tail(s)) = s[2])
         /\ \A i \in DOMAIN Tail(s) : i + 1 \in DOMAIN s /\ Tail(s)[i] = s[i + 1] /\ i \in Nat \ {0}
         /\ \A i \in DOMAIN s : i \in Nat \ {0} /\ (i # 1 => i - 1 \in DOMAIN Tail(s) /\ Tail(s)[i - 1] = s[i])
<1>1. PICK t : t = Tail(s)
  OBVIOUS
<1>2. Sequence(t) /\ Len(t) = Len(s) - 1 /\ Len(s) \in Nat \ {0} /\ \A i \in 1..(Len(s) - 1) : t[i] = s[i + 1]
  BY <1>1, TailIs
<1>3. DOMAIN s = 1..Len(s) /\ DOMAIN t = 1..(Len(s) - 1) /\ Head(s) = s[1] /\ (t # <<>> => Len(t) > 0 /\ Head(t) = t[1])
  BY <1>2, SequenceIs
<1>4. \A i \in DOMAIN t : i + 1 \in DOMAIN s /\ t[i] = s[i + 1] /\ i \in Nat \ {0}
  BY <1>2, <1>3
<1>5. ASSUME NEW i \in DOMAIN s PROVE i \in Nat \ {0} /\ (i # 1 => i - 1 \in DOMAIN t /\ t[i - 1] = s[i])
  <2>1. i # 1 => i - 1 \in 1..(Len(s) - 1) /\ (i - 1) + 1 = i
    BY <1>2, <1>3
  <2>2. i # 1 => t[i - 1] = s[(i - 1) + 1]
    BY <1>2, <2>1
  <2> QED  BY <1>2, <1>3, <2>1, <2>2
<1>6. ToSet(s) = {s[1]} \cup ToSet(t)
  <2>1. ToSet(s) \subseteq {s[1]} \cup ToSet(t)
    BY <1>5 DEF ToSet
  <2>2. {s[1]} \cup ToSet(t) \subseteq ToSet(s)
    BY <1>2, <1>3, <1>4 DEF ToSet
  <2> QED  BY <2>1, <2>2
<1>7. 1 \in DOMAIN s /\ (t # <<>> => 2 \in DOMAIN s /\ Head(t) = s[2])
  BY <1>2, <1>3
<1> QED  BY ONLY <1>1, <1>2, <1>3, <1>4, <1>5, <1>6, <1>7

\* A number of a kind has a smallest one.
LEMMA FirstOf ==
  ASSUME NEW S, S \subseteq Nat, S # {}
  PROVE  \E i \in S : \A j \in S : i <= j
<1>1. \E i \in S : \A j \in S : ~(<<j, i>> \in OpToRel(<, Nat))
  BY NatLessThanWellFounded, WFMin
<1>2. PICK i \in S : \A j \in S : ~(<<j, i>> \in OpToRel(<, Nat))
  BY <1>1
<1>3. \A j \in S : ~(j < i)
  BY <1>2 DEF OpToRel
<1> QED  BY <1>3

\* What the assumption says of the lists there are.
LEMMA ValuesAre ==
  ASSUME NewSystemAssumption, profile \in Profiles, valueMap \in ValueMaps
  PROVE  /\ Sequence(valueMap.repos) /\ Sequence(valueMap.users)
         /\ Sequence(profile.packages) /\ Sequence(valueMap.packages)
         /\ profile.bootstrap \in {"debbootstrap", "redhatimg", "tarxz"} /\ IsFiniteSet(Services)
         /\ Yum => profile.base \cap NoSuchPackage = {}
BY DEF NewSystemAssumption, Yum, Sequence

\* The names of packages that are for the manager at hand.
LEMMA PackagesAre ==
  ASSUME NewSystemAssumption, profile \in Profiles, valueMap \in ValueMaps
  PROVE  OtherPackages = {p[2] : p \in {p \in NamedPackages : p[1] \in {"", profile.manager}}}
<1>1. Sequence(profile.packages) /\ Sequence(valueMap.packages)
  BY ValuesAre
<1>2. PICK all : all = profile.packages \o valueMap.packages
  OBVIOUS
<1>3. Joined(profile.packages, valueMap.packages, all)
  BY <1>1, <1>2, BothHold, Zenon
<1>4. ToSet(all) = NamedPackages
  BY <1>3 DEF NamedPackages, Joined
<1> QED  BY <1>2, <1>4 DEF OtherPackages, ForManager

\* A URI is new once.
LEMMA NewOnce ==
  ASSUME NewSystemAssumption, profile \in Profiles, valueMap \in ValueMaps,
         NEW k \in DOMAIN valueMap.repos, NEW l \in DOMAIN valueMap.repos, NewKey(k), NewKey(l),
         valueMap.repos[k].uri = valueMap.repos[l].uri
  PROVE  k = l
<1>1. k \in Nat \ {0} /\ l \in Nat \ {0}
  <2>1. Sequence(valueMap.repos)
    BY ValuesAre, Zenon
  <2>2. DOMAIN valueMap.repos = 1..Len(valueMap.repos) /\ Len(valueMap.repos) \in Nat
    BY <2>1, SequenceIs
  <2> QED
    BY <2>2
<1>2. Own(valueMap.repos[k]) /\ Own(valueMap.repos[l])
  BY DEF NewKey, HasKey
<1>3. ~(k < l)
  <2>1. k < l => k \in 1..(l - 1)
    BY <1>1
  <2> QED  BY <1>2, <2>1 DEF NewKey
<1>4. ~(l < k)
  <2>1. l < k => l \in 1..(k - 1)
    BY <1>1
  <2> QED  BY <1>2, <2>1 DEF NewKey
<1> QED  BY <1>1, <1>3, <1>4

\* Each key of the kind comes once.
LEMMA KeyCommandsAre ==
  ASSUME NewSystemAssumption, profile \in Profiles, valueMap \in ValueMaps
  PROVE  /\ Sequence(KeyCommands) /\ \A c \in ToSet(KeyCommands) : c.do \in {"get", "key"}
         /\ KeysOf(KeyCommands) = OwnKeys /\ KeysOnce(KeyCommands)
<1> DEFINE repos == valueMap.repos
           key(k) == Command("key", KeyOf(repos[k]))
           Pair(k) == <<Command("get", "key")>> \o When(IsUsed(repos[k]), <<key(k)>>)
           lists == [k \in DOMAIN repos |-> When(NewKey(k), Pair(k))]
<1>1. Sequence(repos) /\ Len(repos) \in Nat /\ DOMAIN repos = 1..Len(repos)
  BY ValuesAre, SequenceIs
<1>2. DOMAIN lists = DOMAIN repos /\ \A k \in DOMAIN repos : lists[k] = IF NewKey(k) THEN Pair(k) ELSE <<>>
  BY DEF When
<1>3. ASSUME NEW k
      PROVE  /\ Sequence(Pair(k)) /\ Pair(k)[1] = Command("get", "key")
             /\ Len(Pair(k)) = IF IsUsed(repos[k]) THEN 2 ELSE 1
             /\ IsUsed(repos[k]) => Pair(k)[2] = key(k)
  <2>1. PICK get, it : get = Command("get", "key") /\ it = key(k)
    OBVIOUS
  <2>2. CASE IsUsed(repos[k])
    <3>1. Pair(k) = <<get>> \o <<it>>
      BY <2>1, <2>2 DEF When
    <3>2. PICK g, t, both : g = <<get>> /\ t = <<it>> /\ both = g \o t
      OBVIOUS
    <3>3. /\ g \in Seq({get, it}) /\ t \in Seq({get, it}) /\ Len(g) = 1 /\ Len(t) = 1 /\ g[1] = get /\ t[1] = it
      BY <3>2
    <3>4. /\ both \in Seq({get, it}) /\ Len(both) = Len(g) + Len(t)
          /\ \A i \in 1..(Len(g) + Len(t)) : both[i] = IF i <= Len(g) THEN g[i] ELSE t[i - Len(g)]
      BY <3>2, <3>3, ConcatProperties
    <3>5. both[1] = get /\ both[2] = it /\ Len(both) = 2 /\ Sequence(both)
      BY <3>3, <3>4, SequenceOf
    <3>6. Pair(k) = both
      BY <3>1, <3>2
    <3> HIDE DEF Pair, key
    <3> QED  BY <2>1, <2>2, <3>5, <3>6
  <2>3. CASE ~IsUsed(repos[k])
    <3>1. Pair(k) = <<get>> \o <<>>
      BY <2>1, <2>3 DEF When
    <3>2. <<get>> \o <<>> = <<get>>
      OBVIOUS
    <3> HIDE DEF Pair, key
    <3> QED  BY <2>1, <2>3, <3>1, <3>2, ShortLists
  <2> QED  BY <2>2, <2>3
<1>6. KeyCommands = FlattenSeq(lists)
  BY DEF KeyCommands
<1>5. Sequence(lists) /\ Len(lists) = Len(repos)
  <2>1. lists \in [1..Len(repos) -> ToSet(lists)]
    BY <1>1 DEF ToSet
  <2> HIDE DEF lists
  <2> QED  BY <1>1, <2>1, ListIs
<1> HIDE DEF Pair, lists
<1>4. \A k \in DOMAIN repos : Sequence(lists[k])
  <2>1. Sequence(<<>>)
    BY ShortLists
  <2> QED  BY ONLY <1>2, <1>3, <2>1
<1>7. PICK all : all = KeyCommands
  OBVIOUS
<1>8. PutTogether(all, lists)
  BY <1>2, <1>4, <1>5, <1>6, <1>7, FlattenIs
<1> DEFINE K == 1..Len(lists)
<1>9. PICK at : /\ \A k \in K : at[k] \in Nat
                /\ \A k \in K : \A i \in 1..Len(lists[k]) : at[k] + i \in 1..Len(all) /\ all[at[k] + i] = lists[k][i]
                /\ \A p \in 1..Len(all) : \E k \in K : \E i \in 1..Len(lists[k]) : p = at[k] + i
  BY <1>8 DEF PutTogether
<1> HIDE DEF K
<1>17. DOMAIN repos = K
  BY <1>1, <1>5 DEF K
<1>10. Sequence(all) /\ DOMAIN all = 1..Len(all)
  BY <1>8, SequenceIs DEF PutTogether
<1>18. \A k : key(k).do = "key" /\ key(k).what = KeyOf(repos[k]) /\ Command("get", "key").do = "get"
  BY DEF Command
<1> HIDE DEF key
<1>11. ASSUME NEW p \in DOMAIN all
       PROVE \E k \in DOMAIN repos : /\ NewKey(k)
                                     /\ \/ all[p] = Command("get", "key")
                                        \/ p = at[k] + 2 /\ IsUsed(repos[k]) /\ all[p] = key(k)
  <2>1. PICK k \in K : \E i \in 1..Len(lists[k]) : p = at[k] + i
    BY <1>9, <1>10, <1>17
  <2>2. PICK i \in 1..Len(lists[k]) : p = at[k] + i
    BY <2>1
  <2>3. all[p] = lists[k][i]
    BY <1>9, <1>17, <2>2
  <2>4. NewKey(k)
    BY <1>2, <1>17, <2>2, ShortLists
  <2>5. lists[k] = Pair(k) /\ i \in {1, 2} /\ (i = 2 => IsUsed(repos[k]))
    <3>1. lists[k] = Pair(k) /\ Len(Pair(k)) = IF IsUsed(repos[k]) THEN 2 ELSE 1
      BY <1>2, <1>3, <1>17, <2>4
    <3>2. CASE IsUsed(repos[k])
      BY <2>2, <3>1, <3>2
    <3>3. CASE ~IsUsed(repos[k])
      BY <2>2, <3>1, <3>3
    <3> QED  BY <3>2, <3>3
  <2> QED  BY <1>3, <1>17, <2>2, <2>3, <2>4, <2>5
<1>12. ASSUME NEW k \in DOMAIN repos, NewKey(k), IsUsed(repos[k])
       PROVE at[k] + 2 \in DOMAIN all /\ all[at[k] + 2] = key(k)
  <2>1. lists[k] = Pair(k) /\ 2 \in 1..Len(lists[k])
    BY <1>2, <1>3, <1>12
  <2> QED  BY <1>3, <1>9, <1>10, <1>12, <1>17, <2>1
<1>13. \A c \in ToSet(all) : c.do \in {"get", "key"}
  BY <1>11, <1>18 DEF ToSet
<1>14. KeysOf(all) \subseteq OwnKeys
  <2>1. ASSUME NEW p \in DOMAIN all, all[p].do = "key" PROVE all[p].what \in OwnKeys
    <3>1. PICK k \in DOMAIN repos : NewKey(k) /\ IsUsed(repos[k]) /\ all[p] = key(k)
      BY <1>11, <1>18, <2>1
    <3> QED  BY <1>18, <3>1 DEF OwnKeys
  <2> QED  BY <2>1 DEF KeysOf, ToSet
<1>15. OwnKeys \subseteq KeysOf(all)
  <2>1. ASSUME NEW k \in DOMAIN repos, NewKey(k), IsUsed(repos[k]) PROVE KeyOf(repos[k]) \in KeysOf(all)
    <3>1. at[k] + 2 \in DOMAIN all /\ all[at[k] + 2] = key(k)
      BY <1>12, <2>1
    <3>2. key(k) \in ToSet(all)
      BY <3>1 DEF ToSet
    <3> QED  BY <1>18, <3>2 DEF KeysOf
  <2> QED  BY <2>1 DEF OwnKeys
<1>16. KeysOnce(all)
  <2>1. ASSUME NEW i \in DOMAIN all, NEW j \in DOMAIN all, all[i].do = "key", all[j].do = "key", all[j].what = all[i].what
        PROVE  i = j
    <3>1. PICK k \in DOMAIN repos : NewKey(k) /\ i = at[k] + 2 /\ all[i] = key(k)
      BY <1>11, <1>18, <2>1
    <3>2. PICK l \in DOMAIN repos : NewKey(l) /\ j = at[l] + 2 /\ all[j] = key(l)
      BY <1>11, <1>18, <2>1
    <3>5. KeyOf(repos[k]) = KeyOf(repos[l])
      BY <1>18, <2>1, <3>1, <3>2
    <3>3. repos[k].uri = repos[l].uri
      <4>1. KeyOf(repos[k]).uri = repos[k].uri /\ KeyOf(repos[l]).uri = repos[l].uri
        BY DEF KeyOf
      <4> QED  BY <3>5, <4>1
    <3>4. k = l
      BY <3>1, <3>2, <3>3, NewOnce
    <3> QED  BY <3>1, <3>2, <3>4
  <2> QED  BY <2>1 DEF KeysOnce
<1> QED  BY <1>7, <1>10, <1>13, <1>14, <1>15, <1>16

\* A repository whose URI is its own has a first one of that URI.
LEMMA FirstKey ==
  ASSUME NewSystemAssumption, profile \in Profiles, valueMap \in ValueMaps,
         NEW r \in ToSet(valueMap.repos), HasKey(r)
  PROVE  \E k \in DOMAIN valueMap.repos : NewKey(k) /\ valueMap.repos[k].uri = r.uri
<1> DEFINE repos == valueMap.repos
           S == {k \in DOMAIN repos : Own(repos[k]) /\ repos[k].uri = r.uri}
<1>0. Len(repos) \in Nat /\ DOMAIN repos = 1..Len(repos)
  BY ValuesAre, SequenceIs
<1>1. S # {} /\ S \subseteq Nat
  BY <1>0 DEF HasKey, ToSet
<1>2. PICK k \in S : \A j \in S : k <= j
  BY <1>1, FirstOf
<1>3. \A j \in 1..(k - 1) : j \in DOMAIN repos /\ ~(k <= j)
  BY <1>0
<1>4. \A j \in 1..(k - 1) : Own(repos[j]) => repos[j].uri # r.uri
  BY <1>2, <1>3
<1> QED  BY <1>4 DEF NewKey, HasKey

\* The commands for a user.
OfUser(u) ==
  When(u.group # "", <<Command("addgroup", u.group)>>) \o <<Command("useradd", u)>> \o When(u.sudo, <<Command("sudo", u.name)>>)

LEMMA OfUserIs ==
  ASSUME NEW u
  PROVE  /\ Sequence(OfUser(u)) /\ DOMAIN OfUser(u) = 1..Len(OfUser(u)) /\ Command("useradd", u) \in ToSet(OfUser(u))
         /\ \A c \in ToSet(OfUser(u)) : c.do \in Kinds("users")
         /\ \A i \in DOMAIN OfUser(u) : OfUser(u)[i].do = "sudo" =>
              /\ i - 1 \in DOMAIN OfUser(u) /\ OfUser(u)[i - 1].do = "useradd"
              /\ OfUser(u)[i - 1].what.name = OfUser(u)[i].what
<1> DEFINE a == When(u.group # "", <<Command("addgroup", u.group)>>)
           b == <<Command("useradd", u)>>
           c == When(u.sudo, <<Command("sudo", u.name)>>)
<1>1. Sequence(a) /\ Sequence(b) /\ Sequence(c)
  BY ShortLists DEF When
<1>2. ToSet(a) \subseteq {Command("addgroup", u.group)} /\ ToSet(b) = {Command("useradd", u)} /\ ToSet(c) \subseteq {Command("sudo", u.name)}
  BY ShortLists DEF When
<1>3. b[1] = Command("useradd", u) /\ DOMAIN b = {1} /\ Len(b) = 1
  BY ShortLists
<1>4. \A i \in DOMAIN c : i = 1 /\ c[i] = Command("sudo", u.name)
  BY ShortLists DEF When
<1>5. \A i \in DOMAIN a : a[i] = Command("addgroup", u.group)
  BY <1>2 DEF ToSet
<1> HIDE DEF a, b, c
<1>0. PICK ab : ab = a \o b
  OBVIOUS
<1>6. /\ Sequence(ab) /\ ToSet(ab) = ToSet(a) \cup ToSet(b) /\ DOMAIN ab = 1..(Len(a) + 1) /\ Len(a) \in Nat
      /\ \A p \in DOMAIN ab : (p \in DOMAIN a /\ ab[p] = a[p]) \/ \E i \in DOMAIN b : p = Len(a) + i /\ ab[p] = b[i]
      /\ \A i \in DOMAIN b : Len(a) + i \in DOMAIN ab /\ ab[Len(a) + i] = b[i]
  <2>1. Joined(a, b, ab)
    BY <1>0, <1>1, BothHold, Zenon
  <2> QED  BY <1>3, <2>1 DEF Joined
<1>7. Len(a) + 1 \in DOMAIN ab /\ ab[Len(a) + 1] = Command("useradd", u)
  BY ONLY <1>3, <1>6
<1>8. \A p \in DOMAIN ab : ab[p].do # "sudo"
  BY ONLY <1>3, <1>5, <1>6 DEF Command
<1>9. Len(ab) = Len(a) + 1
  BY ONLY <1>6, SequenceIs
<1>15. PICK all : all = ab \o c
  OBVIOUS
<1>10. /\ Sequence(all) /\ ToSet(all) = ToSet(ab) \cup ToSet(c)
       /\ \A p \in DOMAIN all : (p \in DOMAIN ab /\ all[p] = ab[p]) \/ \E i \in DOMAIN c : p = Len(ab) + i /\ all[p] = c[i]
       /\ \A i \in DOMAIN ab : i \in DOMAIN all /\ all[i] = ab[i]
  <2>1. Joined(ab, c, all)
    BY <1>1, <1>6, <1>15, BothHold, Zenon
  <2> QED  BY <2>1 DEF Joined
<1>11. OfUser(u) = all
  BY <1>0, <1>15 DEF OfUser, a, b, c
<1>12. Command("useradd", u) \in ToSet(all)
  BY <1>2, <1>6, <1>10
<1>13. \A d \in ToSet(all) : d.do \in {"addgroup", "useradd", "sudo"}
  BY <1>2, <1>6, <1>10 DEF Command
<1>14. ASSUME NEW p \in DOMAIN all, all[p].do = "sudo"
       PROVE  p - 1 \in DOMAIN all /\ all[p - 1].do = "useradd" /\ all[p - 1].what.name = all[p].what
  <2>1. PICK i \in DOMAIN c : p = Len(ab) + i /\ all[p] = c[i]
    BY <1>8, <1>10, <1>14
  <2>2. p = Len(a) + 2 /\ all[p] = Command("sudo", u.name)
    BY <1>4, <1>6, <1>9, <2>1
  <2>3. p - 1 = Len(a) + 1
    BY <1>6, <2>2
  <2>4. p - 1 \in DOMAIN all /\ all[p - 1] = Command("useradd", u)
    BY <1>7, <1>10, <2>3
  <2> QED  BY <2>2, <2>4 DEF Command
<1> QED  BY <1>10, <1>11, <1>12, <1>13, <1>14, SequenceIs DEF Kinds

LEMMA UserCommandsAre ==
  ASSUME NewSystemAssumption, profile \in Profiles, valueMap \in ValueMaps
  PROVE  /\ Sequence(UserCommands) /\ \A c \in ToSet(UserCommands) : c.do \in Kinds("users")
         /\ \A u \in ToSet(valueMap.users) : Command("useradd", u) \in ToSet(UserCommands)
         /\ SudoNext(UserCommands) /\ (UserCommands # <<>> => Head(UserCommands).do = "run")
<1> DEFINE users == valueMap.users
           lists == [k \in DOMAIN users |-> OfUser(users[k])]
           begin == <<Command("run", "usermod")>>
<1>1. Sequence(users) /\ Len(users) \in Nat /\ DOMAIN users = 1..Len(users)
  BY ValuesAre, SequenceIs
<1>2. DOMAIN lists = DOMAIN users /\ \A k \in DOMAIN users : lists[k] = OfUser(users[k])
  OBVIOUS
<1>3. Sequence(lists) /\ Len(lists) = Len(users)
  <2>1. lists \in [1..Len(users) -> ToSet(lists)]
    BY <1>1 DEF ToSet
  <2> HIDE DEF lists
  <2> QED  BY <1>1, <2>1, ListIs
<1>4. UserCommands = begin \o FlattenSeq(lists)
  BY DEF UserCommands, OfUser
<1>5. Sequence(begin) /\ Len(begin) = 1 /\ DOMAIN begin = {1} /\ begin[1] = Command("run", "usermod") /\ ToSet(begin) = {begin[1]}
  BY ShortLists
<1> HIDE DEF lists, begin
<1>6. \A k \in DOMAIN lists : Sequence(lists[k])
  BY <1>2, OfUserIs
<1>7. PICK rest : rest = FlattenSeq(lists)
  OBVIOUS
<1>8. PutTogether(rest, lists)
  BY <1>3, <1>6, <1>7, FlattenIs
<1> DEFINE K == 1..Len(lists)
<1>9. PICK at : /\ \A k \in K : at[k] \in Nat
                /\ \A k \in K : \A i \in 1..Len(lists[k]) : at[k] + i \in 1..Len(rest) /\ rest[at[k] + i] = lists[k][i]
                /\ \A p \in 1..Len(rest) : \E k \in K : \E i \in 1..Len(lists[k]) : p = at[k] + i
  BY <1>8 DEF PutTogether
<1> HIDE DEF K
<1>10. DOMAIN users = K
  BY <1>1, <1>3 DEF K
<1>11. Sequence(rest) /\ DOMAIN rest = 1..Len(rest)
  BY <1>8, SequenceIs DEF PutTogether
<1>12. ASSUME NEW p \in DOMAIN rest
       PROVE  /\ rest[p].do \in Kinds("users")
              /\ rest[p].do = "sudo" =>
                   p - 1 \in DOMAIN rest /\ rest[p - 1].do = "useradd" /\ rest[p - 1].what.name = rest[p].what
  <2>1. PICK k \in K : \E i \in 1..Len(lists[k]) : p = at[k] + i
    BY <1>9, <1>11
  <2>2. PICK i \in 1..Len(lists[k]) : p = at[k] + i
    BY <2>1
  <2>3. rest[p] = lists[k][i] /\ at[k] \in Nat
    BY <1>9, <2>2
  <2>4. PICK list : list = lists[k]
    OBVIOUS
  <2>5. /\ DOMAIN list = 1..Len(list) /\ \A c \in ToSet(list) : c.do \in Kinds("users")
        /\ \A j \in DOMAIN list : list[j].do = "sudo" =>
              j - 1 \in DOMAIN list /\ list[j - 1].do = "useradd" /\ list[j - 1].what.name = list[j].what
    BY <1>2, <1>10, <2>4, OfUserIs
  <2>6. i \in DOMAIN list /\ rest[p] = list[i] /\ list[i] \in ToSet(list)
    BY <2>2, <2>3, <2>4, <2>5 DEF ToSet
  <2>7. ASSUME rest[p].do = "sudo"
        PROVE  p - 1 \in DOMAIN rest /\ rest[p - 1].do = "useradd" /\ rest[p - 1].what.name = rest[p].what
    <3>1. i - 1 \in 1..Len(lists[k]) /\ list[i - 1].do = "useradd" /\ list[i - 1].what.name = list[i].what
      BY <2>4, <2>5, <2>6, <2>7
    <3>2. at[k] + (i - 1) \in 1..Len(rest) /\ rest[at[k] + (i - 1)] = list[i - 1]
      <4>1. PICK j : j = i - 1
        OBVIOUS
      <4>2. j \in 1..Len(lists[k])
        BY <3>1, <4>1
      <4>3. at[k] + j \in 1..Len(rest) /\ rest[at[k] + j] = lists[k][j]
        BY ONLY <1>9, <4>2, k \in K
      <4> QED  BY <2>4, <4>1, <4>3
    <3>3. p - 1 = at[k] + (i - 1)
      <4>1. Len(lists[k]) \in Nat
        BY <1>6, <1>10, <1>2, SequenceIs
      <4>2. i \in Int /\ at[k] \in Int /\ p = at[k] + i
        BY ONLY <2>2, <2>3, <4>1
      <4> QED  BY ONLY <4>2
    <3> QED  BY <1>11, <2>6, <3>1, <3>2, <3>3
  <2> QED  BY <2>5, <2>6, <2>7
<1>13. ASSUME NEW u \in ToSet(users) PROVE Command("useradd", u) \in ToSet(rest)
  <2>1. PICK k \in K : users[k] = u
    BY <1>10 DEF ToSet
  <2>2. PICK list : list = lists[k]
    OBVIOUS
  <2>3. DOMAIN list = 1..Len(list) /\ Command("useradd", u) \in ToSet(list)
    BY <1>2, <1>10, <2>1, <2>2, OfUserIs
  <2>4. PICK i \in 1..Len(lists[k]) : lists[k][i] = Command("useradd", u)
    BY <2>2, <2>3 DEF ToSet
  <2>5. at[k] + i \in DOMAIN rest /\ rest[at[k] + i] = Command("useradd", u)
    BY <1>9, <1>11, <2>4
  <2> QED  BY <2>5 DEF ToSet
<1>18. PICK all : all = begin \o rest
  OBVIOUS
<1>14. /\ Sequence(all) /\ ToSet(all) = ToSet(begin) \cup ToSet(rest)
       /\ \A p \in DOMAIN all : (p \in DOMAIN begin /\ all[p] = begin[p]) \/ \E i \in DOMAIN rest : p = 1 + i /\ all[p] = rest[i]
       /\ \A i \in DOMAIN rest : 1 + i \in DOMAIN all /\ all[1 + i] = rest[i]
       /\ \A i \in DOMAIN begin : i \in DOMAIN all /\ all[i] = begin[i]
  <2>1. Joined(begin, rest, all)
    BY <1>5, <1>11, <1>18, BothHold, Zenon
  <2> QED  BY <1>5, <2>1 DEF Joined
<1>15. \A c \in ToSet(all) : c.do \in Kinds("users")
  <2>1. \A c \in ToSet(rest) : c.do \in Kinds("users")
    BY <1>12 DEF ToSet
  <2>2. begin[1].do \in Kinds("users")
    BY <1>5 DEF Kinds, Command
  <2> QED  BY <1>5, <1>14, <2>1, <2>2
<1>16. SudoNext(all)
  <2>1. ASSUME NEW p \in DOMAIN all, all[p].do = "sudo" PROVE all[p - 1].do = "useradd" /\ all[p - 1].what.name = all[p].what
    <3>1. ~(p \in DOMAIN begin /\ all[p] = begin[p])
      BY <1>5, <2>1 DEF Command
    <3>2. PICK i \in DOMAIN rest : p = 1 + i /\ all[p] = rest[i]
      BY <1>14, <3>1
    <3>3. i - 1 \in DOMAIN rest /\ rest[i - 1].do = "useradd" /\ rest[i - 1].what.name = rest[i].what
      BY <1>12, <2>1, <3>2
    <3>4. 1 + (i - 1) = p - 1
      BY <1>11, <3>2
    <3>5. all[p - 1] = rest[i - 1]
      BY <1>14, <3>3, <3>4
    <3> QED  BY <3>2, <3>3, <3>5
  <2> QED  BY <2>1 DEF SudoNext
<1>17. Head(all).do = "run"
  <2>1. 1 \in DOMAIN all /\ all[1].do = "run"
    BY <1>5, <1>14 DEF Command
  <2> QED  BY <1>14, <2>1, SequenceIs
<1>19. UserCommands = all
  BY <1>4, <1>7, <1>18
<1> QED  BY <1>13, <1>14, <1>15, <1>16, <1>17, <1>19

\* One command, that is the templates.
LEMMA RenderIs ==
  ASSUME NEW templates
  PROVE  /\ Sequence(Render(templates)) /\ DOMAIN Render(templates) = {1}
         /\ Render(templates)[1] = Command("render", ToSet(templates) \cap TemplateFiles)
         /\ ToSet(Render(templates)) = {Command("render", ToSet(templates) \cap TemplateFiles)}
BY ShortLists DEF Render

\* Whatever the order of the services, each of them is there.
LEMMA EachIs ==
  ASSUME NEW S, IsFiniteSet(S), NEW do
  PROVE  /\ Sequence(Each(do, SetToSeq(S))) /\ ToSet(Each(do, SetToSeq(S))) = {Command(do, x) : x \in S}
<1> DEFINE n == Cardinality(S)
           Fits(f) == f \in [1..n -> S] /\ IsInjective(f)
           f == SetToSeq(S)
           list == Each(do, f)
<1>1. n \in Nat /\ \E g : Fits(g)
  <2>1. PICK g : g \in Bijection(1..n, S)
    BY FS_CardinalityType DEF ExistsBijection
  <2>2. g \in [1..n -> S] /\ \A a, b \in 1..n : g[a] = g[b] => a = b
    BY <2>1 DEF Bijection, Injection, IsInjective
  <2>3. DOMAIN g = 1..n
    BY <2>2
  <2> QED  BY <2>2, <2>3, FS_CardinalityType DEF IsInjective
<1>2. Fits(f)
  BY <1>1 DEF SetToSeq
<1>3. f \in Injection(1..n, S)
  BY <1>2 DEF Injection, IsInjective
<1>4. f \in Surjection(1..n, S)
  <2>1. Cardinality(1..n) = n
    BY <1>1, FS_Interval
  <2> QED  BY <1>3, <2>1, FS_Injection
<1>5. DOMAIN f = 1..n /\ {f[i] : i \in 1..n} = S
  BY <1>2, <1>4 DEF Surjection
<1>6. DOMAIN list = 1..n /\ \A i \in 1..n : list[i] = Command(do, f[i])
  BY <1>5 DEF Each
<1>7. list \in [1..n -> ToSet(list)]
  BY <1>5 DEF Each, ToSet
<1>8. Sequence(list)
  <2> HIDE DEF n, f, list
  <2> QED  BY <1>1, <1>7, ListIs
<1> HIDE DEF f, list, n
<1>9. ToSet(list) = {Command(do, x) : x \in S}
  BY <1>5, <1>6 DEF ToSet
<1> QED  BY <1>8, <1>9 DEF f, list

\* What two lists are, so are they together.
LEMMA KeysJoined ==
  ASSUME NEW s, NEW t, NEW u, Joined(s, t, u), KeysOnce(s), KeysOnce(t), KeysOf(s) = {} \/ KeysOf(t) = {}
  PROVE  KeysOnce(u) /\ KeysOf(u) = KeysOf(s) \cup KeysOf(t)
<1>1. KeysOf(u) = KeysOf(s) \cup KeysOf(t)
  BY DEF KeysOf, Joined
<1>2. ASSUME NEW i \in DOMAIN u, NEW j \in DOMAIN u, u[i].do = "key", u[j].do = "key", u[j].what = u[i].what
      PROVE  i = j
  <2>1. /\ \A k \in DOMAIN s : s[k].do = "key" => s[k].what \in KeysOf(s)
        /\ \A k \in DOMAIN t : t[k].do = "key" => t[k].what \in KeysOf(t)
    BY DEF KeysOf, ToSet
  <2>2. CASE KeysOf(t) = {}
    <3>1. i \in DOMAIN s /\ j \in DOMAIN s /\ s[i] = u[i] /\ s[j] = u[j]
      BY <1>2, <2>1, <2>2 DEF Joined
    <3> QED  BY <1>2, <3>1 DEF KeysOnce
  <2>3. CASE KeysOf(s) = {}
    <3>1. PICK k \in DOMAIN t, l \in DOMAIN t : i = Len(s) + k /\ t[k] = u[i] /\ j = Len(s) + l /\ t[l] = u[j]
      BY <1>2, <2>1, <2>3 DEF Joined
    <3>2. k = l
      BY <1>2, <3>1 DEF KeysOnce
    <3> QED  BY <3>1, <3>2
  <2> QED  BY <2>2, <2>3
<1> QED  BY <1>1, <1>2 DEF KeysOnce

LEMMA WritesJoined ==
  ASSUME NEW s, NEW t, NEW u, Joined(s, t, u), WritesLast(t),
         (\E c \in ToSet(s) : c.do = "install") => \E c \in ToSet(t) : Clears(c),
         (\E c \in ToSet(s) : Clears(c)) => \E c \in ToSet(t) : Writes(c)
  PROVE  WritesLast(u)
<1>1. /\ DOMAIN s = 1..Len(s) /\ DOMAIN t = 1..Len(t) /\ Len(s) \in Nat /\ Len(t) \in Nat
      /\ \A p \in DOMAIN u : (p \in DOMAIN s /\ u[p] = s[p]) \/ \E i \in DOMAIN t : p = Len(s) + i /\ u[p] = t[i]
      /\ \A i \in DOMAIN t : Len(s) + i \in DOMAIN u /\ u[Len(s) + i] = t[i]
  BY DEF Joined
<1>2. ASSUME NEW i \in DOMAIN u, u[i].do = "install" PROVE \E j \in DOMAIN u : j > i /\ Clears(u[j])
  <2>1. CASE i \in DOMAIN s /\ u[i] = s[i]
    <3>1. PICK k \in DOMAIN t : Clears(t[k])
      BY <1>2, <2>1 DEF ToSet
    <3>2. Len(s) + k \in DOMAIN u /\ Clears(u[Len(s) + k]) /\ Len(s) + k > i
      BY <1>1, <2>1, <3>1
    <3> QED  BY <3>2
  <2>2. CASE \E k \in DOMAIN t : i = Len(s) + k /\ u[i] = t[k]
    <3>1. PICK k \in DOMAIN t : i = Len(s) + k /\ u[i] = t[k]
      BY <2>2
    <3>2. PICK l \in DOMAIN t : l > k /\ Clears(t[l])
      BY <1>2, <3>1 DEF WritesLast
    <3>3. Len(s) + l \in DOMAIN u /\ Clears(u[Len(s) + l]) /\ Len(s) + l > i
      BY <1>1, <3>1, <3>2
    <3> QED  BY <3>3
  <2> QED  BY <1>1, <2>1, <2>2
<1>3. ASSUME NEW i \in DOMAIN u, Clears(u[i]) PROVE \E j \in DOMAIN u : j > i /\ Writes(u[j])
  <2>1. CASE i \in DOMAIN s /\ u[i] = s[i]
    <3>1. PICK k \in DOMAIN t : Writes(t[k])
      BY <1>3, <2>1 DEF ToSet
    <3>2. Len(s) + k \in DOMAIN u /\ Writes(u[Len(s) + k]) /\ Len(s) + k > i
      BY <1>1, <2>1, <3>1
    <3> QED  BY <3>2
  <2>2. CASE \E k \in DOMAIN t : i = Len(s) + k /\ u[i] = t[k]
    <3>1. PICK k \in DOMAIN t : i = Len(s) + k /\ u[i] = t[k]
      BY <2>2
    <3>2. PICK l \in DOMAIN t : l > k /\ Writes(t[l])
      BY <1>3, <3>1 DEF WritesLast
    <3>3. Len(s) + l \in DOMAIN u /\ Writes(u[Len(s) + l]) /\ Len(s) + l > i
      BY <1>1, <3>1, <3>2
    <3> QED  BY <3>3
  <2> QED  BY <1>1, <2>1, <2>2
<1> QED  BY <1>2, <1>3 DEF WritesLast

LEMMA CopiesJoined ==
  ASSUME NEW s, NEW t, NEW u, Joined(s, t, u), NEW f, CopiesLast(f, t),
         CopiesLast(f, s) \/ Command("copy", f) \in ToSet(t)
  PROVE  CopiesLast(f, u)
<1>1. /\ DOMAIN s = 1..Len(s) /\ DOMAIN t = 1..Len(t) /\ Len(s) \in Nat /\ Len(t) \in Nat
      /\ \A p \in DOMAIN u : (p \in DOMAIN s /\ u[p] = s[p]) \/ \E i \in DOMAIN t : p = Len(s) + i /\ u[p] = t[i]
      /\ \A i \in DOMAIN s : i \in DOMAIN u /\ u[i] = s[i]
      /\ \A i \in DOMAIN t : Len(s) + i \in DOMAIN u /\ u[Len(s) + i] = t[i]
  BY DEF Joined
<1>2. ASSUME NEW i \in DOMAIN u, u[i].do = "unpack", f \in u[i].what
      PROVE  \E j \in DOMAIN u : j > i /\ u[j] = Command("copy", f)
  <2>1. CASE i \in DOMAIN s /\ u[i] = s[i]
    <3>1. CASE CopiesLast(f, s)
      <4>1. PICK j \in DOMAIN s : j > i /\ s[j] = Command("copy", f)
        BY <1>2, <2>1, <3>1 DEF CopiesLast
      <4> QED  BY <1>1, <4>1
    <3>2. CASE Command("copy", f) \in ToSet(t)
      <4>1. PICK k \in DOMAIN t : t[k] = Command("copy", f)
        BY <3>2 DEF ToSet
      <4>2. Len(s) + k \in DOMAIN u /\ u[Len(s) + k] = Command("copy", f) /\ Len(s) + k > i
        BY <1>1, <2>1, <4>1
      <4> QED  BY <4>2
    <3> QED  BY <3>1, <3>2
  <2>2. CASE \E k \in DOMAIN t : i = Len(s) + k /\ u[i] = t[k]
    <3>1. PICK k \in DOMAIN t : i = Len(s) + k /\ u[i] = t[k]
      BY <2>2
    <3>2. PICK l \in DOMAIN t : l > k /\ t[l] = Command("copy", f)
      BY <1>2, <3>1 DEF CopiesLast
    <3>3. Len(s) + l \in DOMAIN u /\ u[Len(s) + l] = Command("copy", f) /\ Len(s) + l > i
      BY <1>1, <3>1, <3>2
    <3> QED  BY <3>3
  <2> QED  BY <1>1, <2>1, <2>2
<1> QED  BY <1>2 DEF CopiesLast

\* What the bootstrap copies and installs.
LEMMA BootstrapCommandsAre ==
  ASSUME NewSystemAssumption, profile \in Profiles, valueMap \in ValueMaps
  PROVE  /\ Sequence(BootstrapCommands) /\ \A c \in ToSet(BootstrapCommands) : c.do \in Kinds("bootstrap")
         /\ \A c \in ToSet(BootstrapCommands) : c.do = "install" => c.what \subseteq Asked
         /\ \A f : Copied(f) => Command("copy", f) \in ToSet(BootstrapCommands) /\ CopiesLast(f, BootstrapCommands)
<1> DEFINE Fine(list) ==
             /\ Sequence(list)
             /\ \A c \in ToSet(list) : c.do \in Kinds("bootstrap") /\ (c.do = "install" => c.what \subseteq Asked)
             /\ \A f : Copied(f) => Command("copy", f) \in ToSet(list) /\ CopiesLast(f, list)
<1>1. CASE profile.bootstrap = "debbootstrap"
  <2>1. PICK list : list = <<Command("unpack", image)>>
    OBVIOUS
  <2>2. BootstrapCommands = list
    BY <1>1, <2>1 DEF BootstrapCommands
  <2>3. Sequence(list) /\ ToSet(list) = {Command("unpack", image)}
    BY <2>1, ShortLists
  <2>4. \A f : ~Copied(f)
    BY <1>1 DEF Copied
  <2> QED  BY <2>2, <2>3, <2>4 DEF Kinds, Command
<1>2. CASE profile.bootstrap = "tarxz"
  <2>1. PICK a, b, c, d, e :
          /\ a = Command("get", "image") /\ b = Command("unpack", image) /\ c = Command("copy", "hostname")
          /\ d = Command("makedirs", "stub") /\ e = Command("copy", "stub")
    OBVIOUS
  <2>2. PICK list : list = <<a, b, c, d, e>>
    OBVIOUS
  <2>3. BootstrapCommands = list
    BY <1>2, <2>1, <2>2 DEF BootstrapCommands
  <2>4. /\ Sequence(list) /\ ToSet(list) = {a, b, c, d, e} /\ DOMAIN list = 1..5
        /\ list[1] = a /\ list[2] = b /\ list[3] = c /\ list[4] = d /\ list[5] = e
    BY <2>2, ShortLists
  <2>5. \A x \in ToSet(list) : x.do \in Kinds("bootstrap") /\ x.do # "install"
    BY <2>1, <2>4 DEF Kinds, Command
  <2>6. \A f : Copied(f) => f \in {"stub", "hostname"} /\ Command("copy", f) \in ToSet(list)
    BY <1>2, <2>1, <2>4 DEF Copied
  <2>7. ASSUME NEW f \in {"stub", "hostname"} PROVE CopiesLast(f, list)
    <3>1. \A i \in DOMAIN list : list[i].do = "unpack" => i = 2
      BY <2>1, <2>4 DEF Command
    <3>2. \E j \in DOMAIN list : j > 2 /\ list[j] = Command("copy", f)
      BY <2>1, <2>4
    <3> QED  BY <3>1, <3>2 DEF CopiesLast
  <2> QED  BY <2>3, <2>4, <2>5, <2>6, <2>7
<1>3. CASE profile.bootstrap = "redhatimg"
  <2> DEFINE u == Command("unpack", image)
             c == Command("copy", "resolv")
             p(k) == <<Command("get", "rpm"), Command("install", {profile.first[k]})>>
  <2>1. PICK s1, s3, two, lists :
          /\ s1 = <<Command("copy", "hostname"), c, Command("get", "image")>>
          /\ two = (IF profile.live THEN <<Command("unpack", {}), u, c>> ELSE <<u>>)
          /\ s3 = <<Command("get", "list")>>
          /\ lists = [k \in 1..2 |-> p(k)]
    OBVIOUS
  <2>2. PICK a : a = s1 \o two
    OBVIOUS
  <2>3. PICK b : b = a \o s3
    OBVIOUS
  <2>4. PICK rest : rest = FlattenSeq(lists)
    OBVIOUS
  <2>5. PICK all : all = b \o rest
    OBVIOUS
  <2>6. BootstrapCommands = all
    BY <1>3, <2>1, <2>2, <2>3, <2>4, <2>5 DEF BootstrapCommands
  <2>7. Sequence(s1) /\ ToSet(s1) = {Command("copy", "hostname"), c, Command("get", "image")}
    BY <2>1, ShortLists
  <2>8. Sequence(s3) /\ ToSet(s3) = {Command("get", "list")}
    BY <2>1, ShortLists
  <2>9. /\ Sequence(two) /\ ToSet(two) \subseteq {Command("unpack", {}), u, c}
        /\ profile.live => /\ DOMAIN two = {1, 2, 3} /\ two[3] = c
                           /\ two[1] = Command("unpack", {}) /\ two[2] = u
        /\ ~profile.live => DOMAIN two = {1} /\ two[1] = u
    BY <2>1, ShortLists
  <2> HIDE DEF u, c
  <2>10. Sequence(rest) /\ \A x \in ToSet(rest) : x.do \in {"get", "install"} /\ (x.do = "install" => x.what \subseteq Asked)
    <3>1. Sequence(lists) /\ DOMAIN lists = 1..2 /\ \A k \in 1..2 : lists[k] = p(k)
      <4>1. lists \in [1..2 -> ToSet(lists)] /\ DOMAIN lists = 1..2
        BY <2>1 DEF ToSet
      <4>2. Sequence(lists)
        BY <4>1, ListIs
      <4> QED  BY <2>1, <4>1, <4>2
    <3>2. \A k \in 1..2 : Sequence(p(k)) /\ DOMAIN p(k) = {1, 2}
                          /\ p(k)[1] = Command("get", "rpm") /\ p(k)[2] = Command("install", {profile.first[k]})
      BY ShortLists
    <3> HIDE DEF p
    <3>3. PutTogether(rest, lists)
      BY <2>4, <3>1, <3>2, FlattenIs
    <3>9. Len(lists) = 2
      BY <3>1, SequenceIs
    <3>4. \A n \in 1..Len(rest) : \E k \in 1..2 : \E i \in 1..Len(lists[k]) : rest[n] = lists[k][i]
      <4> DEFINE K == 1..Len(lists)
      <4>1. PICK at : /\ \A k \in K : at[k] \in Nat
                      /\ \A k \in K : \A i \in 1..Len(lists[k]) : at[k] + i \in 1..Len(rest) /\ rest[at[k] + i] = lists[k][i]
                      /\ \A n \in 1..Len(rest) : \E k \in K : \E i \in 1..Len(lists[k]) : n = at[k] + i
        BY <3>3 DEF PutTogether
      <4>2. K = 1..2
        BY <3>9
      <4> HIDE DEF K
      <4>3. ASSUME NEW n \in 1..Len(rest)
            PROVE  \E k \in 1..2 : \E i \in 1..Len(lists[k]) : rest[n] = lists[k][i]
        <5>1. PICK k \in K : \E i \in 1..Len(lists[k]) : n = at[k] + i
          BY <4>1
        <5>2. PICK i \in 1..Len(lists[k]) : n = at[k] + i
          BY <5>1
        <5>3. rest[n] = lists[k][i]
          BY <4>1, <5>2
        <5> QED  BY <4>2, <5>3
      <4> QED  BY <4>3
    <3>5. \A k \in 1..2 : 1..Len(lists[k]) = {1, 2}
      BY <3>1, <3>2, SequenceIs
    <3>6. \A k \in 1..2 : profile.first[k] \in Asked
      <4>1. {1, 2} \subseteq DOMAIN profile.first
        BY <1>3 DEF NewSystemAssumption
      <4> QED  BY <4>1 DEF Asked, FirstPackages, ToSet
    <3>7. \A n \in 1..Len(rest) : \E k \in 1..2 : rest[n] = Command("get", "rpm") \/ rest[n] = Command("install", {profile.first[k]})
      <4>1. \A k \in 1..2 : \A i \in 1..Len(lists[k]) :
              lists[k][i] = Command("get", "rpm") \/ lists[k][i] = Command("install", {profile.first[k]})
        BY <3>1, <3>2, <3>5
      <4> QED  BY <3>4, <4>1
    <3>8. Sequence(rest) /\ ToSet(rest) = {rest[n] : n \in 1..Len(rest)}
      BY <3>3, SequenceIs DEF PutTogether
    <3> QED  BY <3>6, <3>7, <3>8 DEF Command
  <2>11. Joined(s1, two, a)
    BY <2>2, <2>7, <2>9, BothHold, Zenon
  <2>12. Joined(a, s3, b)
    <3>1. Sequence(a)
      BY <2>11 DEF Joined
    <3> QED  BY <2>3, <2>8, <3>1, BothHold, Zenon
  <2>13. Joined(b, rest, all)
    <3>1. Sequence(b)
      BY <2>12 DEF Joined
    <3> QED  BY <2>5, <2>10, <3>1, BothHold, Zenon
  <2>14. ToSet(all) = ToSet(s1) \cup ToSet(two) \cup ToSet(s3) \cup ToSet(rest) /\ Sequence(all)
    BY <2>11, <2>12, <2>13 DEF Joined
  <2>15. \A x \in ToSet(all) : x.do \in Kinds("bootstrap") /\ (x.do = "install" => x.what \subseteq Asked)
    <3>1. \A x \in ToSet(s1) \cup ToSet(two) \cup ToSet(s3) : x.do \in {"copy", "get", "unpack"}
      BY <2>7, <2>8, <2>9 DEF Command, u, c
    <3> QED  BY <2>10, <2>14, <3>1 DEF Kinds
  <2>16. \A f : Copied(f) => f = "resolv" /\ (profile.live \/ "resolv" \notin image)
    BY <1>3 DEF Copied
  <2>17. Command("copy", "resolv") \in ToSet(all)
    BY <2>7, <2>14 DEF c
  <2>18. ASSUME profile.live \/ "resolv" \notin image PROVE CopiesLast("resolv", all)
    <3>1. CopiesLast("resolv", s1)
      <4>1. \A i \in DOMAIN s1 : s1[i] \in ToSet(s1)
        BY DEF ToSet
      <4> QED  BY <2>7, <4>1 DEF CopiesLast, Command, c
    <3>2. CopiesLast("resolv", s3)
      <4>1. \A i \in DOMAIN s3 : s3[i] \in ToSet(s3)
        BY DEF ToSet
      <4> QED  BY <2>8, <4>1 DEF CopiesLast, Command
    <3>3. CopiesLast("resolv", rest)
      <4>1. \A i \in DOMAIN rest : rest[i] \in ToSet(rest)
        BY DEF ToSet
      <4> QED  BY <2>10, <4>1 DEF CopiesLast
    <3>4. CopiesLast("resolv", two)
      <4>1. CASE profile.live
        <5>1. \A i \in DOMAIN two : "resolv" \in two[i].what /\ two[i].do = "unpack" => i \in {1, 2}
          BY <2>9, <4>1 DEF c, Command
        <5>3. 3 \in DOMAIN two /\ two[3] = Command("copy", "resolv") /\ 3 > 1 /\ 3 > 2
          BY <2>9, <4>1 DEF c
        <5> QED  BY <5>1, <5>3 DEF CopiesLast
      <4>2. CASE ~profile.live
        <5>1. "resolv" \notin u.what
          BY <2>18, <4>2 DEF u, Command
        <5> QED  BY <2>9, <4>2, <5>1 DEF CopiesLast
      <4> QED  BY <4>1, <4>2
    <3>5. CopiesLast("resolv", a)
      BY <2>11, <3>1, <3>4, CopiesJoined
    <3>6. CopiesLast("resolv", b)
      BY <2>12, <3>2, <3>5, CopiesJoined
    <3> QED  BY <2>13, <3>3, <3>6, CopiesJoined
  <2> QED  BY <2>6, <2>14, <2>15, <2>16, <2>17, <2>18
<1>4. profile.bootstrap \in {"debbootstrap", "redhatimg", "tarxz"}
  BY ValuesAre
<1> QED  BY <1>1, <1>2, <1>3, <1>4

\* Where packages come from.
LEMMA SourcesCommandsAre ==
  ASSUME NewSystemAssumption, profile \in Profiles, valueMap \in ValueMaps
  PROVE  /\ Sequence(SourcesCommands) /\ \A c \in ToSet(SourcesCommands) : c.do \in Kinds("sources")
         /\ KeysOf(SourcesCommands) = OwnKeys /\ KeysOnce(SourcesCommands)
         /\ OwnRepos => /\ WritesLast(SourcesCommands)
                        /\ \E c \in ToSet(SourcesCommands) : Clears(c)
                        /\ \E c \in ToSet(SourcesCommands) : Writes(c)
<1>1. PICK s1, s2, s3, s4 :
        s1 = When(Yum, <<Command("clearRepos", "")>>) /\ s2 = KeyCommands /\ s3 = Render(profile.sources) /\ s4 = ListCommands
  OBVIOUS
<1>2. PICK a : a = s1 \o s2
  OBVIOUS
<1>3. PICK b : b = a \o s3
  OBVIOUS
<1>4. PICK all : all = b \o s4
  OBVIOUS
<1>5. SourcesCommands = all
  BY <1>1, <1>2, <1>3, <1>4 DEF SourcesCommands
<1>6. /\ Sequence(s1) /\ ToSet(s1) \subseteq {Command("clearRepos", "")}
      /\ Yum => Command("clearRepos", "") \in ToSet(s1)
  <2>1. CASE Yum
    <3>1. s1 = <<Command("clearRepos", "")>>
      BY <1>1, <2>1 DEF When
    <3>2. \A c : Sequence(<<c>>) /\ ToSet(<<c>>) = {c}
      BY ShortLists
    <3> QED  BY <3>1, <3>2
  <2>2. CASE ~Yum
    <3>1. s1 = <<>>
      BY <1>1, <2>2 DEF When
    <3> QED  BY <2>2, <3>1, ShortLists
  <2> QED  BY <2>1, <2>2
<1>7. Sequence(s2) /\ (\A c \in ToSet(s2) : c.do \in {"get", "key"}) /\ KeysOf(s2) = OwnKeys /\ KeysOnce(s2)
  BY <1>1, KeyCommandsAre
<1>8. Sequence(s3) /\ ToSet(s3) = {Command("render", ToSet(profile.sources) \cap TemplateFiles)}
  BY <1>1, RenderIs
<1>9. Sequence(s4) /\ ToSet(s4) \subseteq {Command("lists", "")}
  BY <1>1, ShortLists DEF When, ListCommands
<1>10. Joined(s1, s2, a)
  BY <1>2, <1>6, <1>7, BothHold, Zenon
<1>11. Joined(a, s3, b)
  <2>1. Sequence(a)
    BY <1>10 DEF Joined
  <2> QED  BY <1>3, <1>8, <2>1, BothHold, Zenon
<1>12. Joined(b, s4, all)
  <2>1. Sequence(b)
    BY <1>11 DEF Joined
  <2> QED  BY <1>4, <1>9, <2>1, BothHold, Zenon
<1>13. Sequence(all) /\ ToSet(all) = ToSet(s1) \cup ToSet(s2) \cup ToSet(s3) \cup ToSet(s4)
  BY <1>10, <1>11, <1>12 DEF Joined
<1>18. /\ \A c \in ToSet(s1) : c.do = "clearRepos"
       /\ \A c \in ToSet(s3) : c.do = "render"
       /\ \A c \in ToSet(s4) : c.do = "lists"
  <2>1. \A c \in ToSet(s1) : c.do = "clearRepos"
    <3>1. \A c \in ToSet(s1) : c = Command("clearRepos", "")
      BY <1>6
    <3>2. Command("clearRepos", "").do = "clearRepos"
      BY DEF Command
    <3> QED  BY <3>1, <3>2
  <2>2. \A c \in ToSet(s3) : c.do = "render"
    BY <1>8 DEF Command
  <2>3. \A c \in ToSet(s4) : c.do = "lists"
    <3>1. \A c \in ToSet(s4) : c = Command("lists", "")
      BY <1>9
    <3>2. Command("lists", "").do = "lists"
      BY DEF Command
    <3> QED  BY <3>1, <3>2
  <2> QED  BY <2>1, <2>2, <2>3
<1>14. \A c \in ToSet(all) : c.do \in Kinds("sources")
  <2>2. Kinds("sources") = {"clearRepos", "get", "key", "render", "lists"}
    BY DEF Kinds
  <2> QED  BY <1>7, <1>13, <1>18, <2>2
<1>15. KeysOnce(s1) /\ KeysOf(s1) = {} /\ KeysOnce(s3) /\ KeysOf(s3) = {} /\ KeysOnce(s4) /\ KeysOf(s4) = {}
  <2>1. ASSUME NEW s, \A c \in ToSet(s) : c.do # "key" PROVE KeysOnce(s) /\ KeysOf(s) = {}
    BY <2>1 DEF KeysOnce, KeysOf, ToSet
  <2> QED  BY <1>18, <2>1
<1>16. KeysOnce(all) /\ KeysOf(all) = OwnKeys
  <2>1. KeysOnce(a) /\ KeysOf(a) = KeysOf(s1) \cup KeysOf(s2)
    BY ONLY <1>7, <1>10, <1>15, KeysJoined
  <2>2. KeysOnce(b) /\ KeysOf(b) = KeysOf(a) \cup KeysOf(s3)
    BY ONLY <1>11, <1>15, <2>1, KeysJoined
  <2>3. KeysOnce(all) /\ KeysOf(all) = KeysOf(b) \cup KeysOf(s4)
    BY ONLY <1>12, <1>15, <2>2, KeysJoined
  <2> QED  BY <1>7, <1>15, <2>1, <2>2, <2>3
<1>17. ASSUME OwnRepos
       PROVE  WritesLast(all) /\ (\E c \in ToSet(all) : Clears(c)) /\ (\E c \in ToSet(all) : Writes(c))
  <2>1. Yum /\ "repos" \in ToSet(profile.sources) \cap TemplateFiles
    BY <1>17 DEF OwnRepos
  <2>2. Writes(Command("render", ToSet(profile.sources) \cap TemplateFiles)) /\ Clears(Command("clearRepos", ""))
    BY <2>1 DEF Writes, Clears, Command
  <2>3. \A c \in ToSet(all) : c.do # "install"
    BY <1>14 DEF Kinds
  <2>4. s4 = <<>>
    BY <1>1, <2>1 DEF ListCommands, When, Apt, Yum
  <2>5. \A c \in ToSet(s3) : c.do = "render"
    BY <1>8 DEF Command
  <2>6. WritesLast(s3) /\ WritesLast(s4)
    <3>1. \A i \in DOMAIN s3 : s3[i].do = "render"
      BY <2>5 DEF ToSet
    <3>2. DOMAIN s4 = {}
      BY <2>4
    <3> QED  BY <3>1, <3>2 DEF WritesLast, Clears
  <2>7. WritesLast(b)
    <3>1. \A c \in ToSet(a) : c.do # "install"
      BY <1>11, <1>12, <2>3 DEF Joined
    <3>2. \E c \in ToSet(s3) : Writes(c)
      BY <1>8, <2>2
    <3> QED  BY <1>11, <2>6, <3>1, <3>2, WritesJoined
  <2>8. all = b
    <3>1. Sequence(b) /\ b \in Seq(ToSet(b))
      BY <1>11 DEF Joined, Sequence
    <3> QED  BY <1>4, <2>4, <3>1
  <2> QED  BY <1>6, <1>8, <1>13, <2>1, <2>2, <2>7, <2>8
<1> QED  BY <1>5, <1>13, <1>14, <1>16, <1>17

\* The base, and its repositories.
LEMMA BaseCommandsAre ==
  ASSUME NewSystemAssumption, profile \in Profiles, valueMap \in ValueMaps
  PROVE  /\ Sequence(BaseCommands) /\ \A c \in ToSet(BaseCommands) : c.do \in Kinds("base")
         /\ \A c \in ToSet(BaseCommands) : c.do = "install" => c.what \subseteq Asked
         /\ profile.base # {} =>
              /\ Command("install", profile.base) \in ToSet(BaseCommands)
              /\ OwnRepos => /\ WritesLast(BaseCommands)
                             /\ \E c \in ToSet(BaseCommands) : Clears(c)
                             /\ \E c \in ToSet(BaseCommands) : Writes(c)
<1>1. CASE profile.base = {}
  BY <1>1, ShortLists DEF BaseCommands
<1>2. CASE profile.base # {}
  <2>1. PICK i, r, c, w :
          /\ i = Command("install", profile.base) /\ r = Command("run", "reinstall")
          /\ c = Command("clearRepos", "") /\ w = Command("render", ToSet(profile.sources) \cap TemplateFiles)
    OBVIOUS
  <2>2. PICK s1, s2, s3 : s1 = <<i>> /\ s2 = <<r, c>> /\ s3 = Render(profile.sources)
    OBVIOUS
  <2>3. PICK t : t = s2 \o s3
    OBVIOUS
  <2>4. PICK rest : rest = When(Yum, t)
    OBVIOUS
  <2>5. PICK all : all = s1 \o rest
    OBVIOUS
  <2>6. BaseCommands = all
    BY <1>2, <2>1, <2>2, <2>3, <2>4, <2>5 DEF BaseCommands
  <2>7. Sequence(s1) /\ ToSet(s1) = {i}
    BY <2>2, ShortLists
  <2>8. Sequence(s2) /\ ToSet(s2) = {r, c}
    BY <2>2, ShortLists
  <2>9. Sequence(s3) /\ ToSet(s3) = {w}
    BY <2>1, <2>2, RenderIs
  <2>10. Joined(s2, s3, t)
    BY <2>3, <2>8, <2>9, BothHold, Zenon
  <2>11. Sequence(t) /\ ToSet(t) = {r, c, w}
    BY <2>8, <2>9, <2>10 DEF Joined
  <2>12. Sequence(rest) /\ ToSet(rest) \subseteq {r, c, w} /\ (Yum => rest = t)
    <3>1. CASE Yum
      BY <2>4, <2>11, <3>1 DEF When
    <3>2. CASE ~Yum
      <4>1. rest = <<>>
        BY <2>4, <3>2 DEF When
      <4> QED  BY <3>2, <4>1, ShortLists
    <3> QED  BY <3>1, <3>2
  <2>13. Joined(s1, rest, all)
    BY <2>5, <2>7, <2>12, BothHold, Zenon
  <2>14. Sequence(all) /\ ToSet(all) = {i} \cup ToSet(rest)
    BY <2>7, <2>13 DEF Joined
  <2>15. /\ i.do = "install" /\ i.what = profile.base /\ r.do = "run" /\ c.do = "clearRepos" /\ w.do = "render"
         /\ w.what = ToSet(profile.sources) \cap TemplateFiles
    BY <2>1 DEF Command
  <2>16. \A x \in ToSet(all) : x.do \in Kinds("base") /\ (x.do = "install" => x.what \subseteq Asked)
    <3>1. i.what \subseteq Asked
      BY <2>15 DEF Asked, FirstPackages
    <3>2. \A x \in ToSet(all) : x \in {i, r, c, w}
      BY <2>12, <2>14
    <3>3. Kinds("base") = {"install", "run", "clearRepos", "render"}
      BY DEF Kinds
    <3> QED  BY <2>15, <3>1, <3>2, <3>3
  <2>17. ASSUME OwnRepos
         PROVE  WritesLast(all) /\ (\E x \in ToSet(all) : Clears(x)) /\ (\E x \in ToSet(all) : Writes(x))
    <3>1. Yum /\ "repos" \in ToSet(profile.sources) \cap TemplateFiles
      BY <2>17 DEF OwnRepos
    <3>2. Clears(c) /\ Writes(w) /\ ~Clears(i) /\ ~Clears(w) /\ rest = t
      BY <2>12, <2>15, <3>1 DEF Clears, Writes
    <3>3. WritesLast(s3)
      <4>1. \A k \in DOMAIN s3 : s3[k] = w
        BY <2>9 DEF ToSet
      <4> QED  BY <2>15, <3>2, <4>1 DEF WritesLast
    <3>4. WritesLast(t)
      <4>1. \A x \in ToSet(s2) : x.do # "install"
        BY <2>8, <2>15
      <4>2. \E x \in ToSet(s3) : Writes(x)
        BY <2>9, <3>2
      <4> QED  BY <2>10, <3>3, <4>1, <4>2, WritesJoined
    <3>5. WritesLast(all)
      <4>1. \E x \in ToSet(rest) : Clears(x)
        BY <2>11, <3>2
      <4>2. \A x \in ToSet(s1) : ~Clears(x)
        BY <2>7, <3>2
      <4> QED  BY <2>13, <3>2, <3>4, <4>1, <4>2, WritesJoined
    <3> QED  BY <2>11, <2>14, <3>2, <3>5
  <2>18. i \in ToSet(all)
    BY <2>14
  <2> QED  BY <2>1, <2>6, <2>14, <2>16, <2>17, <2>18
<1> QED  BY <1>1, <1>2

\* The packages that were asked for.
LEMMA PackageCommandsAre ==
  LET list == PackageCommands(OtherPackages)
  IN  /\ Sequence(list) /\ \A c \in ToSet(list) : c.do \in Kinds("packages")
      /\ \A c \in ToSet(list) : c.do = "install" => c.what \subseteq Asked
      /\ Command(IF Yum THEN "query" ELSE "install", OtherPackages) \in ToSet(list)
<1>1. PICK i, q : i = Command("install", OtherPackages) /\ q = Command("query", OtherPackages)
  OBVIOUS
<1>2. PICK s1, s2 : s1 = <<i>> /\ s2 = When(Yum, <<q>>)
  OBVIOUS
<1>3. PICK all : all = s1 \o s2
  OBVIOUS
<1>4. PackageCommands(OtherPackages) = all
  BY <1>1, <1>2, <1>3 DEF PackageCommands
<1>5. Sequence(s1) /\ ToSet(s1) = {i}
  BY <1>2, ShortLists
<1>6. Sequence(s2) /\ ToSet(s2) = (IF Yum THEN {q} ELSE {})
  <2>1. Sequence(<<q>>) /\ ToSet(<<q>>) = {q} /\ Sequence(<<>>) /\ ToSet(<<>>) = {}
    BY ShortLists
  <2> QED  BY <1>2, <2>1 DEF When
<1>7. Joined(s1, s2, all)
  BY <1>3, <1>5, <1>6, BothHold, Zenon
<1>8. Sequence(all) /\ ToSet(all) = {i} \cup (IF Yum THEN {q} ELSE {})
  BY <1>5, <1>6, <1>7 DEF Joined
<1>9. i.do = "install" /\ i.what = OtherPackages /\ q.do = "query" /\ OtherPackages \subseteq Asked
  BY <1>1 DEF Command, Asked
<1>10. Kinds("packages") = {"install", "query"}
  BY DEF Kinds
<1>11. (IF Yum THEN q ELSE i) = Command(IF Yum THEN "query" ELSE "install", OtherPackages)
  BY <1>1
<1>12. \A c \in ToSet(all) : c \in {i, q}
  BY <1>8
<1>13. (IF Yum THEN q ELSE i) \in ToSet(all)
  BY <1>8
<1> QED  BY <1>4, <1>8, <1>9, <1>10, <1>11, <1>12, <1>13

\* Services are diverted, and restored, one by one.
LEMMA DivertCommandsAre ==
  ASSUME IsFiniteSet(Services), NEW do, NEW list, list = When(Apt, Each(do, SetToSeq(Services)))
  PROVE  Sequence(list) /\ ToSet(list) = {Command(do, s) : s \in IF Apt THEN Services ELSE {}}
<1>1. CASE Apt
  <2>1. list = Each(do, SetToSeq(Services))
    BY <1>1 DEF When
  <2> QED  BY <1>1, <2>1, EachIs
<1>2. CASE ~Apt
  <2>1. list = <<>>
    BY <1>2 DEF When
  <2> QED  BY <1>2, <2>1, ShortLists
<1> QED  BY <1>1, <1>2

\* Every part is a list of commands of its own.
LEMMA CommandsOfAre ==
  ASSUME NewSystemAssumption, profile \in Profiles, valueMap \in ValueMaps, NEW p \in PastBootstrap
  PROVE  Sequence(CommandsOf(p)) /\ \A c \in ToSet(CommandsOf(p)) : c.do \in Kinds(p)
<1> DEFINE Fine(list) == Sequence(list) /\ \A c \in ToSet(list) : c.do \in Kinds(p)
<1>0. ASSUME NEW s, NEW t, Fine(s), Fine(t) PROVE Fine(s \o t)
  <2>1. PICK u : u = s \o t
    OBVIOUS
  <2>2. Joined(s, t, u)
    BY <1>0, <2>1, BothHold, Zenon
  <2> QED  BY <1>0, <2>1, <2>2 DEF Joined
<1>1. ASSUME NEW do \in Kinds(p), NEW what PROVE Fine(<<Command(do, what)>>)
  <2>1. PICK c : c = Command(do, what)
    OBVIOUS
  <2>2. Sequence(<<c>>) /\ ToSet(<<c>>) = {c}
    BY ShortLists
  <2>3. c.do = do
    BY <2>1 DEF Command
  <2> QED  BY <2>1, <2>2, <2>3
<1>2. Fine(<<>>)
  BY ShortLists
<1>3. ASSUME NEW condition, NEW list, Fine(list) PROVE Fine(When(condition, list))
  BY <1>2, <1>3 DEF When
<1>4. ASSUME NEW templates, "render" \in Kinds(p) PROVE Fine(Render(templates))
  BY <1>1, <1>4 DEF Render
<1> HIDE DEF Fine
<1>5. CASE p = "sources"
  BY <1>5, SourcesCommandsAre DEF CommandsOf, Fine
<1>6. CASE p = "baseConfig"
  <2>1. "render" \in Kinds(p) /\ "run" \in Kinds(p)
    BY <1>6 DEF Kinds
  <2>2. CommandsOf(p) = Render(profile.baseTemplates) \o When(profile.baseCmd, <<Command("run", "base_cmd")>>)
    BY <1>6 DEF CommandsOf
  <2>3. Fine(Render(profile.baseTemplates)) /\ Fine(When(profile.baseCmd, <<Command("run", "base_cmd")>>))
    BY <1>1, <1>3, <1>4, <2>1
  <2> QED  BY <1>0, <2>2, <2>3 DEF Fine
<1>7. CASE p = "divert"
  <2>1. \A c \in ToSet(DivertCommands) : c.do = "divert"
    BY DivertCommandsAre, ValuesAre DEF DivertCommands, Command
  <2> QED  BY <1>7, <2>1, DivertCommandsAre, ValuesAre DEF CommandsOf, DivertCommands, Kinds
<1>8. CASE p = "undivert"
  <2>1. \A c \in ToSet(UndivertCommands) : c.do = "restore"
    BY DivertCommandsAre, ValuesAre DEF UndivertCommands, Command
  <2> QED  BY <1>8, <2>1, DivertCommandsAre, ValuesAre DEF CommandsOf, UndivertCommands, Kinds
<1>9. CASE p = "preBase"
  <2>1. "render" \in Kinds(p) /\ "run" \in Kinds(p)
    BY <1>9 DEF Kinds
  <2>2. CommandsOf(p) = PreBaseCommands
    BY <1>9 DEF CommandsOf
  <2>3. Fine(Render(profile.prebase)) /\ Fine(When(Apt, <<Command("run", "debconf-set-selections")>>))
    BY <1>1, <1>3, <1>4, <2>1
  <2>4. Fine(Render(profile.prebase) \o When(Apt, <<Command("run", "debconf-set-selections")>>))
    BY <1>0, <2>3
  <2>5. Fine(<<Command("run", "prebase_cmd")>>)
    BY <1>1, <2>1
  <2>6. Fine(PreBaseCommands)
    BY <1>0, <2>4, <2>5 DEF PreBaseCommands
  <2> QED  BY <2>2, <2>6 DEF Fine
<1>10. CASE p = "base"
  BY <1>10, BaseCommandsAre DEF CommandsOf
<1>11. CASE p = "users"
  BY <1>11, UserCommandsAre DEF CommandsOf
<1>12. CASE p = "packages"
  BY <1>12, PackageCommandsAre DEF CommandsOf
<1>13. CASE p = "update"
  <2>1. "lists" \in Kinds(p) /\ "run" \in Kinds(p)
    BY <1>13 DEF Kinds
  <2>2. CommandsOf(p) = ListCommands \o <<Command("run", "upgrade")>>
    BY <1>13 DEF CommandsOf
  <2>3. Fine(ListCommands) /\ Fine(<<Command("run", "upgrade")>>)
    BY <1>1, <1>3, <2>1 DEF ListCommands
  <2> QED  BY <1>0, <2>2, <2>3 DEF Fine
<1>14. CASE p = "fullConfig"
  <2>1. "render" \in Kinds(p)
    BY <1>14 DEF Kinds
  <2>2. CommandsOf(p) = <<Command("render", TemplateFiles)>>
    BY <1>14 DEF CommandsOf
  <2> QED  BY <1>1, <2>1, <2>2 DEF Fine
<1>15. CASE p = "post"
  <2>1. "get" \in Kinds(p) /\ "write" \in Kinds(p) /\ "run" \in Kinds(p)
    BY <1>15 DEF Kinds
  <2>2. CommandsOf(p) = PostCommands
    BY <1>15 DEF CommandsOf
  <2>3. PICK get, write, run : /\ get = Command("get", "script") /\ write = Command("write", "script")
                               /\ run = Command("run", "/postinstall.sh")
    OBVIOUS
  <2>4. Fine(<<get, write, run>>)
    <3>1. get.do = "get" /\ write.do = "write" /\ run.do = "run"
      BY <2>3 DEF Command
    <3>2. Sequence(<<get, write, run>>) /\ ToSet(<<get, write, run>>) = {get, write, run}
      BY ShortLists
    <3> QED  BY <2>1, <3>1, <3>2 DEF Fine
  <2>5. Fine(When(valueMap.script, <<get, write, run>>)) /\ Fine(<<Command("run", "after_cmd")>>)
        /\ Fine(<<Command("run", "postinstall_command_list")>>)
    BY <1>1, <1>3, <2>1, <2>4
  <2>6. PICK script : script = When(valueMap.script, <<get, write, run>>)
    OBVIOUS
  <2>7. Fine(<<Command("run", "after_cmd")>> \o script)
    BY <1>0, <2>5, <2>6
  <2>8. Fine((<<Command("run", "after_cmd")>> \o script) \o <<Command("run", "postinstall_command_list")>>)
    BY <1>0, <2>5, <2>7
  <2>9. PostCommands = (<<Command("run", "after_cmd")>> \o script) \o <<Command("run", "postinstall_command_list")>>
    BY <2>3, <2>6 DEF PostCommands
  <2> QED  BY <2>2, <2>8, <2>9 DEF Fine
<1>16. CASE p = "clean"
  <2>1. "run" \in Kinds(p)
    BY <1>16 DEF Kinds
  <2>2. CommandsOf(p) = <<Command("run", "clean")>>
    BY <1>16 DEF CommandsOf
  <2> QED  BY <1>1, <2>1, <2>2 DEF Fine
<1>17. CASE p = "done"
  <2>1. CommandsOf(p) = <<>>
    BY <1>17 DEF CommandsOf
  <2> QED  BY <1>2, <2>1 DEF Fine
<1> QED
  BY <1>5, <1>6, <1>7, <1>8, <1>9, <1>10, <1>11, <1>12, <1>13, <1>14, <1>15, <1>16, <1>17
  DEF PastBootstrap, PastSources, PastBase, PastUsers, PastPackages, PastConfig, PastUndivert

\* The parts, in their order.
LEMMA PartsAre ==
  /\ PartNumber("bootstrap") = 1 /\ PartNumber("sources") = 2 /\ PartNumber("baseConfig") = 3
  /\ PartNumber("divert") = 4 /\ PartNumber("preBase") = 5 /\ PartNumber("base") = 6 /\ PartNumber("users") = 7
  /\ PartNumber("packages") = 8 /\ PartNumber("update") = 9 /\ PartNumber("fullConfig") = 10
  /\ PartNumber("post") = 11 /\ PartNumber("undivert") = 12 /\ PartNumber("clean") = 13 /\ PartNumber("done") = 14
<1>1. /\ DOMAIN Parts = 1..14
      /\ Parts[1] = "bootstrap" /\ Parts[2] = "sources" /\ Parts[3] = "baseConfig" /\ Parts[4] = "divert"
      /\ Parts[5] = "preBase" /\ Parts[6] = "base" /\ Parts[7] = "users" /\ Parts[8] = "packages" /\ Parts[9] = "update"
      /\ Parts[10] = "fullConfig" /\ Parts[11] = "post" /\ Parts[12] = "undivert" /\ Parts[13] = "clean" /\ Parts[14] = "done"
  BY DEF Parts
<1> HIDE DEF Parts
<1>2. \A j, k \in 1..14 : Parts[j] = Parts[k] => j = k
  BY <1>1
<1>3. ASSUME NEW k \in 1..14, NEW p, Parts[k] = p PROVE PartNumber(p) = k
  BY <1>1, <1>2, <1>3 DEF PartNumber
<1> QED  BY <1>1, <1>3

LEMMA NextPartIs ==
  ASSUME part \in {"bootstrap"} \cup PastBootstrap, part # "done", NEW next, next = NextPart
  PROVE  /\ part = "bootstrap" => next = "sources"
         /\ part = "sources" => next = "baseConfig"
         /\ part = "baseConfig" => next = "divert"
         /\ part = "divert" => next = "preBase"
         /\ part = "preBase" => next = "base"
         /\ part = "base" => next = "users"
         /\ part = "users" => next = "packages"
         /\ part = "packages" => next = "update"
         /\ part = "update" => next = "fullConfig"
         /\ part = "fullConfig" => next = "post"
         /\ part = "post" => next = "undivert"
         /\ part = "undivert" => next = "clean"
         /\ part = "clean" => next = "done"
<1>1. next = Parts[PartNumber(part) + 1]
  BY DEF NextPart
<1> QED  BY <1>1, PartsAre DEF Parts

LEMMA PassedIs ==
  ASSUME PartInv
  PROVE  (Passed("bootstrap") => part \in PastBootstrap) /\ (Passed("undivert") => part \in PastUndivert)
<1>1. CASE part = "failed"
  BY <1>1 DEF Passed
<1>2. CASE part = "bootstrap"
  BY <1>2, PartsAre DEF Passed
<1>3. CASE part \in PastBootstrap
  <2>1. part \in PastUndivert \/ PartNumber(part) <= 12
    BY <1>3, PartsAre
    DEF PastBootstrap, PastSources, PastBase, PastUsers, PastPackages, PastConfig, PastUndivert
  <2>2. Passed("undivert") => PartNumber(part) > 12
    BY PartsAre DEF Passed
  <2>3. ~(PartNumber(part) <= 12) \/ ~(PartNumber(part) > 12)
    <3>1. PartNumber(part) \in Nat \/ part \in PastUndivert
      BY <1>3, PartsAre
      DEF PastBootstrap, PastSources, PastBase, PastUsers, PastPackages, PastConfig, PastUndivert
    <3>2. part \in PastUndivert => PartNumber(part) \in Nat
      BY PartsAre DEF PastUndivert
    <3> QED  BY <3>1, <3>2
  <2> QED  BY <1>3, <2>1, <2>2, <2>3
<1> QED  BY <1>1, <1>2, <1>3 DEF PartInv

\* Field by field, what a command makes of the system.
Became(next, c) ==
  /\ DOMAIN next = DOMAIN system
  /\ c.do = "unpack" => next.files = Files(c.what, "image")
  /\ c.do = "copy" => next.files = Files({c.what}, "installer")
  /\ c.do \notin {"unpack", "copy"} => next.files = system.files
  /\ next.keys = IF c.do = "key" THEN Append(system.keys, c.what) ELSE system.keys
  /\ c.do = "clearRepos" => next.repos = {}
  /\ c.do = "render" => next.repos = IF "repos" \in c.what THEN system.repos \cup {"repos"} ELSE system.repos
  /\ c.do \notin {"clearRepos", "render", "install"} => next.repos = system.repos
  /\ next.written = IF c.do = "render" THEN system.written \cup c.what ELSE system.written
  /\ next.packages = IF c.do = "install" THEN system.packages \cup (c.what \ NoSuchPackage) ELSE system.packages
  /\ c.do = "divert" => next.diverted = system.diverted \cup {c.what}
  /\ c.do = "restore" => next.diverted = system.diverted \ {c.what}
  /\ c.do \notin {"divert", "restore"} => next.diverted = system.diverted
  /\ next.groups = IF c.do = "addgroup" THEN system.groups \cup {c.what} ELSE system.groups
  /\ next.users = IF c.do = "useradd" THEN system.users \cup {c.what.name} ELSE system.users
  /\ next.sudo = IF c.do = "sudo" THEN Append(system.sudo, c.what) ELSE system.sudo

LEMMA DoneIs ==
  ASSUME NEW c, DOMAIN system = {"files", "keys", "repos", "written", "packages", "diverted", "groups", "users", "sudo"},
         NEW next, next = Done(c)
  PROVE  Became(next, c)
<1>1. CASE c.do = "unpack"
  BY <1>1 DEF Done, Became
<1>2. CASE c.do = "copy"
  BY <1>2 DEF Done, Became
<1>3. CASE c.do = "key"
  BY <1>3 DEF Done, Became
<1>4. CASE c.do = "clearRepos"
  BY <1>4 DEF Done, Became
<1>5. CASE c.do = "render"
  BY <1>5 DEF Done, Became
<1>6. CASE c.do = "install"
  BY <1>6 DEF Done, Became
<1>7. CASE c.do = "divert"
  BY <1>7 DEF Done, Became
<1>8. CASE c.do = "restore"
  BY <1>8 DEF Done, Became
<1>9. CASE c.do = "addgroup"
  BY <1>9 DEF Done, Became
<1>10. CASE c.do = "useradd"
  BY <1>10 DEF Done, Became
<1>11. CASE c.do = "sudo"
  BY <1>11 DEF Done, Became
<1>12. CASE c.do \notin {"unpack", "copy", "key", "clearRepos", "render", "install", "divert", "restore", "addgroup",
                         "useradd", "sudo"}
  BY <1>12 DEF Done, Became
<1> QED  BY <1>1, <1>2, <1>3, <1>4, <1>5, <1>6, <1>7, <1>8, <1>9, <1>10, <1>11, <1>12

\* Where it begins.
LEMMA NewSystemBegins ==
  ASSUME NewSystemAssumption, NewSystemInit
  PROVE  NewSystemInv
<1>1. /\ profile \in Profiles /\ valueMap \in ValueMaps /\ part = "bootstrap" /\ work = BootstrapCommands
      /\ DOMAIN system = {"files", "keys", "repos", "written", "packages", "diverted", "groups", "users", "sudo"}
      /\ DOMAIN system.files = {"hostname", "resolv", "stub"} /\ system.keys = <<>> /\ system.packages = {}
      /\ system.diverted = {} /\ system.sudo = <<>>
  BY DEF NewSystemInit
<1>2. /\ Sequence(work) /\ \A c \in ToSet(work) : c.do \in Kinds("bootstrap")
      /\ \A c \in ToSet(work) : c.do = "install" => c.what \subseteq Asked
      /\ \A f : Copied(f) => Command("copy", f) \in ToSet(work) /\ CopiesLast(f, work)
  BY <1>1, BootstrapCommandsAre
<1>3. Sequence(<<>>) /\ ToSet(<<>>) = {} /\ Once(<<>>)
  BY ShortLists DEF Once
<1>4. part \notin PastBootstrap
  BY <1>1 DEF PastBootstrap, PastSources, PastBase, PastUsers, PastPackages, PastConfig, PastUndivert
<1>5. PartInv
  BY <1>1, <1>2, <1>3 DEF PartInv
<1>6. FilesInv
  BY <1>1, <1>2, <1>4 DEF FilesInv
<1>7. KeysInv
  BY <1>1, <1>3, <1>4 DEF KeysInv, PastBootstrap
<1>8. ReposInv
  BY <1>1 DEF ReposInv
<1>9. DivertInv
  BY <1>1 DEF DivertInv, Diverts
<1>10. PackagesInv
  BY <1>1, <1>2, <1>4 DEF PackagesInv, PastBootstrap, PastSources, PastBase, PastUsers
<1>11. UsersInv
  <2>1. work # <<>> => Head(work).do # "sudo"
    BY <1>2, SequenceIs DEF Kinds
  <2> QED  BY <1>1, <1>3, <1>4, <2>1 DEF UsersInv, PastBootstrap, PastSources, PastBase
<1>12. WrittenInv
  BY <1>1, <1>4 DEF WrittenInv, PastBootstrap, PastSources, PastBase, PastUsers, PastPackages
<1> QED  BY <1>5, <1>6, <1>7, <1>8, <1>9, <1>10, <1>11, <1>12 DEF NewSystemInv

\* And what it says in the end.
LEMMA WholeSystem ==
  ASSUME NewSystemAssumption, NewSystemInv
  PROVE  SystemIsWhole
<1>1. PartInv /\ FilesInv /\ KeysInv /\ ReposInv /\ DivertInv /\ PackagesInv /\ UsersInv /\ WrittenInv
  BY DEF NewSystemInv
<1>2. ServicesAreQuiet
  <2>1. ASSUME Apt, part # "bootstrap", work # <<>>, Head(work).do = "install" PROVE Services = system.diverted
    <3>1. Head(work) \in ToSet(work)
      BY <1>1, <2>1, SequenceIs DEF PartInv
    <3>2. part \in {"base", "packages"}
      BY <1>1, <2>1, <3>1
      DEF PartInv, Kinds, PastBootstrap, PastSources, PastBase, PastUsers, PastPackages, PastConfig, PastUndivert
    <3> QED  BY <1>1, <2>1, <3>2 DEF DivertInv, Diverts
  <2>2. Passed("undivert") => system.diverted = {}
    BY <1>1, PassedIs DEF DivertInv
  <2> QED  BY <2>1, <2>2 DEF ServicesAreQuiet
<1>3. NothingIsForgotten
  <2> SUFFICES ASSUME part = "done"
               PROVE  /\ \A p \in NamedPackages :
                           IF p[1] \in {"", profile.manager} THEN p[2] \in system.packages
                           ELSE p[2] \in system.packages \ FirstPackages =>
                                  \E q \in NamedPackages : q[2] = p[2] /\ q[1] \in {"", profile.manager}
                      /\ profile.base \subseteq system.packages
                      /\ \A u \in ToSet(valueMap.users) :
                           u.name \in system.users /\ (u.group # "" => u.group \in system.groups)
                      /\ IsInjective(system.sudo)
                      /\ TemplateFiles \subseteq system.written
    BY DEF NothingIsForgotten
  <2>1. part \in PastConfig /\ part \in PastPackages /\ part \in PastUsers /\ part \in PastBase /\ part \in PastSources
    BY DEF PastSources, PastBase, PastUsers, PastPackages, PastConfig, PastUndivert
  <2>2. OtherPackages \subseteq system.packages /\ system.packages \subseteq OtherPackages \cup FirstPackages
        /\ profile.base \subseteq system.packages
    BY <1>1, <2>1 DEF PackagesInv, Asked
  <2>3. OtherPackages = {p[2] : p \in {p \in NamedPackages : p[1] \in {"", profile.manager}}}
    BY <1>1, PackagesAre DEF PartInv
  <2>4. ASSUME NEW p \in NamedPackages
        PROVE  IF p[1] \in {"", profile.manager} THEN p[2] \in system.packages
               ELSE p[2] \in system.packages \ FirstPackages =>
                      \E q \in NamedPackages : q[2] = p[2] /\ q[1] \in {"", profile.manager}
    BY <2>2, <2>3
  <2>5. \A u \in ToSet(valueMap.users) : u.name \in system.users /\ (u.group # "" => u.group \in system.groups)
    BY <1>1, <2>1 DEF UsersInv, Made
  <2>6. IsInjective(system.sudo)
    BY <1>1 DEF UsersInv, Once, IsInjective
  <2>8. TemplateFiles \subseteq system.written
    BY <1>1, <2>1 DEF WrittenInv
  <2> QED  BY <2>2, <2>4, <2>5, <2>6, <2>8
<1>6. KeysAreThere
  <2> DEFINE repos == {r \in ToSet(valueMap.repos) : HasKey(r)}
             uris == {k.uri : k \in ToSet(system.keys)}
  <2> SUFFICES ASSUME part = "done"
               PROVE  /\ \A i, j \in DOMAIN system.keys : system.keys[i].uri = system.keys[j].uri => i = j
                      /\ ToSet(system.keys) \subseteq {KeyOf(r) : r \in {r \in repos : IsUsed(r)}}
                      /\ \A r \in repos : (\A o \in repos : o.uri = r.uri => IsUsed(o)) => r.uri \in uris
    BY DEF KeysAreThere
  <2>1. ToSet(system.keys) = OwnKeys /\ Once(system.keys) /\ profile \in Profiles /\ valueMap \in ValueMaps
    <3>1. part \in PastSources
      BY DEF PastSources, PastBase, PastUsers, PastPackages, PastConfig, PastUndivert
    <3> QED  BY <1>1, <3>1 DEF KeysInv, PartInv
  <2>2. ASSUME NEW i \in DOMAIN system.keys, NEW j \in DOMAIN system.keys, system.keys[i].uri = system.keys[j].uri
        PROVE  i = j
    <3>1. system.keys[i] \in OwnKeys /\ system.keys[j] \in OwnKeys
      BY <2>1 DEF ToSet
    <3>2. PICK k \in DOMAIN valueMap.repos : NewKey(k) /\ system.keys[i] = KeyOf(valueMap.repos[k])
      BY <3>1 DEF OwnKeys
    <3>3. PICK l \in DOMAIN valueMap.repos : NewKey(l) /\ system.keys[j] = KeyOf(valueMap.repos[l])
      BY <3>1 DEF OwnKeys
    <3>4. valueMap.repos[k].uri = valueMap.repos[l].uri
      BY <2>2, <3>2, <3>3 DEF KeyOf
    <3>5. k = l
      BY <2>1, <3>2, <3>3, <3>4, NewOnce
    <3> QED  BY <2>1, <3>2, <3>3, <3>5 DEF Once
  <2>3. ASSUME NEW k \in DOMAIN valueMap.repos, NewKey(k), IsUsed(valueMap.repos[k])
        PROVE  KeyOf(valueMap.repos[k]) \in {KeyOf(r) : r \in {r \in repos : IsUsed(r)}}
    BY <2>3 DEF NewKey, ToSet
  <2>4. ASSUME NEW r \in repos, \A o \in repos : o.uri = r.uri => IsUsed(o)
        PROVE  r.uri \in uris
    <3>1. PICK k \in DOMAIN valueMap.repos : NewKey(k) /\ valueMap.repos[k].uri = r.uri
      BY <2>1, FirstKey
    <3>2. valueMap.repos[k] \in repos
      BY <3>1 DEF NewKey, ToSet
    <3>3. KeyOf(valueMap.repos[k]) \in ToSet(system.keys)
      BY <2>1, <2>4, <3>1, <3>2 DEF OwnKeys
    <3>4. KeyOf(valueMap.repos[k]).uri = r.uri
      BY <3>1 DEF KeyOf
    <3> QED  BY <3>3, <3>4
  <2> QED  BY <2>1, <2>2, <2>3, <2>4 DEF OwnKeys
<1>4. ReposAreOwn
  BY <1>1 DEF ReposInv, ReposAreOwn, OwnRepos
<1>5. ResolverIsCopied
  <2>1. ASSUME Passed("bootstrap"), NEW f \in {"hostname", "resolv", "stub"}, Copied(f) PROVE system.files[f] = "installer"
    BY <1>1, <2>1, PassedIs DEF FilesInv
  <2>2. profile.bootstrap = "tarxz" => Copied("stub") /\ Copied("hostname")
    BY DEF Copied
  <2>3. profile.bootstrap = "redhatimg" /\ (profile.live \/ "resolv" \notin image) => Copied("resolv")
    BY DEF Copied
  <2> QED  BY <2>1, <2>2, <2>3 DEF ResolverIsCopied
<1> QED  BY <1>2, <1>3, <1>4, <1>5, <1>6 DEF SystemIsWhole

\* What the steps leave alone, is the same after them.
LEMMA SameProfile ==
  ASSUME UNCHANGED <<profile, valueMap, image>>
  PROVE  /\ Asked' = Asked /\ OtherPackages' = OtherPackages /\ OwnKeys' = OwnKeys
         /\ (OwnRepos' <=> OwnRepos) /\ (Apt' <=> Apt) /\ (Yum' <=> Yum) /\ \A f : Copied(f)' <=> Copied(f)
<1>1. /\ Asked' = Asked /\ OtherPackages' = OtherPackages
  BY DEF Asked, OtherPackages, ForManager, FirstPackages
<1>2. OwnKeys' = OwnKeys
  BY DEF OwnKeys, NewKey, HasKey, Own, KeyOf, IsUsed, Apt
<1>3. (OwnRepos' <=> OwnRepos) /\ (Apt' <=> Apt) /\ (Yum' <=> Yum)
  BY DEF OwnRepos, Apt, Yum
<1>4. \A f : Copied(f)' <=> Copied(f)
  BY DEF Copied
<1> QED  BY <1>1, <1>2, <1>3, <1>4

\* The list of what is known, with one more.
LEMMA OneMore ==
  ASSUME NEW s, Sequence(s), Once(s), NEW e, e \notin ToSet(s)
  PROVE  Sequence(Append(s, e)) /\ Once(Append(s, e)) /\ ToSet(Append(s, e)) = ToSet(s) \cup {e}
<1>1. PICK t : t = Append(s, e)
  OBVIOUS
<1>2. /\ Sequence(t) /\ Len(t) = Len(s) + 1 /\ Len(s) \in Nat /\ ToSet(t) = ToSet(s) \cup {e}
      /\ \A i \in 1..Len(s) : t[i] = s[i]
      /\ t[Len(s) + 1] = e
  BY <1>1, LongerIs
<1>3. DOMAIN s = 1..Len(s) /\ DOMAIN t = 1..(Len(s) + 1)
  BY <1>2, SequenceIs
<1>4. \A i \in 1..Len(s) : s[i] \in ToSet(s)
  BY <1>3 DEF ToSet
<1>5. ASSUME NEW i \in DOMAIN t, NEW j \in DOMAIN t, t[i] = t[j] PROVE i = j
  <2>1. CASE i \in 1..Len(s) /\ j \in 1..Len(s)
    BY <1>2, <1>3, <1>5, <2>1 DEF Once
  <2>2. CASE i = Len(s) + 1 /\ j = Len(s) + 1
    BY <2>2
  <2>3. CASE i = Len(s) + 1 /\ j \in 1..Len(s)
    BY <1>2, <1>4, <1>5, <2>3
  <2>4. CASE i \in 1..Len(s) /\ j = Len(s) + 1
    BY <1>2, <1>4, <1>5, <2>4
  <2> QED  BY <1>2, <1>3, <2>1, <2>2, <2>3, <2>4
<1> QED  BY <1>1, <1>2, <1>5 DEF Once

\* What holds of all the commands, holds of those that are left.
LEMMA LeftOver ==
  ASSUME NEW s, Sequence(s), s # <<>>
  PROVE  /\ \A f : CopiesLast(f, s) => CopiesLast(f, Tail(s))
         /\ \A f : CopiesLast(f, s) /\ Head(s).do = "unpack" /\ f \in Head(s).what => Command("copy", f) \in ToSet(Tail(s))
         /\ KeysOnce(s) => KeysOnce(Tail(s)) /\ (Head(s).do = "key" => Head(s).what \notin KeysOf(Tail(s)))
         /\ WritesLast(s) => /\ WritesLast(Tail(s))
                             /\ Head(s).do = "install" => \E c \in ToSet(Tail(s)) : Clears(c)
                             /\ Clears(Head(s)) => \E c \in ToSet(Tail(s)) : Writes(c)
         /\ WritesLast(s) /\ (\E c \in ToSet(Tail(s)) : Clears(c)) => \E c \in ToSet(Tail(s)) : Writes(c)
         /\ SudoNext(s) => /\ SudoNext(Tail(s))
                           /\ Tail(s) # <<>> /\ Head(Tail(s)).do = "sudo" =>
                                Head(s).do = "useradd" /\ Head(s).what.name = Head(Tail(s)).what
<1>1. PICK t, h : t = Tail(s) /\ h = Head(s)
  OBVIOUS
<1>2. /\ Sequence(t) /\ h = s[1] /\ 1 \in DOMAIN s /\ (t # <<>> => 2 \in DOMAIN s /\ Head(t) = s[2])
      /\ \A i \in DOMAIN t : i + 1 \in DOMAIN s /\ t[i] = s[i + 1] /\ i \in Nat \ {0}
      /\ \A i \in DOMAIN s : i \in Nat \ {0} /\ (i # 1 => i - 1 \in DOMAIN t /\ t[i - 1] = s[i])
  BY <1>1, HeadAndTail
<1>3. \A i \in DOMAIN t : t[i] \in ToSet(t)
  BY DEF ToSet
<1>4. ASSUME NEW f, CopiesLast(f, s)
      PROVE  CopiesLast(f, t) /\ (h.do = "unpack" /\ f \in h.what => Command("copy", f) \in ToSet(t))
  <2>1. ASSUME NEW i \in DOMAIN s, s[i].do = "unpack", f \in s[i].what
        PROVE  \E j \in DOMAIN t : j + 1 > i /\ t[j] = Command("copy", f)
    <3>1. PICK j \in DOMAIN s : j > i /\ s[j] = Command("copy", f)
      BY <1>4, <2>1 DEF CopiesLast
    <3>2. j # 1 /\ (j - 1) + 1 = j
      BY <1>2, <3>1
    <3> QED  BY <1>2, <3>1, <3>2
  <2>2. ASSUME NEW i \in DOMAIN t, t[i].do = "unpack", f \in t[i].what
        PROVE  \E j \in DOMAIN t : j > i /\ t[j] = Command("copy", f)
    <3>1. PICK j \in DOMAIN t : j + 1 > i + 1 /\ t[j] = Command("copy", f)
      BY <1>2, <2>1, <2>2
    <3> QED  BY <1>2, <3>1
  <2>3. h.do = "unpack" /\ f \in h.what => Command("copy", f) \in ToSet(t)
    BY <1>2, <1>3, <2>1
  <2> QED  BY <2>2, <2>3 DEF CopiesLast
<1>5. ASSUME KeysOnce(s) PROVE KeysOnce(t) /\ (h.do = "key" => h.what \notin KeysOf(t))
  <2>1. ASSUME NEW i \in DOMAIN t, NEW j \in DOMAIN t, t[i].do = "key", t[j].do = "key", t[j].what = t[i].what
        PROVE  i = j
    <3>1. i + 1 = j + 1
      BY <1>2, <1>5, <2>1 DEF KeysOnce
    <3> QED  BY <1>2, <3>1
  <2>2. ASSUME h.do = "key", NEW i \in DOMAIN t, t[i].do = "key", t[i].what = h.what PROVE FALSE
    <3>1. i + 1 = 1
      BY <1>2, <1>5, <2>2 DEF KeysOnce
    <3> QED  BY <1>2, <3>1
  <2> QED  BY <2>1, <2>2 DEF KeysOnce, KeysOf, ToSet
<1>6. ASSUME WritesLast(s)
      PROVE  /\ WritesLast(t)
             /\ h.do = "install" => \E c \in ToSet(t) : Clears(c)
             /\ Clears(h) => \E c \in ToSet(t) : Writes(c)
             /\ (\E c \in ToSet(t) : Clears(c)) => \E c \in ToSet(t) : Writes(c)
  <2>1. ASSUME NEW i \in DOMAIN s, s[i].do = "install" PROVE \E j \in DOMAIN t : j + 1 > i /\ Clears(t[j])
    <3>1. PICK j \in DOMAIN s : j > i /\ Clears(s[j])
      BY <1>6, <2>1 DEF WritesLast
    <3>2. j # 1 /\ (j - 1) + 1 = j
      BY <1>2, <3>1
    <3> QED  BY <1>2, <3>1, <3>2
  <2>2. ASSUME NEW i \in DOMAIN s, Clears(s[i]) PROVE \E j \in DOMAIN t : j + 1 > i /\ Writes(t[j])
    <3>1. PICK j \in DOMAIN s : j > i /\ Writes(s[j])
      BY <1>6, <2>2 DEF WritesLast
    <3>2. j # 1 /\ (j - 1) + 1 = j
      BY <1>2, <3>1
    <3> QED  BY <1>2, <3>1, <3>2
  <2>3. ASSUME NEW i \in DOMAIN t, t[i].do = "install" PROVE \E j \in DOMAIN t : j > i /\ Clears(t[j])
    <3>1. PICK j \in DOMAIN t : j + 1 > i + 1 /\ Clears(t[j])
      BY <1>2, <2>1, <2>3
    <3> QED  BY <1>2, <3>1
  <2>4. ASSUME NEW i \in DOMAIN t, Clears(t[i]) PROVE \E j \in DOMAIN t : j > i /\ Writes(t[j])
    <3>1. PICK j \in DOMAIN t : j + 1 > i + 1 /\ Writes(t[j])
      BY <1>2, <2>2, <2>4
    <3> QED  BY <1>2, <3>1
  <2>5. WritesLast(t)
    BY <2>3, <2>4 DEF WritesLast
  <2>6. (h.do = "install" => \E c \in ToSet(t) : Clears(c)) /\ (Clears(h) => \E c \in ToSet(t) : Writes(c))
    BY <1>2, <1>3, <2>1, <2>2
  <2>7. ASSUME NEW c \in ToSet(t), Clears(c) PROVE \E d \in ToSet(t) : Writes(d)
    <3>1. PICK i \in DOMAIN t : t[i] = c
      BY <2>7 DEF ToSet
    <3> QED  BY <1>3, <2>4, <2>7, <3>1
  <2> QED  BY <2>5, <2>6, <2>7
<1>7. ASSUME SudoNext(s)
      PROVE  /\ SudoNext(t)
             /\ t # <<>> /\ Head(t).do = "sudo" => h.do = "useradd" /\ h.what.name = Head(t).what
  <2>1. ASSUME NEW i \in DOMAIN t, t[i].do = "sudo", i > 1 PROVE t[i - 1].do = "useradd" /\ t[i - 1].what.name = t[i].what
    <3>1. i + 1 \in DOMAIN s /\ s[i + 1] = t[i] /\ i + 1 > 1 /\ (i + 1) - 1 = i
      BY <1>2, <2>1
    <3>2. s[i].do = "useradd" /\ s[i].what.name = t[i].what
      BY <1>7, <2>1, <3>1 DEF SudoNext
    <3>3. i \in DOMAIN s /\ i # 1 /\ t[i - 1] = s[i]
      <4>1. DOMAIN s = 1..Len(s) /\ Len(s) \in Nat
        BY SequenceIs
      <4>2. i \in DOMAIN s
        BY <1>2, <3>1, <4>1
      <4> QED  BY <1>2, <2>1, <4>2
    <3> QED  BY <3>2, <3>3
  <2>2. ASSUME t # <<>>, Head(t).do = "sudo" PROVE h.do = "useradd" /\ h.what.name = Head(t).what
    <3>1. 2 \in DOMAIN s /\ s[2] = Head(t) /\ 2 > 1 /\ 2 - 1 = 1
      BY <1>2, <2>2
    <3> QED  BY <1>2, <1>7, <2>2, <3>1 DEF SudoNext
  <2> QED  BY <2>1, <2>2 DEF SudoNext
<1> QED  BY <1>1, <1>4, <1>5, <1>6, <1>7

\* A command that is executed.
LEMMA ExecuteKeeps ==
  ASSUME NewSystemAssumption, NewSystemInv, Execute
  PROVE  NewSystemInv'
<1> DEFINE c == Head(work)
           left == Tail(work)
<1>1. PartInv /\ FilesInv /\ KeysInv /\ ReposInv /\ DivertInv /\ PackagesInv /\ UsersInv /\ WrittenInv
  BY DEF NewSystemInv
<1>2. /\ work # <<>> /\ ~Impossible(c) /\ system' = Done(c) /\ work' = left
      /\ profile' = profile /\ valueMap' = valueMap /\ image' = image /\ part' = part
  BY DEF Execute
<1>3. /\ Sequence(work) /\ Sequence(left) /\ ToSet(work) = {c} \cup ToSet(left)
      /\ c \in ToSet(work) /\ c.do \in Kinds(part)
      /\ DOMAIN system = {"files", "keys", "repos", "written", "packages", "diverted", "groups", "users", "sudo"}
  <2>1. Sequence(work)
    BY <1>1 DEF PartInv
  <2>2. Sequence(left) /\ ToSet(work) = {c} \cup ToSet(left)
    BY <1>2, <2>1, HeadAndTail
  <2> QED  BY <1>1, <2>1, <2>2 DEF PartInv
<1>4. /\ (Asked' = Asked /\ OtherPackages' = OtherPackages /\ OwnKeys' = OwnKeys)
      /\ (OwnRepos' <=> OwnRepos) /\ (Apt' <=> Apt) /\ (Yum' <=> Yum) /\ \A f : Copied(f)' <=> Copied(f)
  BY <1>2, SameProfile
<1>5. Became(system', c)
  BY <1>2, <1>3, DoneIs
<1>6. /\ \A f : CopiesLast(f, work) => CopiesLast(f, left)
      /\ \A f : CopiesLast(f, work) /\ c.do = "unpack" /\ f \in c.what => Command("copy", f) \in ToSet(left)
      /\ KeysOnce(work) => KeysOnce(left) /\ (c.do = "key" => c.what \notin KeysOf(left))
      /\ WritesLast(work) => /\ WritesLast(left)
                             /\ c.do = "install" => \E d \in ToSet(left) : Clears(d)
                             /\ Clears(c) => \E d \in ToSet(left) : Writes(d)
      /\ WritesLast(work) /\ (\E d \in ToSet(left) : Clears(d)) => \E d \in ToSet(left) : Writes(d)
      /\ SudoNext(work) => /\ SudoNext(left)
                           /\ left # <<>> /\ Head(left).do = "sudo" => c.do = "useradd" /\ c.what.name = Head(left).what
  BY <1>2, <1>3, LeftOver
<1>7. part \in {"bootstrap"} \cup PastBootstrap
  BY <1>1, <1>3 DEF PartInv, Kinds
<1> HIDE DEF c, left
<1>8. PartInv'
  <2>1. DOMAIN system'.files = {"hostname", "resolv", "stub"}
    BY <1>1, <1>5 DEF PartInv, Files, Became
  <2>2. Sequence(system'.keys) /\ Sequence(system'.sudo)
    BY <1>1, <1>5, LongerIs DEF PartInv, Became
  <2>3. /\ profile' \in Profiles /\ valueMap' \in ValueMaps /\ part' \in {"bootstrap", "failed"} \cup PastBootstrap
        /\ Sequence(work') /\ (\A d \in ToSet(work') : d.do \in Kinds(part'))
        /\ DOMAIN system' = {"files", "keys", "repos", "written", "packages", "diverted", "groups", "users", "sudo"}
    BY <1>1, <1>2, <1>3, <1>5 DEF PartInv, Became
  <2> QED  BY <2>1, <2>2, <2>3 DEF PartInv
<1>9. FilesInv'
  <2>1. ASSUME NEW f \in {"hostname", "resolv", "stub"}, Copied(f), part = "bootstrap"
        PROVE  (system'.files[f] = "installer" \/ Command("copy", f) \in ToSet(left)) /\ CopiesLast(f, left)
    <3>1. (system.files[f] = "installer" \/ Command("copy", f) \in ToSet(work)) /\ CopiesLast(f, work)
      BY <1>1, <2>1 DEF FilesInv
    <3>2. f \in DOMAIN system.files
      BY <1>1 DEF PartInv
    <3>3. CASE c.do = "unpack"
      <4>1. f \notin c.what => system'.files[f] = system.files[f]
        BY <1>5, <3>2, <3>3 DEF Files, Became
      <4>2. Command("copy", f) # c
        BY <3>3 DEF Command
      <4> QED  BY <1>3, <1>6, <3>1, <3>3, <4>1, <4>2
    <3>4. CASE c.do = "copy"
      <4>1. system'.files[f] = IF f = c.what THEN "installer" ELSE system.files[f]
        BY <1>5, <3>2, <3>4 DEF Files, Became
      <4>2. Command("copy", f) = c => c.what = f
        BY DEF Command
      <4> QED  BY <1>3, <1>6, <3>1, <4>1, <4>2
    <3>5. CASE c.do \notin {"unpack", "copy"}
      <4>1. Command("copy", f) # c
        BY <3>5 DEF Command
      <4> QED  BY <1>3, <1>5, <1>6, <3>1, <3>5, <4>1 DEF Became
    <3> QED  BY <3>3, <3>4, <3>5
  <2>2. ASSUME NEW f \in {"hostname", "resolv", "stub"}, Copied(f), part \in PastBootstrap
        PROVE  system'.files[f] = "installer"
    <3>1. system.files[f] = "installer"
      BY <1>1, <2>2 DEF FilesInv
    <3>2. c.do \notin {"unpack", "copy"}
      BY <1>3, <2>2
      DEF Kinds, PastBootstrap, PastSources, PastBase, PastUsers, PastPackages, PastConfig, PastUndivert
    <3> QED  BY <1>5, <3>1, <3>2 DEF Became
  <2> QED  BY <1>2, <1>4, <2>1, <2>2 DEF FilesInv
<1>10. KeysInv'
  <2>1. c.do = "key" => part = "sources"
    BY <1>3, <1>7 DEF Kinds
  <2>2. Sequence(system.keys) /\ Once(system.keys)
    BY <1>1 DEF PartInv, KeysInv
  <2>3. c.do = "key" => c.what \in KeysOf(work)
    BY <1>3 DEF KeysOf
  <2>4. KeysOf(work) = KeysOf(left) \cup (IF c.do = "key" THEN {c.what} ELSE {})
    BY <1>3 DEF KeysOf
  <2>5. CASE c.do = "key"
    <3>1. /\ ToSet(system.keys) \cup KeysOf(work) = OwnKeys /\ ToSet(system.keys) \cap KeysOf(work) = {}
          /\ KeysOnce(work) /\ part = "sources"
      BY <1>1, <2>1, <2>5 DEF KeysInv
    <3>2. c.what \notin ToSet(system.keys) /\ c.what \notin KeysOf(left) /\ KeysOnce(left)
      BY <1>6, <2>3, <2>5, <3>1
    <3>3. Once(system'.keys) /\ ToSet(system'.keys) = ToSet(system.keys) \cup {c.what}
      BY <1>5, <2>2, <2>5, <3>2, OneMore DEF Became
    <3>4. part' \notin PastSources /\ part' # "bootstrap"
      BY <1>2, <3>1 DEF PastSources, PastBase, PastUsers, PastPackages, PastConfig, PastUndivert
    <3>5. ToSet(system'.keys) \cup KeysOf(left) = OwnKeys /\ ToSet(system'.keys) \cap KeysOf(left) = {}
      BY <2>4, <2>5, <3>1, <3>2, <3>3
    <3> QED  BY <1>2, <1>4, <3>2, <3>3, <3>4, <3>5 DEF KeysInv
  <2>6. CASE c.do # "key"
    <3>1. system'.keys = system.keys /\ KeysOf(left) = KeysOf(work)
      BY <1>5, <2>4, <2>6 DEF Became
    <3> QED  BY <1>1, <1>2, <1>4, <1>6, <3>1 DEF KeysInv
  <2> QED  BY <2>5, <2>6
<1>11. ReposInv'
  <2> SUFFICES ASSUME OwnRepos
               PROVE  /\ part = "sources" \/ (part = "base" /\ profile.base # {}) =>
                           /\ WritesLast(left)
                           /\ (\E d \in ToSet(left) : Clears(d)) \/ system'.repos \subseteq {"repos"}
                           /\ (\E d \in ToSet(left) : Writes(d)) \/ system'.repos = {"repos"}
                      /\ part \in {"baseConfig", "divert", "preBase"} => system'.repos = {"repos"}
                      /\ part = "users" /\ profile.base # {} => system'.repos = {"repos"}
    BY <1>2, <1>4 DEF ReposInv
  <2>1. ASSUME part = "sources" \/ (part = "base" /\ profile.base # {})
        PROVE  /\ WritesLast(left)
               /\ (\E d \in ToSet(left) : Clears(d)) \/ system'.repos \subseteq {"repos"}
               /\ (\E d \in ToSet(left) : Writes(d)) \/ system'.repos = {"repos"}
    <3>1. /\ WritesLast(work)
          /\ (\E d \in ToSet(work) : Clears(d)) \/ system.repos \subseteq {"repos"}
          /\ (\E d \in ToSet(work) : Writes(d)) \/ system.repos = {"repos"}
      BY <1>1, <2>1 DEF ReposInv
    <3>2. /\ WritesLast(left)
          /\ c.do = "install" => \E d \in ToSet(left) : Clears(d)
          /\ Clears(c) => \E d \in ToSet(left) : Writes(d)
          /\ (\E d \in ToSet(left) : Clears(d)) => \E d \in ToSet(left) : Writes(d)
      BY <1>6, <3>1
    <3>3. CASE c.do = "install"
      BY <3>2, <3>3
    <3>4. CASE Clears(c)
      BY <1>5, <3>2, <3>4 DEF Clears, Became
    <3>5. CASE c.do = "render"
      <4>1. ~Clears(c)
        BY <3>5 DEF Clears
      <4>2. CASE "repos" \in c.what
        BY <1>3, <1>5, <3>1, <3>2, <3>5, <4>1, <4>2 DEF Became
      <4>3. CASE "repos" \notin c.what
        <5>1. ~Writes(c) /\ system'.repos = system.repos
          BY <1>5, <3>5, <4>3 DEF Writes, Became
        <5> QED  BY <1>3, <3>1, <3>2, <4>1, <5>1
      <4> QED  BY <4>2, <4>3
    <3>6. CASE c.do \notin {"clearRepos", "render", "install"}
      <4>1. ~Clears(c) /\ ~Writes(c) /\ system'.repos = system.repos
        BY <1>5, <3>6 DEF Clears, Writes, Became
      <4> QED  BY <1>3, <3>1, <3>2, <4>1
    <3> QED  BY <3>3, <3>4, <3>5, <3>6 DEF Clears
  <2>2. ASSUME part \in {"baseConfig", "divert", "preBase", "users"}, system.repos = {"repos"}
        PROVE  system'.repos = {"repos"}
    <3>1. c.do \notin {"clearRepos", "install"}
      BY <1>3, <2>2 DEF Kinds
    <3> QED  BY <1>5, <2>2, <3>1 DEF Became
  <2> QED  BY <1>1, <2>1, <2>2 DEF ReposInv
<1>12. DivertInv'
  <2>1. CASE part \in {"divert", "undivert"}
    <3>1. /\ system.diverted \subseteq (IF Apt THEN Services ELSE {}) /\ \A d \in ToSet(work) : Apt /\ d.what \in Services
          /\ part = "divert" /\ Apt => \A s \in Services : s \in system.diverted \/ Command("divert", s) \in ToSet(work)
          /\ part = "undivert" => \A s \in system.diverted : Command("restore", s) \in ToSet(work)
      BY <1>1, <2>1 DEF DivertInv
    <3>2. Apt /\ c.what \in Services /\ \A d \in ToSet(left) : Apt /\ d.what \in Services
      BY <1>3, <3>1
    <3>3. \A do, s : Command(do, s).what = s
      BY DEF Command
    <3>4. system'.diverted \subseteq (IF Apt THEN Services ELSE {})
      BY <1>5, <3>1, <3>2 DEF Became
    <3>5. ASSUME part = "divert", NEW s \in Services
          PROVE  s \in system'.diverted \/ Command("divert", s) \in ToSet(left)
      <4>1. c.do = "divert"
        BY <1>3, <3>5 DEF Kinds
      <4>2. system'.diverted = system.diverted \cup {c.what}
        BY <1>5, <4>1 DEF Became
      <4>3. s \in system.diverted \/ Command("divert", s) \in ToSet(work)
        BY <3>1, <3>2, <3>5
      <4> QED  BY <1>3, <3>3, <4>2, <4>3
    <3>6. ASSUME part = "undivert", NEW s \in system'.diverted PROVE Command("restore", s) \in ToSet(left)
      <4>1. c.do = "restore"
        BY <1>3, <3>6 DEF Kinds
      <4>2. s \in system.diverted /\ s # c.what
        BY <1>5, <3>6, <4>1 DEF Became
      <4> QED  BY <1>3, <3>1, <3>3, <3>6, <4>2
    <3>7. part' = part /\ part \notin {"bootstrap", "sources", "baseConfig"} \cup PastUndivert /\ part \notin Diverts
      BY <1>2, <2>1 DEF PastUndivert, Diverts
    <3> QED  BY <1>2, <1>4, <3>2, <3>4, <3>5, <3>6, <3>7 DEF DivertInv
  <2>2. CASE part \notin {"divert", "undivert"}
    <3>1. c.do \notin {"divert", "restore"}
      BY <1>3, <1>7, <2>2
      DEF Kinds, PastBootstrap, PastSources, PastBase, PastUsers, PastPackages, PastConfig, PastUndivert
    <3>2. system'.diverted = system.diverted
      BY <1>5, <3>1 DEF Became
    <3> QED  BY <1>1, <1>2, <1>4, <2>2, <3>2 DEF DivertInv
  <2> QED  BY <2>1, <2>2
<1>13. PackagesInv'
  <2>1. /\ system.packages \subseteq Asked
        /\ \A d \in ToSet(work) : d.do = "install" => d.what \subseteq Asked
        /\ part = "base" => profile.base \subseteq system.packages \/ Command("install", profile.base) \in ToSet(work)
        /\ part \in PastBase => profile.base \subseteq system.packages
        /\ part = "packages" =>
             \/ OtherPackages \subseteq system.packages
             \/ Command(IF Yum THEN "query" ELSE "install", OtherPackages) \in ToSet(work)
        /\ part \in PastPackages => OtherPackages \subseteq system.packages
    BY <1>1 DEF PackagesInv
  <2>2. system.packages \subseteq system'.packages /\ system'.packages \subseteq Asked
    BY <1>3, <1>5, <2>1 DEF Became
  <2>3. ASSUME part = "base"
        PROVE  profile.base \subseteq system'.packages \/ Command("install", profile.base) \in ToSet(left)
    <3>1. ASSUME c = Command("install", profile.base) PROVE profile.base \subseteq system'.packages
      <4>1. c.do = "install" /\ c.what = profile.base
        BY <3>1 DEF Command
      <4>2. profile.base \cap NoSuchPackage = {}
        <5>1. CASE Yum
          BY <1>1, <5>1, ValuesAre DEF PartInv
        <5>2. CASE ~Yum
          BY <1>2, <4>1, <5>2 DEF Impossible
        <5> QED  BY <5>1, <5>2
      <4> QED  BY <1>5, <4>1, <4>2 DEF Became
    <3> QED  BY <1>3, <2>1, <2>2, <2>3, <3>1
  <2>4. ASSUME part = "packages"
        PROVE  \/ OtherPackages \subseteq system'.packages
               \/ Command(IF Yum THEN "query" ELSE "install", OtherPackages) \in ToSet(left)
    <3>1. ASSUME c = Command(IF Yum THEN "query" ELSE "install", OtherPackages) PROVE OtherPackages \subseteq system'.packages
      <4>1. CASE Yum
        <5>1. c.do = "query" /\ c.what = OtherPackages
          BY <3>1, <4>1 DEF Command
        <5> QED  BY <1>2, <2>2, <5>1 DEF Impossible
      <4>2. CASE ~Yum
        <5>1. c.do = "install" /\ c.what = OtherPackages
          BY <3>1, <4>2 DEF Command
        <5>2. c.what \cap NoSuchPackage = {}
          BY <1>2, <4>2, <5>1 DEF Impossible
        <5> QED  BY <1>5, <5>1, <5>2 DEF Became
      <4> QED  BY <4>1, <4>2
    <3> QED  BY <1>3, <2>1, <2>2, <2>4, <3>1
  <2>5. /\ part \in PastBase => profile.base \subseteq system'.packages
        /\ part \in PastPackages => OtherPackages \subseteq system'.packages
        /\ \A d \in ToSet(left) : d.do = "install" => d.what \subseteq Asked
    BY <1>3, <2>1, <2>2
  <2>6. (Command(IF Yum THEN "query" ELSE "install", OtherPackages))' = Command(IF Yum THEN "query" ELSE "install", OtherPackages)
    BY <1>4
  <2> QED  BY <1>2, <1>4, <2>2, <2>3, <2>4, <2>5, <2>6 DEF PackagesInv
<1>14. UsersInv'
  <2>1. /\ part = "users" => \A u \in ToSet(valueMap.users) : Made(u) \/ Command("useradd", u) \in ToSet(work)
        /\ part \in PastUsers => \A u \in ToSet(valueMap.users) : Made(u)
        /\ Once(system.sudo) /\ ToSet(system.sudo) \subseteq system.users
        /\ c.do = "sudo" => c.what \in system.users \ ToSet(system.sudo)
        /\ part = "users" => SudoNext(work)
    BY <1>1, <1>2 DEF UsersInv, c
  <2>2. system.users \subseteq system'.users /\ system.groups \subseteq system'.groups
    BY <1>5 DEF Became
  <2>3. \A u : Made(u) => Made(u)'
    BY <2>2 DEF Made
  <2>4. ASSUME NEW u, c = Command("useradd", u) PROVE Made(u)'
    <3>1. c.do = "useradd" /\ c.what = u
      BY <2>4 DEF Command
    <3>2. u.group # "" => u.group \in system.groups
      BY <1>2, <3>1 DEF Impossible
    <3> QED  BY <1>5, <2>2, <3>1, <3>2 DEF Made, Became
  <2>5. part = "users" => \A u \in ToSet(valueMap.users) : Made(u)' \/ Command("useradd", u) \in ToSet(left)
    BY <1>3, <2>1, <2>3, <2>4
  <2>6. Once(system'.sudo) /\ ToSet(system'.sudo) \subseteq system'.users
        /\ ToSet(system'.sudo) = ToSet(system.sudo) \cup (IF c.do = "sudo" THEN {c.what} ELSE {})
    <3>1. CASE c.do = "sudo"
      <4>1. Once(system'.sudo) /\ ToSet(system'.sudo) = ToSet(system.sudo) \cup {c.what}
        BY <1>1, <1>5, <2>1, <3>1, OneMore DEF PartInv, Became
      <4> QED  BY <2>1, <2>2, <3>1, <4>1
    <3>2. CASE c.do # "sudo"
      BY <1>5, <2>1, <2>2, <3>2 DEF Became
    <3> QED  BY <3>1, <3>2
  <2>7. ASSUME left # <<>>, Head(left).do = "sudo" PROVE Head(left).what \in system'.users \ ToSet(system'.sudo)
    <3>1. part = "users"
      <4>1. Head(left) \in ToSet(work)
        BY <1>3, <2>7, SequenceIs
      <4> QED  BY <1>1, <1>7, <2>7, <4>1 DEF PartInv, Kinds
    <3>2. c.do = "useradd" /\ c.what.name = Head(left).what
      BY <1>6, <2>1, <2>7, <3>1
    <3>3. c.what.name \notin system.users
      BY <1>2, <3>2 DEF Impossible
    <3>4. system'.sudo = system.sudo /\ system'.users = system.users \cup {c.what.name}
      BY <1>5, <3>2 DEF Became
    <3> QED  BY <2>1, <3>2, <3>3, <3>4
  <2>8. part = "users" => SudoNext(left)
    BY <1>6, <2>1
  <2> QED  BY <1>2, <2>1, <2>3, <2>5, <2>6, <2>7, <2>8 DEF UsersInv
<1>15. WrittenInv'
  <2>1. system.written \subseteq system'.written
    BY <1>5 DEF Became
  <2>2. ASSUME c = Command("render", TemplateFiles) PROVE TemplateFiles \subseteq system'.written
    <3>1. c.do = "render" /\ c.what = TemplateFiles
      BY <2>2 DEF Command
    <3> QED  BY <1>5, <3>1 DEF Became
  <2> QED  BY <1>1, <1>2, <1>3, <2>1, <2>2 DEF WrittenInv
<1> QED  BY <1>8, <1>9, <1>10, <1>11, <1>12, <1>13, <1>14, <1>15 DEF NewSystemInv

\* Where it fails, nothing more is done.
LEMMA FailingKeeps ==
  ASSUME NewSystemInv, part' = "failed", work' = <<>>, UNCHANGED <<profile, valueMap, image, system>>
  PROVE  NewSystemInv'
<1>1. PartInv /\ FilesInv /\ KeysInv /\ ReposInv /\ DivertInv /\ PackagesInv /\ UsersInv /\ WrittenInv
  BY DEF NewSystemInv
<1>2. Sequence(<<>>) /\ ToSet(<<>>) = {}
  BY ShortLists
<1>3. part' \notin PastBootstrap
  BY DEF PastBootstrap, PastSources, PastBase, PastUsers, PastPackages, PastConfig, PastUndivert
<1>4. Asked' = Asked
  BY SameProfile
<1>5. PartInv'
  BY <1>1, <1>2 DEF PartInv
<1>6. FilesInv'
  BY <1>3 DEF FilesInv
<1>7. KeysInv'
  BY <1>1, <1>3 DEF KeysInv, PastBootstrap
<1>8. ReposInv'
  BY DEF ReposInv
<1>9. DivertInv'
  BY <1>3 DEF DivertInv, Diverts, PastUndivert
<1>10. PackagesInv'
  BY <1>1, <1>2, <1>3, <1>4 DEF PackagesInv, PastBootstrap, PastSources, PastBase, PastUsers
<1>11. UsersInv'
  BY <1>1, <1>3 DEF UsersInv, PastBootstrap, PastSources, PastBase
<1>12. WrittenInv'
  BY <1>3 DEF WrittenInv, PastBootstrap, PastSources, PastBase, PastUsers, PastPackages
<1> QED  BY <1>5, <1>6, <1>7, <1>8, <1>9, <1>10, <1>11, <1>12 DEF NewSystemInv

\* A part that is done, and the next one.
LEMMA GoOnKeeps ==
  ASSUME NewSystemAssumption, NewSystemInv, GoOn
  PROVE  NewSystemInv'
<1>1. PartInv /\ FilesInv /\ KeysInv /\ ReposInv /\ DivertInv /\ PackagesInv /\ UsersInv /\ WrittenInv
  BY DEF NewSystemInv
<1>2. PICK next, list : next = NextPart /\ list = CommandsOf(next)
  OBVIOUS
<1>3. /\ work = <<>> /\ part' = next /\ work' = list /\ part \in {"bootstrap"} \cup PastBootstrap /\ part # "done"
      /\ profile' = profile /\ valueMap' = valueMap /\ image' = image /\ system' = system
  BY <1>1, <1>2 DEF GoOn, PartInv
<1>4. ToSet(work) = {} /\ profile \in Profiles /\ valueMap \in ValueMaps
  BY <1>1, <1>3, ShortLists DEF PartInv
<1>5. /\ (Asked' = Asked /\ OtherPackages' = OtherPackages /\ OwnKeys' = OwnKeys)
      /\ (OwnRepos' <=> OwnRepos) /\ (Apt' <=> Apt) /\ (Yum' <=> Yum) /\ \A f : Copied(f)' <=> Copied(f)
  BY <1>3, SameProfile
<1>6. /\ part = "bootstrap" => next = "sources"
      /\ part = "sources" => next = "baseConfig"
      /\ part = "baseConfig" => next = "divert"
      /\ part = "divert" => next = "preBase"
      /\ part = "preBase" => next = "base"
      /\ part = "base" => next = "users"
      /\ part = "users" => next = "packages"
      /\ part = "packages" => next = "update"
      /\ part = "update" => next = "fullConfig"
      /\ part = "fullConfig" => next = "post"
      /\ part = "post" => next = "undivert"
      /\ part = "undivert" => next = "clean"
      /\ part = "clean" => next = "done"
  BY <1>2, <1>3, NextPartIs
<1>7. /\ part = "bootstrap" \/ part = "sources" \/ part = "baseConfig" \/ part = "divert" \/ part = "preBase" \/ part = "base"
         \/ part = "users" \/ part = "packages" \/ part = "update" \/ part = "fullConfig" \/ part = "post"
         \/ part = "undivert" \/ part = "clean"
  BY <1>3 DEF PastBootstrap, PastSources, PastBase, PastUsers, PastPackages, PastConfig, PastUndivert
<1>8. next \in PastBootstrap
  BY <1>6, <1>7 DEF PastBootstrap, PastSources, PastBase, PastUsers, PastPackages, PastConfig, PastUndivert
<1>9. Sequence(list) /\ \A c \in ToSet(list) : c.do \in Kinds(next)
  BY <1>2, <1>4, <1>8, CommandsOfAre
<1>10. PartInv'
  BY <1>1, <1>3, <1>8, <1>9 DEF PartInv
<1>11. FilesInv'
  <2>1. next # "bootstrap"
    BY <1>8 DEF PastBootstrap, PastSources, PastBase, PastUsers, PastPackages, PastConfig, PastUndivert
  <2>2. \A f \in {"hostname", "resolv", "stub"} : Copied(f) => system.files[f] = "installer"
    BY <1>1, <1>3, <1>4 DEF FilesInv
  <2> QED  BY <1>3, <1>5, <2>1, <2>2 DEF FilesInv
<1>12. KeysInv'
  <2>1. Once(system.keys) /\ next # "bootstrap"
    BY <1>1, <1>8
    DEF KeysInv, PastBootstrap, PastSources, PastBase, PastUsers, PastPackages, PastConfig, PastUndivert
  <2>2. ASSUME next = "sources"
        PROVE  /\ ToSet(system.keys) \cup KeysOf(list) = OwnKeys /\ ToSet(system.keys) \cap KeysOf(list) = {}
               /\ KeysOnce(list)
    <3>1. part = "bootstrap"
      BY <1>6, <1>7, <2>2
    <3>2. ToSet(system.keys) = {}
      BY <1>1, <3>1, ShortLists DEF KeysInv
    <3>3. KeysOf(list) = OwnKeys /\ KeysOnce(list)
      <4>1. list = SourcesCommands
        BY <1>2, <2>2 DEF CommandsOf
      <4> QED  BY <1>4, <4>1, SourcesCommandsAre
    <3> QED  BY <3>2, <3>3
  <2>3. ASSUME next \in PastSources PROVE ToSet(system.keys) = OwnKeys
    <3>1. part = "sources" \/ part \in PastSources
      BY <1>6, <1>7, <2>3 DEF PastSources, PastBase, PastUsers, PastPackages, PastConfig, PastUndivert
    <3>2. KeysOf(work) = {}
      BY <1>4 DEF KeysOf
    <3> QED  BY <1>1, <3>1, <3>2 DEF KeysInv
  <2> QED  BY <1>3, <1>5, <2>1, <2>2, <2>3 DEF KeysInv
<1>13. ReposInv'
  <2> SUFFICES ASSUME OwnRepos
               PROVE  /\ next = "sources" \/ (next = "base" /\ profile.base # {}) =>
                           /\ WritesLast(list)
                           /\ \E d \in ToSet(list) : Clears(d)
                           /\ \E d \in ToSet(list) : Writes(d)
                      /\ next \in {"baseConfig", "divert", "preBase"} => system.repos = {"repos"}
                      /\ next = "users" /\ profile.base # {} => system.repos = {"repos"}
    BY <1>3, <1>5 DEF ReposInv
  <2>1. CASE next = "sources"
    <3>1. list = SourcesCommands
      BY <1>2, <2>1 DEF CommandsOf
    <3> QED  BY <1>4, <2>1, <3>1, SourcesCommandsAre
  <2>2. CASE next = "base"
    <3>1. list = BaseCommands
      BY <1>2, <2>2 DEF CommandsOf
    <3> QED  BY <1>4, <2>2, <3>1, BaseCommandsAre
  <2>3. CASE next \in {"baseConfig", "divert", "preBase", "users"}
    <3>1. part \in {"sources", "baseConfig", "divert", "base"} /\ (part = "base" <=> next = "users")
      BY <1>6, <1>7, <2>3
    <3> QED  BY <1>1, <1>4, <2>3, <3>1 DEF ReposInv
  <2>4. CASE next \notin {"sources", "base", "baseConfig", "divert", "preBase", "users"}
    BY <2>4
  <2> QED  BY <2>1, <2>2, <2>3, <2>4
<1>14. DivertInv'
  <2>1. CASE next \in {"divert", "undivert"}
    <3>1. IsFiniteSet(Services)
      BY DEF NewSystemAssumption
    <3>2. \A do, s : Command(do, s).what = s
      BY DEF Command
    <3>3. next = "divert" => ToSet(list) = {Command("divert", s) : s \in IF Apt THEN Services ELSE {}} /\ system.diverted = {}
      <4>1. next = "divert" => list = When(Apt, Each("divert", SetToSeq(Services))) /\ part = "baseConfig"
        BY <1>2, <1>6, <1>7 DEF CommandsOf, DivertCommands
      <4> QED  BY <1>1, <3>1, <4>1, DivertCommandsAre DEF DivertInv
    <3>4. next = "undivert" => /\ ToSet(list) = {Command("restore", s) : s \in IF Apt THEN Services ELSE {}}
                               /\ system.diverted = IF Apt THEN Services ELSE {}
      <4>1. next = "undivert" => list = When(Apt, Each("restore", SetToSeq(Services))) /\ part = "post"
        BY <1>2, <1>6, <1>7 DEF CommandsOf, UndivertCommands
      <4> QED  BY <1>1, <3>1, <4>1, DivertCommandsAre DEF DivertInv, Diverts
    <3>5. system.diverted \subseteq (IF Apt THEN Services ELSE {})
      BY <2>1, <3>3, <3>4
    <3>6. \A d \in ToSet(list) : Apt /\ d.what \in Services
      <4>1. CASE Apt
        BY <2>1, <3>2, <3>3, <3>4, <4>1
      <4>2. CASE ~Apt
        BY <2>1, <3>3, <3>4, <4>2
      <4> QED  BY <4>1, <4>2
    <3>7. next = "divert" /\ Apt => \A s \in Services : Command("divert", s) \in ToSet(list)
      BY <3>3
    <3>8. next = "undivert" => \A s \in system.diverted : Command("restore", s) \in ToSet(list)
      BY <3>4
    <3>9. next \notin {"bootstrap", "sources", "baseConfig"} \cup PastUndivert /\ next \notin Diverts
      BY <2>1 DEF PastUndivert, Diverts
    <3> QED  BY <1>3, <1>5, <3>5, <3>6, <3>7, <3>8, <3>9 DEF DivertInv
  <2>2. CASE next \in {"sources", "baseConfig"} \cup PastUndivert
    <3>1. part \in {"bootstrap", "sources", "undivert", "clean"}
      BY <1>6, <1>7, <2>2 DEF PastUndivert
    <3>2. system.diverted = {}
      BY <1>1, <1>4, <3>1 DEF DivertInv, PastUndivert
    <3>3. next \notin {"divert", "undivert"} /\ next \notin Diverts
      BY <2>2 DEF PastUndivert, Diverts
    <3> QED  BY <1>3, <3>2, <3>3 DEF DivertInv
  <2>3. CASE next \in Diverts
    <3>1. part \in Diverts \/ part = "divert"
      BY <1>6, <1>7, <2>3 DEF Diverts
    <3>2. part \in Diverts => system.diverted = IF Apt THEN Services ELSE {}
      BY <1>1 DEF DivertInv
    <3>3. part = "divert" => system.diverted = IF Apt THEN Services ELSE {}
      <4>1. part = "divert" =>
              /\ system.diverted \subseteq (IF Apt THEN Services ELSE {})
              /\ Apt => \A s \in Services : s \in system.diverted
        BY <1>1, <1>4 DEF DivertInv
      <4>2. CASE Apt
        BY <4>1, <4>2
      <4>3. CASE ~Apt
        BY <4>1, <4>3
      <4> QED  BY <4>2, <4>3
    <3>4. next \notin {"bootstrap", "sources", "baseConfig", "divert", "undivert"} \cup PastUndivert
      BY <2>3 DEF PastUndivert, Diverts
    <3> QED  BY <1>3, <1>5, <3>1, <3>2, <3>3, <3>4 DEF DivertInv
  <2> QED
    BY <1>8, <2>1, <2>2, <2>3
    DEF Diverts, PastBootstrap, PastSources, PastBase, PastUsers, PastPackages, PastConfig, PastUndivert
<1>15. PackagesInv'
  <2>1. system.packages \subseteq Asked
    BY <1>1 DEF PackagesInv
  <2>2. /\ \A c \in ToSet(list) : c.do = "install" => c.what \subseteq Asked
        /\ next = "base" => profile.base \subseteq system.packages \/ Command("install", profile.base) \in ToSet(list)
        /\ next = "packages" => Command(IF Yum THEN "query" ELSE "install", OtherPackages) \in ToSet(list)
    <3>1. CASE next = "base"
      <4>1. list = BaseCommands
        BY <1>2, <3>1 DEF CommandsOf
      <4> QED  BY <1>4, <3>1, <4>1, BaseCommandsAre
    <3>2. CASE next = "packages"
      <4>1. list = PackageCommands(OtherPackages)
        BY <1>2, <3>2 DEF CommandsOf
      <4> QED  BY <3>2, <4>1, PackageCommandsAre
    <3>3. CASE next \notin {"base", "packages"}
      <4>1. "install" \notin Kinds(next)
        BY <1>8, <3>3
        DEF Kinds, PastBootstrap, PastSources, PastBase, PastUsers, PastPackages, PastConfig, PastUndivert
      <4> QED  BY <1>9, <3>3, <4>1
    <3> QED  BY <3>1, <3>2, <3>3
  <2>3. next \in PastBase => profile.base \subseteq system.packages
    <3>1. next \in PastBase => part = "base" \/ part \in PastBase
      BY <1>6, <1>7 DEF PastBase, PastUsers, PastPackages, PastConfig, PastUndivert
    <3> QED  BY <1>1, <1>4, <3>1 DEF PackagesInv
  <2>4. next \in PastPackages => OtherPackages \subseteq system.packages
    <3>1. next \in PastPackages => part = "packages" \/ part \in PastPackages
      BY <1>6, <1>7 DEF PastPackages, PastConfig, PastUndivert
    <3> QED  BY <1>1, <1>4, <3>1 DEF PackagesInv
  <2>5. (Command(IF Yum THEN "query" ELSE "install", OtherPackages))' = Command(IF Yum THEN "query" ELSE "install", OtherPackages)
    BY <1>5
  <2> QED  BY <1>3, <1>5, <2>1, <2>2, <2>3, <2>4, <2>5 DEF PackagesInv
<1>16. UsersInv'
  <2>1. Once(system.sudo) /\ ToSet(system.sudo) \subseteq system.users
    BY <1>1 DEF UsersInv
  <2>2. \A u : Made(u)' <=> Made(u)
    BY <1>3 DEF Made
  <2>3. /\ next = "users" => /\ \A u \in ToSet(valueMap.users) : Command("useradd", u) \in ToSet(list)
                             /\ SudoNext(list)
        /\ list # <<>> => Head(list).do # "sudo"
    <3>1. CASE next = "users"
      <4>1. list = UserCommands
        BY <1>2, <3>1 DEF CommandsOf
      <4> QED  BY <1>4, <3>1, <4>1, UserCommandsAre
    <3>2. CASE next # "users"
      <4>1. "sudo" \notin Kinds(next)
        BY <1>8, <3>2
        DEF Kinds, PastBootstrap, PastSources, PastBase, PastUsers, PastPackages, PastConfig, PastUndivert
      <4> QED  BY <1>9, <3>2, <4>1, SequenceIs
    <3> QED  BY <3>1, <3>2
  <2>4. next \in PastUsers => \A u \in ToSet(valueMap.users) : Made(u)
    <3>1. next \in PastUsers => part = "users" \/ part \in PastUsers
      BY <1>6, <1>7 DEF PastUsers, PastPackages, PastConfig, PastUndivert
    <3> QED  BY <1>1, <1>4, <3>1 DEF UsersInv
  <2> QED  BY <1>3, <2>1, <2>2, <2>3, <2>4 DEF UsersInv
<1>17. WrittenInv'
  <2>1. next = "fullConfig" => Command("render", TemplateFiles) \in ToSet(list)
    <3>1. next = "fullConfig" => list = <<Command("render", TemplateFiles)>>
      BY <1>2 DEF CommandsOf
    <3>2. \A c : ToSet(<<c>>) = {c}
      BY ShortLists
    <3> QED  BY <3>1, <3>2
  <2>2. next \in PastConfig => TemplateFiles \subseteq system.written
    <3>1. next \in PastConfig => part = "fullConfig" \/ part \in PastConfig
      BY <1>6, <1>7 DEF PastConfig, PastUndivert
    <3> QED  BY <1>1, <1>4, <3>1 DEF WrittenInv
  <2> QED  BY <1>3, <2>1, <2>2 DEF WrittenInv
<1> QED  BY <1>10, <1>11, <1>12, <1>13, <1>14, <1>15, <1>16, <1>17 DEF NewSystemInv

LEMMA NewSystemStep ==
  ASSUME NewSystemAssumption, NewSystemInv, [NewSystemNext]_newSystemVars
  PROVE  NewSystemInv'
<1>1. ASSUME UNCHANGED <<profile, valueMap, image, part, work, system>> PROVE NewSystemInv'
  <2>1. /\ Asked' = Asked /\ OtherPackages' = OtherPackages /\ OwnKeys' = OwnKeys
        /\ (OwnRepos' <=> OwnRepos) /\ (Apt' <=> Apt) /\ (Yum' <=> Yum) /\ \A f : Copied(f)' <=> Copied(f)
    BY <1>1, SameProfile
  <2>2. \A u : Made(u)' <=> Made(u)
    BY <1>1 DEF Made
  <2>3. (Command(IF Yum THEN "query" ELSE "install", OtherPackages))' = Command(IF Yum THEN "query" ELSE "install", OtherPackages)
    BY <2>1
  <2>4. PartInv' /\ KeysInv' /\ ReposInv' /\ WrittenInv'
    BY <1>1, <2>1 DEF NewSystemInv, PartInv, KeysInv, ReposInv, WrittenInv
  <2>5. FilesInv'
    BY <1>1, <2>1 DEF NewSystemInv, FilesInv
  <2>6. DivertInv'
    BY <1>1, <2>1 DEF NewSystemInv, DivertInv
  <2>7. PackagesInv'
    BY <1>1, <2>1, <2>3 DEF NewSystemInv, PackagesInv
  <2>8. UsersInv'
    BY <1>1, <2>2 DEF NewSystemInv, UsersInv
  <2> QED  BY <2>4, <2>5, <2>6, <2>7, <2>8 DEF NewSystemInv
<1>2. CASE Execute
  BY <1>2, ExecuteKeeps
<1>3. CASE ExecuteFails
  BY <1>3, FailingKeeps DEF ExecuteFails
<1>4. CASE ExecuteAgain
  BY <1>1, <1>4, FailingKeeps DEF ExecuteAgain
<1>5. CASE GoOn
  BY <1>5, GoOnKeeps
<1>6. CASE UNCHANGED newSystemVars
  BY <1>1, <1>6 DEF newSystemVars
<1> QED  BY <1>2, <1>3, <1>4, <1>5, <1>6 DEF NewSystemNext

NewSystemSpec == NewSystemInit /\ [][NewSystemNext]_newSystemVars

\* An installed system is whole (installer.py and the modules it calls): apt, once
\* there is an image, installs packages only while no service can be started, and
\* all of them can in the end; every package of the profile and of Contractor for its
\* manager is there and none of another manager but those it began with, every user
\* and each of the sudo lines once, the templates, and every key once; the
\* repositories of yum are those of the configuration; and the name server and the
\* name of the host are those of the installer.
THEOREM SystemWhole == NewSystemSpec => []SystemIsWhole
<1>1. NewSystemInit => NewSystemInv
  BY NewSystemAssumption, NewSystemBegins
<1>2. NewSystemInv /\ [NewSystemNext]_newSystemVars => NewSystemInv'
  BY NewSystemAssumption, NewSystemStep
<1>3. NewSystemInv => SystemIsWhole
  BY NewSystemAssumption, WholeSystem
<1> QED  BY <1>1, <1>2, <1>3, PTL DEF NewSystemSpec
=============================================================================
