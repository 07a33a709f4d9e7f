----------------------------- MODULE DiskTestProofs -----------------------------
(***************************************************************************)
(* What is proved of DiskTest for every set of drives, every assignment of *)
(* block devices, every set of options and any number of boots.            *)
(*                                                                         *)
(* The inductive invariant says, for each place drivetest can be at, which *)
(* drives its loop has still to visit (Places), where a child that runs    *)
(* can be (Children), where a failure can be that is not yet a pruned      *)
(* drive (Failures), which commands a good drive has come through (Passed), *)
(* that nothing is run after the good drives are marked (InProgram,        *)
(* Marked), what Plato knows of the bad drives and does not say of the     *)
(* good ones (BadIsReported, Unflagged), and between which steps of the    *)
(* program a file system may be mounted (MountsAreOpen).  Of a drivetest   *)
(* that has died of an exception (pc = "exit1") little is said but its     *)
(* types and its lists: its children run on.                               *)
(***************************************************************************)
EXTENDS DiskTest, TLAPS

\* The places of drivetest inside runOnEachDriveWait.
WaitPlaces == {"start", "wait", "check", "terminate", "reap"}

\* Where drivetest is, which drives the loop there has still to visit, and which
\* of them are good.
Places ==
  /\ pc \in WaitPlaces => Step \in Waited
  /\ pc = "loop" => Step \in LoopSteps \cup {"storeskipped", "saveresults"}
  /\ pc = "lit" => Step = "lightup"
  /\ pc = "load" => /\ step = 1 /\ failed = {}
                    /\ \A d \in Drives : child[d] = "none"
  /\ pc = "loop" /\ Step # "storeskipped" => todo \subseteq good_list
  /\ pc \in {"start", "check"} => todo \subseteq good_list
  /\ pc = "wait" => drive_list \subseteq good_list
  /\ pc = "start" \/ (pc = "loop" /\ Step \in Immediate) =>
       drive_list \cap todo = {}
  /\ pc = "start" => drive_list \subseteq good_list
  /\ pc \in {"terminate", "reap"} =>
       \A d \in todo : d \in IF IsNext(d) THEN bad_reasons ELSE good_list

\* Where a child that runs can be; NoChildLeftBehind, and which child it is that
\* may run while one is reaped.
Children ==
  pc # "exit1" =>
    \A d \in Drives :
      /\ child[d] = "running" =>
           /\ pc \in {"start", "wait"} => d \in drive_list
           /\ pc \in {"check", "terminate", "reap"} => d \in todo
           /\ pc \in WaitPlaces
           /\ pc = "reap" => ~IsNext(d)
      /\ child[d] \in {"terminated", "killed"} => d \in bad_reasons

\* A good drive that has failed is one whose child has just failed.
Failures ==
  pc # "exit1" =>
    \A d \in good_list \cap failed :
      /\ child[d] = "fail"
      /\ pc \in WaitPlaces
      /\ pc \in {"start", "wait"} => d \in drive_list
      /\ pc \in {"check", "terminate", "reap"} => d \in todo

\* The command of the current step can be run on d.
Applicable(d) == HasBlock(d) \/ Step \notin NeedsBlock

\* The commands a good drive has come through, the current one included once the
\* loop is past the drive.
Passed ==
  pc # "exit1" =>
    \A d \in good_list : Alone(d) =>
      /\ Required(d) \subseteq passed[d]
      /\ Applicable(d) /\ d \notin todo =>
           /\ pc = "loop" /\ Step \in Immediate => Step \in passed[d]
           /\ pc \in {"check", "terminate", "reap"} => Step \in passed[d]
           /\ pc = "start" => d \in drive_list
      /\ Applicable(d) /\ pc = "wait" => d \in drive_list

\* The steps from the marking of the good drives on run and evaluate nothing.
LastSteps == {"mark", "storegood", "storeskipped", "exit"}
\* drivetest is at a step of its program.
InProgram == step \in 1..Len(Program(options))

\* What is still to come of the program.
Rest == {Program(options)[i] : i \in step..Len(Program(options))}

\* Once a drive is marked, only the last steps are to come.
Marked ==
  marked # {} =>
    /\ pc \in {"begin", "loop", "exit0", "exit1"}
    /\ Rest \subseteq LastSteps
    /\ \A d \in Drives : child[d] # "running"
    /\ marked \subseteq good_list
    /\ \A d \in marked : Certified(d)

\* Once the scans are past their first step, no good drive is one Plato has
\* flagged: those are pruned by the scan, and what is flagged later is pruned
\* with it.
Unflagged ==
  options.report /\ pc # "exit1" /\ step # 1 => good_list \cap dead = {}

\* A step of the program after a mount, before the file systems are unmounted again
\* or as they are.
MountOpen(i) ==
  \E j \in 1..i : /\ Program(options)[j] = "mount"
                  /\ \A k \in j..i - 1 : Program(options)[k] # "umount"

\* A good drive with a block device of its own has its file system mounted only
\* at such a step, and while they are unmounted until the loop comes to it.
MountsAreOpen ==
  /\ pc = "load" => mounted = {}
  /\ \A d \in good_list : HasBlock(d) /\ Alone(d) /\ block_name[d] \in mounted =>
       /\ MountOpen(step)
       /\ Step = "umount" /\ pc = "loop" => d \in todo

\* The inductive invariant.
IInv == /\ TypeOK /\ Accounted /\ Places /\ Children /\ Failures /\ Passed
        /\ InProgram /\ Marked /\ BadIsReported /\ Unflagged /\ MountsAreOpen

-----------------------------------------------------------------------------
(* The program: its last steps, once the good drives are marked, run and     *)
(* evaluate nothing.                                                         *)

\* The steps that may come before the closing ones.
Body == StepNames \ {"mark", "exit"}

\* A sequence of steps with one exit, at its end, and only last steps after a mark.
EndsInLastSteps(s) ==
  /\ s \in Seq(StepNames)
  /\ Len(s) > 0
  /\ \A i \in 1..Len(s) : s[i] = "exit" <=> i = Len(s)
  /\ \A i, j \in 1..Len(s) : s[i] = "mark" /\ i <= j => s[j] \in LastSteps

\* A sequence without a marking or an exit can be put before one that ends in the
\* last steps.
LEMMA PrependBody ==
  ASSUME NEW p \in Seq(Body), NEW s, EndsInLastSteps(s)
  PROVE  EndsInLastSteps(p \o s)
PROOF
  <1> DEFINE q == p \o s
  <1>1. s \in Seq(StepNames) /\ p \in Seq(StepNames)
    BY DEF EndsInLastSteps, Body
  <1>2. q \in Seq(StepNames) /\ Len(q) = Len(p) + Len(s) /\ Len(p) \in Nat /\ Len(s) \in Nat
    BY <1>1
  <1>3. \A i \in 1..Len(p) : q[i] \in Body
    BY <1>1
  <1>4. \A i \in Len(p) + 1..Len(q) : i - Len(p) \in 1..Len(s) /\ q[i] = s[i - Len(p)]
    BY <1>1, <1>2
  <1>5. \A i \in 1..Len(q) : i \in 1..Len(p) \/ i \in Len(p) + 1..Len(q)
    BY <1>2
  <1>6. \A i \in 1..Len(q) : q[i] = "exit" <=> i = Len(q)
    BY <1>2, <1>3, <1>4, <1>5 DEF EndsInLastSteps, Body
  <1>7. ASSUME NEW i \in 1..Len(q), NEW j \in 1..Len(q), q[i] = "mark", i <= j
        PROVE  q[j] \in LastSteps
    <2>1. i \in Len(p) + 1..Len(q) /\ j \in Len(p) + 1..Len(q)
      BY <1>2, <1>3, <1>5, <1>7 DEF Body
    <2>2. i - Len(p) <= j - Len(p)
      BY <1>2, <1>7
    <2>3. QED
      BY <1>4, <1>7, <2>1, <2>2 DEF EndsInLastSteps
  <1> HIDE DEF q
  <1>8. EndsInLastSteps(q)
    BY <1>2, <1>6, <1>7 DEF EndsInLastSteps
  <1>9. QED
    BY <1>8 DEF q

\* The parts of the program before its closing steps, all but one without a mount.
LEMMA PartsOfProgram ==
  ASSUME NEW o
  PROVE  /\ \A part \in {Scan(o), Rounds(o), Wipe(o), SelfTest(o), Delay} :
               part \in Seq(Body \ {"mount"}) /\ part \in Seq(Body)
         /\ Filesystem(o) \in Seq(Body)
         /\ Finish(o) \in Seq(StepNames \ {"mount"})
         /\ EndsInLastSteps(Finish(o))
PROOF
  <1> DEFINE Plain == Body \ {"mount"}
  <1>1. \A S : /\ \A f, s : s \in Seq(S) => When(f, s) \in Seq(S)
               /\ \A s, t \in Seq(S) : s \o t \in Seq(S)
    BY DEF When
  <1>2. (Commands \cup Scans \cup {"evaluate"}) \ {"mount"} \subseteq Plain
    BY DEF Body, StepNames, Commands, Waited, Immediate, Scans
  <1>3. /\ <<"evaluate">> \in Seq(Plain)
        /\ <<"conveyance", "evaluate">> \in Seq(Plain)
        /\ <<"clrparttable", "evaluate">> \in Seq(Plain)
        /\ <<"wipe", "evaluate">> \in Seq(Plain)
        /\ <<"selftest", "evaluate">> \in Seq(Plain)
    BY <1>2 DEF Commands, Waited
  <1>4. Delay \in Seq(Plain)
    BY <1>2 DEF Delay, Commands, Immediate
  <1>5. Scan(o) \in Seq(Plain)
    <2>1. <<"dead", "thrashed", "evaluate", "unthrashable">> \in Seq(Plain)
      BY <1>2 DEF Scans
    <2>2. <<"filesystems">> \in Seq(Plain)
      BY <1>2 DEF Scans
    <2>3. QED
      BY <1>1, <2>1, <2>2 DEF Scan
  <1>6. Round(o) \in Seq(Plain)
    BY <1>2 DEF Round, Commands, Waited
  <1>7. Rounds(o) \in Seq(Plain)
    BY <1>1, <1>3, <1>4, <1>6 DEF Rounds
  <1>8. Wipe(o) \in Seq(Plain) /\ SelfTest(o) \in Seq(Plain)
    BY <1>1, <1>3, <1>4 DEF Wipe, SelfTest
  <1>9. \A s \in Seq(Plain) : s \in Seq(Body) /\ s \in Seq(StepNames \ {"mount"})
    BY DEF Body
  <1>10. Filesystem(o) \in Seq(Body)
    <2>1. <<"sfdisk", "mkfs", "mkdir", "mount", "evaluate", "bonnie", "evaluate",
            "umount", "fsck", "evaluate">> \in Seq(Body)
      BY DEF Body, StepNames, Commands, Waited, Immediate
    <2>2. Delay \in Seq(Body) /\ <<"evaluate">> \in Seq(Body)
      BY <1>3, <1>4, <1>9
    <2>3. QED
      BY <1>1, <2>1, <2>2 DEF Filesystem
  <1> DEFINE last == <<"mark", "storegood", "storeskipped", "exit">>
             head == Delay \o <<"evaluate">> \o When(o.destructive, <<"saveresults">>)
                       \o When(o.lightup, <<"lightup">>)
  <1>11. head \in Seq(Plain)
    <2>1. <<"saveresults">> \in Seq(Plain) /\ <<"lightup">> \in Seq(Plain)
      BY DEF Body, StepNames, Closing
    <2>2. QED
      BY <1>1, <1>3, <1>4, <2>1
  <1>12. last \in Seq(StepNames \ {"mount"})
    BY DEF StepNames, Closing
  <1>13. EndsInLastSteps(last)
    BY DEF EndsInLastSteps, LastSteps, StepNames, Closing
  <1>14. Finish(o) = head \o last
    BY DEF Finish
  <1>15. Finish(o) \in Seq(StepNames \ {"mount"}) /\ EndsInLastSteps(Finish(o))
    <2> HIDE DEF head, last
    <2> QED  BY <1>1, <1>9, <1>11, <1>12, <1>13, <1>14, PrependBody
  <1>16. QED
    BY <1>4, <1>5, <1>7, <1>8, <1>9, <1>10, <1>15

\* Every program of drivetest, whatever the options, exits once, at its end, and
\* nothing is run or evaluated after the marking.
LEMMA ProgramEnds ==
  ASSUME NEW o
  PROVE  EndsInLastSteps(Program(o))
PROOF
  <1>1. \A s, t \in Seq(Body) : s \o t \in Seq(Body)
    OBVIOUS
  <1>2. Scan(o) \o Rounds(o) \o Filesystem(o) \o Wipe(o) \o SelfTest(o) \in Seq(Body)
    BY <1>1, PartsOfProgram
  <1>3. QED
    BY <1>2, PartsOfProgram, PrependBody DEF Program

\* It begins with the scan for the drives Plato has flagged.
LEMMA ProgramBegins ==
  ASSUME NEW o
  PROVE  Program(o)[1] = "dead"
PROOF
  <1>1. \A s, t \in Seq(StepNames) : s \o t \in Seq(StepNames)
    OBVIOUS
  <1>2. \A s, t \in Seq(StepNames) : Len(s) > 0 =>
            Len(s \o t) > 0 /\ (s \o t)[1] = s[1]
    OBVIOUS
  <1>3. Body \subseteq StepNames /\ StepNames \ {"mount"} \subseteq StepNames
    BY DEF Body
  <1>4. \A part \in {Scan(o), Rounds(o), Filesystem(o), Wipe(o), SelfTest(o), Finish(o)} :
            part \in Seq(StepNames)
    BY <1>3, PartsOfProgram
  <1>5. Len(Scan(o)) > 0 /\ Scan(o)[1] = "dead"
    BY DEF Scan, When
  <1>6. QED
    BY <1>1, <1>2, <1>4, <1>5 DEF Program

\* After every mount comes an unmount, and nothing between the two writes to the
\* raw device.
Unmounts(s) ==
  \A j \in 1..Len(s) : s[j] = "mount" =>
    \E k \in j + 1..Len(s) : s[k] = "umount" /\ \A i \in j..k : s[i] \notin Raw

\* So it is in one sequence of steps after another if it is in each.
LEMMA UnmountsConcat ==
  ASSUME NEW s \in Seq(StepNames), NEW t \in Seq(StepNames), Unmounts(s), Unmounts(t)
  PROVE  Unmounts(s \o t)
PROOF
  <1> DEFINE q == s \o t
  <1>1. /\ Len(q) = Len(s) + Len(t) /\ Len(s) \in Nat /\ Len(t) \in Nat
        /\ \A i \in 1..Len(s) : q[i] = s[i]
        /\ \A i \in 1..Len(t) : q[Len(s) + i] = t[i]
    OBVIOUS
  <1> HIDE DEF q
  <1> SUFFICES ASSUME NEW j \in 1..Len(q), q[j] = "mount"
               PROVE  \E k \in j + 1..Len(q) : q[k] = "umount" /\ \A i \in j..k : q[i] \notin Raw
    BY DEF Unmounts, q
  <1>2. CASE j <= Len(s)
    <2>1. PICK k \in j + 1..Len(s) : s[k] = "umount" /\ \A i \in j..k : s[i] \notin Raw
      BY <1>1, <1>2 DEF Unmounts
    <2>2. \A i \in j..k : i \in 1..Len(s)
      BY <1>1
    <2>3. k \in j + 1..Len(q) /\ q[k] = "umount" /\ \A i \in j..k : q[i] \notin Raw
      BY <1>1, <2>1, <2>2
    <2> QED  BY <2>3
  <1>3. CASE j > Len(s)
    <2>1. PICK m \in 1..Len(t) : j = Len(s) + m
      <3>1. j - Len(s) \in 1..Len(t) /\ j = Len(s) + (j - Len(s))
        BY <1>1, <1>3
      <3> QED  BY <3>1
    <2>2. PICK k \in m + 1..Len(t) : t[k] = "umount" /\ \A i \in m..k : t[i] \notin Raw
      BY <1>1, <2>1 DEF Unmounts
    <2>3. \A i \in j..Len(s) + k : /\ i - Len(s) \in m..k /\ i - Len(s) \in 1..Len(t)
                                   /\ i = Len(s) + (i - Len(s))
      BY <1>1, <2>1
    <2>4. \A i \in j..Len(s) + k : q[i] \notin Raw
      BY <1>1, <2>2, <2>3
    <2>5. Len(s) + k \in j + 1..Len(q) /\ q[Len(s) + k] = "umount"
      BY <1>1, <2>1, <2>2
    <2> QED  BY <2>4, <2>5
  <1>4. QED
    BY <1>1, <1>2, <1>3

\* So it is in every program.
LEMMA ProgramUnmounts ==
  ASSUME NEW o
  PROVE  Unmounts(Program(o))
PROOF
  <1> DEFINE Fine(s) == s \in Seq(StepNames) /\ Unmounts(s)
  <1>1. ASSUME NEW s, NEW t, Fine(s), Fine(t) PROVE Fine(s \o t)
    BY <1>1, UnmountsConcat
  <1>2. ASSUME NEW s \in Seq(StepNames \ {"mount"}) PROVE Fine(s)
    BY <1>2 DEF Unmounts
  <1>3. Body \ {"mount"} \subseteq StepNames \ {"mount"}
    BY DEF Body
  <1>4. /\ Fine(Scan(o)) /\ Fine(Rounds(o)) /\ Fine(Wipe(o)) /\ Fine(SelfTest(o))
        /\ Fine(Delay) /\ Fine(Finish(o))
    <2>1. \A s \in Seq(Body \ {"mount"}) : s \in Seq(StepNames \ {"mount"})
      BY <1>3
    <2> HIDE DEF Fine
    <2> QED  BY <1>2, <2>1, PartsOfProgram
  <1>5. Fine(Filesystem(o))
    <2> DEFINE fs == <<"sfdisk", "mkfs", "mkdir", "mount", "evaluate", "bonnie",
                       "evaluate", "umount", "fsck", "evaluate">>
    <2>1. fs \in Seq(StepNames) /\ Len(fs) = 10
      BY DEF StepNames, Commands, Waited, Immediate
    <2>2. /\ fs[4] = "mount" /\ fs[8] = "umount"
          /\ \A j \in 1..10 : fs[j] = "mount" => j = 4
          /\ \A i \in 4..8 : fs[i] \notin Raw
      BY DEF Raw
    <2> HIDE DEF fs
    <2>3. 8 \in 4 + 1..Len(fs)
      BY <2>1
    <2>4. Unmounts(fs)
      BY <2>1, <2>2, <2>3 DEF Unmounts
    <2>5. Fine(<<"evaluate">>)
      <3>1. <<"evaluate">> \in Seq(StepNames \ {"mount"})
        BY DEF StepNames
      <3> QED  BY <1>2, <3>1
    <2>6. Fine(<< >>)
      <3>1. << >> \in Seq(StepNames \ {"mount"})
        OBVIOUS
      <3> QED  BY <1>2, <3>1
    <2> HIDE DEF Fine
    <2>7. Fine(fs \o Delay \o <<"evaluate">>)
      BY <1>1, <1>4, <2>1, <2>4, <2>5 DEF Fine
    <2>8. Filesystem(o) \in {fs \o Delay \o <<"evaluate">>, << >>}
      BY DEF Filesystem, When, fs
    <2> QED  BY <2>6, <2>7, <2>8
  <1>6. Fine(Program(o))
    <2> HIDE DEF Fine
    <2> QED  BY <1>1, <1>4, <1>5 DEF Program
  <1>7. QED
    BY <1>6

-----------------------------------------------------------------------------
(* The initial states.                                                     *)

\* The machine boots into the invariant.
LEMMA InitIInv == Init => IInv
PROOF
  <1> SUFFICES ASSUME Init PROVE IInv
    OBVIOUS
  <1> USE OptionsAssumption, MaxBootsAssumption DEF Init
  <1>1. TypeOK
    BY DEF TypeOK, DMTypeOK, ChildState
  <1>2. Accounted
    BY DEF Accounted
  <1>3. Places
    BY DEF Places, WaitPlaces
  <1>4. Children
    BY DEF Children, WaitPlaces
  <1>5. Failures /\ Passed
    BY DEF Failures, Passed
  <1>6. InProgram /\ Marked
    BY ProgramEnds DEF InProgram, EndsInLastSteps, Marked
  <1>7. BadIsReported /\ Unflagged /\ MountsAreOpen
    BY DEF BadIsReported, Unflagged, MountsAreOpen
  <1>8. QED
    BY <1>1, <1>2, <1>3, <1>4, <1>5, <1>6, <1>7 DEF IInv

-----------------------------------------------------------------------------
(* Types and lists.                                                        *)

\* Every step of drivetest, of a child, and a reboot keep the types.
LEMMA TypeStep ==
  ASSUME TypeOK, Places, [Next]_vars
  PROVE  TypeOK'
PROOF
  <1> USE DEF TypeOK, DMTypeOK, dmVars, procVars, platoVars
  <1>1. CASE Load
    BY <1>1 DEF Load, LoadDrives
  <1>2. CASE PlatoRaises
    BY <1>2 DEF PlatoRaises
  <1>3. CASE PruneAllreadyDead
    BY <1>3 DEF PruneAllreadyDead, PruneAll, NextStep, ScanFrame
  <1>4. CASE SkipAllreadyThrashed
    BY <1>4 DEF SkipAllreadyThrashed, SkipAll, NextStep, ScanFrame
  <1>5. CASE SkipUnThrashable
    BY <1>5 DEF SkipUnThrashable, SkipAll, NextStep, ScanFrame
  <1>6. CASE SkipWithFilesystems
    BY <1>6 DEF SkipWithFilesystems, SkipAll, NextStep, ScanFrame
  <1>7. CASE BeginLoop
    BY <1>7 DEF BeginLoop
  <1>8. CASE EndLoop
    BY <1>8 DEF EndLoop, NextStep
  <1>9. ASSUME NEW d \in Drives, EvaluateGood(d) PROVE TypeOK'
    BY <1>9 DEF EvaluateGood, Visit, LoopFrame
  <1>10. ASSUME NEW d \in Drives, EvaluateUnreadable(d) PROVE TypeOK'
    BY <1>10 DEF EvaluateUnreadable, Visit, LoopFrame, PruneAndReport, Prune
  <1>11. ASSUME NEW d \in Drives, EvaluateBad(d) PROVE TypeOK'
    BY <1>11 DEF EvaluateBad, Visit, LoopFrame, Prune
  <1>12. ASSUME NEW d \in Drives, EvaluateRaises(d) PROVE TypeOK'
    BY <1>12 DEF EvaluateRaises, Visit, LoopFrame
  <1>13. ASSUME NEW d \in Drives, RunPassedOver(d) PROVE TypeOK'
    BY <1>13 DEF RunPassedOver, Visit, LoopFrame
  <1>14. ASSUME NEW d \in Drives, RunSucceeds(d) PROVE TypeOK'
    BY <1>14, BlockAssumption DEF RunSucceeds, Visit, At, Commands, PassedOver,
       HasBlock, NeedsBlock
  <1>15. ASSUME NEW d \in Drives, RunFails(d) PROVE TypeOK'
    BY <1>15 DEF RunFails, Visit, PruneAndReport, Prune
  <1>16. CASE BeginWait
    BY <1>16 DEF BeginWait
  <1>17. ASSUME NEW d \in Drives, StartChild(d) PROVE TypeOK'
    BY <1>17 DEF StartChild, WaitFrame, ChildState
  <1>18. CASE AllStarted
    BY <1>18 DEF AllStarted, WaitFrame
  <1>19. ASSUME NEW d \in Drives, ChildExit(d) PROVE TypeOK'
    BY <1>19 DEF ChildExit, WaitFrame, ChildState
  <1>20. CASE StopWaiting
    BY <1>20 DEF StopWaiting, WaitFrame
  <1>21. ASSUME NEW d \in Drives, CheckPassed(d) PROVE TypeOK'
    BY <1>21 DEF CheckPassed, WaitFrame, Places, WaitPlaces, Commands
  <1>22. ASSUME NEW d \in Drives, CheckFailed(d) PROVE TypeOK'
    BY <1>22 DEF CheckFailed, WaitFrame, PruneAndReport, Prune
  <1>23. ASSUME NEW d \in Drives, CheckLate(d) PROVE TypeOK'
    BY <1>23 DEF CheckLate, WaitFrame, PruneAndReport, Prune
  <1>24. ASSUME NEW d \in Drives, Terminate(d) PROVE TypeOK'
    BY <1>24 DEF Terminate, WaitFrame, ChildState
  <1>25. ASSUME NEW d \in Drives, Reap(d) PROVE TypeOK'
    BY <1>25 DEF Reap, WaitFrame, ChildState
  <1>26. CASE SaveBad
    BY <1>26 DEF SaveBad
  <1>27. ASSUME NEW d \in Drives, SaveGood(d) PROVE TypeOK'
    BY <1>27 DEF SaveGood, Visit, PruneAndReport, Prune
  <1>28. CASE LightsOn
    BY <1>28 DEF LightsOn
  <1>29. CASE LightsOff
    BY <1>29 DEF LightsOff, NextStep
  <1>30. ASSUME NEW d \in Drives, Mark(d) PROVE TypeOK'
    BY <1>30 DEF Mark, Visit
  <1>31. ASSUME NEW d \in Drives, Store(d) PROVE TypeOK'
    BY <1>31 DEF Store
  <1>32. CASE Finished
    BY <1>32 DEF Finished
  <1>33. CASE Reboot
    BY <1>33, OptionsAssumption, MaxBootsAssumption DEF Reboot, LoadDrives,
       ChildState
  <1>34. CASE UNCHANGED vars
    BY <1>34 DEF vars
  <1>35. QED
    BY <1>1, <1>2, <1>3, <1>4, <1>5, <1>6, <1>7, <1>8, <1>9, <1>10, <1>11, <1>12,
       <1>13, <1>14, <1>15, <1>16, <1>17, <1>18, <1>19, <1>20, <1>21, <1>22, <1>23, <1>24,
       <1>25, <1>26, <1>27, <1>28, <1>29, <1>30, <1>31, <1>32, <1>33, <1>34
    DEF Next, DriveTest

\* prune() moves a drive, and nothing else touches the lists (but the boot).
LEMMA AccountedStep ==
  ASSUME TypeOK, Accounted, Places, [Next]_vars
  PROVE  Accounted'
PROOF
  <1> USE DEF Accounted, Places, At, IsNext, dmVars, platoVars, procVars
  <1>1. CASE Load
    BY <1>1 DEF Load, LoadDrives
  <1>2. CASE PlatoRaises
    BY <1>2 DEF PlatoRaises
  <1>3. CASE PruneAllreadyDead
    BY <1>3 DEF PruneAllreadyDead, PruneAll, NextStep, ScanFrame
  <1>4. CASE SkipAllreadyThrashed
    BY <1>4 DEF SkipAllreadyThrashed, SkipAll, NextStep, ScanFrame
  <1>5. CASE SkipUnThrashable
    BY <1>5 DEF SkipUnThrashable, SkipAll, NextStep, ScanFrame
  <1>6. CASE SkipWithFilesystems
    BY <1>6 DEF SkipWithFilesystems, SkipAll, NextStep, ScanFrame
  <1>7. CASE BeginLoop
    BY <1>7 DEF BeginLoop
  <1>8. CASE EndLoop
    BY <1>8 DEF EndLoop, NextStep
  <1>9. ASSUME NEW d \in Drives, EvaluateGood(d) PROVE Accounted'
    BY <1>9 DEF EvaluateGood, Visit, LoopFrame
  <1>10. ASSUME NEW d \in Drives, EvaluateUnreadable(d) PROVE Accounted'
    BY <1>10 DEF EvaluateUnreadable, Visit, LoopFrame, PruneAndReport, Prune,
       LoopSteps
  <1>11. ASSUME NEW d \in Drives, EvaluateBad(d) PROVE Accounted'
    BY <1>11 DEF EvaluateBad, Visit, LoopFrame, Prune, LoopSteps
  <1>12. ASSUME NEW d \in Drives, EvaluateRaises(d) PROVE Accounted'
    BY <1>12 DEF EvaluateRaises, Visit, LoopFrame
  <1>13. ASSUME NEW d \in Drives, RunPassedOver(d) PROVE Accounted'
    BY <1>13 DEF RunPassedOver, Visit, LoopFrame
  <1>14. ASSUME NEW d \in Drives, RunSucceeds(d) PROVE Accounted'
    BY <1>14 DEF RunSucceeds, Visit
  <1>15. ASSUME NEW d \in Drives, RunFails(d) PROVE Accounted'
    BY <1>15 DEF RunFails, Visit, PruneAndReport, Prune, LoopSteps, Immediate
  <1>16. CASE BeginWait
    BY <1>16 DEF BeginWait
  <1>17. ASSUME NEW d \in Drives, StartChild(d) PROVE Accounted'
    BY <1>17 DEF StartChild, WaitFrame
  <1>18. CASE AllStarted
    BY <1>18 DEF AllStarted, WaitFrame
  <1>19. ASSUME NEW d \in Drives, ChildExit(d) PROVE Accounted'
    BY <1>19 DEF ChildExit, WaitFrame
  <1>20. CASE StopWaiting
    BY <1>20 DEF StopWaiting, WaitFrame
  <1>21. ASSUME NEW d \in Drives, CheckPassed(d) PROVE Accounted'
    BY <1>21 DEF CheckPassed, WaitFrame
  <1>22. ASSUME NEW d \in Drives, CheckFailed(d) PROVE Accounted'
    BY <1>22 DEF CheckFailed, WaitFrame, PruneAndReport, Prune
  <1>23. ASSUME NEW d \in Drives, CheckLate(d) PROVE Accounted'
    BY <1>23 DEF CheckLate, WaitFrame, PruneAndReport, Prune
  <1>24. ASSUME NEW d \in Drives, Terminate(d) PROVE Accounted'
    BY <1>24 DEF Terminate, WaitFrame
  <1>25. ASSUME NEW d \in Drives, Reap(d) PROVE Accounted'
    BY <1>25 DEF Reap, WaitFrame
  <1>26. CASE SaveBad
    BY <1>26 DEF SaveBad
  <1>27. ASSUME NEW d \in Drives, SaveGood(d) PROVE Accounted'
    BY <1>27 DEF SaveGood, Visit, PruneAndReport, Prune, LoopSteps
  <1>28. CASE LightsOn
    BY <1>28 DEF LightsOn
  <1>29. CASE LightsOff
    BY <1>29 DEF LightsOff, NextStep
  <1>30. ASSUME NEW d \in Drives, Mark(d) PROVE Accounted'
    BY <1>30 DEF Mark, Visit
  <1>31. ASSUME NEW d \in Drives, Store(d) PROVE Accounted'
    BY <1>31 DEF Store
  <1>32. CASE Finished
    BY <1>32 DEF Finished
  <1>33. CASE Reboot
    BY <1>33 DEF Reboot, LoadDrives
  <1>34. CASE UNCHANGED vars
    BY <1>34 DEF vars
  <1>35. QED
    BY <1>1, <1>2, <1>3, <1>4, <1>5, <1>6, <1>7, <1>8, <1>9, <1>10, <1>11, <1>12,
       <1>13, <1>14, <1>15, <1>16, <1>17, <1>18, <1>19, <1>20, <1>21, <1>22, <1>23, <1>24,
       <1>25, <1>26, <1>27, <1>28, <1>29, <1>30, <1>31, <1>32, <1>33, <1>34
    DEF Next, DriveTest

-----------------------------------------------------------------------------
(* Places.                                                                 *)

\* The loops visit the drives in the order of the sorted list: one drive is next.
LEMMA NextUnique ==
  ASSUME TypeOK, NEW d, NEW e, IsNext(d), IsNext(e)
  PROVE  d = e
PROOF
  <1>1. d \in Nat /\ e \in Nat /\ d <= e /\ e <= d
    BY DrivesAssumption DEF TypeOK, IsNext
  <1>2. QED
    BY <1>1

\* Every step leaves drivetest at a place where what Places says of it holds.
LEMMA PlacesStep ==
  ASSUME TypeOK, Accounted, Places, [Next]_vars
  PROVE  Places'
PROOF
  <1> USE NextUnique DEF TypeOK, DMTypeOK, Accounted, Places, WaitPlaces,
          Step, At, dmVars, platoVars, procVars
  <1>1. CASE Load
    BY <1>1 DEF Load, LoadDrives
  <1>2. CASE PlatoRaises
    BY <1>2 DEF PlatoRaises
  <1>3. CASE PruneAllreadyDead
    BY <1>3 DEF PruneAllreadyDead, PruneAll, NextStep, ScanFrame
  <1>4. CASE SkipAllreadyThrashed
    BY <1>4 DEF SkipAllreadyThrashed, SkipAll, NextStep, ScanFrame
  <1>5. CASE SkipUnThrashable
    BY <1>5 DEF SkipUnThrashable, SkipAll, NextStep, ScanFrame
  <1>6. CASE SkipWithFilesystems
    BY <1>6 DEF SkipWithFilesystems, SkipAll, NextStep, ScanFrame
  <1>7. CASE BeginLoop
    BY <1>7 DEF BeginLoop
  <1>8. CASE EndLoop
    BY <1>8 DEF EndLoop, NextStep
  <1>9. ASSUME NEW d \in Drives, EvaluateGood(d) PROVE Places'
    BY <1>9 DEF EvaluateGood, Visit, LoopFrame
  <1>10. ASSUME NEW d \in Drives, EvaluateUnreadable(d) PROVE Places'
    BY <1>10 DEF EvaluateUnreadable, Visit, LoopFrame, PruneAndReport, Prune
  <1>11. ASSUME NEW d \in Drives, EvaluateBad(d) PROVE Places'
    BY <1>11 DEF EvaluateBad, Visit, LoopFrame, Prune
  <1>12. ASSUME NEW d \in Drives, EvaluateRaises(d) PROVE Places'
    BY <1>12 DEF EvaluateRaises, Visit, LoopFrame
  <1>13. ASSUME NEW d \in Drives, RunPassedOver(d) PROVE Places'
    BY <1>13 DEF RunPassedOver, Visit, LoopFrame
  <1>14. ASSUME NEW d \in Drives, RunSucceeds(d) PROVE Places'
    BY <1>14 DEF RunSucceeds, Visit
  <1>15. ASSUME NEW d \in Drives, RunFails(d) PROVE Places'
    BY <1>15 DEF RunFails, Visit, PruneAndReport, Prune
  <1>16. CASE BeginWait
    BY <1>16 DEF BeginWait
  <1>17. ASSUME NEW d \in Drives, StartChild(d) PROVE Places'
    BY <1>17 DEF StartChild, WaitFrame, IsNext
  <1>18. CASE AllStarted
    BY <1>18 DEF AllStarted, WaitFrame
  <1>19. ASSUME NEW d \in Drives, ChildExit(d) PROVE Places'
    BY <1>19 DEF ChildExit, WaitFrame, IsNext
  <1>20. CASE StopWaiting
    BY <1>20 DEF StopWaiting, WaitFrame
  <1>21. ASSUME NEW d \in Drives, CheckPassed(d) PROVE Places'
    BY <1>21 DEF CheckPassed, WaitFrame
  <1>22. ASSUME NEW d \in Drives, CheckFailed(d) PROVE Places'
    BY <1>22 DEF CheckFailed, WaitFrame, PruneAndReport, Prune
  <1>23. ASSUME NEW d \in Drives, CheckLate(d) PROVE Places'
    BY <1>23 DEF CheckLate, WaitFrame, PruneAndReport, Prune, IsNext
  <1>24. ASSUME NEW d \in Drives, Terminate(d) PROVE Places'
    BY <1>24 DEF Terminate, WaitFrame, IsNext
  <1>25. ASSUME NEW d \in Drives, Reap(d) PROVE Places'
    BY <1>25 DEF Reap, WaitFrame
  <1>26. CASE SaveBad
    BY <1>26 DEF SaveBad, Immediate
  <1>27. ASSUME NEW d \in Drives, SaveGood(d) PROVE Places'
    BY <1>27 DEF SaveGood, Visit, PruneAndReport, Prune
  <1>28. CASE LightsOn
    BY <1>28 DEF LightsOn
  <1>29. CASE LightsOff
    BY <1>29 DEF LightsOff, NextStep
  <1>30. ASSUME NEW d \in Drives, Mark(d) PROVE Places'
    BY <1>30 DEF Mark, Visit
  <1>31. ASSUME NEW d \in Drives, Store(d) PROVE Places'
    BY <1>31 DEF Store
  <1>32. CASE Finished
    BY <1>32 DEF Finished
  <1>33. CASE Reboot
    BY <1>33 DEF Reboot, LoadDrives
  <1>34. CASE UNCHANGED vars
    BY <1>34 DEF vars, IsNext
  <1>35. QED
    BY <1>1, <1>2, <1>3, <1>4, <1>5, <1>6, <1>7, <1>8, <1>9, <1>10, <1>11, <1>12,
       <1>13, <1>14, <1>15, <1>16, <1>17, <1>18, <1>19, <1>20, <1>21, <1>22, <1>23, <1>24,
       <1>25, <1>26, <1>27, <1>28, <1>29, <1>30, <1>31, <1>32, <1>33, <1>34
    DEF Next, DriveTest

-----------------------------------------------------------------------------
(* Children.                                                               *)

\* No step of drivetest leaves a running child behind: runOnEachDriveWait judges,
\* and signals if need be, every child it started.
LEMMA ChildrenStep ==
  ASSUME TypeOK, Accounted, Places, Children, [Next]_vars
  PROVE  Children'
PROOF
  <1> USE NextUnique DEF TypeOK, DMTypeOK, Accounted, Places, Children,
          WaitPlaces, At, dmVars, platoVars, procVars
  <1>1. CASE Load
    BY <1>1 DEF Load, LoadDrives
  <1>2. CASE PlatoRaises
    BY <1>2 DEF PlatoRaises
  <1>3. CASE PruneAllreadyDead
    BY <1>3 DEF PruneAllreadyDead, PruneAll, NextStep, ScanFrame
  <1>4. CASE SkipAllreadyThrashed
    BY <1>4 DEF SkipAllreadyThrashed, SkipAll, NextStep, ScanFrame
  <1>5. CASE SkipUnThrashable
    BY <1>5 DEF SkipUnThrashable, SkipAll, NextStep, ScanFrame
  <1>6. CASE SkipWithFilesystems
    BY <1>6 DEF SkipWithFilesystems, SkipAll, NextStep, ScanFrame
  <1>7. CASE BeginLoop
    BY <1>7 DEF BeginLoop
  <1>8. CASE EndLoop
    BY <1>8 DEF EndLoop, NextStep
  <1>9. ASSUME NEW d \in Drives, EvaluateGood(d) PROVE Children'
    BY <1>9 DEF EvaluateGood, Visit, LoopFrame
  <1>10. ASSUME NEW d \in Drives, EvaluateUnreadable(d) PROVE Children'
    BY <1>10 DEF EvaluateUnreadable, Visit, LoopFrame, PruneAndReport, Prune
  <1>11. ASSUME NEW d \in Drives, EvaluateBad(d) PROVE Children'
    BY <1>11 DEF EvaluateBad, Visit, LoopFrame, Prune
  <1>12. ASSUME NEW d \in Drives, EvaluateRaises(d) PROVE Children'
    BY <1>12 DEF EvaluateRaises, Visit, LoopFrame
  <1>13. ASSUME NEW d \in Drives, RunPassedOver(d) PROVE Children'
    BY <1>13 DEF RunPassedOver, Visit, LoopFrame
  <1>14. ASSUME NEW d \in Drives, RunSucceeds(d) PROVE Children'
    BY <1>14 DEF RunSucceeds, Visit
  <1>15. ASSUME NEW d \in Drives, RunFails(d) PROVE Children'
    BY <1>15 DEF RunFails, Visit, PruneAndReport, Prune
  <1>16. CASE BeginWait
    BY <1>16 DEF BeginWait
  <1>17. ASSUME NEW d \in Drives, StartChild(d) PROVE Children'
    BY <1>17 DEF StartChild, WaitFrame, IsNext
  <1>18. CASE AllStarted
    BY <1>18 DEF AllStarted, WaitFrame
  <1>19. ASSUME NEW d \in Drives, ChildExit(d) PROVE Children'
    BY <1>19 DEF ChildExit, WaitFrame, IsNext
  <1>20. CASE StopWaiting
    BY <1>20 DEF StopWaiting, WaitFrame, IsNext
  <1>21. ASSUME NEW d \in Drives, CheckPassed(d) PROVE Children'
    BY <1>21 DEF CheckPassed, WaitFrame, IsNext
  <1>22. ASSUME NEW d \in Drives, CheckFailed(d) PROVE Children'
    BY <1>22 DEF CheckFailed, WaitFrame, PruneAndReport, Prune, IsNext
  <1>23. ASSUME NEW d \in Drives, CheckLate(d) PROVE Children'
    BY <1>23 DEF CheckLate, WaitFrame, PruneAndReport, Prune, IsNext
  <1>24. ASSUME NEW d \in Drives, Terminate(d) PROVE Children'
    BY <1>24 DEF Terminate, WaitFrame, IsNext
  <1>25. ASSUME NEW d \in Drives, Reap(d) PROVE Children'
    BY <1>25 DEF Reap, WaitFrame, IsNext
  <1>26. CASE SaveBad
    BY <1>26 DEF SaveBad
  <1>27. ASSUME NEW d \in Drives, SaveGood(d) PROVE Children'
    BY <1>27 DEF SaveGood, Visit, PruneAndReport, Prune
  <1>28. CASE LightsOn
    BY <1>28 DEF LightsOn
  <1>29. CASE LightsOff
    BY <1>29 DEF LightsOff, NextStep
  <1>30. ASSUME NEW d \in Drives, Mark(d) PROVE Children'
    BY <1>30 DEF Mark, Visit
  <1>31. ASSUME NEW d \in Drives, Store(d) PROVE Children'
    BY <1>31 DEF Store
  <1>32. CASE Finished
    BY <1>32 DEF Finished
  <1>33. CASE Reboot
    BY <1>33 DEF Reboot, LoadDrives
  <1>34. CASE UNCHANGED vars
    BY <1>34 DEF vars, IsNext
  <1>35. QED
    BY <1>1, <1>2, <1>3, <1>4, <1>5, <1>6, <1>7, <1>8, <1>9, <1>10, <1>11, <1>12,
       <1>13, <1>14, <1>15, <1>16, <1>17, <1>18, <1>19, <1>20, <1>21, <1>22, <1>23, <1>24,
       <1>25, <1>26, <1>27, <1>28, <1>29, <1>30, <1>31, <1>32, <1>33, <1>34
    DEF Next, DriveTest

-----------------------------------------------------------------------------
(* Failures.                                                               *)

\* A failed drive is pruned, or its child has failed and the check of the results
\* is still to come to it.
LEMMA FailuresStep ==
  ASSUME TypeOK, Accounted, Places, Children, Failures, [Next]_vars
  PROVE  Failures'
PROOF
  <1> USE NextUnique DEF TypeOK, DMTypeOK, Accounted, Places, Failures,
          WaitPlaces, At, dmVars, platoVars, procVars
  <1>1. CASE Load
    BY <1>1 DEF Load, LoadDrives
  <1>2. CASE PlatoRaises
    BY <1>2 DEF PlatoRaises
  <1>3. CASE PruneAllreadyDead
    BY <1>3 DEF PruneAllreadyDead, PruneAll, NextStep, ScanFrame
  <1>4. CASE SkipAllreadyThrashed
    BY <1>4 DEF SkipAllreadyThrashed, SkipAll, NextStep, ScanFrame
  <1>5. CASE SkipUnThrashable
    BY <1>5 DEF SkipUnThrashable, SkipAll, NextStep, ScanFrame
  <1>6. CASE SkipWithFilesystems
    BY <1>6 DEF SkipWithFilesystems, SkipAll, NextStep, ScanFrame
  <1>7. CASE BeginLoop
    BY <1>7 DEF BeginLoop
  <1>8. CASE EndLoop
    BY <1>8 DEF EndLoop, NextStep
  <1>9. ASSUME NEW d \in Drives, EvaluateGood(d) PROVE Failures'
    BY <1>9 DEF EvaluateGood, Visit, LoopFrame
  <1>10. ASSUME NEW d \in Drives, EvaluateUnreadable(d) PROVE Failures'
    BY <1>10 DEF EvaluateUnreadable, Visit, LoopFrame, PruneAndReport, Prune
  <1>11. ASSUME NEW d \in Drives, EvaluateBad(d) PROVE Failures'
    BY <1>11 DEF EvaluateBad, Visit, LoopFrame, Prune
  <1>12. ASSUME NEW d \in Drives, EvaluateRaises(d) PROVE Failures'
    BY <1>12 DEF EvaluateRaises, Visit, LoopFrame
  <1>13. ASSUME NEW d \in Drives, RunPassedOver(d) PROVE Failures'
    BY <1>13 DEF RunPassedOver, Visit, LoopFrame
  <1>14. ASSUME NEW d \in Drives, RunSucceeds(d) PROVE Failures'
    BY <1>14 DEF RunSucceeds, Visit
  <1>15. ASSUME NEW d \in Drives, RunFails(d) PROVE Failures'
    BY <1>15 DEF RunFails, Visit, PruneAndReport, Prune
  <1>16. CASE BeginWait
    BY <1>16 DEF BeginWait
  <1>17. ASSUME NEW d \in Drives, StartChild(d) PROVE Failures'
    BY <1>17 DEF StartChild, WaitFrame, IsNext
  <1>18. CASE AllStarted
    BY <1>18 DEF AllStarted, WaitFrame
  <1>19. ASSUME NEW d \in Drives, ChildExit(d) PROVE Failures'
    BY <1>19 DEF ChildExit, WaitFrame, Children
  <1>20. CASE StopWaiting
    BY <1>20 DEF StopWaiting, WaitFrame, IsNext
  <1>21. ASSUME NEW d \in Drives, CheckPassed(d) PROVE Failures'
    BY <1>21 DEF CheckPassed, WaitFrame, IsNext
  <1>22. ASSUME NEW d \in Drives, CheckFailed(d) PROVE Failures'
    BY <1>22 DEF CheckFailed, WaitFrame, PruneAndReport, Prune, IsNext
  <1>23. ASSUME NEW d \in Drives, CheckLate(d) PROVE Failures'
    BY <1>23 DEF CheckLate, WaitFrame, PruneAndReport, Prune, IsNext
  <1>24. ASSUME NEW d \in Drives, Terminate(d) PROVE Failures'
    BY <1>24 DEF Terminate, WaitFrame, IsNext
  <1>25. ASSUME NEW d \in Drives, Reap(d) PROVE Failures'
    BY <1>25 DEF Reap, WaitFrame, IsNext
  <1>26. CASE SaveBad
    BY <1>26 DEF SaveBad
  <1>27. ASSUME NEW d \in Drives, SaveGood(d) PROVE Failures'
    BY <1>27 DEF SaveGood, Visit, PruneAndReport, Prune
  <1>28. CASE LightsOn
    BY <1>28 DEF LightsOn
  <1>29. CASE LightsOff
    BY <1>29 DEF LightsOff, NextStep
  <1>30. ASSUME NEW d \in Drives, Mark(d) PROVE Failures'
    BY <1>30 DEF Mark, Visit
  <1>31. ASSUME NEW d \in Drives, Store(d) PROVE Failures'
    BY <1>31 DEF Store
  <1>32. CASE Finished
    BY <1>32 DEF Finished
  <1>33. CASE Reboot
    BY <1>33 DEF Reboot, LoadDrives
  <1>34. CASE UNCHANGED vars
    BY <1>34 DEF vars
  <1>35. QED
    BY <1>1, <1>2, <1>3, <1>4, <1>5, <1>6, <1>7, <1>8, <1>9, <1>10, <1>11, <1>12,
       <1>13, <1>14, <1>15, <1>16, <1>17, <1>18, <1>19, <1>20, <1>21, <1>22, <1>23, <1>24,
       <1>25, <1>26, <1>27, <1>28, <1>29, <1>30, <1>31, <1>32, <1>33, <1>34
    DEF Next, DriveTest

-----------------------------------------------------------------------------
(* Passed.                                                                 *)

\* The commands of the program that a drive cannot be passed over for grow, from
\* one step to the next, by that of the current step.
LEMMA RequiredNext ==
  ASSUME TypeOK, options' = options, step' = step + 1, NEW d \in Drives
  PROVE  /\ Step \in Commands /\ Applicable(d) => Required(d)' \subseteq Required(d) \cup {Step}
         /\ ~(Step \in Commands /\ Applicable(d)) => Required(d)' \subseteq Required(d)
PROOF
  <1>1. \A i \in 1..step' - 1 : i \in 1..step - 1 \/ i = step
    BY DEF TypeOK
  <1>2. QED
    BY <1>1 DEF Required, Applicable, Step

\* What is required of a drive depends on the options and the step alone.
LEMMA RequiredSame ==
  ASSUME options' = options, step' = step, NEW d \in Drives
  PROVE  Required(d)' = Required(d) /\ Step' = Step /\ Applicable(d)' = Applicable(d)
PROOF
  BY DEF Required, Step, Applicable

\* From one step of the program to the next a good drive needs to have come through
\* the command of the first.
LEMMA PassedNextStep ==
  ASSUME TypeOK, NextStep, options' = options, passed' = passed,
         good_list' \subseteq good_list, good_list \subseteq Drives,
         \A d \in good_list : Alone(d) =>
            /\ Required(d) \subseteq passed[d]
            /\ Step \in Commands /\ Applicable(d) => Step \in passed[d]
  PROVE  Passed'
PROOF
  <1>1. pc' = "begin" /\ step' = step + 1
    BY DEF NextStep
  <1>2. \A d \in good_list' : Alone(d) => Required(d)' \subseteq passed[d]
    BY <1>1, RequiredNext
  <1>3. QED
    BY <1>1, <1>2 DEF Passed, WaitPlaces

\* A drive that stays good has come through every command so far.
LEMMA PassedStep ==
  ASSUME TypeOK, Accounted, Places, Passed, [Next]_vars
  PROVE  Passed'
PROOF
  <1> USE RequiredSame, NextUnique DEF TypeOK, DMTypeOK, Accounted, Places,
          Passed, WaitPlaces, At, dmVars, platoVars, procVars
  <1>1. CASE Load
    BY <1>1 DEF Load, LoadDrives, Required
  <1>2. CASE PlatoRaises
    BY <1>2 DEF PlatoRaises
  <1>3. CASE PruneAllreadyDead
    BY <1>3, PassedNextStep DEF PruneAllreadyDead, PruneAll, NextStep, ScanFrame,
       Scans, Commands, Waited, Immediate
  <1>4. CASE SkipAllreadyThrashed
    BY <1>4, PassedNextStep DEF SkipAllreadyThrashed, SkipAll, NextStep,
       ScanFrame, Scans, Commands, Waited, Immediate
  <1>5. CASE SkipUnThrashable
    BY <1>5, PassedNextStep DEF SkipUnThrashable, SkipAll, NextStep, ScanFrame,
       Scans, Commands, Waited, Immediate
  <1>6. CASE SkipWithFilesystems
    BY <1>6, PassedNextStep DEF SkipWithFilesystems, SkipAll, NextStep,
       ScanFrame, Scans, Commands, Waited, Immediate
  <1>7. CASE BeginLoop
    BY <1>7 DEF BeginLoop, Immediate
  <1>8. CASE EndLoop
    BY <1>8, PassedNextStep DEF EndLoop, NextStep, Commands, Waited, Immediate,
       LoopSteps
  <1>9. ASSUME NEW d \in Drives, EvaluateGood(d) PROVE Passed'
    BY <1>9 DEF EvaluateGood, Visit, LoopFrame, Immediate
  <1>10. ASSUME NEW d \in Drives, EvaluateUnreadable(d) PROVE Passed'
    BY <1>10 DEF EvaluateUnreadable, Visit, LoopFrame, PruneAndReport, Prune
  <1>11. ASSUME NEW d \in Drives, EvaluateBad(d) PROVE Passed'
    BY <1>11 DEF EvaluateBad, Visit, LoopFrame, Prune
  <1>12. ASSUME NEW d \in Drives, EvaluateRaises(d) PROVE Passed'
    BY <1>12 DEF EvaluateRaises, Visit, LoopFrame
  <1>13. ASSUME NEW d \in Drives, RunPassedOver(d) PROVE Passed'
    BY <1>13 DEF RunPassedOver, Visit, LoopFrame, PassedOver, Alone, Applicable,
       HasBlock, IsNext
  <1>14. ASSUME NEW d \in Drives, RunSucceeds(d) PROVE Passed'
    BY <1>14 DEF RunSucceeds, Visit
  <1>15. ASSUME NEW d \in Drives, RunFails(d) PROVE Passed'
    BY <1>15 DEF RunFails, Visit, PruneAndReport, Prune
  <1>16. CASE BeginWait
    BY <1>16 DEF BeginWait
  <1>17. ASSUME NEW d \in Drives, StartChild(d) PROVE Passed'
    BY <1>17 DEF StartChild, WaitFrame, PassedOver, Alone, Applicable, HasBlock,
       IsNext
  <1>18. CASE AllStarted
    BY <1>18 DEF AllStarted, WaitFrame
  <1>19. ASSUME NEW d \in Drives, ChildExit(d) PROVE Passed'
    BY <1>19 DEF ChildExit, WaitFrame
  <1>20. CASE StopWaiting
    BY <1>20 DEF StopWaiting, WaitFrame
  <1>21. ASSUME NEW d \in Drives, CheckPassed(d) PROVE Passed'
    BY <1>21 DEF CheckPassed, WaitFrame
  <1>22. ASSUME NEW d \in Drives, CheckFailed(d) PROVE Passed'
    BY <1>22 DEF CheckFailed, WaitFrame, PruneAndReport, Prune
  <1>23. ASSUME NEW d \in Drives, CheckLate(d) PROVE Passed'
    BY <1>23 DEF CheckLate, WaitFrame, PruneAndReport, Prune
  <1>24. ASSUME NEW d \in Drives, Terminate(d) PROVE Passed'
    BY <1>24 DEF Terminate, WaitFrame
  <1>25. ASSUME NEW d \in Drives, Reap(d) PROVE Passed'
    BY <1>25 DEF Reap, WaitFrame
  <1>26. CASE SaveBad
    BY <1>26 DEF SaveBad
  <1>27. ASSUME NEW d \in Drives, SaveGood(d) PROVE Passed'
    BY <1>27 DEF SaveGood, Visit, PruneAndReport, Prune, Immediate
  <1>28. CASE LightsOn
    BY <1>28 DEF LightsOn
  <1>29. CASE LightsOff
    BY <1>29, PassedNextStep DEF LightsOff, NextStep, Scans, Commands, Waited,
       Immediate
  <1>30. ASSUME NEW d \in Drives, Mark(d) PROVE Passed'
    BY <1>30 DEF Mark, Visit, Immediate
  <1>31. ASSUME NEW d \in Drives, Store(d) PROVE Passed'
    BY <1>31 DEF Store, Immediate
  <1>32. CASE Finished
    BY <1>32 DEF Finished
  <1>33. CASE Reboot
    BY <1>33 DEF Reboot, LoadDrives
  <1>34. CASE UNCHANGED vars
    BY <1>34 DEF vars
  <1>35. QED
    BY <1>1, <1>2, <1>3, <1>4, <1>5, <1>6, <1>7, <1>8, <1>9, <1>10, <1>11, <1>12,
       <1>13, <1>14, <1>15, <1>16, <1>17, <1>18, <1>19, <1>20, <1>21, <1>22, <1>23, <1>24,
       <1>25, <1>26, <1>27, <1>28, <1>29, <1>30, <1>31, <1>32, <1>33, <1>34
    DEF Next, DriveTest

-----------------------------------------------------------------------------
(* The marked drives.                                                      *)

\* drivetest leaves a step for the next one only if it is not the last.
LEMMA NextInProgram ==
  ASSUME TypeOK, InProgram, NextStep, options' = options, Step # "exit"
  PROVE  InProgram' /\ Rest' \subseteq Rest
PROOF
  <1> DEFINE P == Program(options)
  <1>1. P[Len(P)] = "exit" /\ Len(P) \in Nat
    BY ProgramEnds DEF EndsInLastSteps
  <1>2. step # Len(P)
    BY <1>1 DEF Step
  <1>3. step' = step + 1 /\ P' = P
    BY DEF NextStep
  <1>4. InProgram'
    BY <1>1, <1>2, <1>3 DEF InProgram, TypeOK
  <1>5. step'..Len(P) \subseteq step..Len(P)
    BY <1>1, <1>3 DEF TypeOK
  <1>6. QED
    BY <1>3, <1>4, <1>5 DEF Rest

\* drivetest never runs off the end of its program.
LEMMA InProgramStep ==
  ASSUME TypeOK, Places, InProgram, [Next]_vars
  PROVE  InProgram'
PROOF
  <1> USE DEF Places, At, dmVars, platoVars, procVars
  <1>1. CASE Load
    BY <1>1 DEF Load, LoadDrives, InProgram
  <1>2. CASE PlatoRaises
    BY <1>2 DEF PlatoRaises, InProgram
  <1>3. CASE PruneAllreadyDead
    BY <1>3, NextInProgram DEF PruneAllreadyDead, PruneAll, NextStep, ScanFrame,
       InProgram
  <1>4. CASE SkipAllreadyThrashed
    BY <1>4, NextInProgram DEF SkipAllreadyThrashed, SkipAll, NextStep,
       ScanFrame, InProgram
  <1>5. CASE SkipUnThrashable
    BY <1>5, NextInProgram DEF SkipUnThrashable, SkipAll, NextStep, ScanFrame,
       InProgram
  <1>6. CASE SkipWithFilesystems
    BY <1>6, NextInProgram DEF SkipWithFilesystems, SkipAll, NextStep, ScanFrame,
       InProgram
  <1>7. CASE BeginLoop
    BY <1>7 DEF BeginLoop, InProgram
  <1>8. CASE EndLoop
    BY <1>8, NextInProgram DEF EndLoop, NextStep, InProgram, LoopSteps, Waited,
       Immediate, WaitPlaces
  <1>9. ASSUME NEW d \in Drives, EvaluateGood(d) PROVE InProgram'
    BY <1>9 DEF EvaluateGood, Visit, LoopFrame, InProgram
  <1>10. ASSUME NEW d \in Drives, EvaluateUnreadable(d) PROVE InProgram'
    BY <1>10 DEF EvaluateUnreadable, Visit, LoopFrame, PruneAndReport, Prune,
       InProgram
  <1>11. ASSUME NEW d \in Drives, EvaluateBad(d) PROVE InProgram'
    BY <1>11 DEF EvaluateBad, Visit, LoopFrame, Prune, InProgram
  <1>12. ASSUME NEW d \in Drives, EvaluateRaises(d) PROVE InProgram'
    BY <1>12 DEF EvaluateRaises, Visit, LoopFrame, InProgram
  <1>13. ASSUME NEW d \in Drives, RunPassedOver(d) PROVE InProgram'
    BY <1>13 DEF RunPassedOver, Visit, LoopFrame, InProgram
  <1>14. ASSUME NEW d \in Drives, RunSucceeds(d) PROVE InProgram'
    BY <1>14 DEF RunSucceeds, Visit, InProgram
  <1>15. ASSUME NEW d \in Drives, RunFails(d) PROVE InProgram'
    BY <1>15 DEF RunFails, Visit, PruneAndReport, Prune, InProgram
  <1>16. CASE BeginWait
    BY <1>16 DEF BeginWait, InProgram
  <1>17. ASSUME NEW d \in Drives, StartChild(d) PROVE InProgram'
    BY <1>17 DEF StartChild, WaitFrame, InProgram
  <1>18. CASE AllStarted
    BY <1>18 DEF AllStarted, WaitFrame, InProgram
  <1>19. ASSUME NEW d \in Drives, ChildExit(d) PROVE InProgram'
    BY <1>19 DEF ChildExit, WaitFrame, InProgram
  <1>20. CASE StopWaiting
    BY <1>20 DEF StopWaiting, WaitFrame, InProgram
  <1>21. ASSUME NEW d \in Drives, CheckPassed(d) PROVE InProgram'
    BY <1>21 DEF CheckPassed, WaitFrame, InProgram
  <1>22. ASSUME NEW d \in Drives, CheckFailed(d) PROVE InProgram'
    BY <1>22 DEF CheckFailed, WaitFrame, PruneAndReport, Prune, InProgram
  <1>23. ASSUME NEW d \in Drives, CheckLate(d) PROVE InProgram'
    BY <1>23 DEF CheckLate, WaitFrame, PruneAndReport, Prune, InProgram
  <1>24. ASSUME NEW d \in Drives, Terminate(d) PROVE InProgram'
    BY <1>24 DEF Terminate, WaitFrame, InProgram
  <1>25. ASSUME NEW d \in Drives, Reap(d) PROVE InProgram'
    BY <1>25 DEF Reap, WaitFrame, InProgram
  <1>26. CASE SaveBad
    BY <1>26 DEF SaveBad, InProgram
  <1>27. ASSUME NEW d \in Drives, SaveGood(d) PROVE InProgram'
    BY <1>27 DEF SaveGood, Visit, PruneAndReport, Prune, InProgram
  <1>28. CASE LightsOn
    BY <1>28 DEF LightsOn, InProgram
  <1>29. CASE LightsOff
    BY <1>29, NextInProgram DEF LightsOff, NextStep, InProgram
  <1>30. ASSUME NEW d \in Drives, Mark(d) PROVE InProgram'
    BY <1>30 DEF Mark, Visit, InProgram
  <1>31. ASSUME NEW d \in Drives, Store(d) PROVE InProgram'
    BY <1>31 DEF Store, InProgram
  <1>32. CASE Finished
    BY <1>32 DEF Finished, InProgram
  <1>33. CASE Reboot
    BY <1>33, ProgramEnds DEF Reboot, LoadDrives, InProgram, EndsInLastSteps
  <1>34. CASE UNCHANGED vars
    BY <1>34 DEF vars, InProgram
  <1>35. QED
    BY <1>1, <1>2, <1>3, <1>4, <1>5, <1>6, <1>7, <1>8, <1>9, <1>10, <1>11, <1>12,
       <1>13, <1>14, <1>15, <1>16, <1>17, <1>18, <1>19, <1>20, <1>21, <1>22, <1>23, <1>24,
       <1>25, <1>26, <1>27, <1>28, <1>29, <1>30, <1>31, <1>32, <1>33, <1>34
    DEF Next, DriveTest

\* While drives are marked, drivetest is at one of its last steps.
LEMMA MarkedAtLast ==
  ASSUME InProgram, Marked, marked # {}
  PROVE  Step \in LastSteps
PROOF
  BY DEF InProgram, Marked, Rest, Step

\* A drive stays certified as long as nothing fails and the step is the same.
LEMMA CertifiedSame ==
  ASSUME NEW d \in Drives, options' = options, step' = step,
         failed' = failed, passed' = passed
  PROVE  Certified(d)' = Certified(d)
PROOF
  BY RequiredSame DEF Certified

\* What is to come of the program depends on the options and the step alone.
LEMMA RestSame ==
  ASSUME options' = options, step' = step
  PROVE  Rest' = Rest
PROOF
  BY DEF Rest

\* A step between two steps of the program that keeps what Marked speaks of.
LEMMA MarkedNextStep ==
  ASSUME TypeOK, InProgram, Marked, marked # {}, NextStep, Step # "exit",
         UNCHANGED <<options, marked, child, good_list, failed, passed>>
  PROVE  Marked'
PROOF
  <1>1. Rest' \subseteq LastSteps
    BY NextInProgram DEF Marked
  <1>2. Step \notin Commands
    BY MarkedAtLast DEF LastSteps, Commands, Waited, Immediate
  <1>3. \A d \in Drives : Required(d)' \subseteq Required(d)
    BY <1>2, RequiredNext DEF NextStep
  <1>4. QED
    BY <1>1, <1>3 DEF Marked, NextStep, Certified, TypeOK

\* Nothing that happens after the marking of the good drives takes a certificate
\* away.
LEMMA MarkedStep ==
  ASSUME TypeOK, Accounted, Places, Children, Failures, Passed, InProgram, Marked, [Next]_vars
  PROVE  Marked'
PROOF
  <1> USE MarkedAtLast, CertifiedSame, RestSame DEF TypeOK, DMTypeOK,
          Places, Marked, WaitPlaces, At, dmVars, platoVars, procVars, LastSteps,
          Scans
  <1>1. CASE Load
    BY <1>1 DEF Load, LoadDrives
  <1>2. CASE PlatoRaises
    BY <1>2 DEF PlatoRaises
  <1>3. CASE PruneAllreadyDead
    BY <1>3 DEF PruneAllreadyDead, PruneAll, NextStep, ScanFrame, Scans
  <1>4. CASE SkipAllreadyThrashed
    BY <1>4 DEF SkipAllreadyThrashed, SkipAll, NextStep, ScanFrame, Scans
  <1>5. CASE SkipUnThrashable
    BY <1>5 DEF SkipUnThrashable, SkipAll, NextStep, ScanFrame, Scans
  <1>6. CASE SkipWithFilesystems
    BY <1>6 DEF SkipWithFilesystems, SkipAll, NextStep, ScanFrame, Scans
  <1>7. CASE BeginLoop
    BY <1>7 DEF BeginLoop
  <1>8. CASE EndLoop
    BY <1>8, MarkedNextStep DEF EndLoop, NextStep, LoopSteps, Immediate
  <1>9. ASSUME NEW d \in Drives, EvaluateGood(d) PROVE Marked'
    BY <1>9 DEF EvaluateGood, Visit, LoopFrame
  <1>10. ASSUME NEW d \in Drives, EvaluateUnreadable(d) PROVE Marked'
    BY <1>10 DEF EvaluateUnreadable, Visit, LoopFrame, PruneAndReport, Prune
  <1>11. ASSUME NEW d \in Drives, EvaluateBad(d) PROVE Marked'
    BY <1>11 DEF EvaluateBad, Visit, LoopFrame, Prune
  <1>12. ASSUME NEW d \in Drives, EvaluateRaises(d) PROVE Marked'
    BY <1>12 DEF EvaluateRaises, Visit, LoopFrame
  <1>13. ASSUME NEW d \in Drives, RunPassedOver(d) PROVE Marked'
    BY <1>13 DEF RunPassedOver, Visit, LoopFrame, Immediate
  <1>14. ASSUME NEW d \in Drives, RunSucceeds(d) PROVE Marked'
    BY <1>14 DEF RunSucceeds, Visit, Immediate
  <1>15. ASSUME NEW d \in Drives, RunFails(d) PROVE Marked'
    BY <1>15 DEF RunFails, Visit, PruneAndReport, Prune, Immediate
  <1>16. CASE BeginWait
    BY <1>16 DEF BeginWait, Waited
  <1>17. ASSUME NEW d \in Drives, StartChild(d) PROVE Marked'
    BY <1>17 DEF StartChild, WaitFrame
  <1>18. CASE AllStarted
    BY <1>18 DEF AllStarted, WaitFrame
  <1>19. ASSUME NEW d \in Drives, ChildExit(d) PROVE Marked'
    BY <1>19 DEF ChildExit, WaitFrame
  <1>20. CASE StopWaiting
    BY <1>20 DEF StopWaiting, WaitFrame
  <1>21. ASSUME NEW d \in Drives, CheckPassed(d) PROVE Marked'
    BY <1>21 DEF CheckPassed, WaitFrame
  <1>22. ASSUME NEW d \in Drives, CheckFailed(d) PROVE Marked'
    BY <1>22 DEF CheckFailed, WaitFrame, PruneAndReport, Prune
  <1>23. ASSUME NEW d \in Drives, CheckLate(d) PROVE Marked'
    BY <1>23 DEF CheckLate, WaitFrame, PruneAndReport, Prune
  <1>24. ASSUME NEW d \in Drives, Terminate(d) PROVE Marked'
    BY <1>24 DEF Terminate, WaitFrame
  <1>25. ASSUME NEW d \in Drives, Reap(d) PROVE Marked'
    BY <1>25 DEF Reap, WaitFrame
  <1>26. CASE SaveBad
    BY <1>26 DEF SaveBad
  <1>27. ASSUME NEW d \in Drives, SaveGood(d) PROVE Marked'
    BY <1>27 DEF SaveGood, Visit, PruneAndReport, Prune
  <1>28. CASE LightsOn
    BY <1>28 DEF LightsOn
  <1>29. CASE LightsOff
    BY <1>29 DEF LightsOff, NextStep
  <1>30. ASSUME NEW d \in Drives, Mark(d) PROVE Marked'
    <2>1. /\ pc = "loop" /\ Step = "mark" /\ pc' \in {"loop", "exit1"}
          /\ d \in good_list /\ marked' \subseteq marked \cup {d}
          /\ UNCHANGED <<options, step, child, good_list, failed, passed>>
      BY <1>30 DEF Mark, Visit, IsNext
    <2>2. Certified(d)
      BY <2>1 DEF Failures, Passed, Certified
    <2>3. Rest \subseteq LastSteps
      BY <2>1, ProgramEnds DEF Rest, InProgram, EndsInLastSteps, Step
    <2>4. \A e \in Drives : child[e] # "running"
      BY <2>1 DEF Children
    <2>5. QED
      BY <2>1, <2>2, <2>3, <2>4
  <1>31. ASSUME NEW d \in Drives, Store(d) PROVE Marked'
    BY <1>31 DEF Store
  <1>32. CASE Finished
    BY <1>32 DEF Finished
  <1>33. CASE Reboot
    BY <1>33 DEF Reboot, LoadDrives
  <1>34. CASE UNCHANGED vars
    BY <1>34 DEF vars
  <1>35. QED
    BY <1>1, <1>2, <1>3, <1>4, <1>5, <1>6, <1>7, <1>8, <1>9, <1>10, <1>11, <1>12,
       <1>13, <1>14, <1>15, <1>16, <1>17, <1>18, <1>19, <1>20, <1>21, <1>22, <1>23, <1>24,
       <1>25, <1>26, <1>27, <1>28, <1>29, <1>30, <1>31, <1>32, <1>33, <1>34
    DEF Next, DriveTest

-----------------------------------------------------------------------------
(* What Plato has been told, and the mounts.                               *)

\* A drive that goes to the bad ones is reported on the way, or drivetest dies.
LEMMA ReportedStep ==
  ASSUME TypeOK, BadIsReported, [Next]_vars
  PROVE  BadIsReported'
PROOF
  <1> USE DEF BadIsReported, At, NextStep, dmVars, platoVars, procVars
  <1>1. CASE Load
    BY <1>1 DEF Load, LoadDrives
  <1>2. CASE PlatoRaises
    BY <1>2 DEF PlatoRaises
  <1>3. CASE PruneAllreadyDead
    BY <1>3 DEF PruneAllreadyDead, PruneAll, ScanFrame
  <1>4. CASE SkipAllreadyThrashed
    BY <1>4 DEF SkipAllreadyThrashed, SkipAll, ScanFrame
  <1>5. CASE SkipUnThrashable
    BY <1>5 DEF SkipUnThrashable, SkipAll, ScanFrame
  <1>6. CASE SkipWithFilesystems
    BY <1>6 DEF SkipWithFilesystems, SkipAll, ScanFrame
  <1>7. CASE BeginLoop
    BY <1>7 DEF BeginLoop
  <1>8. CASE EndLoop
    BY <1>8 DEF EndLoop
  <1>9. ASSUME NEW d \in Drives, EvaluateGood(d) PROVE BadIsReported'
    BY <1>9 DEF EvaluateGood, Visit, LoopFrame
  <1>10. ASSUME NEW d \in Drives, EvaluateUnreadable(d) PROVE BadIsReported'
    BY <1>10 DEF EvaluateUnreadable, Visit, LoopFrame, PruneAndReport, Prune
  <1>11. ASSUME NEW d \in Drives, EvaluateBad(d) PROVE BadIsReported'
    BY <1>11 DEF EvaluateBad, Visit, LoopFrame, Prune
  <1>12. ASSUME NEW d \in Drives, EvaluateRaises(d) PROVE BadIsReported'
    BY <1>12 DEF EvaluateRaises, Visit, LoopFrame
  <1>13. ASSUME NEW d \in Drives, RunPassedOver(d) PROVE BadIsReported'
    BY <1>13 DEF RunPassedOver, Visit, LoopFrame
  <1>14. ASSUME NEW d \in Drives, RunSucceeds(d) PROVE BadIsReported'
    BY <1>14 DEF RunSucceeds, Visit
  <1>15. ASSUME NEW d \in Drives, RunFails(d) PROVE BadIsReported'
    BY <1>15 DEF RunFails, Visit, PruneAndReport, Prune
  <1>16. CASE BeginWait
    BY <1>16 DEF BeginWait
  <1>17. ASSUME NEW d \in Drives, StartChild(d) PROVE BadIsReported'
    BY <1>17 DEF StartChild, WaitFrame
  <1>18. CASE AllStarted
    BY <1>18 DEF AllStarted, WaitFrame
  <1>19. ASSUME NEW d \in Drives, ChildExit(d) PROVE BadIsReported'
    BY <1>19 DEF ChildExit, WaitFrame
  <1>20. CASE StopWaiting
    BY <1>20 DEF StopWaiting, WaitFrame
  <1>21. ASSUME NEW d \in Drives, CheckPassed(d) PROVE BadIsReported'
    BY <1>21 DEF CheckPassed, WaitFrame
  <1>22. ASSUME NEW d \in Drives, CheckFailed(d) PROVE BadIsReported'
    BY <1>22 DEF CheckFailed, WaitFrame, PruneAndReport, Prune
  <1>23. ASSUME NEW d \in Drives, CheckLate(d) PROVE BadIsReported'
    BY <1>23 DEF CheckLate, WaitFrame, PruneAndReport, Prune
  <1>24. ASSUME NEW d \in Drives, Terminate(d) PROVE BadIsReported'
    BY <1>24 DEF Terminate, WaitFrame
  <1>25. ASSUME NEW d \in Drives, Reap(d) PROVE BadIsReported'
    BY <1>25 DEF Reap, WaitFrame
  <1>26. CASE SaveBad
    BY <1>26 DEF SaveBad
  <1>27. ASSUME NEW d \in Drives, SaveGood(d) PROVE BadIsReported'
    BY <1>27 DEF SaveGood, Visit, PruneAndReport, Prune
  <1>28. CASE LightsOn
    BY <1>28 DEF LightsOn
  <1>29. CASE LightsOff
    BY <1>29 DEF LightsOff
  <1>30. ASSUME NEW d \in Drives, Mark(d) PROVE BadIsReported'
    BY <1>30 DEF Mark, Visit
  <1>31. ASSUME NEW d \in Drives, Store(d) PROVE BadIsReported'
    BY <1>31 DEF Store
  <1>32. CASE Finished
    BY <1>32 DEF Finished
  <1>33. CASE Reboot
    BY <1>33 DEF Reboot, LoadDrives
  <1>34. CASE UNCHANGED vars
    BY <1>34 DEF vars
  <1>35. QED
    BY <1>1, <1>2, <1>3, <1>4, <1>5, <1>6, <1>7, <1>8, <1>9, <1>10, <1>11,
       <1>12, <1>13, <1>14, <1>15, <1>16, <1>17, <1>18, <1>19, <1>20, <1>21,
       <1>22, <1>23, <1>24, <1>25, <1>26, <1>27, <1>28, <1>29, <1>30, <1>31,
       <1>32, <1>33, <1>34
    DEF Next, DriveTest

\* Nothing flags a drive and keeps it.
LEMMA UnflaggedStep ==
  ASSUME TypeOK, Places, Unflagged, [Next]_vars
  PROVE  Unflagged'
PROOF
  <1>0. step = 1 => Step = "dead"
    BY ProgramBegins DEF Step
  <1> USE <1>0 DEF Unflagged, Places, WaitPlaces, At, NextStep, TypeOK, DMTypeOK,
          dmVars, platoVars, procVars
  <1>1. CASE Load
    BY <1>1 DEF Load, LoadDrives
  <1>2. CASE PlatoRaises
    BY <1>2 DEF PlatoRaises
  <1>3. CASE PruneAllreadyDead
    BY <1>3 DEF PruneAllreadyDead, PruneAll, ScanFrame
  <1>4. CASE SkipAllreadyThrashed
    BY <1>4 DEF SkipAllreadyThrashed, SkipAll, ScanFrame
  <1>5. CASE SkipUnThrashable
    BY <1>5 DEF SkipUnThrashable, SkipAll, ScanFrame
  <1>6. CASE SkipWithFilesystems
    BY <1>6 DEF SkipWithFilesystems, SkipAll, ScanFrame
  <1>7. CASE BeginLoop
    BY <1>7 DEF BeginLoop
  <1>8. CASE EndLoop
    BY <1>8 DEF EndLoop, LoopSteps, Immediate, Waited
  <1>9. ASSUME NEW d \in Drives, EvaluateGood(d) PROVE Unflagged'
    BY <1>9 DEF EvaluateGood, Visit, LoopFrame
  <1>10. ASSUME NEW d \in Drives, EvaluateUnreadable(d) PROVE Unflagged'
    BY <1>10 DEF EvaluateUnreadable, Visit, LoopFrame, PruneAndReport, Prune
  <1>11. ASSUME NEW d \in Drives, EvaluateBad(d) PROVE Unflagged'
    BY <1>11 DEF EvaluateBad, Visit, LoopFrame, Prune
  <1>12. ASSUME NEW d \in Drives, EvaluateRaises(d) PROVE Unflagged'
    BY <1>12 DEF EvaluateRaises, Visit, LoopFrame
  <1>13. ASSUME NEW d \in Drives, RunPassedOver(d) PROVE Unflagged'
    BY <1>13 DEF RunPassedOver, Visit, LoopFrame
  <1>14. ASSUME NEW d \in Drives, RunSucceeds(d) PROVE Unflagged'
    BY <1>14 DEF RunSucceeds, Visit
  <1>15. ASSUME NEW d \in Drives, RunFails(d) PROVE Unflagged'
    BY <1>15 DEF RunFails, Visit, PruneAndReport, Prune
  <1>16. CASE BeginWait
    BY <1>16 DEF BeginWait
  <1>17. ASSUME NEW d \in Drives, StartChild(d) PROVE Unflagged'
    BY <1>17 DEF StartChild, WaitFrame
  <1>18. CASE AllStarted
    BY <1>18 DEF AllStarted, WaitFrame
  <1>19. ASSUME NEW d \in Drives, ChildExit(d) PROVE Unflagged'
    BY <1>19 DEF ChildExit, WaitFrame
  <1>20. CASE StopWaiting
    BY <1>20 DEF StopWaiting, WaitFrame
  <1>21. ASSUME NEW d \in Drives, CheckPassed(d) PROVE Unflagged'
    BY <1>21 DEF CheckPassed, WaitFrame
  <1>22. ASSUME NEW d \in Drives, CheckFailed(d) PROVE Unflagged'
    BY <1>22 DEF CheckFailed, WaitFrame, PruneAndReport, Prune
  <1>23. ASSUME NEW d \in Drives, CheckLate(d) PROVE Unflagged'
    BY <1>23 DEF CheckLate, WaitFrame, PruneAndReport, Prune
  <1>24. ASSUME NEW d \in Drives, Terminate(d) PROVE Unflagged'
    BY <1>24 DEF Terminate, WaitFrame
  <1>25. ASSUME NEW d \in Drives, Reap(d) PROVE Unflagged'
    BY <1>25 DEF Reap, WaitFrame
  <1>26. CASE SaveBad
    BY <1>26 DEF SaveBad
  <1>27. ASSUME NEW d \in Drives, SaveGood(d) PROVE Unflagged'
    BY <1>27 DEF SaveGood, Visit, PruneAndReport, Prune
  <1>28. CASE LightsOn
    BY <1>28 DEF LightsOn
  <1>29. CASE LightsOff
    BY <1>29 DEF LightsOff
  <1>30. ASSUME NEW d \in Drives, Mark(d) PROVE Unflagged'
    BY <1>30 DEF Mark, Visit
  <1>31. ASSUME NEW d \in Drives, Store(d) PROVE Unflagged'
    BY <1>31 DEF Store
  <1>32. CASE Finished
    BY <1>32 DEF Finished
  <1>33. CASE Reboot
    BY <1>33 DEF Reboot, LoadDrives
  <1>34. CASE UNCHANGED vars
    BY <1>34 DEF vars
  <1>35. QED
    BY <1>1, <1>2, <1>3, <1>4, <1>5, <1>6, <1>7, <1>8, <1>9, <1>10, <1>11,
       <1>12, <1>13, <1>14, <1>15, <1>16, <1>17, <1>18, <1>19, <1>20, <1>21,
       <1>22, <1>23, <1>24, <1>25, <1>26, <1>27, <1>28, <1>29, <1>30, <1>31,
       <1>32, <1>33, <1>34
    DEF Next, DriveTest

\* Whether it is depends on the options and the step alone.
LEMMA MountOpenSame ==
  ASSUME options' = options, step' = step
  PROVE  MountOpen(step)' = MountOpen(step) /\ Step' = Step
PROOF
  BY DEF MountOpen, Step

\* It is so from the mount on, and until the unmount.
LEMMA MountOpenNext ==
  ASSUME TypeOK
  PROVE  /\ Step = "mount" => MountOpen(step)
         /\ MountOpen(step) /\ Step # "umount" => MountOpen(step + 1)
PROOF
  <1>1. Step = "mount" => MountOpen(step)
    <2>1. step \in 1..step /\ step..step - 1 = {}
      BY DEF TypeOK
    <2> QED  BY <2>1 DEF MountOpen, Step
  <1>2. ASSUME MountOpen(step), Step # "umount" PROVE MountOpen(step + 1)
    <2>1. PICK j \in 1..step : /\ Program(options)[j] = "mount"
                               /\ \A k \in j..step - 1 : Program(options)[k] # "umount"
      BY <1>2 DEF MountOpen
    <2>2. j \in 1..step + 1 /\ \A k \in j..(step + 1) - 1 : k \in j..step - 1 \/ k = step
      BY DEF TypeOK
    <2>3. \A k \in j..(step + 1) - 1 : Program(options)[k] # "umount"
      BY <1>2, <2>1, <2>2 DEF Step
    <2> QED  BY <2>1, <2>2, <2>3 DEF MountOpen
  <1>3. QED
    BY <1>1, <1>2

\* From one step of the program to the next.
LEMMA MountsNextStep ==
  ASSUME TypeOK, MountsAreOpen, NextStep, UNCHANGED <<options, mounted>>,
         good_list' \subseteq good_list, Step = "umount" => pc = "loop" /\ todo = {}
  PROVE  MountsAreOpen'
PROOF
  <1>1. pc' = "begin" /\ step' = step + 1
    BY DEF NextStep
  <1>2. \A d \in good_list' : HasBlock(d) /\ Alone(d) /\ block_name[d] \in mounted' =>
            MountOpen(step + 1)
    BY MountOpenNext DEF MountsAreOpen
  <1>3. MountOpen(step + 1) => MountOpen(step)'
    BY <1>1 DEF MountOpen
  <1>4. QED
    BY <1>1, <1>2, <1>3 DEF MountsAreOpen

\* Nothing leaves a file system mounted on a good drive.
LEMMA MountsStep ==
  ASSUME TypeOK, Accounted, Places, MountsAreOpen, [Next]_vars
  PROVE  MountsAreOpen'
PROOF
  <1> USE MountOpenSame DEF MountsAreOpen, Places, WaitPlaces, At, dmVars, platoVars, procVars
  <1>1. CASE Load
    BY <1>1 DEF Load, LoadDrives
  <1>2. CASE PlatoRaises
    BY <1>2 DEF PlatoRaises
  <1>3. CASE PruneAllreadyDead
    BY <1>3, MountsNextStep DEF PruneAllreadyDead, PruneAll, ScanFrame,
       NextStep
  <1>4. CASE SkipAllreadyThrashed
    BY <1>4, MountsNextStep DEF SkipAllreadyThrashed, SkipAll, ScanFrame,
       NextStep
  <1>5. CASE SkipUnThrashable
    BY <1>5, MountsNextStep DEF SkipUnThrashable, SkipAll, ScanFrame, NextStep
  <1>6. CASE SkipWithFilesystems
    BY <1>6, MountsNextStep DEF SkipWithFilesystems, SkipAll, ScanFrame,
       NextStep
  <1>7. CASE BeginLoop
    BY <1>7 DEF BeginLoop
  <1>8. CASE EndLoop
    BY <1>8, MountsNextStep DEF EndLoop, Waited
  <1>9. ASSUME NEW d \in Drives, EvaluateGood(d) PROVE MountsAreOpen'
    BY <1>9 DEF EvaluateGood, Visit, LoopFrame
  <1>10. ASSUME NEW d \in Drives, EvaluateUnreadable(d) PROVE MountsAreOpen'
    BY <1>10 DEF EvaluateUnreadable, Visit, LoopFrame, PruneAndReport, Prune
  <1>11. ASSUME NEW d \in Drives, EvaluateBad(d) PROVE MountsAreOpen'
    BY <1>11 DEF EvaluateBad, Visit, LoopFrame, Prune
  <1>12. ASSUME NEW d \in Drives, EvaluateRaises(d) PROVE MountsAreOpen'
    BY <1>12 DEF EvaluateRaises, Visit, LoopFrame
  <1>13. ASSUME NEW d \in Drives, RunPassedOver(d) PROVE MountsAreOpen'
    <2>1. /\ pc = "loop" /\ pc' = "loop" /\ d \in todo /\ todo' = todo \ {d}
          /\ UNCHANGED <<options, step, good_list, mounted>>
      BY <1>13 DEF RunPassedOver, Visit, LoopFrame, IsNext
    <2>2. Step = "umount" /\ HasBlock(d) => ~Alone(d)
      BY <1>13 DEF RunPassedOver, Visit, PassedOver, Alone, NeedsBlock, IsNext,
         Immediate, TypeOK
    <2>3. QED
      BY <2>1, <2>2
  <1>14. ASSUME NEW d \in Drives, RunSucceeds(d) PROVE MountsAreOpen'
    <2>1. /\ pc = "loop" /\ pc' = "loop" /\ d \in todo /\ todo' = todo \ {d}
          /\ UNCHANGED <<options, step, good_list>>
      BY <1>14 DEF RunSucceeds, Visit, IsNext
    <2>2. HasBlock(d) \/ Step \notin NeedsBlock
      BY <1>14 DEF RunSucceeds, PassedOver
    <2>3. \A e \in Drives : HasBlock(e) /\ Alone(e) /\ block_name[e] = block_name[d] => e = d
      BY DEF Alone
    <2>4. good_list \subseteq Drives
      BY DEF TypeOK, DMTypeOK
    <2>5. CASE Step = "mount"
      <3>1. MountOpen(step) /\ mounted' = mounted \cup {block_name[d]}
        BY <1>14, <2>5, MountOpenNext DEF RunSucceeds
      <3> QED  BY <2>1, <2>5, <3>1
    <2>6. CASE Step = "umount"
      <3>1. mounted' = mounted \ {block_name[d]}
        BY <1>14, <2>6 DEF RunSucceeds
      <3> QED  BY <2>1, <2>3, <2>4, <2>6, <3>1
    <2>7. CASE Step \notin {"mount", "umount"}
      <3>1. mounted' = mounted
        BY <1>14, <2>7 DEF RunSucceeds
      <3> QED  BY <2>1, <2>7, <3>1
    <2>8. QED
      BY <2>5, <2>6, <2>7
  <1>15. ASSUME NEW d \in Drives, RunFails(d) PROVE MountsAreOpen'
    BY <1>15 DEF RunFails, Visit, PruneAndReport, Prune
  <1>16. CASE BeginWait
    BY <1>16 DEF BeginWait, Waited
  <1>17. ASSUME NEW d \in Drives, StartChild(d) PROVE MountsAreOpen'
    BY <1>17 DEF StartChild, WaitFrame
  <1>18. CASE AllStarted
    BY <1>18 DEF AllStarted, WaitFrame
  <1>19. ASSUME NEW d \in Drives, ChildExit(d) PROVE MountsAreOpen'
    BY <1>19 DEF ChildExit, WaitFrame
  <1>20. CASE StopWaiting
    BY <1>20 DEF StopWaiting, WaitFrame
  <1>21. ASSUME NEW d \in Drives, CheckPassed(d) PROVE MountsAreOpen'
    BY <1>21 DEF CheckPassed, WaitFrame
  <1>22. ASSUME NEW d \in Drives, CheckFailed(d) PROVE MountsAreOpen'
    BY <1>22 DEF CheckFailed, WaitFrame, PruneAndReport, Prune
  <1>23. ASSUME NEW d \in Drives, CheckLate(d) PROVE MountsAreOpen'
    BY <1>23 DEF CheckLate, WaitFrame, PruneAndReport, Prune
  <1>24. ASSUME NEW d \in Drives, Terminate(d) PROVE MountsAreOpen'
    BY <1>24 DEF Terminate, WaitFrame
  <1>25. ASSUME NEW d \in Drives, Reap(d) PROVE MountsAreOpen'
    BY <1>25 DEF Reap, WaitFrame
  <1>26. CASE SaveBad
    BY <1>26 DEF SaveBad
  <1>27. ASSUME NEW d \in Drives, SaveGood(d) PROVE MountsAreOpen'
    BY <1>27 DEF SaveGood, Visit, PruneAndReport, Prune
  <1>28. CASE LightsOn
    BY <1>28 DEF LightsOn
  <1>29. CASE LightsOff
    BY <1>29, MountsNextStep DEF LightsOff, NextStep
  <1>30. ASSUME NEW d \in Drives, Mark(d) PROVE MountsAreOpen'
    BY <1>30 DEF Mark, Visit
  <1>31. ASSUME NEW d \in Drives, Store(d) PROVE MountsAreOpen'
    BY <1>31 DEF Store
  <1>32. CASE Finished
    BY <1>32 DEF Finished
  <1>33. CASE Reboot
    BY <1>33 DEF Reboot, LoadDrives
  <1>34. CASE UNCHANGED vars
    BY <1>34 DEF vars
  <1>35. QED
    BY <1>1, <1>2, <1>3, <1>4, <1>5, <1>6, <1>7, <1>8, <1>9, <1>10, <1>11,
       <1>12, <1>13, <1>14, <1>15, <1>16, <1>17, <1>18, <1>19, <1>20, <1>21,
       <1>22, <1>23, <1>24, <1>25, <1>26, <1>27, <1>28, <1>29, <1>30, <1>31,
       <1>32, <1>33, <1>34
    DEF Next, DriveTest

-----------------------------------------------------------------------------
(* The theorems.                                                           *)

\* The invariant holds at every moment of every behaviour.
LEMMA Invariance == Spec => []IInv
PROOF
  <1>1. ASSUME IInv, [Next]_vars PROVE IInv'
    BY <1>1, TypeStep, AccountedStep, PlacesStep, ChildrenStep, FailuresStep,
       PassedStep, InProgramStep, MarkedStep, ReportedStep, UnflaggedStep, MountsStep
    DEF IInv
  <1>2. QED
    BY <1>1, InitIInv, PTL DEF Spec

\* Types.
THEOREM TypeCorrect == Spec => []TypeOK
PROOF
  <1>1. IInv => TypeOK
    BY DEF IInv
  <1>2. QED
    BY <1>1, Invariance, PTL

\* prune() is the only way between the lists of DriveManager: no drive is lost
\* between them and none is in two.
THEOREM ListsPartition == Spec => []Accounted
PROOF
  <1>1. IInv => Accounted
    BY DEF IInv
  <1>2. QED
    BY <1>1, Invariance, PTL

\* runOnEachDriveWait leaves no child running behind it, unless drivetest dies.
THEOREM ChildrenAccounted == Spec => []NoChildLeftBehind
PROOF
  <1>1. IInv => NoChildLeftBehind
    BY DEF IInv, Children, NoChildLeftBehind, WaitPlaces
  <1>2. QED
    BY <1>1, Invariance, PTL

\* Between two steps of the program, every drive of good_list has come through
\* everything that was required of it.
THEOREM GoodCertified == Spec => []GoodIsCertified
PROOF
  <1>1. IInv => GoodIsCertified
    BY DEF IInv, TypeOK, DMTypeOK, Failures, Passed, GoodIsCertified, Certified,
       WaitPlaces
  <1>2. QED
    BY <1>1, Invariance, PTL

\* What mark_good_thrashed tells Plato is true, and stays so.
THEOREM MarkedCertified == Spec => []MarkedIsCertified
PROOF
  <1>1. IInv => MarkedIsCertified
    BY DEF IInv, Marked, MarkedIsCertified
  <1>2. QED
    BY <1>1, Invariance, PTL

\* doSaveResults writes PASS only to the block device of a certified drive.
THEOREM PassCertified == Spec => PassIsCertified
PROOF
  <1> DEFINE Good == \A d \in Drives :
                       (HasBlock(d) /\ Alone(d) /\ label'[block_name[d]] = "PASS")
                         => label[block_name[d]] = "PASS" \/ Certified(d)
  <1>1. ASSUME IInv, [Next]_vars PROVE Good
    <2> SUFFICES ASSUME NEW d \in Drives, HasBlock(d), Alone(d),
                        label'[block_name[d]] = "PASS", label[block_name[d]] # "PASS"
                 PROVE  Certified(d)
      OBVIOUS
    <2>1. block_name[d] \in Blocks
      BY BlockAssumption DEF HasBlock
    <2>2. PICK e \in Drives : SaveGood(e)
      BY <1>1, <2>1 DEF Next, DriveTest, vars, dmVars, platoVars, procVars, Load,
         PlatoRaises,
         PruneAllreadyDead, SkipAllreadyThrashed, SkipUnThrashable, SkipWithFilesystems, ScanFrame,
         BeginLoop, EndLoop, BeginWait, AllStarted, StopWaiting, WaitFrame, SaveBad, LightsOn, LightsOff,
         Finished, EvaluateGood, EvaluateUnreadable, EvaluateBad, EvaluateRaises, LoopFrame,
         RunPassedOver, RunSucceeds, RunFails, StartChild, CheckPassed, CheckFailed, CheckLate,
         Terminate, Reap, Mark, Store, Reboot, ChildExit
    <2>3. e = d
      BY <1>1, <2>1, <2>2 DEF SaveGood, Alone, HasBlock, IInv, TypeOK
    <2>4. pc = "loop" /\ Step = "saveresults" /\ d \in good_list
      BY <1>1, <2>2, <2>3 DEF SaveGood, Visit, At, IsNext, IInv, Places
    <2>5. QED
      BY <1>1, <2>4 DEF IInv, Failures, Passed, Certified, WaitPlaces, TypeOK,
         DMTypeOK
  <1>2. QED
    BY <1>1, Invariance, PTL DEF Spec, PassIsCertified

\* As long as drivetest lives, Plato knows of every drive it has pruned.
THEOREM BadReported == Spec => []BadIsReported
PROOF
  <1>1. IInv => BadIsReported
    BY DEF IInv
  <1>2. QED
    BY <1>1, Invariance, PTL

\* mark_good_thrashed tells Plato of no drive that Plato has flagged bad, in this
\* boot or before it.
THEOREM MarkedAlive == Spec => MarkedNotDead
PROOF
  <1>1. ASSUME IInv, [Next]_vars PROVE (marked' \ marked) \cap dead = {}
    <2> SUFFICES ASSUME NEW e \in marked' \ marked PROVE e \notin dead
      OBVIOUS
    <2>1. PICK d \in Drives : Mark(d)
      BY <1>1 DEF Next, DriveTest, vars, dmVars, platoVars, procVars, Load,
         PlatoRaises,
         PruneAllreadyDead, SkipAllreadyThrashed, SkipUnThrashable, SkipWithFilesystems, ScanFrame,
         BeginLoop, EndLoop, BeginWait, AllStarted, StopWaiting, WaitFrame, SaveBad, LightsOn, LightsOff,
         Finished, EvaluateGood, EvaluateUnreadable, EvaluateBad, EvaluateRaises, LoopFrame, Visit,
         RunPassedOver, RunSucceeds, RunFails, StartChild, CheckPassed, CheckFailed, CheckLate,
         Terminate, Reap, SaveGood, Store, Reboot, ChildExit
    <2>2. /\ pc = "loop" /\ Step = "mark" /\ d \in todo
          /\ marked' \subseteq marked \cup {d} /\ (marked' # marked => options.report)
      BY <2>1 DEF Mark, Visit, At, IsNext
    <2>3. d \in good_list /\ step # 1
      BY <1>1, <2>2, ProgramBegins DEF IInv, Places, Step
    <2>4. QED
      BY <1>1, <2>2, <2>3 DEF IInv, Unflagged
  <1>2. QED
    BY <1>1, Invariance, PTL DEF Spec, MarkedNotDead

\* No command goes to the raw device of a drive behind the back of its file system.
THEOREM RawUnmounted == Spec => RawOnlyUnmounted
PROOF
  <1> DEFINE Good == \A d \in Drives :
                       (Alone(d) /\ child[d] # "running" /\ child'[d] = "running"
                          /\ Step \in Raw) => block_name[d] \notin mounted
  <1>1. ASSUME IInv, [Next]_vars PROVE Good
    <2> SUFFICES ASSUME NEW d \in Drives, Alone(d), child[d] # "running",
                        child'[d] = "running", Step \in Raw, block_name[d] \in mounted
                 PROVE  FALSE
      OBVIOUS
    <2>1. PICK e \in Drives : StartChild(e)
      BY <1>1 DEF IInv, TypeOK, Next, DriveTest, vars, dmVars, platoVars, procVars, Load,
         PlatoRaises,
         PruneAllreadyDead, SkipAllreadyThrashed, SkipUnThrashable, SkipWithFilesystems, ScanFrame,
         BeginLoop, EndLoop, BeginWait, AllStarted, StopWaiting, WaitFrame, SaveBad, LightsOn, LightsOff,
         Finished, EvaluateGood, EvaluateUnreadable, EvaluateBad, EvaluateRaises, LoopFrame, Visit,
         RunPassedOver, RunSucceeds, RunFails, CheckPassed, CheckFailed, CheckLate,
         Terminate, Reap, SaveGood, Mark, Store, Reboot, ChildExit
    <2>2. e = d /\ pc = "start" /\ d \in todo
      BY <1>1, <2>1 DEF StartChild, IsNext, IInv, TypeOK, procVars
    <2>3. d \in good_list /\ HasBlock(d)
      BY <1>1, <2>2, BlockAssumption DEF IInv, Places, HasBlock, TypeOK
    <2>4. MountOpen(step)
      BY <1>1, <2>3 DEF IInv, MountsAreOpen
    <2>5. PICK j \in 1..step : /\ Program(options)[j] = "mount"
                               /\ \A k \in j..step - 1 : Program(options)[k] # "umount"
      BY <2>4 DEF MountOpen
    <2>6. step \in 1..Len(Program(options)) /\ Len(Program(options)) \in Nat
      BY <1>1, ProgramEnds DEF IInv, InProgram, EndsInLastSteps
    <2>7. j \in 1..Len(Program(options))
      BY <2>6
    <2>8. PICK k \in j + 1..Len(Program(options)) :
               Program(options)[k] = "umount" /\ \A i \in j..k : Program(options)[i] \notin Raw
      BY <2>5, <2>7, ProgramUnmounts DEF Unmounts
    <2>9. k <= step - 1 => k \in j..step - 1
      BY <2>6
    <2>10. step \in j..k
      BY <2>5, <2>6, <2>8, <2>9
    <2>11. QED
      BY <2>8, <2>10 DEF Step
  <1>2. QED
    BY <1>1, Invariance, PTL DEF Spec, RawOnlyUnmounted
=============================================================================
