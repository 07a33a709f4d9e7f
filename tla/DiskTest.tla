-------------------------------- MODULE DiskTest --------------------------------
(***************************************************************************)
(* The disk test (disks/disk-test/root): drivetest takes the drives        *)
(* through a fixed program of scans, external commands and evaluations,    *)
(* prunes a drive at its first failure, and in the end labels, marks and   *)
(* stores the drives that are still good.                                  *)
(*                                                                         *)
(* drivetest itself is sequential.  What runs beside it: the child         *)
(* processes of runOnEachDriveWait, which exit when they like, and the     *)
(* Plato server, every call to which may raise and end drivetest with a    *)
(* traceback, the children still running.  The machine may then be booted  *)
(* again: Plato's records and the labels on the drives survive that, the   *)
(* drive lists, the children and the mounts do not.                        *)
(***************************************************************************)
EXTENDS DriveManager, Sequences

CONSTANTS
  Options,      \* the option records drivetest may be started with
  BootMounts,   \* blocks with a file system mounted before drivetest starts
  Untabled,     \* drives of a type without thresholds (Samsung, Intel SSD)
  MaxBoots      \* bound on the boots of one behaviour

Lengths == {"none", "conveyance", "quick", "short", "medium", "long", "epic"}

\* The command line do_task puts together: the length of the test and its flags.
TaskOptions ==
  [length: Lengths, destructive: BOOLEAN, report: BOOLEAN, thrasher: BOOLEAN,
   partition_check: BOOLEAN, lightup: BOOLEAN]

\* The options of a job from Plato (/tmp/config_file): its flags are fixed.
PlatoOptions(length) ==
  [length |-> length, destructive |-> TRUE, report |-> TRUE, thrasher |-> FALSE,
   partition_check |-> FALSE, lightup |-> FALSE]

ASSUME OptionsAssumption == Options \subseteq TaskOptions
ASSUME BootMountsAssumption == BootMounts \subseteq Blocks
ASSUME UntabledAssumption == Untabled \subseteq Drives
ASSUME MaxBootsAssumption == MaxBoots \in Nat \ {0}

VARIABLES
  options,      \* the options of this boot
  boot,         \* how many times the machine has booted into the test
  pc,           \* where drivetest is inside the current step of its program
  step,         \* index of the current step
  todo,         \* drives the loop of the current step has still to visit
  drive_list,   \* drives whose child this runOnEachDriveWait started
  child,        \* the last child process of each drive
  mounted,      \* blocks drivetest has mounted and not unmounted
  label,        \* the verdict in the last sector of each block
  dead,         \* Plato's record: drives flagged bad
  thrashed,     \* Plato's record: drives marked as thrashed
  stored,       \* drives reported for storage in this boot
  lights,       \* drives whose light-up dd runs
  failed,       \* history: drives that failed a command or an evaluation
  passed,       \* history: the commands each drive has come through
  marked        \* history: drives marked by mark_good_thrashed in this boot

platoVars == <<dead, thrashed, stored, marked>>
procVars == <<drive_list, child>>
vars == <<dmVars, options, boot, pc, step, todo, procVars, mounted, label,
          platoVars, lights, failed, passed>>

ChildState == {"none", "running", "ok", "fail", "terminated", "killed", "gone"}
Alive(d) == child[d] \in {"running", "terminated", "killed"}

-----------------------------------------------------------------------------
(* The program of drivetest.                                               *)

Waited == {"conveyance", "munch", "thrash", "mkfs", "bonnie", "fsck", "wipe",
           "clrparttable", "selftest"}
Immediate == {"suspend", "wake", "sfdisk", "mkdir", "mount", "umount"}
Commands == Waited \cup Immediate

\* The commands whose text names the block device of the drive.
NeedsBlock == {"thrash", "sfdisk", "mkfs", "mkdir", "mount", "bonnie", "umount",
               "fsck", "clrparttable"}
\* The commands that write to the device when the test is destructive, or
\* are only run then.
Destructive == {"munch", "thrash", "sfdisk", "mkfs", "bonnie", "fsck", "wipe",
                "clrparttable"}
\* The commands that go to the raw device behind a mounted file system's back.
Raw == {"munch", "thrash", "sfdisk", "mkfs", "fsck", "wipe", "clrparttable"}

Scans == {"dead", "thrashed", "unthrashable", "filesystems"}
Closing == {"saveresults", "lightup", "mark", "storegood", "storeskipped", "exit"}
StepNames == Commands \cup Scans \cup {"evaluate"} \cup Closing

When(flag, steps) == IF flag THEN steps ELSE << >>

Delay == <<"suspend", "wake">>
Scan(o) ==
  <<"dead", "thrashed", "evaluate", "unthrashable">>
    \o When(o.partition_check, <<"filesystems">>)
Round(o) == <<IF o.thrasher THEN "thrash" ELSE "munch", "evaluate">>
Rounds(o) ==
  When(o.length \notin {"none", "quick"}, <<"conveyance", "evaluate">>)
    \o When(o.length \notin {"none", "conveyance"}, Round(o))
    \o When(o.length \notin {"none", "conveyance", "quick"},
            Delay \o <<"evaluate">> \o Round(o) \o Delay \o <<"evaluate">>)
Filesystem(o) ==
  When(o.destructive /\ o.length \notin {"none", "conveyance", "quick"},
       <<"sfdisk", "mkfs", "mkdir", "mount", "evaluate", "bonnie", "evaluate",
         "umount", "fsck", "evaluate">> \o Delay \o <<"evaluate">>)
NoWipe(o) == o.length \in {"none", "conveyance", "quick", "short"}
Wipe(o) ==
  When(o.destructive,
       IF NoWipe(o) THEN <<"clrparttable", "evaluate">>
                    ELSE <<"wipe", "evaluate">> \o Delay \o <<"evaluate">>)
SelfTest(o) ==
  When(o.length \notin {"none", "conveyance", "quick"}, <<"selftest", "evaluate">>)
Finish(o) ==
  Delay \o <<"evaluate">> \o When(o.destructive, <<"saveresults">>)
    \o When(o.lightup, <<"lightup">>)
    \o <<"mark", "storegood", "storeskipped", "exit">>

\* The steps of drivetest in the order it takes them with these options.
Program(o) ==
  Scan(o) \o Rounds(o) \o Filesystem(o) \o Wipe(o) \o SelfTest(o) \o Finish(o)

Step == Program(options)[step]
At(place, steps) == pc = place /\ Step \in steps
Exited == pc \in {"exit0", "exit1"}

\* A step of the program that waits for its children gives up after a while,
\* unless the time was set to 0 (the rounds of an epic test).
TimeLimited == ~(options.length = "epic" /\ Step \in {"munch", "thrash"})

\* The drive a loop over a copy of the sorted list visits next.
IsNext(d) == d \in todo /\ \A e \in todo : d <= e

\* What a loop of procutils passes over: no block device for a command that
\* names it, or a block device the loop already had.
PassedOver(d) ==
  \/ ~HasBlock(d) /\ Step \in NeedsBlock
  \/ HasBlock(d) /\ \E e \in drive_list : block_name[e] = block_name[d]

NextStep ==
  /\ pc' = "begin"
  /\ step' = step + 1
  /\ todo' = {}

\* Mutants: the report is left out; the drive stays in the working list.
PruneSilently(d, place) ==
  /\ Prune(d)
  /\ failed' = failed \cup {d}
  /\ pc' = place
  /\ UNCHANGED dead
ReportOnly(d, place) ==
  /\ failed' = failed \cup {d}
  /\ dead' = IF options.report THEN dead \cup {d} ELSE dead
  /\ pc' = place
  /\ UNCHANGED dmVars

\* prune( drive, reason ): reportFail tells Plato, and may raise, in which case
\* Plato may have heard or not.  Without a raise drivetest goes on at place.
PruneAndReport(d, place) ==
  /\ Prune(d)
  /\ failed' = failed \cup {d}
  /\ \/ /\ dead' = IF options.report THEN dead \cup {d} ELSE dead
        /\ pc' = place
     \/ /\ options.report
        /\ dead' \in {dead, dead \cup {d}}
        /\ pc' = "exit1"

-----------------------------------------------------------------------------
(* Start and scans.                                                        *)

\* DriveManager() and getEvaluator(): the latter calls Plato, and both come
\* before the check that there is a drive at all.
Load ==
  /\ pc = "load"
  /\ \E readable \in SUBSET Drives :
       /\ LoadDrives(readable)
       /\ \/ pc' = IF readable = {} THEN "exit1" ELSE "begin"
          \/ options.report /\ pc' = "exit1"
  /\ UNCHANGED <<options, boot, step, todo, procVars, mounted, label,
                 platoVars, lights, failed, passed>>

\* Every step may begin with a message or a question to Plato, which raises.
PlatoRaises ==
  /\ pc = "begin"
  /\ options.report
  /\ pc' = "exit1"
  /\ UNCHANGED <<dmVars, options, boot, step, todo, procVars, mounted, label,
                 platoVars, lights, failed, passed>>

ScanFrame == UNCHANGED <<options, boot, procVars, mounted, label, dead, stored,
                         marked, lights, failed, passed>>

PruneAllreadyDead ==
  /\ At("begin", {"dead"})
  /\ PruneAll(IF options.report THEN good_list \cap dead ELSE {})
  /\ NextStep
  /\ ScanFrame /\ UNCHANGED thrashed

SkipAllreadyThrashed ==
  /\ At("begin", {"thrashed"})
  /\ SkipAll(IF options.report THEN good_list \cap thrashed ELSE {})
  /\ NextStep
  /\ ScanFrame /\ UNCHANGED thrashed

\* Some of the drives are removable or virtual disks, and some have a model
\* that is not to be thrashed; the latter are marked as thrashed, one call to
\* Plato each, any of which may raise.
SkipUnThrashable ==
  /\ At("begin", {"unthrashable"})
  /\ LET in_use == {d \in good_list : IsMounted(d, BootMounts)} IN
     \E unfit \in SUBSET good_list : \E no_thrash \in SUBSET (unfit \ in_use) :
       /\ SkipAll(unfit \cup in_use)
       /\ \/ /\ thrashed' = IF options.report THEN thrashed \cup no_thrash
                                              ELSE thrashed
             /\ NextStep
          \/ /\ options.report /\ no_thrash # {}
             /\ \E told \in SUBSET no_thrash : thrashed' = thrashed \cup told
             /\ pc' = "exit1"
             /\ UNCHANGED <<step, todo>>
  /\ ScanFrame

SkipWithFilesystems ==
  /\ At("begin", {"filesystems"})
  /\ \E partitioned \in SUBSET {d \in good_list : HasBlock(d)} :
       SkipAll(partitioned)
  /\ NextStep
  /\ ScanFrame /\ UNCHANGED thrashed

-----------------------------------------------------------------------------
(* Loops over the working list.                                            *)

LoopSteps == Immediate \cup {"evaluate", "mark", "storegood"}

\* for drive in working_list, or in skipped_list for store_skipped.
BeginLoop ==
  /\ At("begin", LoopSteps \cup {"storeskipped"})
  /\ pc' = "loop"
  /\ todo' = IF Step = "storeskipped" THEN skip_reasons ELSE good_list
  /\ drive_list' = {}
  /\ UNCHANGED <<dmVars, options, boot, step, child, mounted, label, platoVars,
                 lights, failed, passed>>

\* The end of a loop, and of the check of the results of a waited command.
EndLoop ==
  /\ pc \in {"loop", "check"}
  /\ todo = {}
  /\ NextStep
  /\ UNCHANGED <<dmVars, options, boot, procVars, mounted, label, platoVars,
                 lights, failed, passed>>

Visit(d, steps) ==
  /\ At("loop", steps)
  /\ IsNext(d)
  /\ todo' = todo \ {d}
  /\ UNCHANGED <<options, boot, step, child, stored, lights>>

LoopFrame == UNCHANGED <<drive_list, mounted, label, thrashed, marked, passed>>

\* evaluate(): the attributes are fine.  Plato holds to its verdict on a drive
\* it has flagged.
EvaluateGood(d) ==
  /\ Visit(d, {"evaluate"})
  /\ options.report => d \notin dead
  /\ pc' = "loop"
  /\ UNCHANGED <<dmVars, dead, failed>> /\ LoopFrame

\* The drive could not be read (pruned and reported).
EvaluateUnreadable(d) ==
  /\ Visit(d, {"evaluate"})
  /\ PruneAndReport(d, "loop")
  /\ LoopFrame

\* A value or its rate is out of bounds, for our thresholds or for Plato
\* (pruned, not reported: Plato knows).
EvaluateBad(d) ==
  /\ Visit(d, {"evaluate"})
  /\ options.report \/ d \notin Untabled
  /\ Prune(d)
  /\ failed' = failed \cup {d}
  /\ dead' = IF options.report THEN dead \cup {d} ELSE dead
  /\ pc' = "loop"
  /\ LoopFrame

\* reportDriveStatus raises, or SMART_ATTRIBS has no entry for the type.
EvaluateRaises(d) ==
  /\ Visit(d, {"evaluate"})
  /\ options.report \/ d \in Untabled
  /\ pc' = "exit1"
  /\ UNCHANGED <<dmVars, dead, failed>> /\ LoopFrame

\* runOnEachDrive: one command at a time, to its end.
RunPassedOver(d) ==
  /\ Visit(d, Immediate)
  /\ PassedOver(d)
  /\ pc' = "loop"
  /\ UNCHANGED <<dmVars, dead, failed>> /\ LoopFrame

RunSucceeds(d) ==
  /\ Visit(d, Immediate)
  /\ ~PassedOver(d)
  /\ Step = "umount" => block_name[d] \in mounted
  /\ mounted' = CASE Step = "mount"  -> mounted \cup {block_name[d]}
                  [] Step = "umount" -> mounted \ {block_name[d]}
                  [] OTHER           -> mounted
  /\ passed' = [passed EXCEPT ![d] = @ \cup {Step}]
  /\ drive_list' = drive_list \cup {d}
  /\ pc' = "loop"
  /\ UNCHANGED <<dmVars, label, dead, thrashed, marked, failed>>

\* Mutant: the exit code is not looked at.
RunFailsUnseen(d) ==
  /\ Visit(d, Immediate)
  /\ ~PassedOver(d)
  /\ failed' = failed \cup {d}
  /\ pc' = "loop"
  /\ drive_list' = drive_list \cup {d}
  /\ UNCHANGED <<dmVars, dead, mounted, label, thrashed, marked, passed>>

RunFails(d) ==
  /\ Visit(d, Immediate)
  /\ ~PassedOver(d)
  /\ PruneAndReport(d, "loop")
  /\ drive_list' = drive_list \cup {d}
  /\ UNCHANGED <<mounted, label, thrashed, marked, passed>>

-----------------------------------------------------------------------------
(* runOnEachDriveWait.                                                     *)

BeginWait ==
  /\ At("begin", Waited)
  /\ pc' = "start"
  /\ todo' = good_list
  /\ drive_list' = {}
  /\ UNCHANGED <<dmVars, options, boot, step, child, mounted, label, platoVars,
                 lights, failed, passed>>

WaitFrame == UNCHANGED <<options, boot, step, mounted, label, thrashed, stored,
                         marked, lights>>

StartChild(d) ==
  /\ pc = "start"
  /\ IsNext(d)
  /\ todo' = todo \ {d}
  /\ IF PassedOver(d)
       THEN UNCHANGED procVars
       ELSE /\ drive_list' = drive_list \cup {d}
            /\ child' = [child EXCEPT ![d] = "running"]
  /\ UNCHANGED <<dmVars, pc, dead, failed, passed>> /\ WaitFrame

AllStarted ==
  /\ pc = "start"
  /\ todo = {}
  /\ pc' = "wait"
  /\ UNCHANGED <<dmVars, todo, procVars, dead, failed, passed>> /\ WaitFrame

\* A child exits when it likes, after drivetest if it comes to that; the exit
\* code of one that was sent a signal is not looked at.
ChildExit(d) ==
  /\ \/ /\ child[d] = "running"
        /\ \/ child' = [child EXCEPT ![d] = "ok"] /\ UNCHANGED failed
           \/ /\ child' = [child EXCEPT ![d] = "fail"]
              /\ failed' = failed \cup {d}
     \/ /\ child[d] \in {"terminated", "killed"}
        /\ child' = [child EXCEPT ![d] = "gone"]
        /\ UNCHANGED failed
  /\ UNCHANGED <<dmVars, pc, todo, drive_list, dead, passed>> /\ WaitFrame

\* Mutant: the deadline is forgotten.
StopWaitingAllDone ==
  /\ pc = "wait"
  /\ \A d \in drive_list : ~Alive(d)
  /\ pc' = "check"
  /\ todo' = drive_list
  /\ UNCHANGED <<dmVars, procVars, dead, failed, passed>> /\ WaitFrame

\* The wait ends when a poll finds every child gone, or the time is up.
StopWaiting ==
  /\ pc = "wait"
  /\ (\A d \in drive_list : ~Alive(d)) \/ TimeLimited
  /\ pc' = "check"
  /\ todo' = drive_list
  /\ UNCHANGED <<dmVars, procVars, dead, failed, passed>> /\ WaitFrame

CheckPassed(d) ==
  /\ pc = "check" /\ IsNext(d)
  /\ child[d] = "ok"
  /\ todo' = todo \ {d}
  /\ passed' = [passed EXCEPT ![d] = @ \cup {Step}]
  /\ UNCHANGED <<dmVars, pc, procVars, dead, failed>> /\ WaitFrame

CheckFailed(d) ==
  /\ pc = "check" /\ IsNext(d)
  /\ child[d] = "fail"
  /\ todo' = todo \ {d}
  /\ PruneAndReport(d, "check")
  /\ UNCHANGED <<procVars, passed>> /\ WaitFrame

\* Mutant: a command that runs late is stopped, its drive is not pruned.
CheckLateForgiving(d) ==
  /\ pc = "check" /\ IsNext(d)
  /\ child[d] = "running"
  /\ failed' = failed \cup {d}
  /\ pc' = "terminate"
  /\ UNCHANGED <<dmVars, dead, todo, procVars, passed>> /\ WaitFrame

\* Still running: the drive is pruned, and reported, before the child hears.
CheckLate(d) ==
  /\ pc = "check" /\ IsNext(d)
  /\ child[d] = "running"
  /\ PruneAndReport(d, "terminate")
  /\ UNCHANGED <<todo, procVars, passed>> /\ WaitFrame

\* Mutant: no signal is sent.
TerminateForgotten(d) ==
  /\ pc = "terminate" /\ IsNext(d)
  /\ pc' = "reap"
  /\ UNCHANGED <<dmVars, todo, procVars, dead, failed, passed>> /\ WaitFrame

\* The child may have exited since the poll; the signal then has no effect.
Terminate(d) ==
  /\ pc = "terminate" /\ IsNext(d)
  /\ child' = [child EXCEPT ![d] = IF @ = "running" THEN "terminated" ELSE @]
  /\ pc' = "reap"
  /\ UNCHANGED <<dmVars, todo, drive_list, dead, failed, passed>> /\ WaitFrame

\* TERMINATE_DELAY later: a child that is still there is killed, and not waited for.
Reap(d) ==
  /\ pc = "reap" /\ IsNext(d)
  /\ child' = [child EXCEPT ![d] = IF @ = "terminated" THEN "killed" ELSE @]
  /\ todo' = todo \ {d}
  /\ pc' = "check"
  /\ UNCHANGED <<dmVars, drive_list, dead, failed, passed>> /\ WaitFrame

-----------------------------------------------------------------------------
(* The closing steps.                                                      *)

\* Mutant: the good drives' loop goes over every drive of the machine.
SaveBadThenAll ==
  /\ At("begin", {"saveresults"})
  /\ pc' = "loop"
  /\ todo' = all_list
  /\ UNCHANGED <<dmVars, options, boot, step, procVars, mounted, label,
                 platoVars, lights, failed, passed>>

\* doSaveResults: 'FAIL' goes to the bad drives first, errors are ignored.
SaveBad ==
  /\ At("begin", {"saveresults"})
  /\ \E written \in SUBSET {d \in bad_reasons : HasBlock(d)} :
       label' = [b \in Blocks |->
                   IF \E d \in written : block_name[d] = b THEN "FAIL" ELSE label[b]]
  /\ pc' = "loop"
  /\ todo' = good_list
  /\ UNCHANGED <<dmVars, options, boot, step, procVars, mounted, platoVars,
                 lights, failed, passed>>

SaveGood(d) ==
  /\ Visit(d, {"saveresults"})
  /\ \/ /\ label' = IF HasBlock(d) THEN [label EXCEPT ![block_name[d]] = "PASS"]
                                   ELSE label
        /\ pc' = "loop"
        /\ UNCHANGED <<dmVars, dead, failed>>
     \/ /\ HasBlock(d)
        /\ PruneAndReport(d, "loop")
        /\ UNCHANGED label
  /\ UNCHANGED <<drive_list, mounted, thrashed, marked, passed>>

\* doLightupDrives: the operator is asked before and after; with no good drive
\* only once, and nothing is lit.
LightsOn ==
  /\ At("begin", {"lightup"})
  /\ good_list # {}
  /\ lights' = {d \in good_list : HasBlock(d)}
  /\ pc' = "lit"
  /\ UNCHANGED <<dmVars, options, boot, step, todo, procVars, mounted, label,
                 platoVars, failed, passed>>

LightsOff ==
  /\ pc = "lit" \/ (At("begin", {"lightup"}) /\ good_list = {})
  /\ lights' = {}
  /\ NextStep
  /\ UNCHANGED <<dmVars, options, boot, procVars, mounted, label, platoVars,
                 failed, passed>>

\* mark_good_thrashed: one call to Plato for each good drive.
Mark(d) ==
  /\ Visit(d, {"mark"})
  /\ \/ /\ pc' = "loop"
        /\ thrashed' = IF options.report THEN thrashed \cup {d} ELSE thrashed
     \/ /\ options.report
        /\ pc' = "exit1"
        /\ thrashed' \in {thrashed, thrashed \cup {d}}
  /\ marked' = marked \cup (thrashed' \ thrashed)
  /\ UNCHANGED <<dmVars, drive_list, mounted, label, dead, failed, passed>>

\* store_good and store_skipped; the latter does not mind a drive Plato does
\* not know.
Store(d) ==
  /\ At("loop", {"storegood", "storeskipped"})
  /\ IsNext(d)
  /\ todo' = todo \ {d}
  /\ \/ /\ pc' = "loop"
        /\ stored' = IF options.report THEN stored \cup {d} ELSE stored
     \/ /\ options.report /\ Step = "storeskipped"
        /\ pc' = "loop"
        /\ UNCHANGED stored
     \/ /\ options.report
        /\ pc' = "exit1"
        /\ stored' \in {stored, stored \cup {d}}
  /\ UNCHANGED <<dmVars, options, boot, step, procVars, mounted, label, dead,
                 thrashed, marked, lights, failed, passed>>

Finished ==
  /\ At("begin", {"exit"})
  /\ pc' = "exit0"
  /\ UNCHANGED <<dmVars, options, boot, step, todo, procVars, mounted, label,
                 platoVars, lights, failed, passed>>

\* The machine is booted into the test again, after it or in the middle of it.
Reboot ==
  /\ boot < MaxBoots
  /\ pc # "load"
  /\ boot' = boot + 1
  /\ options' \in Options
  /\ LoadDrives({})
  /\ pc' = "load" /\ step' = 1 /\ todo' = {}
  /\ drive_list' = {} /\ child' = [d \in Drives |-> "none"]
  /\ mounted' = {}
  /\ stored' = {} /\ lights' = {} /\ failed' = {} /\ marked' = {}
  /\ passed' = [d \in Drives |-> {}]
  /\ UNCHANGED <<label, dead, thrashed>>

-----------------------------------------------------------------------------

Init ==
  /\ all_list = {} /\ good_list = {} /\ bad_reasons = {} /\ skip_reasons = {}
  /\ options \in Options
  /\ boot = 1
  /\ pc = "load" /\ step = 1 /\ todo = {}
  /\ drive_list = {} /\ child = [d \in Drives |-> "none"]
  /\ mounted = {}
  /\ label = [b \in Blocks |-> "none"]
  /\ dead = {} /\ thrashed = {}
  /\ stored = {} /\ lights = {} /\ failed = {} /\ marked = {}
  /\ passed = [d \in Drives |-> {}]

\* What drivetest does by itself.
DriveTest ==
  \/ Load \/ PlatoRaises
  \/ PruneAllreadyDead \/ SkipAllreadyThrashed
  \/ SkipUnThrashable \/ SkipWithFilesystems
  \/ BeginLoop \/ EndLoop \/ BeginWait \/ AllStarted \/ StopWaiting
  \/ SaveBad \/ LightsOn \/ LightsOff \/ Finished
  \/ \E d \in Drives :
       \/ EvaluateGood(d) \/ EvaluateUnreadable(d)
       \/ EvaluateBad(d) \/ EvaluateRaises(d)
       \/ RunPassedOver(d) \/ RunSucceeds(d) \/ RunFails(d)
       \/ StartChild(d)
       \/ CheckPassed(d) \/ CheckFailed(d) \/ CheckLate(d)
       \/ Terminate(d) \/ Reap(d)
       \/ SaveGood(d) \/ Mark(d) \/ Store(d)

Next == DriveTest \/ Reboot \/ \E d \in Drives : ChildExit(d)

\* drivetest does not stop by itself (an operator answers its prompts, an
\* immediate command ends), and a command without a time limit ends; the others
\* may hang.
Fairness ==
  /\ WF_vars(DriveTest)
  /\ \A d \in Drives : WF_vars(~TimeLimited /\ ChildExit(d))

Spec == Init /\ [][Next]_vars /\ Fairness

-----------------------------------------------------------------------------

TypeOK ==
  /\ DMTypeOK
  /\ options \in TaskOptions
  /\ boot \in 1..MaxBoots
  /\ pc \in {"load", "begin", "loop", "start", "wait", "check", "terminate",
             "reap", "lit", "exit0", "exit1"}
  /\ step \in Nat \ {0}
  /\ todo \subseteq Drives
  /\ drive_list \subseteq Drives
  /\ child \in [Drives -> ChildState]
  /\ mounted \subseteq Blocks
  /\ label \in [Blocks -> {"none", "PASS", "FAIL"}]
  /\ dead \subseteq Drives
  /\ thrashed \subseteq Drives
  /\ stored \subseteq Drives
  /\ lights \subseteq {d \in Drives : HasBlock(d)}
  /\ failed \subseteq Drives
  /\ passed \in [Drives -> SUBSET Commands]
  /\ marked \subseteq Drives

\* The commands of the program a drive cannot be passed over for.
Required(d) ==
  {Program(options)[i] : i \in 1..step - 1} \cap
    (IF HasBlock(d) THEN Commands ELSE Commands \ NeedsBlock)

\* The drive has failed nothing and, if its block device is its own, every
\* command of the program so far was run on it to the end with exit code 0.
Certified(d) ==
  /\ d \notin failed
  /\ Alone(d) => Required(d) \subseteq passed[d]

\* Between two steps every good drive is certified, whichever of its commands
\* ended early, late or not at all (runOnEachDriveWait judges a child by the
\* exit code of a poll some time after the deadline).
GoodIsCertified == pc = "begin" => \A d \in good_list : Certified(d)

\* A drive that mark_good_thrashed has told Plato about was never failed by a
\* command, by its evaluation, by the deadline or by the saving of its result,
\* none of the commands of the test was left out for it, and it stays good.
MarkedIsCertified == \A d \in marked : Certified(d) /\ d \in good_list

\* doSaveResults writes PASS over the last sector only of a certified drive.
PassIsCertified ==
  [][\A d \in Drives :
       (HasBlock(d) /\ Alone(d) /\ label'[block_name[d]] = "PASS")
         => label[block_name[d]] = "PASS" \/ Certified(d)]_vars

\* While drivetest lives, a child that runs has not been left behind: it belongs
\* to the waited command of the current step, whose check of results is still
\* to come to it; one that was sent a signal and lives on is on a bad drive, so
\* that no later command meets it.
NoChildLeftBehind ==
  pc # "exit1" =>
    \A d \in Drives :
      /\ child[d] = "running" =>
           /\ pc \in {"start", "wait"} => d \in drive_list
           /\ pc \in {"check", "terminate", "reap"} => d \in todo
           /\ pc \in {"start", "wait", "check", "terminate", "reap"}
      /\ child[d] \in {"terminated", "killed"} => d \in bad_reasons

\* No command is sent to the raw device of a drive whose file system drivetest
\* has mounted, whatever failed between the mount and the unmount.
RawOnlyUnmounted ==
  [][\A d \in Drives :
       (Alone(d) /\ child[d] # "running" /\ child'[d] = "running" /\ Step \in Raw)
         => block_name[d] \notin mounted]_vars

\* Reporting to Plato: as long as drivetest has not died of it, Plato knows of
\* every drive that was pruned, and what it marks as thrashed is no drive it
\* has flagged bad, in this boot or an earlier one.
BadIsReported == options.report /\ pc # "exit1" => bad_reasons \subseteq dead
MarkedNotDead == [][(marked' \ marked) \cap dead = {}]_vars

\* The test ends: no command with a time limit can hold it up, in the last of
\* the boots.
Terminates == <>[]Exited

=============================================================================
