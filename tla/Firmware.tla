-------------------------------- MODULE Firmware --------------------------------
(***************************************************************************)
(* The firmware disk (disks/firmware/root): firmware.py goes through the   *)
(* handlers in the order of their priority, brings the targets of the      *)
(* first handler that needs it to the wanted version, and has the machine  *)
(* rebooted, until no target needs an update.  Its do_task and the rootfs  *)
(* turn the exit code into a reboot, an end or an alert and a prompt.      *)
(*                                                                         *)
(* A version is a tuple of characters; a `from' pattern is the tuple of    *)
(* characters a version has to begin with, << >> being '.*'.               *)
(* An update goes to flash memory; it runs at the latest after a reboot.   *)
(* The machine may be reset at any time.                                   *)
(***************************************************************************)
EXTENDS Naturals, Sequences

CONSTANTS
  NHandlers,    \* handlers are 1..NHandlers in the order of their PRIORITY
  Targets,
  handler_of,   \* the handler that finds a target, and the target's model
  model_of,
  Versions,     \* tuples of characters
  Jobs,         \* the configurations Contractor may have for the machine
  Ineffective,  \* targets whose update may report success without effect
  MaxResets     \* bound on the resets from outside

ASSUME NHandlersAssumption == NHandlers \in Nat \ {0}
ASSUME HandlerAssumption == handler_of \in [Targets -> 1..NHandlers]
ASSUME IneffectiveAssumption == Ineffective \subseteq Targets
ASSUME MaxResetsAssumption == MaxResets \in Nat

VARIABLES
  job,          \* job.targets: wanted version by handler and model;
                \* job.firmware: entries [file, from, to] by handler and model
  flashed,      \* the version in the flash memory of each target
  running,      \* the version each target runs, the one getTargets reports
  pc,
  at,           \* index into handler_list
  pending,      \* the rest of target_list
  using,        \* the target being updated and the entry chosen for it
  dirty,
  before,       \* handlers whose beforeUpdates was called in this boot
  updated,      \* handlers that updated a target in this boot
  after,        \* handlers whose afterUpdates was called in this boot
  told,         \* what Contractor has heard of the job
  resets

vars == <<job, flashed, running, pc, at, pending, using, dirty,
          before, updated, after, told, resets>>

Handlers == 1..NHandlers
TargetsOf(h) == {t \in Targets : handler_of[t] = h}

\* The targets the job names a version for, and that version.
WantedIn(j) ==
  {t \in Targets : /\ handler_of[t] \in DOMAIN j.targets
                   /\ model_of[t] \in DOMAIN j.targets[handler_of[t]]}
Wanted == WantedIn(job)
Want(t) == job.targets[handler_of[t]][model_of[t]]

ASSUME JobsAssumption ==
  \A j \in Jobs : \A t \in WantedIn(j) :
    j.targets[handler_of[t]][model_of[t]] \in Versions

NoTarget == [target |-> "none"]

-----------------------------------------------------------------------------
(* planner.findStep: among the patterns that match, the most literal one   *)
(* that leads to the wanted version.  re.match looks at the beginning only.*)

Matches(from, version) ==
  Len(from) <= Len(version) /\ SubSeq(version, 1, Len(from)) = from

\* Mutant: where the file leads to is not compared.
FindStepAnywhere(version, wanted, model_map) ==
  LET fits == {e \in model_map : Matches(e.from, version)} IN
  {e \in fits : \A o \in fits : Len(o.from) <= Len(e.from)}

FindStep(version, wanted, model_map) ==
  LET fits == {e \in model_map : Matches(e.from, version) /\ e.to = wanted} IN
  {e \in fits : \A o \in fits : Len(o.from) <= Len(e.from)}

-----------------------------------------------------------------------------
(* firmware.py.                                                            *)

Fail(place) ==
  /\ pc' = place
  /\ UNCHANGED <<job, flashed, running, at, pending, using, dirty, before,
                 updated, after, told, resets>>

\* Handler resources, login, getConfig, setup() of each handler: any may fail,
\* the resources before firmware.py is started.
Setup ==
  /\ pc = "setup"
  /\ pc' \in {"handler", "exit1", "error"}
  /\ at' = 1
  /\ UNCHANGED <<job, flashed, running, pending, using, dirty, before, updated,
                 after, told, resets>>

SkipHandler ==
  /\ pc = "handler" /\ at \in Handlers
  /\ at \notin DOMAIN job.targets
  /\ at' = at + 1
  /\ UNCHANGED <<job, flashed, running, pc, pending, using, dirty, before,
                 updated, after, told, resets>>

\* A version wanted but no firmware, or getTargets raises.
HandlerFails ==
  /\ pc = "handler" /\ at \in Handlers \cap DOMAIN job.targets
  /\ Fail("exit1")

GetTargets ==
  /\ pc = "handler" /\ at \in Handlers \cap DOMAIN job.targets
  /\ at \in DOMAIN job.firmware
  /\ pc' = "targets"
  /\ pending' = TargetsOf(at)
  /\ UNCHANGED <<job, flashed, running, at, using, dirty, before, updated,
                 after, told, resets>>

\* The model is not in the version map, or the version is the wanted one.
SkipTarget(t) ==
  /\ pc = "targets" /\ t \in pending
  /\ t \in Wanted => running[t] = Want(t)
  /\ pending' = pending \ {t}
  /\ UNCHANGED <<job, flashed, running, pc, at, using, dirty, before, updated,
                 after, told, resets>>

\* Mutant: beforeUpdates is left out once an update was prepared.
PlanUpdateNoHook(t) ==
  /\ pc = "targets" /\ t \in pending
  /\ t \in Wanted /\ running[t] # Want(t)
  /\ before' = IF dirty THEN before \cup {at} ELSE before
  /\ \E e \in FindStep(running[t], Want(t), job.firmware[at][model_of[t]]) :
          /\ using' = [target |-> t, entry |-> e]
          /\ pc' = "update"
  /\ UNCHANGED <<job, flashed, running, at, pending, dirty, updated, after, told,
                 resets>>

\* beforeUpdates for the first one, then the choice of the file and its
\* download; either may end firmware.py, as may a model without firmware.
PlanUpdate(t) ==
  /\ pc = "targets" /\ t \in pending
  /\ t \in Wanted /\ running[t] # Want(t)
  /\ before' = IF dirty THEN before ELSE before \cup {at}
  /\ \/ /\ model_of[t] \in DOMAIN job.firmware[at]
        /\ LET steps == FindStep(running[t], Want(t), job.firmware[at][model_of[t]]) IN
           \/ /\ \E e \in steps : using' = [target |-> t, entry |-> e]
              /\ pc' = "update"
           \/ /\ steps = {}
              /\ using' = [target |-> t]
              /\ pc' = "nostep"
     \/ pc' = "exit1" /\ UNCHANGED using
  /\ UNCHANGED <<job, flashed, running, at, pending, dirty, updated, after, told,
                 resets>>

\* updateTarget returns True.  The new version may run at once.
UpdateSucceeds ==
  /\ pc = "update"
  /\ LET t == using.target IN
     /\ \/ flashed' = [flashed EXCEPT ![t] = using.entry.to]
        \/ t \in Ineffective /\ UNCHANGED flashed
     /\ running' \in {running, [running EXCEPT ![t] = flashed'[t]]}
     /\ pending' = pending \ {t}
     /\ updated' = updated \cup {at}
  /\ dirty' = TRUE
  /\ pc' = "targets"
  /\ using' = NoTarget
  /\ UNCHANGED <<job, at, before, after, told, resets>>

\* updateTarget returns False or raises, before or after it wrote the flash.
UpdateFails ==
  /\ pc = "update"
  /\ flashed' \in {flashed, [flashed EXCEPT ![using.target] = using.entry.to]}
  /\ pc' = "exit1"
  /\ using' = NoTarget
  /\ UNCHANGED <<job, running, at, pending, dirty, before, updated, after, told,
                 resets>>

\* Mutant: the next handler's turn comes without a reboot.
HandlerDoneGoesOn ==
  /\ pc = "targets" /\ pending = {}
  /\ after' = IF dirty THEN after \cup {at} ELSE after
  /\ at' = at + 1
  /\ pc' = "handler"
  /\ UNCHANGED <<job, flashed, running, pending, using, dirty, before, updated,
                 told, resets>>

\* After an update: afterUpdates, a message to Contractor, and the reboot.
HandlerDone ==
  /\ pc = "targets" /\ pending = {}
  /\ IF dirty
       THEN /\ \/ after' = after \cup {at} /\ pc' \in {"exit20", "exit1"}
               \/ UNCHANGED after /\ pc' = "exit1"
            /\ UNCHANGED at
       ELSE /\ at' = at + 1
            /\ pc' = "handler"
            /\ UNCHANGED after
  /\ UNCHANGED <<job, flashed, running, pending, using, dirty, before, updated,
                 told, resets>>

AllDone ==
  /\ pc = "handler" /\ at \notin Handlers
  /\ pc' = "exit0"
  /\ UNCHANGED <<job, flashed, running, at, pending, using, dirty, before,
                 updated, after, told, resets>>

-----------------------------------------------------------------------------
(* do_task, and the end of the do_task of the rootfs.  A call to Contractor *)
(* that raises may have been heard, and one that does not may have been    *)
(* refused: that is a warning (contractor/client.py).                      *)

Tell(what, returned, raised) ==
  /\ told' \in {told, told \cup {what}}
  /\ pc' \in {returned, raised}
  /\ UNCHANGED <<job, flashed, running, at, pending, using, dirty, before,
                 updated, after, resets>>

\* Mutant: the exit code of firmware.py is not looked at.
SignalAlertAsComplete ==
  pc \in {"exit1", "nostep"} /\ Tell("complete", "off", "error")

\* Exit code 10, or, when the alert fails under `set -e', another one.
SignalAlert == pc \in {"exit1", "nostep"} /\ Tell("alert", "prompt", "error")

SignalComplete == pc = "exit0" /\ Tell("complete", "off", "error")

\* The alert of the rootfs for the other exit codes; when it fails, `set -e' ends
\* the do_task of the rootfs.
RootfsAlert == pc = "error" /\ Tell("alert", "prompt", "halted")

Boot ==
  /\ running' = flashed
  /\ pc' = "setup"
  /\ at' = 1
  /\ pending' = {}
  /\ using' = NoTarget
  /\ dirty' = FALSE
  /\ before' = {} /\ updated' = {} /\ after' = {}
  /\ UNCHANGED <<job, flashed, told>>

Reboot == pc = "exit20" /\ Boot /\ UNCHANGED resets

\* The operator at the prompt: R or P.
OperatorReboots == pc = "prompt" /\ Boot /\ UNCHANGED resets
OperatorPowersOff == pc = "prompt" /\ Fail("off")

Reset ==
  /\ pc # "off"
  /\ resets < MaxResets
  /\ resets' = resets + 1
  /\ Boot

-----------------------------------------------------------------------------

Init ==
  /\ job \in Jobs
  /\ flashed \in [Targets -> Versions]
  /\ running = flashed
  /\ pc = "setup" /\ at = 1 /\ pending = {} /\ using = NoTarget /\ dirty = FALSE
  /\ before = {} /\ updated = {} /\ after = {}
  /\ told = {}
  /\ resets = 0

Machine ==
  \/ Setup \/ SkipHandler \/ HandlerFails \/ GetTargets
  \/ \E t \in Targets : SkipTarget(t) \/ PlanUpdate(t)
  \/ UpdateSucceeds \/ UpdateFails \/ HandlerDone \/ AllDone
  \/ SignalAlert \/ SignalComplete \/ RootfsAlert \/ Reboot

Next == Machine \/ OperatorReboots \/ OperatorPowersOff \/ Reset

UpdateTakesEffect(t) ==
  UpdateSucceeds /\ using.target = t /\ flashed'[t] = using.entry.to

\* The machine does not stop by itself; the operator may never come.  An update
\* that is made again and again has its effect in the end: that is up to the
\* devices, nothing in firmware.py counts the boots.
Spec ==
  /\ Init /\ [][Next]_vars
  /\ WF_vars(Machine)
  /\ \A t \in Targets : SF_vars(UpdateTakesEffect(t))

-----------------------------------------------------------------------------

Places == {"setup", "handler", "targets", "update", "exit0", "exit1", "nostep",
           "exit20", "error", "prompt", "off", "halted"}

TypeOK ==
  /\ job \in Jobs
  /\ flashed \in [Targets -> Versions]
  /\ running \in [Targets -> Versions]
  /\ pc \in Places
  /\ at \in 1..NHandlers + 1
  /\ pending \subseteq Targets
  /\ pc \in {"update", "nostep"} => using.target \in Targets
  /\ dirty \in BOOLEAN
  /\ before \subseteq Handlers
  /\ updated \subseteq Handlers
  /\ after \subseteq Handlers
  /\ told \subseteq {"complete", "alert"}
  /\ resets \in 0..MaxResets

\* A target is flashed only when the targets of every handler of a higher
\* priority run what is wanted of them: a handler that updated something has
\* had its reboot before the next one's turn.
PriorityOrder ==
  [][\A t \in Targets : flashed'[t] # flashed[t] =>
       \A u \in Wanted :
         handler_of[u] < handler_of[t] => running[u] = Want(u) /\ flashed[u] = Want(u)]_vars

\* No update without beforeUpdates of its own handler, and no reboot because of
\* updates without its afterUpdates; the updates of one boot are of one handler.
HooksAround ==
  /\ updated \subseteq before
  /\ after \subseteq updated
  /\ \A g, h \in updated : g = h
  /\ pc = "exit20" => updated # {} /\ after = updated

\* The job goes the way FirmwarePromise says: a target is only ever flashed with
\* the version wanted of it, and complete means that every target has it,
\* across failures, reboots, resets and updates without effect.
Promised == INSTANCE FirmwarePromise WITH want <- [t \in Wanted |-> Want(t)]
KeepsPromise == Promised!Promise

\* The reboots come to an end: the machine keeps coming to where it is off or
\* waits for the operator, unless the updates never have the effect they report.
Verdict == []<>(pc \in {"off", "prompt", "halted"})

=============================================================================
