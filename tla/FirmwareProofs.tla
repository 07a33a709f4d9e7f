----------------------------- MODULE FirmwareProofs -----------------------------
(***************************************************************************)
(* What is proved of Firmware for any number of handlers, any targets,     *)
(* versions, jobs and resets.                                              *)
(*                                                                         *)
(* In one boot firmware.py trusts what the targets reported before it      *)
(* began.  The inductive invariant says what that is worth at each place:  *)
(* the handlers that had their turn have nothing left to do (EarlierDone), *)
(* nor have the targets of this handler that were passed over (PassedOver),*)
(* and a target still to come runs what is in its flash memory (Reported), *)
(* until the first failure.                                                *)
(***************************************************************************)
EXTENDS Firmware, TLAPS

\* firmware.py is running, or has come to its end without a failure.
InTurn == {"targets", "update"}
Going == {"handler", "exit0"} \cup InTurn

HasWanted(t) == running[t] = Want(t) /\ flashed[t] = Want(t)

\* The handler whose turn it is, its targets and the update at hand.
AtHand ==
  /\ pc \in InTurn => /\ at \in Handlers
                      /\ pending \subseteq TargetsOf(at)
  /\ pc = "exit0" => at = NHandlers + 1
  /\ pc = "update" => /\ using.target \in pending \cap Wanted
                      /\ using.entry.to = Want(using.target)
                      /\ running[using.target] # Want(using.target)
                      /\ at \in before

\* The history of the hooks: one handler at most has updated something, and dirty
\* says so.
Hooks ==
  /\ updated \subseteq {at}
  /\ dirty <=> updated # {}
  /\ updated \subseteq before
  /\ after \subseteq updated
  /\ pc \in {"setup", "handler", "exit0"} => ~dirty
  /\ pc = "exit20" => dirty /\ after = updated

\* What a target runs is what is in its flash memory, before the first update and
\* for the targets that had not their turn yet.
Reported ==
  /\ pc \in {"setup"} \cup Going /\ ~dirty => running = flashed
  /\ pc \in InTurn => \A t \in pending : running[t] = flashed[t]

\* The handlers before this one are done.
EarlierDone ==
  pc \in Going => \A t \in Wanted : handler_of[t] < at => HasWanted(t)

\* So are the targets of this one that had their turn, if none was updated.
PassedOver ==
  pc \in InTurn /\ ~dirty =>
    \A t \in Wanted : handler_of[t] = at /\ t \notin pending => HasWanted(t)

\* The inductive invariant.
IInv == TypeOK /\ AtHand /\ Hooks /\ Reported /\ EarlierDone /\ PassedOver

-----------------------------------------------------------------------------

USE DEF Handlers

\* A boot begins with the invariant, whatever came before.
LEMMA BootIInv ==
  ASSUME TypeOK, job' \in Jobs, flashed' \in [Targets -> Versions], Boot,
         resets' \in 0..MaxResets
  PROVE  IInv'
<1> USE NHandlersAssumption
<1>1. TypeOK'
  <2>1. pc' \in Places /\ pc' \notin {"update", "nostep"}
    BY DEF Boot, Places
  <2>2. at' \in 1..NHandlers + 1
    BY DEF Boot
  <2>3. pending' \subseteq Targets /\ dirty' \in BOOLEAN
    BY DEF Boot
  <2>4. before' \subseteq Handlers /\ updated' \subseteq Handlers /\ after' \subseteq Handlers
    BY DEF Boot
  <2>5. running' \in [Targets -> Versions] /\ told' \subseteq {"complete", "alert"}
    BY DEF TypeOK, Boot
  <2> QED
    BY <2>1, <2>2, <2>3, <2>4, <2>5 DEF TypeOK
<1>2. AtHand' /\ Hooks'
  BY DEF AtHand, Hooks, Boot, InTurn
<1>3. Reported' /\ EarlierDone' /\ PassedOver'
  BY DEF Reported, EarlierDone, PassedOver, Boot, InTurn, Going
<1> QED
  BY <1>1, <1>2, <1>3 DEF IInv

\* The three ways to boot again.
LEMMA BootsAgain ==
  ASSUME TypeOK, Reboot \/ OperatorReboots \/ Reset
  PROVE  IInv'
<1>1. Boot /\ job' = job /\ flashed' = flashed
  BY DEF Reboot, OperatorReboots, Reset, Boot
<1>2. resets' \in 0..MaxResets
  BY MaxResetsAssumption DEF Reboot, OperatorReboots, Reset, TypeOK
<1> QED
  BY <1>1, <1>2, BootIInv DEF TypeOK

\* So does the first one.
LEMMA InitIInv == Init => IInv
<1> SUFFICES ASSUME Init PROVE IInv
  OBVIOUS
<1> USE NHandlersAssumption, MaxResetsAssumption DEF Init
<1>1. TypeOK
  <2>1. pc \in Places /\ pc \notin {"update", "nostep"}
    BY DEF Places
  <2>2. at \in 1..NHandlers + 1 /\ resets \in 0..MaxResets
    OBVIOUS
  <2>3. pending \subseteq Targets /\ dirty \in BOOLEAN
    OBVIOUS
  <2>4. before \subseteq Handlers /\ updated \subseteq Handlers /\ after \subseteq Handlers
    OBVIOUS
  <2>5. told \subseteq {"complete", "alert"}
    OBVIOUS
  <2> QED
    BY <2>1, <2>2, <2>3, <2>4, <2>5 DEF TypeOK
<1>2. AtHand
  BY DEF AtHand, InTurn
<1>3. Hooks
  BY DEF Hooks
<1>4. Reported /\ EarlierDone /\ PassedOver
  BY DEF Reported, EarlierDone, PassedOver, InTurn, Going
<1> QED
  BY <1>1, <1>2, <1>3, <1>4 DEF IInv

\* The job is the same in every state, and with it what is wanted.
LEMMA WantedSame ==
  ASSUME job' = job
  PROVE  Wanted' = Wanted /\ \A t \in Targets : Want(t)' = Want(t)
BY DEF Wanted, WantedIn, Want

\* What findStep chooses leads to the wanted version.
LEMMA FindStepLeads ==
  ASSUME NEW version, NEW wanted, NEW model_map,
         NEW e \in FindStep(version, wanted, model_map)
  PROVE  e.to = wanted
BY DEF FindStep

-----------------------------------------------------------------------------
(* One lemma per conjunct, with one step per action.                       *)

\* The state keeps its type.
LEMMA TypeStep ==
  ASSUME IInv, [Next]_vars
  PROVE  TypeOK'
<1> USE NHandlersAssumption, HandlerAssumption, MaxResetsAssumption DEF IInv
<1>1. CASE Setup
  <2>1. pc' \in Places
    BY <1>1 DEF Setup, Places
  <2> QED
    BY <1>1, <2>1 DEF Setup, TypeOK
<1>2. CASE SkipHandler
  BY <1>2 DEF SkipHandler, TypeOK
<1>3. CASE HandlerFails
  <2>1. pc' \in Places
    BY <1>3 DEF HandlerFails, Fail, Places
  <2> QED
    BY <1>3, <2>1 DEF HandlerFails, Fail, TypeOK
<1>4. CASE GetTargets
  <2>1. pc' \in Places
    BY <1>4 DEF GetTargets, Places
  <2> QED
    BY <1>4, <2>1 DEF GetTargets, TypeOK, TargetsOf
<1>5. ASSUME NEW t \in Targets, SkipTarget(t)
      PROVE  TypeOK'
  BY <1>5 DEF SkipTarget, TypeOK
<1>6. ASSUME NEW t \in Targets, PlanUpdate(t)
      PROVE  TypeOK'
  <2>1. pc' \in Places
    BY <1>6 DEF PlanUpdate, Places
  <2>2. before' \subseteq Handlers
    BY <1>6 DEF PlanUpdate, TypeOK, AtHand, InTurn
  <2>3. pc' \in {"update", "nostep"} => using'.target \in Targets
    BY <1>6 DEF PlanUpdate
  <2> QED
    BY <1>6, <2>1, <2>2, <2>3 DEF PlanUpdate, TypeOK
<1>7. CASE UpdateSucceeds
  <2>1. pc' \in Places /\ pc' \notin {"update", "nostep"}
    BY <1>7 DEF UpdateSucceeds, Places
  <2>2. using.target \in Targets /\ Want(using.target) \in Versions
    BY <1>7, JobsAssumption DEF UpdateSucceeds, TypeOK, AtHand, Wanted, WantedIn, Want
  <2>3. flashed' \in [Targets -> Versions]
    BY <1>7, <2>2 DEF UpdateSucceeds, TypeOK, AtHand
  <2>4. running' \in [Targets -> Versions]
    BY <1>7, <2>2, <2>3 DEF UpdateSucceeds, TypeOK
  <2>5. at \in Handlers
    BY <1>7 DEF UpdateSucceeds, AtHand, InTurn
  <2> QED
    BY <1>7, <2>1, <2>3, <2>4, <2>5 DEF UpdateSucceeds, TypeOK
<1>8. CASE UpdateFails
  <2>1. pc' \in Places /\ pc' \notin {"update", "nostep"}
    BY <1>8 DEF UpdateFails, Places
  <2>2. using.target \in Targets /\ Want(using.target) \in Versions
    BY <1>8, JobsAssumption DEF UpdateFails, TypeOK, AtHand, Wanted, WantedIn, Want
  <2>3. flashed' \in [Targets -> Versions]
    BY <1>8, <2>2 DEF UpdateFails, TypeOK, AtHand
  <2> QED
    BY <1>8, <2>1, <2>3 DEF UpdateFails, TypeOK
<1>9. CASE HandlerDone
  <2>1. pc' \in Places /\ pc' \notin {"update", "nostep"}
    BY <1>9 DEF HandlerDone, Places
  <2>2. at \in Handlers
    BY <1>9 DEF HandlerDone, AtHand, InTurn
  <2>3. at' \in 1..NHandlers + 1
    BY <1>9, <2>2 DEF HandlerDone, TypeOK
  <2>4. after' \in {after, after \cup {at}}
    BY <1>9 DEF HandlerDone
  <2>5. after' \subseteq Handlers
    BY <2>2, <2>4 DEF TypeOK
  <2> QED
    BY <1>9, <2>1, <2>3, <2>5 DEF HandlerDone, TypeOK
<1>10. CASE AllDone
  <2>1. pc' \in Places /\ pc' \notin {"update", "nostep"}
    BY <1>10 DEF AllDone, Places
  <2> QED
    BY <1>10, <2>1 DEF AllDone, TypeOK
<1>11. CASE SignalAlert \/ SignalComplete \/ RootfsAlert
  <2>1. pc' \in Places /\ pc' \notin {"update", "nostep"}
    BY <1>11 DEF SignalAlert, SignalComplete, RootfsAlert, Tell, Places
  <2>2. told' \subseteq {"complete", "alert"}
    BY <1>11 DEF SignalAlert, SignalComplete, RootfsAlert, Tell, TypeOK
  <2> QED
    BY <1>11, <2>1, <2>2 DEF SignalAlert, SignalComplete, RootfsAlert, Tell, TypeOK
<1>12. CASE OperatorPowersOff
  <2>1. pc' \in Places /\ pc' \notin {"update", "nostep"}
    BY <1>12 DEF OperatorPowersOff, Fail, Places
  <2> QED
    BY <1>12, <2>1 DEF OperatorPowersOff, Fail, TypeOK
<1>13. CASE Reboot \/ OperatorReboots \/ Reset
  BY <1>13, BootsAgain DEF IInv
<1>14. CASE UNCHANGED vars
  BY <1>14 DEF vars, TypeOK
<1> QED
  BY <1>1, <1>2, <1>3, <1>4, <1>5, <1>6, <1>7, <1>8, <1>9, <1>10, <1>11, <1>12,
     <1>13, <1>14 DEF Next, Machine

\* The update at hand is one that is wanted, and its handler has been told of it.
LEMMA AtHandStep ==
  ASSUME IInv, [Next]_vars
  PROVE  AtHand'
<1> USE HandlerAssumption DEF IInv
<1>1. CASE Setup
  BY <1>1 DEF Setup, AtHand, InTurn
<1>2. CASE SkipHandler
  BY <1>2 DEF SkipHandler, AtHand, InTurn
<1>3. CASE HandlerFails
  BY <1>3 DEF HandlerFails, Fail, AtHand, InTurn
<1>4. CASE GetTargets
  BY <1>4 DEF GetTargets, AtHand, InTurn, TargetsOf
<1>5. ASSUME NEW t \in Targets, SkipTarget(t)
      PROVE  AtHand'
  BY <1>5, WantedSame DEF SkipTarget, AtHand, InTurn, TargetsOf
<1>6. ASSUME NEW t \in Targets, PlanUpdate(t)
      PROVE  AtHand'
  <2>1. job' = job /\ at' = at /\ pending' = pending /\ running' = running
    BY <1>6 DEF PlanUpdate
  <2>2. at \in Handlers /\ pending' \subseteq TargetsOf(at)'
    BY <1>6, <2>1 DEF PlanUpdate, AtHand, InTurn, TargetsOf
  <2>3. at \in before'
    BY <1>6 DEF PlanUpdate, Hooks
  <2>4. ASSUME pc' = "update"
        PROVE  using'.target = t /\ using'.entry.to = Want(t)
    BY <1>6, <2>4, FindStepLeads DEF PlanUpdate
  <2>5. t \in pending \cap Wanted /\ running[t] # Want(t)
    BY <1>6 DEF PlanUpdate
  <2>6. pc' \in {"update", "nostep", "exit1"}
    BY <1>6 DEF PlanUpdate
  <2> QED
    BY <2>1, <2>2, <2>3, <2>4, <2>5, <2>6, WantedSame DEF AtHand, InTurn
<1>7. CASE UpdateSucceeds
  BY <1>7 DEF UpdateSucceeds, AtHand, InTurn, TargetsOf
<1>8. CASE UpdateFails
  BY <1>8 DEF UpdateFails, AtHand, InTurn
<1>9. CASE HandlerDone
  BY <1>9 DEF HandlerDone, AtHand, InTurn
<1>10. CASE AllDone
  BY <1>10, NHandlersAssumption DEF AllDone, AtHand, InTurn, TypeOK
<1>11. CASE SignalAlert \/ SignalComplete \/ RootfsAlert
  BY <1>11 DEF SignalAlert, SignalComplete, RootfsAlert, Tell, AtHand, InTurn
<1>12. CASE OperatorPowersOff
  BY <1>12 DEF OperatorPowersOff, Fail, AtHand, InTurn
<1>13. CASE Reboot \/ OperatorReboots \/ Reset
  BY <1>13, BootsAgain DEF IInv
<1>14. CASE UNCHANGED vars
  BY <1>14, WantedSame DEF vars, AtHand, InTurn, TargetsOf, Want
<1> QED
  BY <1>1, <1>2, <1>3, <1>4, <1>5, <1>6, <1>7, <1>8, <1>9, <1>10, <1>11, <1>12,
     <1>13, <1>14 DEF Next, Machine

\* A handler is told before its first update and after its last one, and the boot ends
\* with the handler that updated something.
LEMMA HooksStep ==
  ASSUME IInv, [Next]_vars
  PROVE  Hooks'
<1> USE HandlerAssumption DEF IInv
<1>1. CASE Setup
  BY <1>1 DEF Setup, Hooks
<1>2. CASE SkipHandler
  BY <1>2 DEF SkipHandler, Hooks
<1>3. CASE HandlerFails
  BY <1>3 DEF HandlerFails, Fail, Hooks
<1>4. CASE GetTargets
  BY <1>4 DEF GetTargets, Hooks
<1>5. ASSUME NEW t \in Targets, SkipTarget(t)
      PROVE  Hooks'
  BY <1>5 DEF SkipTarget, Hooks
<1>6. ASSUME NEW t \in Targets, PlanUpdate(t)
      PROVE  Hooks'
  BY <1>6 DEF PlanUpdate, Hooks
<1>7. CASE UpdateSucceeds
  BY <1>7 DEF UpdateSucceeds, Hooks, AtHand
<1>8. CASE UpdateFails
  BY <1>8 DEF UpdateFails, Hooks, AtHand
<1>9. CASE HandlerDone
  <2>1. CASE dirty
    BY <1>9, <2>1 DEF HandlerDone, Hooks
  <2>2. CASE ~dirty
    BY <1>9, <2>2 DEF HandlerDone, Hooks
  <2> QED
    BY <2>1, <2>2
<1>10. CASE AllDone
  BY <1>10 DEF AllDone, Hooks
<1>11. CASE SignalAlert \/ SignalComplete \/ RootfsAlert
  BY <1>11 DEF SignalAlert, SignalComplete, RootfsAlert, Tell, Hooks
<1>12. CASE OperatorPowersOff
  BY <1>12 DEF OperatorPowersOff, Fail, Hooks
<1>13. CASE Reboot \/ OperatorReboots \/ Reset
  BY <1>13, BootsAgain DEF IInv
<1>14. CASE UNCHANGED vars
  BY <1>14 DEF vars, Hooks
<1> QED
  BY <1>1, <1>2, <1>3, <1>4, <1>5, <1>6, <1>7, <1>8, <1>9, <1>10, <1>11, <1>12,
     <1>13, <1>14 DEF Next, Machine

\* A target whose turn is still to come runs what is in its flash memory.
LEMMA ReportedStep ==
  ASSUME IInv, [Next]_vars
  PROVE  Reported'
<1> USE HandlerAssumption DEF IInv
<1>1. CASE Setup
  BY <1>1 DEF Setup, Reported, Going, InTurn
<1>2. CASE SkipHandler
  BY <1>2 DEF SkipHandler, Reported, Going, InTurn
<1>3. CASE HandlerFails
  BY <1>3 DEF HandlerFails, Fail, Reported, Going, InTurn
<1>4. CASE GetTargets
  BY <1>4 DEF GetTargets, Reported, Going, InTurn, TargetsOf, Hooks
<1>5. ASSUME NEW t \in Targets, SkipTarget(t)
      PROVE  Reported'
  BY <1>5 DEF SkipTarget, Reported, Going, InTurn
<1>6. ASSUME NEW t \in Targets, PlanUpdate(t)
      PROVE  Reported'
  BY <1>6 DEF PlanUpdate, Reported, Going, InTurn
<1>7. CASE UpdateSucceeds
  <2>1. PICK t \in pending : t = using.target
    BY <1>7 DEF UpdateSucceeds, AtHand
  <2>2. pending' = pending \ {t} /\ pending \subseteq Targets
    BY <1>7, <2>1 DEF UpdateSucceeds, TypeOK
  <2>3. \A u \in pending' : flashed'[u] = flashed[u]
    BY <1>7, <2>1, <2>2 DEF UpdateSucceeds, TypeOK
  <2>4. \A u \in pending' : running'[u] = running[u]
    BY <1>7, <2>1, <2>2 DEF UpdateSucceeds, TypeOK
  <2>5. pc = "update" /\ dirty'
    BY <1>7 DEF UpdateSucceeds
  <2> QED
    BY <2>2, <2>3, <2>4, <2>5 DEF Reported, InTurn
<1>8. CASE UpdateFails
  BY <1>8 DEF UpdateFails, Reported, Going, InTurn
<1>9. CASE HandlerDone
  BY <1>9 DEF HandlerDone, Reported, Going, InTurn, Hooks
<1>10. CASE AllDone
  BY <1>10 DEF AllDone, Reported, Going, InTurn
<1>11. CASE SignalAlert \/ SignalComplete \/ RootfsAlert
  BY <1>11 DEF SignalAlert, SignalComplete, RootfsAlert, Tell, Reported, Going, InTurn
<1>12. CASE OperatorPowersOff
  BY <1>12 DEF OperatorPowersOff, Fail, Reported, Going, InTurn
<1>13. CASE Reboot \/ OperatorReboots \/ Reset
  BY <1>13, BootsAgain DEF IInv
<1>14. CASE UNCHANGED vars
  BY <1>14 DEF vars, Reported, Going, InTurn
<1> QED
  BY <1>1, <1>2, <1>3, <1>4, <1>5, <1>6, <1>7, <1>8, <1>9, <1>10, <1>11, <1>12,
     <1>13, <1>14 DEF Next, Machine

\* The handlers before the one whose turn it is have nothing left to do.
LEMMA EarlierDoneStep ==
  ASSUME IInv, [Next]_vars
  PROVE  EarlierDone'
<1> USE HandlerAssumption DEF IInv
<1>1. CASE Setup
  <2>1. at' = 1 /\ Wanted' \subseteq Targets
    BY <1>1 DEF Setup, Wanted, WantedIn
  <2> QED
    BY <2>1 DEF EarlierDone
<1>2. CASE SkipHandler
  <2>1. Wanted' = Wanted /\ \A t \in Targets : Want(t)' = Want(t)
    BY <1>2, WantedSame DEF SkipHandler
  <2>2. \A t \in Wanted : t \in Targets /\ handler_of[t] # at
    BY <1>2 DEF SkipHandler, Wanted, WantedIn
  <2>3. pc = "handler" /\ at \in Handlers /\ at' = at + 1 /\ running' = running
          /\ flashed' = flashed
    BY <1>2 DEF SkipHandler
  <2> QED
    BY <2>1, <2>2, <2>3 DEF EarlierDone, Going, HasWanted
<1>3. CASE HandlerFails
  BY <1>3 DEF HandlerFails, Fail, EarlierDone, Going, InTurn
<1>4. CASE GetTargets
  BY <1>4, WantedSame DEF GetTargets, EarlierDone, Going, InTurn, HasWanted, Wanted, WantedIn
<1>5. ASSUME NEW t \in Targets, SkipTarget(t)
      PROVE  EarlierDone'
  BY <1>5, WantedSame DEF SkipTarget, EarlierDone, Going, InTurn, HasWanted, Wanted, WantedIn
<1>6. ASSUME NEW t \in Targets, PlanUpdate(t)
      PROVE  EarlierDone'
  BY <1>6, WantedSame DEF PlanUpdate, EarlierDone, Going, InTurn, HasWanted, Wanted, WantedIn
<1>7. CASE UpdateSucceeds
  <2>1. Wanted' = Wanted /\ \A t \in Targets : Want(t)' = Want(t)
    BY <1>7, WantedSame DEF UpdateSucceeds
  <2>2. using.target \in Targets /\ handler_of[using.target] = at
    BY <1>7 DEF UpdateSucceeds, AtHand, InTurn, TargetsOf
  <2>3. \A t \in Wanted : handler_of[t] < at => t \in Targets /\ t # using.target
    BY <1>7, <2>2 DEF UpdateSucceeds, TypeOK, Wanted, WantedIn
  <2>4. \A t \in Targets \ {using.target} :
          flashed'[t] = flashed[t] /\ running'[t] = running[t]
    BY <1>7, <2>2 DEF UpdateSucceeds, TypeOK
  <2>5. pc = "update" /\ at' = at
    BY <1>7 DEF UpdateSucceeds
  <2> QED
    BY <2>1, <2>3, <2>4, <2>5 DEF EarlierDone, Going, InTurn, HasWanted
<1>8. CASE UpdateFails
  BY <1>8 DEF UpdateFails, EarlierDone, Going, InTurn
<1>9. CASE HandlerDone
  <2>1. Wanted' = Wanted /\ \A t \in Targets : Want(t)' = Want(t)
    BY <1>9, WantedSame DEF HandlerDone
  <2>2. CASE dirty
    BY <1>9, <2>2 DEF HandlerDone, EarlierDone, Going, InTurn
  <2>3. CASE ~dirty
    <3>1. pc = "targets" /\ pending = {} /\ at \in Handlers /\ at' = at + 1
      BY <1>9, <2>3 DEF HandlerDone, AtHand, InTurn
    <3>2. \A t \in Wanted : t \in Targets /\ (handler_of[t] < at + 1 => HasWanted(t))
      BY <2>3, <3>1 DEF EarlierDone, PassedOver, Going, InTurn, Wanted, WantedIn
    <3>3. running' = running /\ flashed' = flashed
      BY <1>9 DEF HandlerDone
    <3> QED
      BY <2>1, <3>1, <3>2, <3>3 DEF EarlierDone, HasWanted
  <2> QED
    BY <2>2, <2>3
<1>10. CASE AllDone
  BY <1>10, WantedSame DEF AllDone, EarlierDone, Going, InTurn, HasWanted, Wanted, WantedIn
<1>11. CASE SignalAlert \/ SignalComplete \/ RootfsAlert
  BY <1>11 DEF SignalAlert, SignalComplete, RootfsAlert, Tell, EarlierDone, Going, InTurn
<1>12. CASE OperatorPowersOff
  BY <1>12 DEF OperatorPowersOff, Fail, EarlierDone, Going, InTurn
<1>13. CASE Reboot \/ OperatorReboots \/ Reset
  BY <1>13, BootsAgain DEF IInv
<1>14. CASE UNCHANGED vars
  BY <1>14, WantedSame DEF vars, EarlierDone, Going, InTurn, HasWanted, Wanted, WantedIn
<1> QED
  BY <1>1, <1>2, <1>3, <1>4, <1>5, <1>6, <1>7, <1>8, <1>9, <1>10, <1>11, <1>12,
     <1>13, <1>14 DEF Next, Machine

\* The targets of this handler that had their turn have nothing left to do.
LEMMA PassedOverStep ==
  ASSUME IInv, [Next]_vars
  PROVE  PassedOver'
<1> USE HandlerAssumption DEF IInv
<1>1. CASE Setup
  BY <1>1 DEF Setup, PassedOver, InTurn
<1>2. CASE SkipHandler
  BY <1>2 DEF SkipHandler, PassedOver, InTurn
<1>3. CASE HandlerFails
  BY <1>3 DEF HandlerFails, Fail, PassedOver, InTurn
<1>4. CASE GetTargets
  BY <1>4 DEF GetTargets, PassedOver, InTurn, TargetsOf, Wanted, WantedIn
<1>5. ASSUME NEW t \in Targets, SkipTarget(t)
      PROVE  PassedOver'
  <2>1. Wanted' = Wanted /\ \A u \in Targets : Want(u)' = Want(u)
    BY <1>5, WantedSame DEF SkipTarget
  <2>2. ~dirty => running[t] = flashed[t]
    BY <1>5 DEF SkipTarget, Reported, InTurn
  <2>3. /\ pc = "targets" /\ pc' = pc /\ at' = at /\ dirty' = dirty
        /\ running' = running /\ flashed' = flashed /\ pending' = pending \ {t}
        /\ t \in Wanted => running[t] = Want(t)
    BY <1>5 DEF SkipTarget
  <2>4. Wanted \subseteq Targets
    BY DEF Wanted, WantedIn
  <2> QED
    BY <2>1, <2>2, <2>3, <2>4 DEF PassedOver, InTurn, HasWanted
<1>6. ASSUME NEW t \in Targets, PlanUpdate(t)
      PROVE  PassedOver'
  BY <1>6, WantedSame DEF PlanUpdate, PassedOver, InTurn, HasWanted, Wanted, WantedIn
<1>7. CASE UpdateSucceeds
  BY <1>7 DEF UpdateSucceeds, PassedOver, InTurn
<1>8. CASE UpdateFails
  BY <1>8 DEF UpdateFails, PassedOver, InTurn
<1>9. CASE HandlerDone
  BY <1>9 DEF HandlerDone, PassedOver, InTurn
<1>10. CASE AllDone
  BY <1>10 DEF AllDone, PassedOver, InTurn
<1>11. CASE SignalAlert \/ SignalComplete \/ RootfsAlert
  BY <1>11 DEF SignalAlert, SignalComplete, RootfsAlert, Tell, PassedOver, InTurn
<1>12. CASE OperatorPowersOff
  BY <1>12 DEF OperatorPowersOff, Fail, PassedOver, InTurn
<1>13. CASE Reboot \/ OperatorReboots \/ Reset
  BY <1>13, BootsAgain DEF IInv
<1>14. CASE UNCHANGED vars
  BY <1>14, WantedSame DEF vars, PassedOver, InTurn, HasWanted, Wanted, WantedIn
<1> QED
  BY <1>1, <1>2, <1>3, <1>4, <1>5, <1>6, <1>7, <1>8, <1>9, <1>10, <1>11, <1>12,
     <1>13, <1>14 DEF Next, Machine

\* The invariant is inductive.
LEMMA Invariance == Spec => []IInv
<1>1. IInv /\ [Next]_vars => IInv'
  BY TypeStep, AtHandStep, HooksStep, ReportedStep, EarlierDoneStep, PassedOverStep
  DEF IInv
<1> QED
  BY InitIInv, <1>1, PTL DEF Spec

-----------------------------------------------------------------------------
(* The theorems.                                                           *)

\* The variables of the firmware disk keep their types: the handler at hand is one
\* of the list, every target runs and stores a version.
THEOREM TypeCorrect == Spec => []TypeOK
<1>1. IInv => TypeOK
  BY DEF IInv
<1> QED
  BY Invariance, <1>1, PTL

\* No update without beforeUpdates, no reboot because of updates without
\* afterUpdates, and all the updates of a boot are of one handler.
THEOREM HooksKept == Spec => []HooksAround
<1>1. IInv => HooksAround
  BY DEF IInv, Hooks, HooksAround
<1> QED
  BY Invariance, <1>1, PTL

\* A target is flashed only when the targets of every handler of a higher priority
\* run what is wanted of them.
THEOREM PriorityKept == Spec => PriorityOrder
<1> DEFINE Order == \A t \in Targets : flashed'[t] # flashed[t] =>
                      \A u \in Wanted :
                        handler_of[u] < handler_of[t] =>
                          running[u] = Want(u) /\ flashed[u] = Want(u)
<1>1. ASSUME IInv, [Next]_vars PROVE Order
  <2> SUFFICES ASSUME NEW t \in Targets, flashed'[t] # flashed[t]
               PROVE  \A u \in Wanted : handler_of[u] < handler_of[t] =>
                        running[u] = Want(u) /\ flashed[u] = Want(u)
    OBVIOUS
  <2>1. UpdateSucceeds \/ UpdateFails
    BY <1>1 DEF vars, Next, Machine, Setup, SkipHandler, HandlerFails, Fail, GetTargets,
           SkipTarget, PlanUpdate, HandlerDone, AllDone, SignalAlert, SignalComplete,
           RootfsAlert, Tell, Reboot, OperatorReboots, OperatorPowersOff, Reset, Boot
  <2>2. pc = "update" /\ t = using.target
    BY <1>1, <2>1 DEF UpdateSucceeds, UpdateFails, IInv, TypeOK
  <2>3. handler_of[t] = at
    BY <1>1, <2>2 DEF IInv, AtHand, InTurn, TargetsOf
  <2> QED
    BY <1>1, <2>2, <2>3 DEF IInv, EarlierDone, Going, InTurn, HasWanted
<1> QED
  BY Invariance, <1>1, PTL DEF Spec, PriorityOrder

\* What is wanted, as FirmwarePromise has it.
Wants == [t \in Wanted |-> Want(t)]

\* The job is complete when firmware.py ends with exit code 0.
LEMMA DoneIsCurrent ==
  ASSUME IInv, pc = "exit0"
  PROVE  Promised!Current
<1>1. at = NHandlers + 1
  BY DEF IInv, AtHand
<1>2. \A t \in Wanted : handler_of[t] < at
  BY <1>1, NHandlersAssumption, HandlerAssumption DEF Wanted, WantedIn
<1> QED
  BY <1>2 DEF IInv, EarlierDone, Going, HasWanted, Promised!Current

\* An update takes a target from another version to the wanted one.
LEMMA UpdateFlashes ==
  ASSUME IInv, pc = "update", job' = job, told' = told,
         flashed' \in {flashed, [flashed EXCEPT ![using.target] = using.entry.to]}
  PROVE  [Promised!PromiseNext]_Promised!promiseVars
<1>1. Wants' = Wants
  BY WantedSame DEF Wants, Wanted, WantedIn
<1>2. CASE flashed' = flashed
  BY <1>1, <1>2 DEF Promised!promiseVars, Wants
<1>3. CASE flashed' = [flashed EXCEPT ![using.target] = using.entry.to]
  <2>1. using.target \in pending \cap Wanted /\ using.entry.to = Want(using.target)
          /\ running[using.target] # Want(using.target)
    BY DEF IInv, AtHand
  <2>2. flashed[using.target] # Want(using.target)
    BY <2>1 DEF IInv, Reported, InTurn
  <2>3. Promised!Flash(using.target)
    BY <1>1, <1>3, <2>1, <2>2 DEF Promised!Flash, Wants
  <2> QED
    BY <2>1, <2>3 DEF Promised!PromiseNext
<1> QED
  BY <1>2, <1>3

\* The job goes the way FirmwarePromise says: a target is only flashed with what is
\* wanted of it, and Contractor hears that the job is complete only when it is.
THEOREM PromiseKept == Spec => KeepsPromise
<1>1. Init => Promised!PromiseInit
  BY DEF Init, Promised!PromiseInit, Wanted, WantedIn
<1>2. IInv /\ [Next]_vars => [Promised!PromiseNext]_Promised!promiseVars
  <2> SUFFICES ASSUME IInv, [Next]_vars
               PROVE  [Promised!PromiseNext]_Promised!promiseVars
    OBVIOUS
  <2>1. CASE UpdateSucceeds
    BY <2>1, UpdateFlashes DEF UpdateSucceeds
  <2>2. CASE UpdateFails
    BY <2>2, UpdateFlashes DEF UpdateFails
  <2>3. CASE SignalAlert \/ RootfsAlert
    <3>1. Wants' = Wants
      BY <2>3, WantedSame DEF SignalAlert, RootfsAlert, Tell, Wants, Wanted, WantedIn
    <3>2. flashed' = flashed /\ told' \in {told, told \cup {"alert"}}
      BY <2>3 DEF SignalAlert, RootfsAlert, Tell
    <3> QED
      BY <3>1, <3>2 DEF Promised!PromiseNext, Promised!Alert, Promised!promiseVars, Wants
  <2>4. CASE SignalComplete
    <3>1. Wants' = Wants
      BY <2>4, WantedSame DEF SignalComplete, Tell, Wants, Wanted, WantedIn
    <3>2. flashed' = flashed /\ told' \in {told, told \cup {"complete"}}
      BY <2>4 DEF SignalComplete, Tell
    <3>3. Promised!Current
      BY <2>4, DoneIsCurrent DEF SignalComplete
    <3> QED
      BY <3>1, <3>2, <3>3 DEF Promised!PromiseNext, Promised!Complete,
         Promised!promiseVars, Wants
  <2>5. ASSUME ~UpdateSucceeds, ~UpdateFails, ~SignalAlert, ~RootfsAlert,
               ~SignalComplete
        PROVE  job' = job /\ flashed' = flashed /\ told' = told
    BY <2>5 DEF Next, Machine, Setup, SkipHandler, HandlerFails, Fail, GetTargets,
       SkipTarget, PlanUpdate, HandlerDone, AllDone, Reboot, OperatorReboots,
       OperatorPowersOff, Reset, Boot, vars
  <2>6. CASE job' = job /\ flashed' = flashed /\ told' = told
    <3>1. Wants' = Wants
      BY <2>6, WantedSame DEF Wants, Wanted, WantedIn
    <3> QED
      BY <2>6, <3>1 DEF Promised!promiseVars, Wants
  <2> QED
    BY <2>1, <2>2, <2>3, <2>4, <2>5, <2>6
<1> QED
  BY InitIInv, Invariance, <1>1, <1>2, PTL DEF Spec, KeepsPromise, Promised!Promise

=============================================================================
