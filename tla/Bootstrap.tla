-------------------------------- MODULE Bootstrap --------------------------------
(***************************************************************************)
(* The bootstrap disk (disks/bootstrap/root/bootstrap.py, lib.py) and the  *)
(* calls to Contractor it is made of (src/contractor/contractor/client.py).*)
(*                                                                         *)
(* bootstrap.py is a sequence of calls, each made again and again until it *)
(* is answered (retry_count = -1), but for getConfig (2) and logout (0,    *)
(* whose exceptions are ignored).  A call that is given up after its       *)
(* timeout may have been executed, may not, or may still be on its way: it *)
(* is then executed beside what bootstrap.py goes on to do.                *)
(*                                                                         *)
(* The Contractor server is not part of the repository: of what it does    *)
(* with a call only what the client relies on is here.                     *)
(***************************************************************************)
EXTENDS Naturals, FiniteSets, Sequences, SequencesExt

CONSTANTS
  MaxLate,      \* bound on the calls given up that are still on their way
  MaxSessions,  \* bound on the sessions that are counted
  MaxBoots      \* bound on the boots

ASSUME BoundsAssumption == MaxLate \in Nat /\ MaxSessions \in Nat /\ MaxBoots \in Nat \ {0}

VARIABLES
  wipe,         \* bootstrap_wipe_mbr, from the configuration
  pc,           \* the call bootstrap.py is at, "wipe", or how it ended
  retry,
  wiped,        \* the boot sectors of the drives are cleared
  boot,
  late,         \* calls given up and still on their way
  \* the server
  sessions,
  entry,        \* the Cartographer's entry: none, registered, done
  matched,      \* the operator has matched the entry to a foundation
  message,      \* the message shown for the entry
  profile,      \* what the hardware of the machine would be found to be
  \* history, of this boot
  executed,     \* calls that were executed
  accepted      \* setIdMap was answered without an error

server == <<sessions, entry, message, executed>>
vars == <<wipe, pc, retry, wiped, boot, late, server, matched, profile, accepted>>

-----------------------------------------------------------------------------
(* The calls in their order.                                               *)

Order == <<"login", "register", "msgLLDP", "lookup", "msgMatched", "getConfig", "msgHardware",
           "msgReporting", "setIdMap", "msgVerified", "msgConfiguring", "msgClearing", "wipe",
           "msgCleaning", "done", "logout", "exit0">>

Messages == {"msgLLDP", "msgNoLLDP", "msgOddPort", "msgNoMatch", "msgMatched", "msgHardware",
             "msgReporting", "msgVerified", "msgConfiguring", "msgClearing",
             "msgCleaning", "msgError"}
Calls == Messages \cup {"login", "register", "lookup", "getConfig", "setIdMap",
                        "done", "logout", "logoutError"}
Ended == {"exit0", "exit20", "prompt", "off"}

PositionOf(step) == CHOOSE i \in 1..Len(Order) : Order[i] = step

\* What may come after a call that was answered.  The platforms' setAuth and
\* setIp change nothing, so their preparation is never called.
After(step) ==
  CASE step = "msgLLDP"        -> {"lookup", "msgNoLLDP", "msgOddPort"}
    [] step = "msgNoLLDP"      -> {"lookup"}
    [] step = "msgOddPort"     -> {"exit1"}
    [] step = "lookup"         -> IF matched THEN {"msgMatched"} ELSE {"msgNoMatch"}
    [] step = "msgNoMatch"     -> {"lookup"}
    [] step = "setIdMap"       -> IF profile = "good" THEN {"msgVerified"}
                                                      ELSE {"msgError"}
    [] step = "msgError"       -> {"logoutError"}
    [] step = "logoutError"    -> {"exit20"}
    [] step = "msgConfiguring" -> IF wipe THEN {"msgClearing"} ELSE {"msgCleaning"}
    [] OTHER                   -> {Order[PositionOf(step) + 1]}

RetryCount(step) ==
  CASE step = "getConfig" -> 2
    [] step \in {"logout", "logoutError"} -> 0
    [] OTHER -> -1

\* What the server does with a call.
Execute(step) ==
  /\ sessions' = CASE step = "login" /\ sessions < MaxSessions -> sessions + 1
                   [] step \in {"logout", "logoutError"} /\ sessions > 0 -> sessions - 1
                   [] OTHER -> sessions
  /\ entry' = CASE step = "register" -> "registered"
                [] step = "done" -> "done"
                [] OTHER -> entry
  /\ message' = IF step \in Messages THEN step ELSE message
  /\ executed' = executed \cup {step}

-----------------------------------------------------------------------------
(* bootstrap.py.                                                           *)

Frame == UNCHANGED <<wipe, wiped, boot, matched, profile>>

\* Mutant: the error in the answer of setIdMap is not looked at.
AnsweredBlindly ==
  /\ pc \in Calls
  /\ Execute(pc)
  /\ pc' \in IF pc = "setIdMap" THEN {"msgVerified"} ELSE After(pc)
  /\ retry' = 0
  /\ accepted' = (accepted \/ (pc = "setIdMap" /\ profile = "good"))
  /\ UNCHANGED late
  /\ Frame

\* The call is executed and answered in time.
Answered ==
  /\ pc \in Calls
  /\ Execute(pc)
  /\ pc' \in After(pc)
  /\ retry' = 0
  /\ accepted' = (accepted \/ (pc = "setIdMap" /\ profile = "good"))
  /\ UNCHANGED late
  /\ Frame

\* Mutants: a call is given up for good after its first timeout;
\* never at all.
GiveUpAtOnce(step) == pc' \in After(step) /\ retry' = 0
GiveUpNever(step) == UNCHANGED pc /\ retry' = 0

\* The request loop after a ResponseError or a Timeout.
GiveUp(step) ==
  IF RetryCount(step) = -1 \/ retry < RetryCount(step)
    THEN /\ UNCHANGED pc
         /\ retry' = IF RetryCount(step) = -1 THEN 0 ELSE retry + 1
    ELSE /\ pc' \in IF step \in {"logout", "logoutError"} THEN After(step) ELSE {"exit1"}
         /\ retry' = 0

\* No answer in time: the call, or its answer, is lost, or it is on its way.
TimesOut ==
  /\ pc \in Calls
  /\ GiveUp(pc)
  /\ \/ UNCHANGED <<server, late>>
     \/ Execute(pc) /\ UNCHANGED late
     \/ /\ Cardinality(late \cup {pc}) <= MaxLate
        /\ late' = late \cup {pc}
        /\ UNCHANGED server
  /\ UNCHANGED accepted
  /\ Frame

\* Another exception (an HTTP code 400, 401, 403, 404, 500, a connection that
\* breaks inside the answer, a command of the platform): logout ignores it.
Raises ==
  /\ pc \in Calls
  /\ \/ UNCHANGED server
     \/ Execute(pc)
  /\ pc' \in IF pc \in {"logout", "logoutError"} THEN After(pc) ELSE {"exit1"}
  /\ retry' = 0
  /\ UNCHANGED <<late, accepted>>
  /\ Frame

\* bootstrap_wipe_mbr: the first bytes of every drive.
Wipe ==
  /\ pc = "wipe"
  /\ \/ wiped' = TRUE /\ pc' \in After(pc)
     \/ wiped' \in {wiped, TRUE} /\ pc' = "exit1"
  /\ UNCHANGED <<wipe, retry, boot, late, server, matched, profile, accepted>>

\* do_task: 20 (after two minutes) has the machine rebooted, 0 turned off; any
\* other code becomes 10, which brings the prompt of the rootfs.
EndFrame == UNCHANGED <<wipe, retry, wiped, late, server, matched, profile,
                        accepted>>
Fails == pc = "exit1" /\ pc' = "prompt" /\ UNCHANGED boot /\ EndFrame
Succeeds == pc = "exit0" /\ pc' = "off" /\ UNCHANGED boot /\ EndFrame

Boots ==
  /\ boot < MaxBoots
  /\ boot' = boot + 1
  /\ pc' = "login" /\ retry' = 0
  /\ executed' = {} /\ accepted' = FALSE
  /\ UNCHANGED <<wipe, wiped, late, sessions, entry, message, matched, profile>>

\* The rootfs reboots, or its operator does at the prompt.
Reboots == pc = "exit20" /\ Boots
OperatorReboots == pc = "prompt" /\ Boots

-----------------------------------------------------------------------------
(* The network, the operator.                                              *)

Around == UNCHANGED <<wipe, pc, retry, wiped, boot, accepted>>

LateArrives(step) ==
  /\ step \in late
  /\ late' = late \ {step}
  /\ Execute(step)
  /\ UNCHANGED <<matched, profile>> /\ Around

LateIsLost(step) ==
  /\ step \in late
  /\ late' = late \ {step}
  /\ UNCHANGED <<server, matched, profile>> /\ Around

\* The operator matches the entry to a foundation, and changes what hardware
\* that foundation should have.
Match ==
  /\ ~matched /\ entry # "none"
  /\ matched' = TRUE
  /\ UNCHANGED <<late, server, profile>> /\ Around

ChangeProfile ==
  /\ profile = "bad" /\ profile' = "good"
  /\ UNCHANGED <<late, server, matched>> /\ Around

-----------------------------------------------------------------------------

Init ==
  /\ wipe \in BOOLEAN
  /\ pc = "login" /\ retry = 0 /\ wiped = FALSE /\ boot = 1
  /\ late = {}
  /\ sessions = 0 /\ entry = "none" /\ message = "none" /\ executed = {}
  /\ matched = FALSE
  /\ profile \in {"good", "bad"}
  /\ accepted = FALSE

Next ==
  \/ Answered \/ TimesOut \/ Raises \/ Wipe \/ Fails \/ Succeeds \/ Reboots
  \/ OperatorReboots \/ Match \/ ChangeProfile
  \/ \E step \in Calls : LateArrives(step) \/ LateIsLost(step)

\* Calls that are made again and again are answered in the
\* end, the others (getConfig, logout) need not be; bootstrap.py does
\* not stop by itself; somebody matches the machine.
Fairness ==
  /\ SF_vars(RetryCount(pc) = -1 /\ Answered)
  /\ WF_vars(Answered \/ TimesOut \/ Raises \/ Wipe)
  /\ WF_vars(Fails \/ Succeeds \/ Reboots)
  /\ WF_vars(Match)

Spec == Init /\ [][Next]_vars /\ Fairness

-----------------------------------------------------------------------------

TypeOK ==
  /\ wipe \in BOOLEAN
  /\ pc \in Calls \cup Ended \cup {"wipe", "exit1"}
  /\ retry \in 0..2
  /\ wiped \in BOOLEAN
  /\ boot \in 1..MaxBoots
  /\ late \subseteq Calls /\ Cardinality(late) <= MaxLate
  /\ sessions \in 0..MaxSessions
  /\ entry \in {"none", "registered", "done"}
  /\ matched \in BOOLEAN
  /\ message \in Messages \cup {"none"}
  /\ profile \in {"good", "bad"}
  /\ executed \subseteq Calls
  /\ accepted \in BOOLEAN

\* At least once, in order: bootstrap.py is past a call (other than a logout)
\* only if the server has executed it in this boot, whatever was lost, executed
\* without an answer, late or retried.
PastIsExecuted ==
  pc \in {Order[i] : i \in 1..Len(Order)} =>
    \A i \in 1..PositionOf(pc) - 1 :
      Order[i] \in executed \cup {"logout", "wipe"} \cup (IF wipe THEN {} ELSE {"msgClearing"})

\* The boot sectors are cleared, and the entry marked done, only for hardware
\* that Contractor has accepted in this boot.
WipedIsAccepted ==
  [][(wiped' # wiped) \/ (entry' = "done" /\ entry # "done" /\ "done" \notin late)
       => accepted]_vars

\* Once the machine is matched every boot ends: no call is retried for ever.
BootEnds == matched ~> pc \in Ended
=============================================================================
