----------------------------- MODULE BootstrapProofs -----------------------------
(***************************************************************************)
(* What bootstrap.py keeps, for every number of boots, of sessions and of  *)
(* calls that are on their way.                                            *)
(***************************************************************************)
EXTENDS Bootstrap, FiniteSetTheorems, TLAPS

-----------------------------------------------------------------------------
(* The order of the calls.                                                 *)

\* The steps of bootstrap.py, one by one.
LEMMA OrderIs ==
  /\ Len(Order) = 17
  /\ Order[1] = "login" /\ Order[2] = "register" /\ Order[3] = "msgLLDP" /\ Order[4] = "lookup"
  /\ Order[5] = "msgMatched" /\ Order[6] = "getConfig" /\ Order[7] = "msgHardware"
  /\ Order[8] = "msgReporting" /\ Order[9] = "setIdMap"
  /\ Order[10] = "msgVerified" /\ Order[11] = "msgConfiguring" /\ Order[12] = "msgClearing"
  /\ Order[13] = "wipe" /\ Order[14] = "msgCleaning"
  /\ Order[15] = "done" /\ Order[16] = "logout" /\ Order[17] = "exit0"
BY DEF Order

\* No step comes twice, so each has its position.
LEMMA PositionIs ==
  ASSUME NEW i \in 1..17
  PROVE  PositionOf(Order[i]) = i
<1>1. \A j \in 1..17 : Order[j] = Order[i] => j = i
  BY OrderIs
<1>2. Len(Order) = 17
  BY OrderIs
<1> QED  BY <1>1, <1>2 DEF PositionOf

\* What comes after each step.
LEMMA AfterIs ==
  /\ After("login") = {"register"} /\ After("register") = {"msgLLDP"}
  /\ After("msgLLDP") = {"lookup", "msgNoLLDP", "msgOddPort"}
  /\ After("msgNoLLDP") = {"lookup"} /\ After("msgOddPort") = {"exit1"}
  /\ After("lookup") = IF matched THEN {"msgMatched"} ELSE {"msgNoMatch"}
  /\ After("msgNoMatch") = {"lookup"}
  /\ After("msgMatched") = {"getConfig"} /\ After("getConfig") = {"msgHardware"}
  /\ After("msgHardware") = {"msgReporting"} /\ After("msgReporting") = {"setIdMap"}
  /\ After("setIdMap") = IF profile = "good" THEN {"msgVerified"} ELSE {"msgError"}
  /\ After("msgError") = {"logoutError"} /\ After("logoutError") = {"exit20"}
  /\ After("msgVerified") = {"msgConfiguring"}
  /\ After("msgConfiguring") = IF wipe THEN {"msgClearing"} ELSE {"msgCleaning"}
  /\ After("msgClearing") = {"wipe"} /\ After("wipe") = {"msgCleaning"}
  /\ After("msgCleaning") = {"done"} /\ After("done") = {"logout"} /\ After("logout") = {"exit0"}
<1>1. \A i \in 1..16 : Order[PositionOf(Order[i]) + 1] = Order[i + 1]
  BY PositionIs
<1>2. /\ After("login") = {"register"} /\ After("register") = {"msgLLDP"}
      /\ After("msgMatched") = {"getConfig"} /\ After("getConfig") = {"msgHardware"}
      /\ After("msgHardware") = {"msgReporting"} /\ After("msgReporting") = {"setIdMap"}
  BY <1>1, OrderIs DEF After
<1>3. /\ After("msgVerified") = {"msgConfiguring"}
      /\ After("msgClearing") = {"wipe"} /\ After("wipe") = {"msgCleaning"}
      /\ After("msgCleaning") = {"done"} /\ After("done") = {"logout"} /\ After("logout") = {"exit0"}
  BY <1>1, OrderIs DEF After
<1>4. /\ After("msgLLDP") = {"lookup", "msgNoLLDP", "msgOddPort"}
      /\ After("msgNoLLDP") = {"lookup"} /\ After("msgOddPort") = {"exit1"}
      /\ After("lookup") = IF matched THEN {"msgMatched"} ELSE {"msgNoMatch"}
      /\ After("msgNoMatch") = {"lookup"}
      /\ After("setIdMap") = IF profile = "good" THEN {"msgVerified"} ELSE {"msgError"}
      /\ After("msgError") = {"logoutError"} /\ After("logoutError") = {"exit20"}
      /\ After("msgConfiguring") = IF wipe THEN {"msgClearing"} ELSE {"msgCleaning"}
  BY DEF After
<1> QED  BY <1>2, <1>3, <1>4

-----------------------------------------------------------------------------
(* The invariant.                                                          *)

\* The first n steps are executed, or are none of this boot.
Done(n) ==
  \A i \in 1..n : Order[i] \in executed \cup {"logout", "wipe"} \cup (IF wipe THEN {} ELSE {"msgClearing"})

\* What stands beside the order has its place in it as well.
Past ==
  /\ \A n \in 1..17 : pc = Order[n] => Done(n - 1)
  /\ pc \in {"msgNoLLDP", "msgNoMatch"} => Done(3)

\* Only an accepted machine comes to what follows setIdMap.
Accepted ==
  pc \in {"msgVerified", "msgConfiguring", "msgClearing", "wipe", "msgCleaning", "done", "logout", "exit0"}
    => accepted

Finite == IsFiniteSet(late)

IInv == TypeOK /\ Finite /\ Past /\ Accepted

\* The positions say the same as the steps.
LEMMA PastMeans == Past => PastIsExecuted
<1> SUFFICES ASSUME Past, NEW n \in 1..17, pc = Order[n]
             PROVE  \A i \in 1..PositionOf(pc) - 1 :
                      Order[i] \in executed \cup {"logout", "wipe"} \cup (IF wipe THEN {} ELSE {"msgClearing"})
  BY OrderIs DEF PastIsExecuted
<1>1. PositionOf(pc) = n
  BY PositionIs
<1> QED  BY <1>1 DEF Past, Done

-----------------------------------------------------------------------------
(* Every step keeps the invariant.                                         *)

\* What comes after a step is a step or an end.
LEMMA AfterType ==
  ASSUME NEW step \in Calls \cup {"wipe"}
  PROVE  After(step) \subseteq Calls \cup Ended \cup {"wipe", "exit1"}
BY AfterIs DEF Calls, Messages, Ended

\* The server keeps its types whatever call it executes.
LEMMA ExecuteType ==
  ASSUME TypeOK, NEW step \in Calls, Execute(step)
  PROVE  /\ sessions' \in 0..MaxSessions /\ entry' \in {"none", "registered", "done"}
         /\ message' \in Messages \cup {"none"} /\ executed' \subseteq Calls
<1>1. sessions' \in 0..MaxSessions
  BY BoundsAssumption DEF TypeOK, Execute
<1>2. entry' \in {"none", "registered", "done"} /\ message' \in Messages \cup {"none"} /\ executed' \subseteq Calls
  BY DEF TypeOK, Execute
<1> QED  BY <1>1, <1>2

\* The request loop keeps the count of the retries, and its place.
LEMMA GiveUpType ==
  ASSUME TypeOK, pc \in Calls, GiveUp(pc)
  PROVE  pc' \in Calls \cup Ended \cup {"wipe", "exit1"} /\ retry' \in 0..2
<1>1. RetryCount(pc) \in {-1, 0, 2}
  BY DEF RetryCount
<1>2. CASE RetryCount(pc) = -1 \/ retry < RetryCount(pc)
  BY <1>1, <1>2 DEF GiveUp, TypeOK
<1>3. CASE ~(RetryCount(pc) = -1 \/ retry < RetryCount(pc))
  BY <1>3, AfterType DEF GiveUp
<1> QED  BY <1>2, <1>3

\* A call that is no longer on its way leaves fewer of them.
LEMMA LateType ==
  ASSUME TypeOK, Finite, NEW step \in late, late' = late \ {step}
  PROVE  late' \subseteq Calls /\ Cardinality(late') <= MaxLate /\ IsFiniteSet(late')
<1>1. IsFiniteSet(late') /\ Cardinality(late') = Cardinality(late) - 1 /\ Cardinality(late) \in Nat
  BY FS_RemoveElement, FS_CardinalityType DEF Finite
<1> QED  BY <1>1, BoundsAssumption DEF TypeOK

\* Every step keeps the types, and the calls on their way finite.
LEMMA TypeStep ==
  ASSUME IInv, [Next]_vars
  PROVE  TypeOK' /\ Finite'
<1> USE DEF IInv, server
<1>1. CASE Answered
  <2>1. pc' \in Calls \cup Ended \cup {"wipe", "exit1"}
    BY <1>1, AfterType DEF Answered
  <2>2. accepted' \in BOOLEAN /\ retry' \in 0..2 /\ UNCHANGED late
    BY <1>1 DEF Answered, TypeOK
  <2> QED  BY <1>1, <2>1, <2>2, ExecuteType DEF Answered, Frame, TypeOK, Finite
<1>2. CASE TimesOut
  <2>1. pc' \in Calls \cup Ended \cup {"wipe", "exit1"} /\ retry' \in 0..2
    BY <1>2, GiveUpType DEF TimesOut
  <2>2. late' \subseteq Calls /\ Cardinality(late') <= MaxLate /\ Finite'
    <3>1. CASE UNCHANGED late
      BY <3>1 DEF TypeOK, Finite
    <3>2. CASE late' = late \cup {pc} /\ Cardinality(late \cup {pc}) <= MaxLate
      <4>1. IsFiniteSet(late \cup {pc})
        BY FS_AddElement DEF Finite
      <4>2. late \cup {pc} \subseteq Calls
        BY <1>2 DEF TimesOut, TypeOK
      <4> QED  BY <3>2, <4>1, <4>2 DEF Finite
    <3>3. UNCHANGED late \/ (late' = late \cup {pc} /\ Cardinality(late \cup {pc}) <= MaxLate)
      BY <1>2 DEF TimesOut
    <3> QED  BY <3>1, <3>2, <3>3
  <2>3. /\ sessions' \in 0..MaxSessions /\ entry' \in {"none", "registered", "done"}
        /\ message' \in Messages \cup {"none"} /\ executed' \subseteq Calls
    BY <1>2, ExecuteType DEF TimesOut, TypeOK
  <2> QED  BY <1>2, <2>1, <2>2, <2>3 DEF TimesOut, Frame, TypeOK
<1>3. CASE Raises
  <2>1. pc' \in Calls \cup Ended \cup {"wipe", "exit1"} /\ retry' \in 0..2
    BY <1>3, AfterType DEF Raises
  <2>2. /\ sessions' \in 0..MaxSessions /\ entry' \in {"none", "registered", "done"}
        /\ message' \in Messages \cup {"none"} /\ executed' \subseteq Calls
    BY <1>3, ExecuteType DEF Raises, TypeOK
  <2> QED  BY <1>3, <2>1, <2>2 DEF Raises, Frame, TypeOK, Finite
<1>4. CASE Wipe
  <2>1. pc' \in Calls \cup Ended \cup {"wipe", "exit1"} /\ wiped' \in BOOLEAN
    BY <1>4, AfterType DEF Wipe, TypeOK
  <2> QED  BY <1>4, <2>1 DEF Wipe, TypeOK, Finite
<1>5. CASE Fails \/ Succeeds
  BY <1>5 DEF Fails, Succeeds, EndFrame, Ended, TypeOK, Finite
<1>6. CASE Reboots \/ OperatorReboots
  <2>1. Boots
    BY <1>6 DEF Reboots, OperatorReboots
  <2>2. boot' \in 1..MaxBoots
    BY <2>1, BoundsAssumption DEF Boots, TypeOK
  <2>3. "login" \in Calls
    BY DEF Calls
  <2>4. executed' \subseteq Calls /\ pc' \in Calls /\ retry' \in 0..2 /\ accepted' \in BOOLEAN
    <3>1. executed' = {} /\ pc' = "login" /\ retry' = 0 /\ accepted' = FALSE
      BY <2>1 DEF Boots
    <3>2. executed' \subseteq Calls
      BY <3>1
    <3>3. pc' \in Calls
      BY <3>1, <2>3
    <3>4. retry' \in 0..2
      BY <3>1
    <3>5. accepted' \in BOOLEAN
      BY <3>1
    <3> QED  BY <3>2, <3>3, <3>4, <3>5
  <2>5. UNCHANGED <<wipe, wiped, late, sessions, entry, message, matched, profile>>
    BY <2>1 DEF Boots
  <2>6. Finite' /\ late' \subseteq Calls /\ Cardinality(late') <= MaxLate
    BY <2>5 DEF TypeOK, Finite
  <2> QED  BY <2>2, <2>4, <2>5, <2>6 DEF TypeOK
<1>7. CASE Match \/ ChangeProfile
  BY <1>7 DEF Match, ChangeProfile, Around, TypeOK, Finite
<1>8. ASSUME NEW step \in Calls, LateArrives(step) PROVE TypeOK' /\ Finite'
  <2>1. late' \subseteq Calls /\ Cardinality(late') <= MaxLate /\ Finite'
    BY <1>8, LateType DEF LateArrives, Finite
  <2> QED  BY <1>8, <2>1, ExecuteType DEF LateArrives, Around, TypeOK
<1>9. ASSUME NEW step \in Calls, LateIsLost(step) PROVE TypeOK' /\ Finite'
  <2>1. late' \subseteq Calls /\ Cardinality(late') <= MaxLate /\ Finite'
    BY <1>9, LateType DEF LateIsLost, Finite
  <2> QED  BY <1>9, <2>1 DEF LateIsLost, Around, TypeOK
<1>10. CASE UNCHANGED vars
  BY <1>10 DEF vars, TypeOK, Finite
<1> QED
  BY <1>1, <1>2, <1>3, <1>4, <1>5, <1>6, <1>7, <1>8, <1>9, <1>10 DEF Next

\* What the server has executed stays executed.
LEMMA DoneStays ==
  ASSUME NEW n \in Nat, Done(n), executed \subseteq executed', wipe' = wipe
  PROVE  Done(n)'
BY DEF Done

\* A step that is executed is done, and bootstrap.py goes on behind it.
LEMMA OneMore ==
  ASSUME NEW n \in 1..17, Done(n - 1), executed \subseteq executed', wipe' = wipe,
         Order[n] \in executed' \cup {"logout", "wipe"}
  PROVE  Done(n)'
<1>1. \A i \in 1..n : i = n \/ i \in 1..(n - 1)
  OBVIOUS
<1> QED  BY <1>1 DEF Done

\* Behind a step that is done bootstrap.py is in its place again.
LEMMA Onward ==
  ASSUME TypeOK, Past, executed \subseteq executed', wipe' = wipe,
         pc \in Calls \cup {"wipe"}, pc \in executed' \cup {"logout", "wipe", "logoutError"},
         pc' \in After(pc)
  PROVE  Past'
<1>1. \A n \in 1..17 : pc = Order[n] => Done(n)'
  <2> SUFFICES ASSUME NEW n \in 1..17, pc = Order[n] PROVE Done(n)'
    OBVIOUS
  <2>1. Order[n] # "logoutError"
    BY OrderIs
  <2> QED  BY <2>1, OneMore DEF Past
<1>2. pc \in {"msgNoLLDP", "msgNoMatch"} => Done(3)'
  BY DoneStays DEF Past
<1>3. pc = "msgConfiguring" /\ ~wipe => Done(13)'
  <2> SUFFICES ASSUME pc = "msgConfiguring", ~wipe PROVE Done(13)'
    OBVIOUS
  <2>1. Done(11)'
    BY <1>1, OrderIs
  <2>2. \A i \in 1..13 : i \in 1..11 \/ Order[i] \in {"msgClearing", "wipe"}
    BY OrderIs
  <2> QED  BY <2>1, <2>2 DEF Done
<1>4. Done(0)'
  BY DEF Done
<1>5. \A n \in 1..17 : pc' = Order[n] => Done(n - 1)'
  <2> SUFFICES ASSUME NEW n \in 1..17, pc' = Order[n] PROVE Done(n - 1)'
    OBVIOUS
  <2>1. \/ \E k \in 1..16 : pc = Order[k] /\ n = k + 1
        \/ pc \in {"msgNoLLDP", "msgNoMatch"} /\ n = 4
        \/ pc = "msgConfiguring" /\ ~wipe /\ n = 14
    BY AfterIs, OrderIs DEF Calls, Messages
  <2> QED  BY <2>1, <1>1, <1>2, <1>3
<1>6. pc' \in {"msgNoLLDP", "msgNoMatch"} => Done(3)'
  <2>1. pc' = "msgNoLLDP" => pc = "msgLLDP"
    BY AfterIs DEF Calls, Messages
  <2>2. pc' = "msgNoMatch" => pc = "lookup"
    BY AfterIs DEF Calls, Messages
  <2>3. pc = "lookup" => Done(3)'
    BY DoneStays, OrderIs DEF Past
  <2>4. pc = "msgLLDP" => Done(3)'
    BY <1>1, OrderIs
  <2> QED  BY <2>1, <2>2, <2>3, <2>4
<1> QED  BY <1>5, <1>6 DEF Past

\* bootstrap.py stays in its place.
LEMMA Stays ==
  ASSUME Past, executed \subseteq executed', wipe' = wipe, pc' = pc
  PROVE  Past'
BY DoneStays DEF Past

\* The ends of bootstrap.py but the last are in no place.
LEMMA Elsewhere ==
  ASSUME pc' \in {"exit1", "exit20", "prompt", "off"}
  PROVE  Past'
BY OrderIs DEF Past

\* Every step leaves behind it only what is done.
LEMMA PastStep ==
  ASSUME IInv, [Next]_vars
  PROVE  Past'
<1> USE DEF IInv, server
<1>1. CASE Answered
  <2>1. executed \subseteq executed' /\ pc \in executed'
    BY <1>1 DEF Answered, Execute
  <2> QED  BY <1>1, <2>1, Onward DEF Answered, Frame
<1>2. CASE TimesOut
  <2>1. executed \subseteq executed' /\ wipe' = wipe /\ pc \in Calls
    BY <1>2 DEF TimesOut, Execute, Frame
  <2>2. pc' = pc \/ pc' = "exit1" \/ (pc \in {"logout", "logoutError"} /\ pc' \in After(pc))
    BY <1>2 DEF TimesOut, GiveUp
  <2> QED  BY <2>1, <2>2, Onward, Stays, Elsewhere
<1>3. CASE Raises
  <2>1. executed \subseteq executed' /\ wipe' = wipe /\ pc \in Calls
    BY <1>3 DEF Raises, Execute, Frame
  <2>2. pc' = "exit1" \/ (pc \in {"logout", "logoutError"} /\ pc' \in After(pc))
    BY <1>3 DEF Raises
  <2> QED  BY <2>1, <2>2, Onward, Elsewhere
<1>4. CASE Wipe
  <2>1. executed \subseteq executed' /\ wipe' = wipe /\ pc = "wipe"
    BY <1>4 DEF Wipe
  <2> QED  BY <1>4, <2>1, Onward, Elsewhere DEF Wipe
<1>5. CASE Fails \/ Succeeds
  BY <1>5, Elsewhere DEF Fails, Succeeds
<1>6. CASE Reboots \/ OperatorReboots
  <2>1. pc' = Order[1]
    BY <1>6, OrderIs DEF Reboots, OperatorReboots, Boots
  <2>2. \A n \in 1..17 : pc' = Order[n] => n = 1
    BY <2>1, OrderIs
  <2> QED  BY <2>1, <2>2, OrderIs DEF Past, Done
<1>7. CASE Match \/ ChangeProfile
  BY <1>7, Stays DEF Match, ChangeProfile, Around
<1>8. ASSUME NEW step \in Calls, LateArrives(step) \/ LateIsLost(step) PROVE Past'
  BY <1>8, Stays DEF LateArrives, LateIsLost, Execute, Around
<1>9. CASE UNCHANGED vars
  BY <1>9, Stays DEF vars
<1> QED
  BY <1>1, <1>2, <1>3, <1>4, <1>5, <1>6, <1>7, <1>8, <1>9 DEF Next

\* What follows setIdMap is reached by its answer only.
LEMMA AcceptedStep ==
  ASSUME IInv, [Next]_vars
  PROVE  Accepted'
<1> USE DEF IInv, server, Accepted
<1>1. CASE Answered
  <2>1. CASE pc = "setIdMap"
    <3>1. /\ pc' \in After("setIdMap")
          /\ accepted' = (accepted \/ profile = "good")
      BY <1>1, <2>1 DEF Answered
    <3>2. profile = "good" \/ pc' = "msgError"
      BY <3>1, AfterIs
    <3> QED  BY <3>1, <3>2
  <2>2. CASE pc # "setIdMap"
    <3>1. accepted' = accepted \/ accepted' = TRUE
      BY <1>1, <2>2 DEF Answered, TypeOK
    <3>2. pc' \in {"msgVerified", "msgConfiguring", "msgClearing", "wipe", "msgCleaning", "done", "logout", "exit0"}
            => pc \in {"msgVerified", "msgConfiguring", "msgClearing", "wipe", "msgCleaning", "done", "logout", "exit0"}
      <4>1. pc' \in After(pc) /\ pc \in Calls
        BY <1>1 DEF Answered
      <4> QED  BY <2>2, <4>1, AfterIs DEF Calls, Messages
    <3> QED  BY <1>1, <3>1, <3>2 DEF Answered
  <2> QED  BY <2>1, <2>2
<1>2. CASE TimesOut
  <2>1. pc' = pc \/ pc' = "exit1" \/ (pc \in {"logout", "logoutError"} /\ pc' \in After(pc))
    BY <1>2 DEF TimesOut, GiveUp
  <2> QED  BY <1>2, <2>1, AfterIs DEF TimesOut
<1>3. CASE Raises
  <2>1. pc' = "exit1" \/ (pc \in {"logout", "logoutError"} /\ pc' \in After(pc))
    BY <1>3 DEF Raises
  <2> QED  BY <1>3, <2>1, AfterIs DEF Raises
<1>4. CASE Wipe
  BY <1>4, AfterIs DEF Wipe
<1>5. CASE Fails \/ Succeeds
  BY <1>5 DEF Fails, Succeeds, EndFrame
<1>6. CASE Reboots \/ OperatorReboots
  BY <1>6 DEF Reboots, OperatorReboots, Boots
<1>7. CASE Match \/ ChangeProfile
  BY <1>7 DEF Match, ChangeProfile, Around
<1>8. ASSUME NEW step \in Calls, LateArrives(step) \/ LateIsLost(step) PROVE Accepted'
  BY <1>8 DEF LateArrives, LateIsLost, Around
<1>9. CASE UNCHANGED vars
  BY <1>9 DEF vars
<1> QED
  BY <1>1, <1>2, <1>3, <1>4, <1>5, <1>6, <1>7, <1>8, <1>9 DEF Next

LEMMA Invariance == Spec => []IInv
<1>1. Init => IInv
  <2> SUFFICES ASSUME Init PROVE IInv
    OBVIOUS
  <2>1. Finite /\ Cardinality(late) = 0
    BY FS_EmptySet DEF Init, Finite
  <2>2. TypeOK
    <3>1. "login" \in Calls /\ 0 \in 0..MaxSessions /\ 1 \in 1..MaxBoots /\ 0 \in 0..2 /\ 0 <= MaxLate
      BY BoundsAssumption DEF Calls
    <3> QED  BY <2>1, <3>1 DEF Init, TypeOK
  <2>3. \A n \in 1..17 : pc = Order[n] => n = 1
    BY OrderIs DEF Init
  <2>4. Past
    BY <2>3 DEF Init, Past, Done
  <2> QED  BY <2>1, <2>2, <2>4 DEF Init, IInv, Accepted
<1>2. IInv /\ [Next]_vars => IInv'
  BY TypeStep, PastStep, AcceptedStep DEF IInv
<1> QED  BY <1>1, <1>2, PTL DEF Spec

-----------------------------------------------------------------------------
(* The theorems.                                                           *)

\* Every variable keeps its type: bootstrap.py, its request loop and the server.
THEOREM TypeCorrect == Spec => []TypeOK
<1>1. IInv => TypeOK
  BY DEF IInv
<1> QED  BY Invariance, <1>1, PTL

\* bootstrap.py is past a call only if the server executed it in this boot,
\* however many calls time out, are lost or arrive late.
THEOREM PastExecuted == Spec => []PastIsExecuted
<1>1. IInv => PastIsExecuted
  BY PastMeans DEF IInv
<1> QED  BY Invariance, <1>1, PTL

\* bootstrap.py clears boot sectors, and has the entry marked done, only when
\* setIdMap was accepted in this boot.
THEOREM WipedAccepted == Spec => WipedIsAccepted
<1>1. ASSUME IInv, [Next]_vars
      PROVE  (wiped' # wiped) \/ (entry' = "done" /\ entry # "done" /\ "done" \notin late) => accepted
  <2> USE DEF IInv, server, Accepted
  <2>1. CASE Wipe
    BY <1>1, <2>1 DEF Wipe
  <2>2. CASE Answered \/ TimesOut \/ Raises
    BY <1>1, <2>2 DEF Answered, TimesOut, Raises, Execute, Frame
  <2>3. CASE Fails \/ Succeeds \/ Reboots \/ OperatorReboots \/ Match \/ ChangeProfile \/ UNCHANGED vars
    BY <2>3 DEF Fails, Succeeds, EndFrame, Reboots, OperatorReboots, Boots, Match, ChangeProfile, Around, vars
  <2>4. ASSUME NEW step \in Calls, LateArrives(step) \/ LateIsLost(step)
        PROVE  UNCHANGED wiped /\ (entry' = "done" /\ entry # "done" => "done" \in late)
    BY <2>4 DEF LateArrives, LateIsLost, Execute, Around
  <2> QED  BY <1>1, <2>1, <2>2, <2>3, <2>4 DEF Next
<1> QED  BY Invariance, <1>1, PTL DEF Spec, WipedIsAccepted
=============================================================================
