----------------------------- MODULE BootTaskProofs -----------------------------
(***************************************************************************)
(* What is proved of BootTask for any set of interfaces, any networks and  *)
(* command lines, and any number of lost leases.                           *)
(*                                                                         *)
(* The inductive invariant says how many DHCP clients an interface may     *)
(* have (Counted: one for each pass, as none is ever stopped), and, as long *)
(* as no client has obtained a lease again, that nothing but the interface *)
(* the loop stands at has a lease's address, a route or the file (Sole),   *)
(* and that Contractor was pinged through it once the loop is left         *)
(* (Pinged).                                                               *)
(***************************************************************************)
EXTENDS BootTask, TLAPS

Remote == opts.config = "remote"
AtInterface == {"dhcp", "leased", "drop"}
Tasks == {"media", "config", "load", "task", "alert", "reboot"}

\* The clients of an interface.
Clients(i) == held[i] + seeking[i]

\* Where do_task stands in the loop and what it is to try.
Placed ==
  /\ pc \in {"start", "address"} =>
       /\ \A i \in Interfaces : Clients(i) = 0
       /\ routes = {} /\ up = {} /\ ~again
  /\ pc = "address" \/ Searching => interface \in Interfaces \cup {Any}
  /\ pc = "address" => ~opts.no_ip
  /\ Searching => ~opts.static
  /\ pc \in AtInterface => iface \in Interfaces
  /\ pc = "gateway" => counter <= 10 /\ opts.static

\* An interface gets one more client in each pass, and none when it has been tried.
Counted ==
  /\ \A i \in Interfaces : Clients(i) <= passes
  /\ pc \in {"for"} \cup AtInterface =>
       \A i \in visit : Clients(i) < passes
  /\ pc = "dhcp" => Clients(iface) < passes
  /\ pc \in AtInterface => iface \notin visit

\* Until a client obtains a lease again there is nothing but the interface the
\* loop stands at.
Sole ==
  ~again =>
    /\ pc \in {"for", "dhcp"} => file = NoFile /\ routes = {}
    /\ pc \in {"look", "leased", "take"} =>
         file \in {iface, NoFile} /\ routes = Interfaces \cap {file}
    /\ pc = "drop" => file = NoFile
    /\ pc = "drop" \/ Searched => routes \subseteq {iface}
    /\ losses = 0 =>
         /\ pc = "for" \/ (pc = "look" /\ file = NoFile) => up = {}
         /\ pc \in {"look", "take"} \cup AtInterface \/ Searched => up \subseteq {iface}

\* Once the loop is left the interface is the one it stood at, and Contractor has
\* been pinged through it.
Pinged ==
  ~again =>
    /\ pc \in {"look", "take"} /\ Remote /\ file # NoFile => file \in answered
    /\ Searched => interface = iface /\ (Remote => iface \in answered)

\* The job configuration and the media.
Ready ==
  /\ pc \in {"load", "task", "alert", "reboot"} /\ Remote => ~opts.no_ip
  /\ pc \in {"config", "load", "task", "alert", "reboot"} => media = opts.media
  /\ pc \in {"task", "alert", "reboot"} => loaded

\* The inductive invariant.
IInv == TypeOK /\ Placed /\ Counted /\ Sole /\ Pinged /\ Ready

-----------------------------------------------------------------------------
(* Boots.                                                                  *)

\* Every boot begins with the invariant.
LEMMA BootedIInv ==
  ASSUME net \in Networks, Booted
  PROVE  IInv'
<1> USE MaxLossesAssumption, MaxPassesAssumption DEF Booted
<1>1. TypeOK'
  <2>1. /\ pc' \in Places /\ counter' \in 0..11 /\ losses' \in 0..MaxLosses
       /\ passes' \in 0..MaxPasses
    BY DEF Places
  <2>2. {held', seeking'} \subseteq [Interfaces -> 0..MaxPasses]
    OBVIOUS
  <2> QED
    BY <2>1, <2>2 DEF TypeOK
<1>2. Placed'
  BY DEF Placed, Searching, AtInterface, Clients
<1>3. Counted'
  BY DEF Counted, AtInterface, Clients
<1>4. Sole' /\ Pinged'
  BY NamesAssumption DEF Sole, Pinged, Searched, AtInterface
<1>5. Ready'
  BY DEF Ready
<1> QED
  BY <1>1, <1>2, <1>3, <1>4, <1>5 DEF IInv

\* So does the first one.
LEMMA InitIInv == Init => IInv
<1> SUFFICES ASSUME Init PROVE IInv
  OBVIOUS
<1> USE MaxLossesAssumption, MaxPassesAssumption DEF Init
<1>1. TypeOK
  <2>1. /\ pc \in Places /\ counter \in 0..11 /\ losses \in 0..MaxLosses
       /\ passes \in 0..MaxPasses
    BY DEF Places
  <2>2. {held, seeking} \subseteq [Interfaces -> 0..MaxPasses]
    OBVIOUS
  <2> QED
    BY <2>1, <2>2 DEF TypeOK
<1>2. Placed
  BY DEF Placed, Searching, AtInterface, Clients
<1>3. Counted
  BY DEF Counted, AtInterface, Clients
<1>4. Sole /\ Pinged
  BY NamesAssumption DEF Sole, Pinged, Searched, AtInterface
<1>5. Ready
  BY DEF Ready
<1> QED
  BY <1>1, <1>2, <1>3, <1>4, <1>5 DEF IInv

-----------------------------------------------------------------------------
(* One lemma per conjunct, with one step per action.                       *)

\* The state keeps its type.
LEMMA TypeStep ==
  ASSUME IInv, [Next]_vars
  PROVE  TypeOK'
<1> USE MaxLossesAssumption, MaxPassesAssumption, NamesAssumption DEF IInv
<1>1. CASE NetDebug
  <2>1. pc' \in Places
    BY <1>1 DEF NetDebug, Places
  <2> QED
    BY <1>1, <2>1 DEF NetDebug, netVars, Script, NetFrame, LateFrame, TypeOK
<1>2. CASE Parse
  <2>1. pc' \in Places
    BY <1>2 DEF Parse, Places
  <2>2. interface' \in Interfaces \cup {Any, NoName}
    BY <1>2, BootOptionsAssumption DEF Parse, OptionRecords, TypeOK
  <2> QED
    BY <1>2, <2>1, <2>2 DEF Parse, netVars, Script, NetFrame, LateFrame, TypeOK
<1>3. CASE Static
  <2>1. pc' \in Places
    BY <1>3 DEF Static, Places
  <2>2. interface \in Interfaces \cup {Any}
    BY <1>3 DEF Static, Placed
  <2>3. up' \subseteq Interfaces
    BY <1>3, <2>2 DEF Static, TypeOK
  <2>4. counter' \in 0..11
    BY <1>3 DEF Static
  <2> QED
    BY <1>3, <2>1, <2>2, <2>3, <2>4
      DEF Static, Script, ClientsStay, LateFrame, TypeOK
<1>4. CASE PingGateway
  <2>1. pc' \in Places
    BY <1>4 DEF PingGateway, Places
  <2>2. counter' \in 0..11
    BY <1>4 DEF PingGateway, Placed, TypeOK
  <2> QED
    BY <1>4, <2>1, <2>2
      DEF PingGateway, netVars, Script, NetFrame, LateFrame, TypeOK
<1>5. CASE Dynamic
  <2>1. pc' \in Places
    BY <1>5 DEF Dynamic, Places
  <2> QED
    BY <1>5, <2>1 DEF Dynamic, Script, ClientsStay, LateFrame, TypeOK
<1>6. CASE Look
  <2>1. pc' \in Places
    BY <1>6 DEF Look, Places
  <2>2. visit' \subseteq Interfaces
    BY <1>6 DEF Look, InterfaceList, Placed, Searching, TypeOK
  <2>3. passes' \in 0..MaxPasses
    BY <1>6 DEF Look, TypeOK
  <2> QED
    BY <1>6, <2>1, <2>2, <2>3 DEF Look, netVars, NetFrame, LateFrame, TypeOK
<1>7. CASE TryInterface
  <2>1. pc' \in Places
    BY <1>7 DEF TryInterface, Places
  <2> QED
    BY <1>7, <2>1 DEF TryInterface, Script, ClientsStay, LateFrame, TypeOK
<1>8. CASE ForDone
  <2>1. pc' \in Places
    BY <1>8 DEF ForDone, Places
  <2> QED
    BY <1>8, <2>1 DEF ForDone, netVars, Script, NetFrame, LateFrame, TypeOK
<1>9. CASE RunUdhcpc
  <2>1. pc' \in Places
    BY <1>9 DEF RunUdhcpc, Places
  <2>2. iface \in Interfaces /\ held[iface] + 1 \in 0..MaxPasses
    BY <1>9 DEF RunUdhcpc, Placed, AtInterface, Counted, Clients, TypeOK
  <2>3. held' \in [Interfaces -> 0..MaxPasses]
    BY <1>9, <2>2 DEF RunUdhcpc, TypeOK
  <2>4. file' \in Interfaces \cup {NoFile} /\ routes' \subseteq Interfaces
    BY <1>9, <2>2 DEF RunUdhcpc, TypeOK
  <2> QED
    BY <1>9, <2>1, <2>2, <2>3, <2>4 DEF RunUdhcpc, Script, LateFrame, TypeOK
<1>10. CASE CheckContractor
  <2>1. pc' \in Places
    BY <1>10 DEF CheckContractor, Pings, Places
  <2> QED
    BY <1>10, <2>1
      DEF CheckContractor, Pings, Script, ClientsStay, LateFrame, TypeOK
<1>11. CASE LeaseGone
  <2>1. pc' \in Places
    BY <1>11 DEF LeaseGone, Places
  <2> QED
    BY <1>11, <2>1 DEF LeaseGone, netVars, Script, NetFrame, LateFrame, TypeOK
<1>12. CASE DropInterface
  <2>1. pc' \in Places
    BY <1>12 DEF DropInterface, Places
  <2> QED
    BY <1>12, <2>1 DEF DropInterface, Script, ClientsStay, LateFrame, TypeOK
<1>13. CASE Take
  <2>1. pc' \in Places
    BY <1>13 DEF Take, Places
  <2> QED
    BY <1>13, <2>1 DEF Take, netVars, Script, NetFrame, LateFrame, TypeOK
<1>14. CASE MountMedia
  <2>1. pc' \in Places
    BY <1>14 DEF MountMedia, Places
  <2>2. media' \in BOOLEAN
    BY <1>14, BootOptionsAssumption DEF MountMedia, OptionRecords, TypeOK
  <2> QED
    BY <1>14, <2>1, <2>2 DEF MountMedia, netVars, Script, Late, NetFrame, TypeOK
<1>15. CASE ConfigSource
  <2>1. pc' \in Places
    BY <1>15 DEF ConfigSource, Places
  <2> QED
    BY <1>15, <2>1
      DEF ConfigSource, netVars, Script, Late, NetFrame, LateFrame, TypeOK
<1>16. CASE LoadConfig
  <2>1. pc' \in Places
    BY <1>16 DEF LoadConfig, Places
  <2> QED
    BY <1>16, <2>1 DEF LoadConfig, netVars, Script, Late, NetFrame, TypeOK
<1>17. CASE RunTask
  <2>1. pc' \in Places
    BY <1>17 DEF RunTask, Places
  <2> QED
    BY <1>17, <2>1 DEF RunTask, netVars, Script, Late, NetFrame, LateFrame, TypeOK
<1>18. CASE SignalAlert
  <2>1. pc' \in Places
    BY <1>18 DEF SignalAlert, Places
  <2> QED
    BY <1>18, <2>1 DEF SignalAlert, netVars, Late, NetFrame, LateFrame, TypeOK
<1>19. CASE OperatorPowersOff
  <2>1. pc' \in Places
    BY <1>19 DEF OperatorPowersOff, Places
  <2> QED
    BY <1>19, <2>1
      DEF OperatorPowersOff, netVars, Script, Late, NetFrame, LateFrame, TypeOK
<1>20. CASE Reboot \/ OperatorReboots
  BY <1>20, BootedIInv DEF Reboot, OperatorReboots, TypeOK
<1>21. ASSUME NEW k \in Interfaces, LoseLease(k)
      PROVE  TypeOK'
  <2>1. held[k] - 1 \in 0..MaxPasses /\ seeking[k] + 1 \in 0..MaxPasses
    BY <1>21 DEF LoseLease, Counted, Clients, TypeOK
  <2>2. {held', seeking'} \subseteq [Interfaces -> 0..MaxPasses]
    BY <1>21, <2>1 DEF LoseLease, TypeOK
  <2> QED
    BY <1>21, <2>2 DEF LoseLease, ClientFrame, TypeOK
<1>22. ASSUME NEW k \in Interfaces, RegainLease(k)
      PROVE  TypeOK'
  <2>1. held[k] + 1 \in 0..MaxPasses /\ seeking[k] - 1 \in 0..MaxPasses
    BY <1>22 DEF RegainLease, Counted, Clients, TypeOK
  <2>2. {held', seeking'} \subseteq [Interfaces -> 0..MaxPasses]
    BY <1>22, <2>1 DEF RegainLease, TypeOK
  <2> QED
    BY <1>22, <2>2 DEF RegainLease, ClientFrame, TypeOK
<1>23. CASE UNCHANGED vars
  BY <1>23 DEF vars, netVars, TypeOK
<1> QED
  BY <1>1, <1>2, <1>3, <1>4, <1>5, <1>6, <1>7, <1>8, <1>9, <1>10, <1>11, <1>12,
     <1>13, <1>14, <1>15, <1>16, <1>17, <1>18, <1>19, <1>20, <1>21, <1>22, <1>23
     DEF Next, DoTask, Operator

\* Where do_task stands.
LEMMA PlacedStep ==
  ASSUME IInv, [Next]_vars
  PROVE  Placed'
<1> USE NamesAssumption DEF IInv
<1>1. CASE NetDebug
  BY <1>1 DEF NetDebug, netVars, Script, NetFrame, LateFrame, Placed, Searching,
        AtInterface, Clients, TypeOK
<1>2. CASE Parse
  <2>1. opts \in OptionRecords /\ UNCHANGED <<opts, held, seeking, routes, up, again>>
    BY <1>2, BootOptionsAssumption
      DEF Parse, netVars, Script, NetFrame, LateFrame, TypeOK
  <2>2. pc = "start" /\ pc' \in {"media", "address", "prompt"}
    BY <1>2 DEF Parse
  <2>3. pc' = "address" => ~opts.no_ip /\ interface' \in Interfaces \cup {Any}
    BY <1>2, <2>1 DEF Parse, OptionRecords
  <2> QED
    BY <2>1, <2>2, <2>3 DEF Placed, Searching, AtInterface, Clients
<1>3. CASE Static
  BY <1>3
    DEF Static, Script, ClientsStay, LateFrame, Placed, Searching, AtInterface,
        Clients, TypeOK
<1>4. CASE PingGateway
  BY <1>4 DEF PingGateway, netVars, Script, NetFrame, LateFrame, Placed, Searching,
        AtInterface, Clients, TypeOK
<1>5. CASE Dynamic
  BY <1>5
    DEF Dynamic, Script, ClientsStay, LateFrame, Placed, Searching, AtInterface,
        Clients, TypeOK
<1>6. CASE Look
  BY <1>6
    DEF Look, netVars, NetFrame, LateFrame, Placed, Searching, AtInterface,
        Clients, TypeOK
<1>7. CASE TryInterface
  BY <1>7
    DEF TryInterface, Script, ClientsStay, LateFrame, Placed, Searching,
        AtInterface, Clients, TypeOK
<1>8. CASE ForDone
  BY <1>8
    DEF ForDone, netVars, Script, NetFrame, LateFrame, Placed, Searching,
        AtInterface, Clients,
        TypeOK
<1>9. CASE RunUdhcpc
  BY <1>9
    DEF RunUdhcpc, Script, LateFrame, Placed, Searching, AtInterface, Clients,
        TypeOK
<1>10. CASE CheckContractor
  BY <1>10
    DEF CheckContractor, Pings, Script, ClientsStay, LateFrame, Placed,
        Searching, AtInterface, Clients, TypeOK
<1>11. CASE LeaseGone
  BY <1>11 DEF LeaseGone, netVars, Script, NetFrame, LateFrame, Placed, Searching,
        AtInterface, Clients, TypeOK
<1>12. CASE DropInterface
  BY <1>12
    DEF DropInterface, Script, ClientsStay, LateFrame, Placed, Searching,
        AtInterface, Clients, TypeOK
<1>13. CASE Take
  BY <1>13
    DEF Take, netVars, Script, NetFrame, LateFrame, Placed, Searching,
        AtInterface, Clients,
        TypeOK
<1>14. CASE MountMedia
  BY <1>14
    DEF MountMedia, netVars, Script, Late, NetFrame, Placed, Searching,
        AtInterface, Clients,
        TypeOK
<1>15. CASE ConfigSource
  BY <1>15
    DEF ConfigSource, netVars, Script, Late, NetFrame, LateFrame, Placed,
        Searching,
        AtInterface, Clients, TypeOK
<1>16. CASE LoadConfig
  BY <1>16
    DEF LoadConfig, netVars, Script, Late, NetFrame, Placed, Searching,
        AtInterface, Clients,
        TypeOK
<1>17. CASE RunTask
  BY <1>17
    DEF RunTask, netVars, Script, Late, NetFrame, LateFrame, Placed, Searching,
        AtInterface, Clients, TypeOK
<1>18. CASE SignalAlert
  BY <1>18 DEF SignalAlert, netVars, Late, NetFrame, LateFrame, Placed, Searching,
        AtInterface, Clients, TypeOK
<1>19. CASE OperatorPowersOff
  BY <1>19
    DEF OperatorPowersOff, netVars, Script, Late, NetFrame, LateFrame, Placed,
        Searching, AtInterface, Clients, TypeOK
<1>20. CASE Reboot \/ OperatorReboots
  BY <1>20, BootedIInv DEF Reboot, OperatorReboots, TypeOK
<1>21. ASSUME NEW k \in Interfaces, LoseLease(k)
      PROVE  Placed'
  BY <1>21
    DEF LoseLease, ClientFrame, Placed, Searching, AtInterface, Clients, TypeOK
<1>22. ASSUME NEW k \in Interfaces, RegainLease(k)
      PROVE  Placed'
  BY <1>22
    DEF RegainLease, ClientFrame, Placed, Searching, AtInterface, Clients,
        TypeOK
<1>23. CASE UNCHANGED vars
  BY <1>23 DEF vars, netVars, Placed, Searching, AtInterface, Clients, TypeOK
<1> QED
  BY <1>1, <1>2, <1>3, <1>4, <1>5, <1>6, <1>7, <1>8, <1>9, <1>10, <1>11, <1>12,
     <1>13, <1>14, <1>15, <1>16, <1>17, <1>18, <1>19, <1>20, <1>21, <1>22, <1>23
     DEF Next, DoTask, Operator

\* An interface has no more clients than there were passes.
LEMMA CountedStep ==
  ASSUME IInv, [Next]_vars
  PROVE  Counted'
<1> USE MaxLossesAssumption, MaxPassesAssumption, NamesAssumption DEF IInv
<1>1. CASE NetDebug
  BY <1>1
    DEF NetDebug, netVars, Script, NetFrame, LateFrame, Counted, Placed,
        AtInterface,
        Clients, TypeOK
<1>2. CASE Parse
  BY <1>2
    DEF Parse, netVars, Script, NetFrame, LateFrame, Counted, Placed,
        AtInterface,
        Clients, TypeOK
<1>3. CASE Static
  BY <1>3
    DEF Static, Script, ClientsStay, LateFrame, Counted, Placed, AtInterface,
        Clients, TypeOK
<1>4. CASE PingGateway
  BY <1>4 DEF PingGateway, netVars, Script, NetFrame, LateFrame, Counted, Placed,
        AtInterface, Clients, TypeOK
<1>5. CASE Dynamic
  BY <1>5
    DEF Dynamic, Script, ClientsStay, LateFrame, Counted, Placed, AtInterface,
        Clients, TypeOK
<1>6. CASE Look
  <2>1. CASE file = NoFile
    <3>1. /\ pc' = "for" /\ passes' = passes + 1 /\ UNCHANGED <<held, seeking>>
          /\ visit' \subseteq Interfaces
      BY <1>6, <2>1, TypeStep DEF Look, NetFrame, netVars, TypeOK
    <3>2. \A i \in Interfaces : Clients(i)' < passes'
      BY <3>1 DEF Counted, Clients, TypeOK
    <3> QED
      BY <3>1, <3>2 DEF Counted, Clients, AtInterface, TypeOK
  <2>2. CASE file # NoFile
    BY <1>6, <2>2 DEF Look, netVars, NetFrame, Counted, AtInterface, Clients, TypeOK
  <2> QED
    BY <2>1, <2>2
<1>7. CASE TryInterface
  BY <1>7
    DEF TryInterface, Script, ClientsStay, LateFrame, Counted, Placed,
        AtInterface, Clients, TypeOK
<1>8. CASE ForDone
  BY <1>8
    DEF ForDone, netVars, Script, NetFrame, LateFrame, Counted, Placed,
        AtInterface,
        Clients, TypeOK
<1>9. CASE RunUdhcpc
  BY <1>9
    DEF RunUdhcpc, Script, LateFrame, Counted, Placed, AtInterface, Clients,
        TypeOK
<1>10. CASE CheckContractor
  BY <1>10
    DEF CheckContractor, Pings, Script, ClientsStay, LateFrame, Counted, Placed,
        AtInterface, Clients, TypeOK
<1>11. CASE LeaseGone
  BY <1>11
    DEF LeaseGone, netVars, Script, NetFrame, LateFrame, Counted, Placed,
        AtInterface,
        Clients, TypeOK
<1>12. CASE DropInterface
  BY <1>12
    DEF DropInterface, Script, ClientsStay, LateFrame, Counted, Placed,
        AtInterface, Clients, TypeOK
<1>13. CASE Take
  BY <1>13
    DEF Take, netVars, Script, NetFrame, LateFrame, Counted, Placed,
        AtInterface, Clients, TypeOK
<1>14. CASE MountMedia
  BY <1>14
    DEF MountMedia, netVars, Script, Late, NetFrame, Counted, Placed,
        AtInterface,
        Clients, TypeOK
<1>15. CASE ConfigSource
  BY <1>15
    DEF ConfigSource, netVars, Script, Late, NetFrame, LateFrame, Counted,
        Placed,
        AtInterface, Clients, TypeOK
<1>16. CASE LoadConfig
  BY <1>16
    DEF LoadConfig, netVars, Script, Late, NetFrame, Counted, Placed,
        AtInterface,
        Clients, TypeOK
<1>17. CASE RunTask
  BY <1>17 DEF RunTask, netVars, Script, Late, NetFrame, LateFrame, Counted, Placed,
        AtInterface, Clients, TypeOK
<1>18. CASE SignalAlert
  BY <1>18
    DEF SignalAlert, netVars, Late, NetFrame, LateFrame, Counted, Placed,
        AtInterface,
        Clients, TypeOK
<1>19. CASE OperatorPowersOff
  BY <1>19
    DEF OperatorPowersOff, netVars, Script, Late, NetFrame, LateFrame, Counted,
        Placed, AtInterface, Clients, TypeOK
<1>20. CASE Reboot \/ OperatorReboots
  BY <1>20, BootedIInv DEF Reboot, OperatorReboots, TypeOK
<1>21. ASSUME NEW k \in Interfaces, LoseLease(k)
      PROVE  Counted'
  BY <1>21 DEF LoseLease, ClientFrame, Counted, Placed, AtInterface, Clients, TypeOK
<1>22. ASSUME NEW k \in Interfaces, RegainLease(k)
      PROVE  Counted'
  BY <1>22
    DEF RegainLease, ClientFrame, Counted, Placed, AtInterface, Clients, TypeOK
<1>23. CASE UNCHANGED vars
  BY <1>23 DEF vars, netVars, Counted, Placed, AtInterface, Clients, TypeOK
<1> QED
  BY <1>1, <1>2, <1>3, <1>4, <1>5, <1>6, <1>7, <1>8, <1>9, <1>10, <1>11, <1>12,
     <1>13, <1>14, <1>15, <1>16, <1>17, <1>18, <1>19, <1>20, <1>21, <1>22, <1>23
     DEF Next, DoTask, Operator

\* Until a lease is obtained again there is only the interface the loop stands at.
LEMMA SoleStep ==
  ASSUME IInv, [Next]_vars
  PROVE  Sole'
<1> USE NamesAssumption DEF IInv
<1>1. CASE NetDebug
  BY <1>1 DEF NetDebug, netVars, Script, NetFrame, LateFrame, Sole, Counted, Placed,
        Searched, Searching, AtInterface, TypeOK
<1>2. CASE Parse
  BY <1>2
    DEF Parse, netVars, Script, NetFrame, LateFrame, Sole, Counted, Placed,
        Searched,
        Searching, AtInterface, TypeOK
<1>3. CASE Static
  BY <1>3
    DEF Static, Script, ClientsStay, LateFrame, Sole, Counted, Placed, Searched,
        Searching,
        AtInterface, TypeOK
<1>4. CASE PingGateway
  BY <1>4
    DEF PingGateway, netVars, Script, NetFrame, LateFrame, Sole, Counted,
        Placed,
        Searched, Searching, AtInterface, TypeOK
<1>5. CASE Dynamic
  BY <1>5
    DEF Dynamic, Script, ClientsStay, LateFrame, Sole, Counted, Placed,
        Searched, Searching,
        AtInterface, TypeOK
<1>6. CASE Look
  BY <1>6
    DEF Look, netVars, NetFrame, LateFrame, Sole, Counted, Placed, Searched,
        Searching,
        AtInterface, TypeOK
<1>7. CASE TryInterface
  BY <1>7
    DEF TryInterface, Script, ClientsStay, LateFrame, Sole, Counted, Placed,
        Searched, Searching,
        AtInterface, TypeOK
<1>8. CASE ForDone
  BY <1>8 DEF ForDone, netVars, Script, NetFrame, LateFrame, Sole, Counted, Placed,
        Searched, Searching, AtInterface, TypeOK
<1>9. CASE RunUdhcpc
  BY <1>9
    DEF RunUdhcpc, Script, LateFrame, Sole, Counted, Placed, Searched,
        Searching,
        AtInterface, TypeOK
<1>10. CASE CheckContractor
  BY <1>10
    DEF CheckContractor, Pings, Reaches, Script, ClientsStay, LateFrame, Sole,
        Counted, Placed, Searched,
        Searching, AtInterface, TypeOK
<1>11. CASE LeaseGone
  BY <1>11
    DEF LeaseGone, netVars, Script, NetFrame, LateFrame, Sole, Counted, Placed,
        Searched, Searching, AtInterface, TypeOK
<1>12. CASE DropInterface
  BY <1>12
    DEF DropInterface, Script, ClientsStay, LateFrame, Sole, Counted, Placed,
        Searched, Searching,
        AtInterface, TypeOK
<1>13. CASE Take
  BY <1>13
    DEF Take, netVars, Script, NetFrame, LateFrame, Sole, Counted, Placed,
        Searched,
        Searching, AtInterface, TypeOK
<1>14. CASE MountMedia
  BY <1>14
    DEF MountMedia, netVars, Script, Late, NetFrame, Sole, Counted, Placed,
        Searched,
        Searching, AtInterface, TypeOK
<1>15. CASE ConfigSource
  BY <1>15
    DEF ConfigSource, netVars, Script, Late, NetFrame, LateFrame, Sole, Counted,
        Placed, Searched, Searching, AtInterface, TypeOK
<1>16. CASE LoadConfig
  BY <1>16
    DEF LoadConfig, netVars, Script, Late, NetFrame, Sole, Counted, Placed,
        Searched,
        Searching, AtInterface, TypeOK
<1>17. CASE RunTask
  BY <1>17
    DEF RunTask, netVars, Script, Late, NetFrame, LateFrame, Sole, Counted,
        Placed,
        Searched, Searching, AtInterface, TypeOK
<1>18. CASE SignalAlert
  BY <1>18
    DEF SignalAlert, netVars, Late, NetFrame, LateFrame, Sole, Counted, Placed,
        Searched, Searching, AtInterface, TypeOK
<1>19. CASE OperatorPowersOff
  BY <1>19
    DEF OperatorPowersOff, netVars, Script, Late, NetFrame, LateFrame, Sole,
        Counted,
        Placed, Searched, Searching, AtInterface, TypeOK
<1>20. CASE Reboot \/ OperatorReboots
  BY <1>20, BootedIInv DEF Reboot, OperatorReboots, TypeOK
<1>21. ASSUME NEW k \in Interfaces, LoseLease(k)
      PROVE  Sole'
  BY <1>21 DEF LoseLease, ClientFrame, Sole, Counted, Placed, Searched, Searching,
        AtInterface, TypeOK
<1>22. ASSUME NEW k \in Interfaces, RegainLease(k)
      PROVE  Sole'
  BY <1>22 DEF RegainLease, ClientFrame, Sole, Counted, Placed, Searched, Searching,
        AtInterface, TypeOK
<1>23. CASE UNCHANGED vars
  BY <1>23 DEF vars, netVars, Sole, Counted, Placed, Searched, Searching,
     AtInterface, TypeOK
<1> QED
  BY <1>1, <1>2, <1>3, <1>4, <1>5, <1>6, <1>7, <1>8, <1>9, <1>10, <1>11, <1>12,
     <1>13, <1>14, <1>15, <1>16, <1>17, <1>18, <1>19, <1>20, <1>21, <1>22, <1>23
     DEF Next, DoTask, Operator

\* Until then the interface taken is one Contractor was pinged through.
LEMMA PingedStep ==
  ASSUME IInv, [Next]_vars
  PROVE  Pinged'
<1> USE NamesAssumption DEF IInv
<1>1. CASE NetDebug
  BY <1>1
    DEF NetDebug, netVars, Script, NetFrame, LateFrame, Pinged, Sole, Counted,
        Placed,
        Searched, Searching, AtInterface, TypeOK, Remote
<1>2. CASE Parse
  BY <1>2
    DEF Parse, netVars, Script, NetFrame, LateFrame, Pinged, Sole, Counted,
        Placed,
        Searched, Searching, AtInterface, TypeOK, Remote
<1>3. CASE Static
  BY <1>3
    DEF Static, Script, ClientsStay, LateFrame, Pinged, Sole, Counted, Placed,
        Searched, Searching,
        AtInterface, TypeOK, Remote
<1>4. CASE PingGateway
  BY <1>4
    DEF PingGateway, netVars, Script, NetFrame, LateFrame, Pinged, Sole,
        Counted,
        Placed, Searched, Searching, AtInterface, TypeOK, Remote
<1>5. CASE Dynamic
  BY <1>5
    DEF Dynamic, Script, ClientsStay, LateFrame, Pinged, Sole, Counted, Placed,
        Searched,
        Searching, AtInterface, TypeOK, Remote
<1>6. CASE Look
  BY <1>6
    DEF Look, netVars, NetFrame, LateFrame, Pinged, Sole, Counted, Placed,
        Searched,
        Searching, AtInterface, TypeOK, Remote
<1>7. CASE TryInterface
  BY <1>7
    DEF TryInterface, Script, ClientsStay, LateFrame, Pinged, Sole, Counted,
        Placed, Searched,
        Searching, AtInterface, TypeOK, Remote
<1>8. CASE ForDone
  BY <1>8
    DEF ForDone, netVars, Script, NetFrame, LateFrame, Pinged, Sole, Counted,
        Placed,
        Searched, Searching, AtInterface, TypeOK, Remote
<1>9. CASE RunUdhcpc
  BY <1>9 DEF RunUdhcpc, Script, LateFrame, Pinged, Sole, Counted, Placed, Searched,
        Searching, AtInterface, TypeOK, Remote
<1>10. CASE CheckContractor
  BY <1>10
    DEF CheckContractor, Pings, Reaches, Script, ClientsStay, LateFrame, Pinged,
        Sole, Counted, Placed, Searched,
        Searching, AtInterface, TypeOK, Remote
<1>11. CASE LeaseGone
  BY <1>11
    DEF LeaseGone, netVars, Script, NetFrame, LateFrame, Pinged, Sole, Counted,
        Placed, Searched, Searching, AtInterface, TypeOK, Remote
<1>12. CASE DropInterface
  BY <1>12
    DEF DropInterface, Script, ClientsStay, LateFrame, Pinged, Sole, Counted,
        Placed, Searched,
        Searching, AtInterface, TypeOK, Remote
<1>13. CASE Take
  BY <1>13
    DEF Take, netVars, Script, NetFrame, LateFrame, Pinged, Sole, Counted,
        Placed,
        Searched, Searching, AtInterface, TypeOK, Remote
<1>14. CASE MountMedia
  BY <1>14
    DEF MountMedia, netVars, Script, Late, NetFrame, Pinged, Sole, Counted,
        Placed,
        Searched, Searching, AtInterface, TypeOK, Remote
<1>15. CASE ConfigSource
  BY <1>15
    DEF ConfigSource, netVars, Script, Late, NetFrame, LateFrame, Pinged, Sole,
        Counted, Placed, Searched, Searching, AtInterface, TypeOK, Remote
<1>16. CASE LoadConfig
  BY <1>16
    DEF LoadConfig, netVars, Script, Late, NetFrame, Pinged, Sole, Counted,
        Placed,
        Searched, Searching, AtInterface, TypeOK, Remote
<1>17. CASE RunTask
  BY <1>17
    DEF RunTask, netVars, Script, Late, NetFrame, LateFrame, Pinged, Sole,
        Counted,
        Placed, Searched, Searching, AtInterface, TypeOK, Remote
<1>18. CASE SignalAlert
  BY <1>18
    DEF SignalAlert, netVars, Late, NetFrame, LateFrame, Pinged, Sole, Counted,
        Placed, Searched, Searching, AtInterface, TypeOK, Remote
<1>19. CASE OperatorPowersOff
  BY <1>19
    DEF OperatorPowersOff, netVars, Script, Late, NetFrame, LateFrame, Pinged,
        Sole,
        Counted, Placed, Searched, Searching, AtInterface, TypeOK, Remote
<1>20. CASE Reboot \/ OperatorReboots
  BY <1>20, BootedIInv DEF Reboot, OperatorReboots, TypeOK
<1>21. ASSUME NEW k \in Interfaces, LoseLease(k)
      PROVE  Pinged'
  BY <1>21
    DEF LoseLease, ClientFrame, Pinged, Sole, Counted, Placed, Searched,
        Searching,
        AtInterface, TypeOK, Remote
<1>22. ASSUME NEW k \in Interfaces, RegainLease(k)
      PROVE  Pinged'
  BY <1>22
    DEF RegainLease, ClientFrame, Pinged, Sole, Counted, Placed, Searched,
        Searching,
        AtInterface, TypeOK, Remote
<1>23. CASE UNCHANGED vars
  BY <1>23 DEF vars, netVars, Pinged, Sole, Counted, Placed, Searched,
     Searching, AtInterface, TypeOK, Remote
<1> QED
  BY <1>1, <1>2, <1>3, <1>4, <1>5, <1>6, <1>7, <1>8, <1>9, <1>10, <1>11, <1>12,
     <1>13, <1>14, <1>15, <1>16, <1>17, <1>18, <1>19, <1>20, <1>21, <1>22, <1>23
     DEF Next, DoTask, Operator

\* What the task relies on.
LEMMA ReadyStep ==
  ASSUME IInv, [Next]_vars
  PROVE  Ready'
<1> USE NamesAssumption DEF IInv
<1>1. CASE NetDebug
  BY <1>1 DEF NetDebug, netVars, Script, NetFrame, LateFrame, Ready, TypeOK, Remote
<1>2. CASE Parse
  BY <1>2 DEF Parse, netVars, Script, NetFrame, LateFrame, Ready, TypeOK, Remote
<1>3. CASE Static
  BY <1>3 DEF Static, Script, ClientsStay, LateFrame, Ready, TypeOK, Remote
<1>4. CASE PingGateway
  BY <1>4
    DEF PingGateway, netVars, Script, NetFrame, LateFrame, Ready, TypeOK, Remote
<1>5. CASE Dynamic
  BY <1>5 DEF Dynamic, Script, ClientsStay, LateFrame, Ready, TypeOK, Remote
<1>6. CASE Look
  BY <1>6 DEF Look, netVars, NetFrame, LateFrame, Ready, TypeOK, Remote
<1>7. CASE TryInterface
  BY <1>7 DEF TryInterface, Script, ClientsStay, LateFrame, Ready, TypeOK, Remote
<1>8. CASE ForDone
  BY <1>8 DEF ForDone, netVars, Script, NetFrame, LateFrame, Ready, TypeOK, Remote
<1>9. CASE RunUdhcpc
  BY <1>9 DEF RunUdhcpc, Script, LateFrame, Ready, TypeOK, Remote
<1>10. CASE CheckContractor
  BY <1>10
    DEF CheckContractor, Pings, Script, ClientsStay, LateFrame, Ready, TypeOK,
        Remote
<1>11. CASE LeaseGone
  BY <1>11
    DEF LeaseGone, netVars, Script, NetFrame, LateFrame, Ready, TypeOK, Remote
<1>12. CASE DropInterface
  BY <1>12 DEF DropInterface, Script, ClientsStay, LateFrame, Ready, TypeOK, Remote
<1>13. CASE Take
  BY <1>13 DEF Take, netVars, Script, NetFrame, LateFrame, Ready, TypeOK, Remote
<1>14. CASE MountMedia
  BY <1>14 DEF MountMedia, netVars, Script, Late, NetFrame, Ready, TypeOK, Remote
<1>15. CASE ConfigSource
  BY <1>15
    DEF ConfigSource, netVars, Script, Late, NetFrame, LateFrame, Ready, TypeOK,
        Remote
<1>16. CASE LoadConfig
  BY <1>16 DEF LoadConfig, netVars, Script, Late, NetFrame, Ready, TypeOK, Remote
<1>17. CASE RunTask
  BY <1>17
    DEF RunTask, netVars, Script, Late, NetFrame, LateFrame, Ready, TypeOK,
        Remote
<1>18. CASE SignalAlert
  BY <1>18
    DEF SignalAlert, netVars, Late, NetFrame, LateFrame, Ready, TypeOK, Remote
<1>19. CASE OperatorPowersOff
  BY <1>19
    DEF OperatorPowersOff, netVars, Script, Late, NetFrame, LateFrame, Ready,
        TypeOK,
        Remote
<1>20. CASE Reboot \/ OperatorReboots
  BY <1>20, BootedIInv DEF Reboot, OperatorReboots, TypeOK
<1>21. ASSUME NEW k \in Interfaces, LoseLease(k)
      PROVE  Ready'
  BY <1>21 DEF LoseLease, ClientFrame, Ready, TypeOK, Remote
<1>22. ASSUME NEW k \in Interfaces, RegainLease(k)
      PROVE  Ready'
  BY <1>22 DEF RegainLease, ClientFrame, Ready, TypeOK, Remote
<1>23. CASE UNCHANGED vars
  BY <1>23 DEF vars, netVars, Ready, TypeOK, Remote
<1> QED
  BY <1>1, <1>2, <1>3, <1>4, <1>5, <1>6, <1>7, <1>8, <1>9, <1>10, <1>11, <1>12,
     <1>13, <1>14, <1>15, <1>16, <1>17, <1>18, <1>19, <1>20, <1>21, <1>22, <1>23
     DEF Next, DoTask, Operator

\* The invariant is inductive.
LEMMA Invariance == Spec => []IInv
<1>1. IInv /\ [Next]_vars => IInv'
  BY TypeStep, PlacedStep, CountedStep, SoleStep, PingedStep, ReadyStep DEF IInv
<1> QED
  BY InitIInv, <1>1, PTL DEF Spec

-----------------------------------------------------------------------------
(* The theorems.                                                           *)

\* The variables of do_task keep their types, the number of DHCP clients of an
\* interface among them: none is ever stopped, yet a pass starts no more than one.
THEOREM TypeCorrect == Spec => []TypeOK
<1>1. IInv => TypeOK
  BY DEF IInv
<1> QED
  BY Invariance, <1>1, PTL

\* The interface do_task goes on with is one Contractor was pinged through, unless a
\* client that had lost its lease obtained another.
THEOREM TakenIsAnswered == Spec => []TakenAnswered
<1>1. IInv => TakenAnswered
  BY DEF IInv, Pinged, TakenAnswered, Remote
<1> QED
  BY Invariance, <1>1, PTL

\* No interface that was dropped keeps an address or a route, nor its link while no
\* lease is lost, with the same exception; their clients do stay.
THEOREM OthersAreDown == Spec => []OthersDown
<1>1. IInv => OthersDown
  BY DEF IInv, Sole, Pinged, OthersDown
<1> QED
  BY Invariance, <1>1, PTL

\* The disk's own do_task runs only with its job configuration, its media and, for a
\* remote configuration, an address.
THEOREM TaskIsReady == Spec => []TaskReady
<1>1. IInv => TaskReady
  BY DEF IInv, Ready, TaskReady, Remote
<1> QED
  BY Invariance, <1>1, PTL

=============================================================================
