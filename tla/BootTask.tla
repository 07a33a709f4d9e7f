-------------------------------- MODULE BootTask --------------------------------
(***************************************************************************)
(* The boot of a disk: the do_task of the rootfs (rootfs/etc/init.d/do_task),*)
(* run once by init, configures the network, gets the job configuration,   *)
(* runs the disk's own /do_task and acts on its exit code.                 *)
(*                                                                         *)
(* Beside it run the DHCP clients (udhcpc) it has started.  They call      *)
(* rootfs/lib/udhcpc/script, which writes /tmp/dhcp-interface when a lease *)
(* is obtained and removes it when the lease of that interface is lost, at *)
(* any moment of the loop that looks for the file.  None of them is ever   *)
(* stopped: the kill of do_task takes the second column of the busybox ps, *)
(* which is the user and not the process.                                  *)
(*                                                                         *)
(* The script runs under `set -e' up to /do_task: a command that fails     *)
(* outside of a condition ends it, and the machine, with no prompt (pc =   *)
(* "dead").  error_happened never returns: its prompt (pc = "prompt") ends *)
(* in a reboot or a power off.                                             *)
(***************************************************************************)
EXTENDS Naturals, FiniteSets

CONSTANTS
  Interfaces,   \* network interfaces, positions in the sorted list (eth0 is 0)
  Networks,     \* what is at the other end: [carrier, dhcp, reach], sets of
                \* interfaces with a link, a DHCP server, a way to Contractor
  BootOptions,  \* kernel command lines, see OptionRecords
  MaxLosses,    \* bound on the leases lost in one boot
  MaxPasses,    \* bound on the passes through the list in one boot
  NoFile,       \* there is no /tmp/dhcp-interface
  NoName,       \* an option that is not given, or an empty variable
  Any           \* the value `any' of the option interface

ASSUME InterfacesAssumption == Interfaces \subseteq Nat
ASSUME NetworksAssumption ==
  Networks \subseteq [carrier: SUBSET Interfaces, dhcp: SUBSET Interfaces,
                      reach: SUBSET Interfaces]
ASSUME MaxLossesAssumption == MaxLosses \in Nat
ASSUME MaxPassesAssumption == MaxPasses \in Nat
ASSUME NamesAssumption ==
  /\ {NoFile, NoName, Any} \cap Interfaces = {}
  /\ Any # NoName

\* The options this module looks at.  `mac' is the interface with that address.
OptionRecords ==
  [interface: Interfaces \cup {Any, NoName}, mac: BOOLEAN, no_ip: BOOLEAN,
   static: BOOLEAN, config: {"remote", "local", "none"}, media: BOOLEAN,
   net_debug: BOOLEAN]
ASSUME BootOptionsAssumption == BootOptions \subseteq OptionRecords

VARIABLES
  opts, net,
  pc,
  interface,    \* INTERFACE
  visit,        \* interfaces the for loop has still to try
  iface,        \* iface
  counter,      \* pings of the gateway
  file,         \* the content of /tmp/dhcp-interface
  held,         \* the number of udhcpc processes of each interface with a lease
  seeking,      \* the number of those that have lost theirs and look for another
  routes,       \* interfaces with the address and the default route of a lease
  up,           \* interfaces whose link was set up
  losses,
  passes,       \* passes through the list of interfaces
  again,        \* history: a client that had lost its lease obtained another
  answered,     \* history: interfaces Contractor was pinged through in this boot
  media,        \* /media is mounted
  loaded,       \* initJobConfig has written the job configuration
  told          \* history: what Contractor heard in this boot

netVars == <<file, held, seeking, routes, up, losses, again>>
vars == <<opts, net, pc, interface, visit, iface, counter, netVars, passes,
          answered, media, loaded, told>>

Script == UNCHANGED <<opts, net, losses, again, passes, told>>
NetFrame == UNCHANGED netVars
LateFrame == UNCHANGED <<media, loaded>>
ClientsStay == UNCHANGED <<held, seeking>>

-----------------------------------------------------------------------------
(* The options.                                                            *)

\* net_debug: a shell, and the power is turned off.
NetDebug ==
  /\ pc = "start" /\ opts.net_debug
  /\ pc' = "off"
  /\ UNCHANGED <<interface, visit, iface, counter, answered>>
  /\ Script /\ NetFrame /\ LateFrame

\* INTERFACE is "any" unless the command line says otherwise; interface_mac is
\* looked up, and an unknown address is an error.
Parse ==
  /\ pc = "start" /\ ~opts.net_debug
  /\ \/ /\ ~opts.mac
        /\ interface' = IF opts.interface = NoName THEN Any ELSE opts.interface
        /\ pc' = IF opts.no_ip THEN "media" ELSE "address"
     \/ /\ opts.mac
        /\ interface' \in Interfaces
        /\ pc' = IF opts.no_ip THEN "media" ELSE "address"
     \/ /\ opts.mac
        /\ interface' = NoName
        /\ pc' = "prompt"
  /\ UNCHANGED <<visit, iface, counter, answered>>
  /\ Script /\ NetFrame /\ LateFrame

\* A static address cannot go on `any' (exit 1: no prompt).
Static ==
  /\ pc = "address" /\ opts.static
  /\ IF interface = Any
       THEN pc' = "dead" /\ UNCHANGED up
       ELSE pc' = "gateway" /\ up' = up \cup {interface}
  /\ counter' = 1
  /\ UNCHANGED <<interface, visit, iface, file, routes, answered>>
  /\ Script /\ ClientsStay /\ LateFrame

PingGateway ==
  /\ pc = "gateway"
  /\ counter' = counter + 1
  /\ \/ pc' = "media"
     \/ pc' = IF counter' > 10 THEN "prompt" ELSE "gateway"
  /\ UNCHANGED <<interface, visit, iface, answered>>
  /\ Script /\ NetFrame /\ LateFrame

\* The list of interfaces to try; any old /tmp/dhcp-interface is removed.
Dynamic ==
  /\ pc = "address" /\ ~opts.static
  /\ pc' = IF interface = Any /\ Interfaces = {} THEN "prompt" ELSE "look"
  /\ file' = NoFile
  /\ UNCHANGED <<interface, visit, iface, counter, routes, up, answered>>
  /\ Script /\ ClientsStay /\ LateFrame

-----------------------------------------------------------------------------
(* The DHCP loop.                                                          *)

InterfaceList == IF interface = Any THEN Interfaces ELSE {interface}

\* Mutant: the list is not gone through again.
LookOnce ==
  /\ pc = "look"
  /\ pc' = IF file = NoFile THEN "for" ELSE "take"
  /\ UNCHANGED <<opts, net, told, interface, visit, iface, counter, passes, answered>>
  /\ NetFrame /\ LateFrame

\* while [ ! -f /tmp/dhcp-interface ]
Look ==
  /\ pc = "look"
  /\ \/ /\ file = NoFile
        /\ passes < MaxPasses
        /\ passes' = passes + 1
        /\ visit' = InterfaceList
        /\ pc' = "for"
     \/ /\ file # NoFile
        /\ pc' = "take"
        /\ UNCHANGED <<visit, passes>>
  /\ UNCHANGED <<opts, net, told, interface, iface, counter, answered>>
  /\ NetFrame /\ LateFrame

\* The next interface is brought up; with no link in 30 s it is taken down.
TryInterface ==
  /\ pc = "for"
  /\ \E i \in visit :
       /\ \A j \in visit : i <= j
       /\ iface' = i
       /\ visit' = visit \ {i}
       /\ IF i \in net.carrier
            THEN pc' = "dhcp" /\ up' = up \cup {i} /\ UNCHANGED routes
            ELSE pc' = "for" /\ up' = up \ {i} /\ routes' = routes \ {i}
  /\ UNCHANGED <<interface, counter, file, answered>>
  /\ Script /\ ClientsStay /\ LateFrame

ForDone ==
  /\ pc = "for" /\ visit = {}
  /\ pc' = "look"
  /\ UNCHANGED <<interface, visit, iface, counter, answered>>
  /\ Script /\ NetFrame /\ LateFrame

\* udhcpc --now: one more client, which flushes the interface (its script:
\* `deconfig') and goes on in the background once it has a lease (`bound'); with
\* no lease it exits with an error, which ends do_task.
RunUdhcpc ==
  /\ pc = "dhcp"
  /\ IF iface \in net.dhcp
       THEN /\ held' = [held EXCEPT ![iface] = @ + 1]
            /\ routes' = routes \cup {iface}
            /\ file' = iface
            /\ pc' = "leased"
       ELSE /\ file' = IF file = iface THEN NoFile ELSE file
            /\ routes' = routes \ {iface}
            /\ pc' = "dead"
            /\ UNCHANGED held
  /\ UNCHANGED <<interface, visit, iface, counter, seeking, up, answered>>
  /\ Script /\ LateFrame

\* nslookup and ping go by the default route, that of any interface with a lease.
Reaches(i) == i \in routes \cap net.reach
Pings ==
  /\ \E i \in routes : Reaches(i) /\ answered' = answered \cup {i}
  /\ pc' = "look"
  /\ UNCHANGED file

\* Mutant: the file is not removed when the ping fails.
CheckContractorKeeping ==
  /\ pc = "leased" /\ file # NoFile
  /\ \/ opts.config # "remote" /\ pc' = "look" /\ UNCHANGED <<file, answered>>
     \/ opts.config = "remote" /\ Pings
     \/ /\ opts.config = "remote"
        /\ ~(routes # {} /\ \A i \in routes : Reaches(i))
        /\ pc' = "drop"
        /\ UNCHANGED <<file, answered>>
  /\ UNCHANGED <<interface, visit, iface, counter, routes, up>>
  /\ Script /\ ClientsStay /\ LateFrame

\* [ -f /tmp/dhcp-interface ], and for a remote configuration nslookup and ping.
CheckContractor ==
  /\ pc = "leased" /\ file # NoFile
  /\ \/ opts.config # "remote" /\ pc' = "look" /\ UNCHANGED <<file, answered>>
     \/ opts.config = "remote" /\ Pings
     \/ /\ opts.config = "remote"
        /\ ~(routes # {} /\ \A i \in routes : Reaches(i))
        /\ pc' = "drop"
        /\ file' = NoFile
        /\ UNCHANGED answered
  /\ UNCHANGED <<interface, visit, iface, counter, routes, up>>
  /\ Script /\ ClientsStay /\ LateFrame

LeaseGone ==
  /\ pc = "leased" /\ file = NoFile
  /\ pc' = "drop"
  /\ UNCHANGED <<interface, visit, iface, counter, answered>>
  /\ Script /\ NetFrame /\ LateFrame

\* Mutant: the interface is left as it is.
DropNothing ==
  /\ pc = "drop"
  /\ pc' = "for"
  /\ UNCHANGED <<interface, visit, iface, counter, answered>>
  /\ Script /\ NetFrame /\ LateFrame

\* The address is flushed and the link taken down.  kill is given the user of the
\* client, fails, and `|| true' goes on: the client stays, with its lease.
DropInterface ==
  /\ pc = "drop"
  /\ routes' = routes \ {iface}
  /\ up' = up \ {iface}
  /\ pc' = "for"
  /\ UNCHANGED <<interface, visit, iface, counter, file, answered>>
  /\ Script /\ ClientsStay /\ LateFrame

\* INTERFACE=$( cat /tmp/dhcp-interface ), which fails if the lease was lost
\* since the loop looked.
Take ==
  /\ pc = "take"
  /\ IF file = NoFile THEN pc' = "dead" /\ UNCHANGED interface
                      ELSE pc' = "media" /\ interface' = file
  /\ UNCHANGED <<visit, iface, counter, answered>>
  /\ Script /\ NetFrame /\ LateFrame

\* udhcpc by itself: a lease is lost (`deconfig', which sets the link up), whatever
\* do_task has done to the interface since, and another obtained (`bound').
ClientFrame == UNCHANGED <<opts, net, pc, interface, visit, iface, counter,
                           passes, answered, media, loaded, told>>

LoseLease(i) ==
  /\ held[i] > 0
  /\ losses < MaxLosses
  /\ losses' = losses + 1
  /\ held' = [held EXCEPT ![i] = @ - 1]
  /\ seeking' = [seeking EXCEPT ![i] = @ + 1]
  /\ routes' = routes \ {i}
  /\ up' = up \cup {i}
  /\ file' = IF file = i THEN NoFile ELSE file
  /\ UNCHANGED again /\ ClientFrame

RegainLease(i) ==
  /\ seeking[i] > 0 /\ i \in up \cap net.carrier
  /\ seeking' = [seeking EXCEPT ![i] = @ - 1]
  /\ held' = [held EXCEPT ![i] = @ + 1]
  /\ routes' = routes \cup {i}
  /\ file' = i
  /\ again' = TRUE
  /\ UNCHANGED <<up, losses>> /\ ClientFrame

-----------------------------------------------------------------------------
(* The task.                                                               *)

Late == UNCHANGED <<interface, visit, iface, counter, answered>> /\ NetFrame

MountMedia ==
  /\ pc = "media"
  /\ \/ /\ media' = opts.media
        /\ pc' = "config"
     \/ /\ opts.media
        /\ pc' = "prompt"
        /\ UNCHANGED media
  /\ UNCHANGED loaded
  /\ Script /\ Late

\* Mutant: no address, and on to the job configuration.
ConfigSourceNoCheck ==
  /\ pc = "config"
  /\ pc' \in {"load", "prompt"}
  /\ Script /\ Late /\ LateFrame

\* A remote configuration needs an address, a local one a readable file.
ConfigSource ==
  /\ pc = "config"
  /\ \/ /\ opts.config = "remote" => ~opts.no_ip
        /\ pc' = "load"
     \/ /\ opts.config = "remote" => opts.no_ip
        /\ opts.config # "none"
        /\ pc' = "prompt"
  /\ Script /\ Late /\ LateFrame

\* initJobConfig; a failure is an error.
LoadConfig ==
  /\ pc = "load"
  /\ \/ loaded' = TRUE /\ pc' = "task"
     \/ UNCHANGED loaded /\ pc' = "prompt"
  /\ UNCHANGED media
  /\ Script /\ Late

\* /do_task and its exit code: 20, 10, 0, another one.
RunTask ==
  /\ pc = "task"
  /\ pc' \in {"reboot", "prompt", "off", "alert"}
  /\ Script /\ Late /\ LateFrame

\* signalAlert; `set -e' is on again.
SignalAlert ==
  /\ pc = "alert"
  /\ \/ pc' = "prompt" /\ told' = told \cup {"alert"}
     \/ pc' = "dead" /\ told' \in {told, told \cup {"alert"}}
  /\ UNCHANGED <<opts, net, passes>> /\ Late /\ LateFrame

Booted ==
  /\ pc' = "start"
  /\ interface' = NoName /\ visit' = {} /\ iface' = NoName /\ counter' = 0
  /\ file' = NoFile /\ routes' = {} /\ up' = {}
  /\ held' = [i \in Interfaces |-> 0] /\ seeking' = [i \in Interfaces |-> 0]
  /\ losses' = 0 /\ passes' = 0 /\ again' = FALSE
  /\ answered' = {} /\ media' = FALSE /\ loaded' = FALSE /\ told' = {}
  /\ opts' \in BootOptions
  /\ UNCHANGED net

Reboot == pc = "reboot" /\ Booted

\* The prompt of error_happened: R or P.
OperatorReboots == pc = "prompt" /\ Booted
OperatorPowersOff ==
  /\ pc = "prompt"
  /\ pc' = "off"
  /\ Script /\ Late /\ LateFrame

-----------------------------------------------------------------------------

Init ==
  /\ opts \in BootOptions
  /\ net \in Networks
  /\ pc = "start"
  /\ interface = NoName /\ visit = {} /\ iface = NoName /\ counter = 0
  /\ file = NoFile /\ routes = {} /\ up = {}
  /\ held = [i \in Interfaces |-> 0] /\ seeking = [i \in Interfaces |-> 0]
  /\ losses = 0 /\ passes = 0 /\ again = FALSE
  /\ answered = {} /\ media = FALSE /\ loaded = FALSE /\ told = {}

DoTask ==
  \/ NetDebug \/ Parse \/ Static \/ PingGateway \/ Dynamic
  \/ Look \/ TryInterface \/ ForDone \/ RunUdhcpc \/ CheckContractor
  \/ LeaseGone \/ DropInterface \/ Take
  \/ MountMedia \/ ConfigSource \/ LoadConfig \/ RunTask \/ SignalAlert \/ Reboot

Operator == OperatorReboots \/ OperatorPowersOff

Next ==
  \/ DoTask \/ Operator
  \/ \E i \in Interfaces : LoseLease(i) \/ RegainLease(i)

\* do_task does not stop by itself (its shells are left by the operator).
Spec == Init /\ [][Next]_vars /\ WF_vars(DoTask)

-----------------------------------------------------------------------------

Places == {"start", "address", "gateway", "look", "for", "dhcp", "leased", "drop",
           "take", "media", "config", "load", "task", "alert", "reboot", "prompt",
           "off", "dead"}

TypeOK ==
  /\ opts \in BootOptions
  /\ net \in Networks
  /\ pc \in Places
  /\ interface \in Interfaces \cup {Any, NoName}
  /\ visit \subseteq Interfaces
  /\ iface \in Interfaces \cup {NoName}
  /\ counter \in 0..11
  /\ file \in Interfaces \cup {NoFile}
  /\ held \in [Interfaces -> 0..MaxPasses]
  /\ seeking \in [Interfaces -> 0..MaxPasses]
  /\ routes \subseteq Interfaces
  /\ up \subseteq Interfaces
  /\ losses \in 0..MaxLosses
  /\ passes \in 0..MaxPasses
  /\ again \in BOOLEAN
  /\ answered \subseteq Interfaces
  /\ media \in BOOLEAN
  /\ loaded \in BOOLEAN
  /\ told \subseteq {"alert"}

Searching == pc \in {"look", "for", "dhcp", "leased", "drop", "take"}
Searched ==
  /\ pc \in {"media", "config", "load", "task", "alert", "reboot"}
  /\ ~opts.no_ip /\ ~opts.static

\* The interface do_task goes on with is one Contractor was pinged through in this
\* boot, whatever leases were lost while it searched, as long as no client that
\* had lost its lease has obtained another: that client writes the file again.
TakenAnswered ==
  Searched /\ opts.config = "remote" /\ ~again => interface \in answered

\* README.rst:143, `interface': any takes an interface that is successful at
\* pinging.  Not so once the client of an interface that was dropped obtains a
\* lease again between the ping and the next look at the file (run BootStray).
TakenPinged == Searched /\ opts.config = "remote" => interface \in answered

\* The interfaces that were tried and dropped keep neither the address nor the
\* default route of their lease, which would lead the running task astray, and
\* are down unless a client of theirs has lost its lease since; again as long as
\* none has obtained another.  (Their clients are there all the while.)
OthersDown ==
  Searched /\ ~again => /\ routes \subseteq {interface}
                        /\ losses = 0 => up \subseteq {interface}

\* The disk's own do_task runs only on a machine with its job configuration, and
\* the media it asked for; what comes after it relies on the same.
TaskReady ==
  pc \in {"task", "alert", "reboot"} =>
    loaded /\ media = opts.media /\ (opts.config = "remote" => ~opts.no_ip)

\* If every interface with a link has a DHCP server and one of them leads to
\* Contractor, the search comes to an end, lost leases or not.
GoodNetwork ==
  LET linked == InterfaceList \cap net.carrier IN
  linked \subseteq net.dhcp /\ linked \cap net.reach # {}
SearchEnds == pc = "look" /\ GoodNetwork ~> ~Searching

=============================================================================
