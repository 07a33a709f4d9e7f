-------------------------------- MODULE Inventory --------------------------------
(***************************************************************************)
(* What bootstrap learns of a machine beside its drives, and reports with  *)
(* setIdMap: the tables of the BIOS and the PCI devices                    *)
(* (src/libhardware/libhardware.py), the management controller             *)
(* (disks/bootstrap/root/platforms.py), the neighbours on the network      *)
(* (lib.py), and the interfaces they are put together with (bootstrap.py). *)
(*                                                                         *)
(* The numbers in the name of a neighbour's port are its name.  lldpd      *)
(* hears of the neighbours while it is asked.  A text of the VPD has an id *)
(* and a length, and no \0 within; of what is read of it, each letter is   *)
(* the device that wrote it.                                               *)
(***************************************************************************)
EXTENDS Integers, Sequences, FiniteSets, SequencesExt

CONSTANTS
  Tables,       \* entries of the BIOS, sequences of [group, type, name]
  Buses,        \* the PCI devices of a machine, in order, each the texts of its VPD by slot
  ListSize,     \* ENTRY_LIST_SIZE, for the VPD
  Interfaces,   \* in /sys/class/net
  Neighbours,   \* interfaces lldpd may hear on
  PortNames,
  MaxWaits      \* 3, how often silence is waited through

ASSUME InventoryAssumption ==
  /\ \A b \in Buses :
       /\ b \in Seq(ToSet(b))
       /\ \A k \in DOMAIN b : \A s \in DOMAIN b[k] :
            s \in 1..ListSize /\ b[k][s].id # "" /\ b[k][s].length \in 0..255
  /\ ListSize \in Nat /\ MaxWaits \in Nat

VARIABLES
  survey,       \* "hardware", "platform", "lldp", "network", "reported", "exit1"
  dmi,          \* the entries of the BIOS
  bus,
  vpdList,      \* vpd_entry_list: the id in each slot, and who wrote each letter of its value
  pci,          \* what is reported of the devices so far
  devices,      \* what the machine has of "ipmi0", "host interface" and "mei0"
  platform,
  waits, heard, \* what lldpd has heard, by interface
  lldp,         \* what getLLDP returns, by interface
  network       \* the interfaces that are reported, with what is known of them

inventoryVars == <<survey, dmi, bus, vpdList, pci, devices, platform, waits, heard, lldp, network>>

NoEntry == [id |-> "", by |-> <<>>]

InventoryInit ==
  /\ survey = "hardware"
  /\ dmi \in Tables /\ bus \in Buses
  /\ vpdList = [s \in 1..ListSize |-> NoEntry] /\ pci = <<>>
  /\ devices \in SUBSET {"ipmi0", "host interface", "mei0"} /\ platform = "unset"
  /\ waits = 0 /\ heard = <<>> /\ lldp = <<>> /\ network = <<>>

-----------------------------------------------------------------------------
(* libhardware.                                                            *)

Typed(entries) == {k \in DOMAIN entries : entries[k].type # ""}
Named(entries, g) == {k \in Typed(entries) : entries[k].group = g}

\* dmiInfo: a record for each group, under the type of its first entry; an entry
\* without a type is left out.
DMIInfo(entries) ==
  {LET first == CHOOSE k \in Named(entries, g) : \A l \in Named(entries, g) : k <= l
   IN  [type |-> entries[first].type, group |-> g, names |-> {entries[k].name : k \in Named(entries, g)}]
     : g \in {entries[k].group : k \in Typed(entries)}}

\* An item of n letters is written over the value of a slot, and no \0 behind it:
\* what an older value had more of stays.
Over(value, n, k) ==
  LET end == IF n >= Len(value) THEN n ELSE Len(value)
  IN  [i \in 1..end |-> IF i <= n THEN k ELSE value[i]]

VPDEntry(old, text, k) == [id |-> text.id, by |-> Over(old.by, text.length, k)]

\* Mutant: not even the first slot is cleared.
FilledOver(list, k) ==
  [s \in DOMAIN list |-> IF s \in DOMAIN bus[k] THEN VPDEntry(list[s], bus[k][s], k) ELSE list[s]]

\* getVPDInfo clears the first slot and no other; an item that is no text takes
\* a slot, and is not written to it.
Filled(list, k) ==
  LET Old(s) == IF s = 1 THEN NoEntry ELSE list[s]
  IN  [s \in DOMAIN list |-> IF s \in DOMAIN bus[k] THEN VPDEntry(Old(s), bus[k][s], k) ELSE Old(s)]

SlotsInUse(list) == [s \in {s \in DOMAIN list : list[s].id # ""} |-> list[s]]

\* pciInfo, one device; the whole list is gone through, whatever the count says.
\* A VPD that cannot be read ends bootstrap.
ReadDevice ==
  /\ survey = "hardware" /\ Len(pci) < Len(bus)
  /\ LET k == Len(pci) + 1
     IN  /\ vpdList' = Filled(vpdList, k)
         /\ \/ pci' = Append(pci, SlotsInUse(vpdList')) /\ UNCHANGED survey
            \/ bus[k] # <<>> /\ survey' = "exit1" /\ UNCHANGED pci
  /\ UNCHANGED <<dmi, bus, devices, platform, waits, heard, lldp, network>>

\* getPlatform.
GetPlatform ==
  /\ survey = "hardware" /\ Len(pci) = Len(bus)
  /\ platform' = IF "ipmi0" \in devices THEN "IPMI"
                 ELSE IF "host interface" \in devices THEN "RedFish"
                 ELSE IF "mei0" \in devices THEN "AMT" ELSE "Unknown"
  /\ survey' = "lldp"
  /\ UNCHANGED <<dmi, bus, vpdList, pci, devices, waits, heard, lldp, network>>

-----------------------------------------------------------------------------
(* The neighbours.                                                         *)

Hear ==
  /\ survey = "lldp"
  /\ \E i \in Neighbours \ DOMAIN heard, p \in PortNames :
       heard' = [j \in DOMAIN heard \cup {i} |-> IF j = i THEN p ELSE heard[j]]
  /\ UNCHANGED <<survey, dmi, bus, vpdList, pci, devices, platform, waits, lldp, network>>

\* slot, port and subport.
PortOf(name) ==
  CASE Len(name) = 1 -> <<1, name[1], 0>>
    [] Len(name) = 2 -> <<name[1], name[2], 0>>
    [] Len(name) = 3 -> name

\* What was heard by the first time that anything was; more than three numbers
\* end bootstrap.
AskLLDP ==
  /\ survey = "lldp"
  /\ IF DOMAIN heard # {}
       THEN IF \E i \in DOMAIN heard : Len(heard[i]) > 3
              THEN survey' = "exit1" /\ UNCHANGED <<waits, lldp>>
              ELSE survey' = "network" /\ lldp' = [i \in DOMAIN heard |-> PortOf(heard[i])] /\ UNCHANGED waits
       ELSE IF waits >= MaxWaits
              THEN survey' = "network" /\ UNCHANGED <<waits, lldp>>
              ELSE waits' = waits + 1 /\ UNCHANGED <<survey, lldp>>
  /\ UNCHANGED <<dmi, bus, vpdList, pci, devices, platform, heard, network>>

-----------------------------------------------------------------------------
(* What is reported.                                                       *)

\* getNetwork of the platforms.
PlatformNetwork == IF platform = "IPMI" THEN {"ipmi"} ELSE {}

\* The interface of the boot is there whether or not it was found; a neighbour
\* counts only on an interface that was.
Report ==
  /\ survey = "network"
  /\ \E primary \in Interfaces \cup {"other"} :
       LET found == Interfaces \cup PlatformNetwork
       IN  network' = [i \in found \cup {primary} |->
                         [lldp |-> IF i \in found \cap DOMAIN lldp THEN lldp[i] ELSE <<>>, primary |-> i = primary]]
  /\ survey' = "reported"
  /\ UNCHANGED <<dmi, bus, vpdList, pci, devices, platform, waits, heard, lldp>>

InventoryNext == ReadDevice \/ GetPlatform \/ Hear \/ AskLLDP \/ Report

InventorySpec == InventoryInit /\ [][InventoryNext]_inventoryVars

-----------------------------------------------------------------------------

\* Every entry of the BIOS that has a type is in the record of its group, and a
\* group is one record.
TablesAreKept ==
  LET info == DMIInfo(dmi)
  IN  /\ \A k \in Typed(dmi) : \E r \in info : r.group = dmi[k].group /\ dmi[k].name \in r.names
      /\ \A r, s \in info : r.group = s.group => r = s

\* The devices up to the k-th that leave their mark on a slot for it; on the first
\* it is the k-th alone.
Writers(s, k) == {l \in 1..k : s \in DOMAIN bus[l] /\ (s = 1 => l = k)}

\* A slot has the id of the last device that wrote it, and each letter of its value
\* is of the last device that had as many.
WrittenLast(entry, s, k) ==
  /\ \E l \in Writers(s, k) : entry.id = bus[l][s].id /\ \A w \in Writers(s, k) : w <= l
  /\ \A i \in DOMAIN entry.by :
       /\ entry.by[i] \in Writers(s, k) /\ bus[entry.by[i]][s].length >= i
       /\ \A w \in Writers(s, k) : w > entry.by[i] => bus[w][s].length < i

\* Every text of a device is in what is reported of it, under its id and to its last
\* letter.
TextsAreTold(reported, k) ==
  \A s \in DOMAIN bus[k] :
    /\ s \in DOMAIN reported /\ reported[s].id = bus[k][s].id
    /\ \A i \in 1..bus[k][s].length : i \in DOMAIN reported[s].by /\ reported[s].by[i] = k

\* What is reported of a device holds its own VPD.  What else there is, slots and
\* the tails of values, is of the devices before it that wrote the slot last, which
\* getVPDInfo leaves there; the first slot has nothing of another device.
OwnVPDIsHeld ==
  \A k \in DOMAIN pci :
    /\ TextsAreTold(pci[k], k)
    /\ \A s \in DOMAIN pci[k] : WrittenLast(pci[k][s], s, k)

\* Contractor hears of every interface, of one of them as that of the boot, and
\* of a neighbour where it was heard, if any was within the time.
NetworkIsWhole ==
  survey = "reported" =>
    /\ Interfaces \subseteq DOMAIN network
    /\ \E i \in DOMAIN network : \A j \in DOMAIN network : network[j].primary <=> i = j
    /\ \A i \in DOMAIN network : network[i].lldp # <<>> => network[i].lldp = PortOf(heard[i])
    /\ DOMAIN heard = {} \/ DOMAIN lldp # {} \/ waits = MaxWaits

\* Contractor is told of the machine what its tables, its devices and its network
\* say (libhardware.py, bootstrap.py).
InventoryIsKept == TablesAreKept /\ OwnVPDIsHeld /\ NetworkIsWhole
=============================================================================
