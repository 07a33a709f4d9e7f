--------------------------------- MODULE Drives ---------------------------------
(***************************************************************************)
(* libdrive's DriveManager (src/libdrive/libdrive.py): the ports and       *)
(* drives of a machine, read from sysfs family by family while disks come  *)
(* and go, and what a Drive tells of itself.                               *)
(*                                                                         *)
(* A disk stands for its block device, and a directory of sysfs for the    *)
(* disks in it.  The listings of glob come in any order.  Of a MegaRAID    *)
(* card no more is here than what the code makes of it: the output of its  *)
(* CLI are bytes, which no pattern matches.                                *)
(***************************************************************************)
EXTENDS Integers, Sequences, FiniteSets, Functions

CONSTANTS
  Disks,          \* that may be attached
  IDEPortNames,   \* sequence
  Hosts,          \* the SCSI hosts, sorted by their place on the PCI bus
  SASHosts, ExcludedHosts, DoubleHosts,
  Controllers,    \* of NVMe
  Enclosures,     \* sequence of <<host, enclosure>>, one for each expander
  Slots,          \* of an enclosure
  Place,          \* of a disk, a record with its kind
  NoBlock,        \* the disks without a block device
  MaxPlugs,       \* bound on the disks that come and go
  NoDisk

\* Sysfs has every name once, and a controller every namespace.
ASSUME PlaceAssumption ==
  /\ \A d \in Disks : Place[d].kind \in {"ide", "scsi", "sas", "enclosure", "nvme"}
  /\ \A d, e \in Disks : /\ Place[d].kind = "nvme" /\ Place[e].kind = "nvme"
                        /\ Place[d].controller = Place[e].controller /\ Place[d].namespace = Place[e].namespace
                        => d = e
  /\ NoBlock \subseteq {d \in Disks : Place[d].kind = "enclosure"}
  /\ NoDisk \notin Disks
  /\ IsInjective(IDEPortNames) /\ IsInjective(Hosts)
  /\ Hosts \in Seq(Range(Hosts))
  /\ DOMAIN Enclosures \subseteq Int

VARIABLES
  attached,   \* disks
  plugs,
  cli,        \* of MegaRAID: not set, or what it does
  source,     \* of the ports that are read next
  ports,      \* _port_list
  drives,     \* _drive_list
  unknown,    \* _unknown_list
  present,    \* the disks attached ever since the scan began
  loads,      \* what can be read of a disk, by the times it was plugged in
  info        \* _info of the drives

drivesVars == <<attached, plugs, cli, source, ports, drives, unknown, present, loads, info>>

\* What is scanned after what.
After == [ide |-> "ata", ata |-> "nvme", nvme |-> "megaraid", megaraid |-> "enclosures",
          enclosures |-> "direct", direct |-> "scsi", scsi |-> "unknown"]

OnHost(h) == {d \in attached \ NoBlock : Place[d].kind # "ide" /\ Place[d].kind # "nvme" /\ Place[d].host = h}
Port(type, at, disk) == [type |-> type, at |-> at, disk |-> disk]
AnyOf(disks) == IF disks = {} THEN NoDisk ELSE CHOOSE d \in disks : TRUE

\* The disks that come first and second in a listing of them.
FirstTwo(disks) ==
  {pair \in (disks \cup {NoDisk}) \X (disks \cup {NoDisk}) :
     /\ pair[1] = NoDisk => disks = {}
     /\ pair[2] = NoDisk => disks \subseteq {pair[1]}
     /\ pair[1] = pair[2] => disks = {}}

-----------------------------------------------------------------------------
(* The ports of a family, for a listing of the disks of every host.        *)

IDEPorts ==
  {Port("IDE", k, AnyOf({d \in attached : Place[d].kind = "ide" /\ Place[d].name = IDEPortNames[k]}))
     : k \in DOMAIN IDEPortNames}

Width(h) == IF h \in DoubleHosts THEN 2 ELSE 1

ATAHosts == {k \in DOMAIN Hosts : Hosts[k] \notin SASHosts /\ Hosts[k] \notin ExcludedHosts}
HostsBefore(k) == {j \in ATAHosts : j < k}

\* Mutant: a host of two ports is counted as one.
ATANumberOfOne(k) == Cardinality(HostsBefore(k))

\* The number of the first port of a host.
ATANumber(k) == Cardinality(HostsBefore(k)) + Cardinality({j \in HostsBefore(k) : Hosts[j] \in DoubleHosts})

\* Of the disks behind a host only the first is taken, or the first two.
ATAPorts(listing) ==
  UNION {{Port("ATA", ATANumber(k) + n - 1, listing[k][n]) : n \in 1..Width(Hosts[k])} : k \in ATAHosts}

NVMEPorts ==
  {Port("NVME", <<Place[d].controller, Place[d].namespace>>, d) :
     d \in {d \in attached : Place[d].kind = "nvme" /\ Place[d].controller \in Controllers}}

\* A bay with a disk that has no block device goes by the generic device.  The
\* location has the host and the slot.
SASEnclosurePorts(k) ==
  LET host == Enclosures[k][1]
      enclosure == Enclosures[k][2]
  IN  {[type |-> "SAS", at |-> <<host, s>>, by |-> k,
        disk |-> AnyOf({d \in attached : Place[d].kind = "enclosure"
                                            /\ Place[d].enclosure = enclosure /\ Place[d].slot = s})] : s \in Slots}

SASDirectPorts ==
  {Port("SAS", <<Place[d].host, Place[d].phy>>, d) : d \in {d \in attached : Place[d].kind = "sas"}}

\* The location has the host and the target, not the logical unit.
SCSIPorts ==
  UNION {{Port("SCSI", <<h, Place[d].target>>, d) : d \in OnHost(h)} : h \in {Hosts[k] : k \in DOMAIN Hosts}}

Listings ==
  {l \in [ATAHosts -> UNION {FirstTwo(OnHost(Hosts[k])) : k \in ATAHosts}] :
     \A k \in ATAHosts : l[k] \in FirstTwo(OnHost(Hosts[k]))}

-----------------------------------------------------------------------------
(* The scan.                                                               *)

DrivesInit ==
  /\ attached \in SUBSET Disks
  /\ plugs = 0
  /\ cli \in {"unset", "fails", "silent", "lists"}
  /\ source = "ide"
  /\ ports = {} /\ drives = {} /\ unknown = {}
  /\ present = attached
  /\ loads = [d \in Disks |-> 0]
  /\ info = [d \in Disks |-> {}]

Plug ==
  /\ plugs < MaxPlugs
  /\ plugs' = plugs + 1
  /\ \E d \in Disks :
       /\ attached' = IF d \in attached THEN attached \ {d} ELSE attached \cup {d}
       /\ present' = present \ {d}
       /\ loads' = [loads EXCEPT ![d] = @ + 1]
  /\ UNCHANGED <<cli, source, ports, drives, unknown, info>>

BlockList == {e.disk : e \in drives}

\* The loop over the ports of a family: whoever comes first has the block device.
Claim(new) ==
  /\ ports' = ports \cup new
  /\ drives' = drives \cup {[disk |-> p.disk, port |-> p] :
                              p \in {p \in new : p.disk # NoDisk /\ p.disk \notin BlockList}}

ScanPorts ==
  /\ \/ source = "ide" /\ Claim(IDEPorts)
     \/ source = "ata" /\ \E listing \in Listings : Claim(ATAPorts(listing))
     \/ source = "nvme" /\ Claim(NVMEPorts)
     \/ source = "direct" /\ Claim(SASDirectPorts)
     \/ source = "scsi" /\ Claim(SCSIPorts)
  /\ source' = After[source]
  /\ UNCHANGED <<attached, plugs, cli, unknown, present, loads, info>>

\* One enclosure after the other: the ports of two expanders of one are the same.
ScanEnclosures ==
  /\ source = "enclosures"
  /\ LET claimed == UNION {SASEnclosurePorts(k) : k \in DOMAIN Enclosures}
         first == {p \in claimed : \A q \in claimed : q.disk = p.disk => p.by <= q.by}
     IN  /\ ports' = ports \cup claimed
         /\ drives' = drives \cup {[disk |-> p.disk, port |-> p] :
                                     p \in {p \in first : p.disk # NoDisk /\ p.disk \notin BlockList}}
  /\ source' = After[source]
  /\ UNCHANGED <<attached, plugs, cli, unknown, present, loads, info>>

\* Without a CLI, and with one that lists nothing, there are no ports; a line
\* ends the scan, as a CLI that fails does.
ScanMegaRAID ==
  /\ source = "megaraid"
  /\ source' = IF cli \in {"unset", "silent"} THEN After[source] ELSE "raised"
  /\ UNCHANGED <<attached, plugs, cli, ports, drives, unknown, present, loads, info>>

\* Namespaces of NVMe end in a digit, like the partitions that are meant.
ListUnknown ==
  /\ source = "unknown"
  /\ unknown' = {d \in attached \ NoBlock : Place[d].kind # "nvme"} \ BlockList
  /\ source' = "done"
  /\ UNCHANGED <<attached, plugs, cli, ports, drives, present, loads, info>>

Rescan ==
  /\ source \in {"done", "raised"}
  /\ source' = "ide"
  /\ ports' = {} /\ drives' = {} /\ unknown' = {}
  /\ present' = attached
  /\ info' = [d \in Disks |-> {}]
  /\ UNCHANGED <<attached, plugs, cli, loads>>

-----------------------------------------------------------------------------
(* What a drive tells.                                                     *)

Item(d, name) == [name |-> name, of |-> loads[d]]
ByProtocol == {"protocol", "version"}
Others == {"serial", "model", "capacity"}

\* A drive that tells its protocol but no proper text is left with half of its
\* items, and is not asked again.
Load(d) ==
  /\ info[d] = {}
  /\ \E names \in {ByProtocol, ByProtocol \cup Others} :
       info' = [info EXCEPT ![d] = {Item(d, n) : n \in names}]

\* One drive is asked between two scans: a bound of the model.
LoadInfo ==
  /\ source = "done"
  /\ \E d \in BlockList \cap attached : (\A e \in Disks \ {d} : info[e] = {}) /\ Load(d)
  /\ UNCHANGED <<attached, plugs, cli, source, ports, drives, unknown, present, loads>>

DrivesNext ==
  \/ Plug \/ ScanPorts \/ ScanEnclosures \/ ScanMegaRAID \/ ListUnknown \/ Rescan \/ LoadInfo

-----------------------------------------------------------------------------

\* A block device is one drive: the block_map of the installer loses none.  No
\* two ports have one location, by which its port_map has them, but those of SAS,
\* whose location does not name the enclosure, and of the units of one SCSI
\* target.  What a drive tells of itself is of one load.
DrivesAreWhole ==
  /\ \A e, f \in drives : e.disk = f.disk => e = f
  /\ \A p, q \in ports :
       p.type = q.type /\ p.at = q.at /\ p.type \notin {"SAS", "SCSI"} => p = q
  /\ \A e \in drives : e.port \in ports /\ e.port.disk = e.disk
  /\ \A d \in Disks : \A i, j \in info[d] : i.of = j.of

\* The namespaces of a controller behind more bridges than the scan looks behind.
Hidden == {d \in Disks : Place[d].kind = "nvme" /\ Place[d].controller \notin Controllers}

\* A disk that was attached all the time is a drive, or an unknown one, at the
\* end of a scan, whatever other disks came and went in between.
NothingIsLost ==
  source = "done" => present \ (NoBlock \cup Hidden) \subseteq BlockList \cup unknown

\* After any order of plugging and scanning, the drives that are listed are those
\* of the machine, each at a place of its own (DriveManager of libdrive.py).
ScansAreTrue == DrivesAreWhole /\ NothingIsLost
=============================================================================
