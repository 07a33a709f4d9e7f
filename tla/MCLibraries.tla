----------------------------- MODULE MCLibraries -----------------------------
(***************************************************************************)
(* The libraries the programs of the disks call, small instances of them,  *)
(* one library at a time: `library` is the one that runs, the others rest  *)
(* in one of their initial states.                                         *)
(***************************************************************************)
EXTENDS Drives, CInP, Handlers, Bios, Inventory, NewSystem, Templates, Health, Scopes

VARIABLE library

-----------------------------------------------------------------------------
(* A machine with a disk at every kind of place, two expanders of one      *)
(* enclosure, and a host of two ports.                                     *)

DrivePlaces ==
  [hda |-> [kind |-> "ide", name |-> "ide0"],
   sda |-> [kind |-> "scsi", host |-> "ata0", target |-> 0],
   sdb |-> [kind |-> "scsi", host |-> "ata0", target |-> 1],
   sdc |-> [kind |-> "scsi", host |-> "ata1", target |-> 0],
   usb |-> [kind |-> "scsi", host |-> "usb0", target |-> 0],
   unit |-> [kind |-> "scsi", host |-> "usb0", target |-> 0],
   bay |-> [kind |-> "enclosure", host |-> "sas0", target |-> 0, enclosure |-> "e", slot |-> 0],
   sg |-> [kind |-> "enclosure", host |-> "sas0", target |-> 1, enclosure |-> "e", slot |-> 1],
   phy |-> [kind |-> "sas", host |-> "sas0", target |-> 2, phy |-> 0],
   nvme |-> [kind |-> "nvme", controller |-> 0, namespace |-> 2]]
DriveDisks == DOMAIN DrivePlaces
DriveIDE == <<"ide0">>
DriveHosts == <<"ata0", "ata1", "usb0", "sas0">>
DriveEnclosures == <<<<"sas0", "e">>, <<"sas0", "e">>>>

DrivesStart ==
  /\ DrivesInit
  /\ IF library = "drives"
       THEN attached \in {DriveDisks, DriveDisks \ {"sda", "bay"}}
       ELSE attached = {} /\ cli = "unset"

-----------------------------------------------------------------------------
(* Requests with every combination of parts, and a list of three pages.    *)

RootPath == <<"api", "v1">>
SomeNamespaces == {<<>>, <<"Foreman">>, <<"Foreman", "Sub">>}
SomeIds == {<<>>, <<"1">>, <<"1", "2">>, <<"1", "", "2">>, <<"", "1">>}
SomeWords == {"api", "v1", "Foreman", "Sub", "BaseJob", "signal", "1", "2"}
SomeRecords == <<"r1", "r2", "r3", "r4", "r5">>
MoreRecords == <<"n1", "n2">>
Retries == {0, 2, -1}

-----------------------------------------------------------------------------
(* Archives of handlers, and machines with a board of Supermicro or not.   *)

SomeCards == <<"card1", "card2">>
SomePlugins == {{}, {"saa"}, {"saa", "mellanox"}, {"afudos", "saa"}, {"megaraid"}}

-----------------------------------------------------------------------------
(* Three items, the second shown while the first is on, and orders of two  *)
(* classes, one of them with three devices.                                *)

BiosItems == <<"raid", "level", "quiet">>
BiosWanted == [raid |-> "on", level |-> "1", quiet |-> "on"]
BiosValues == {"on", "1"}
BiosDepends == [raid |-> "raid", level |-> "raid", quiet |-> "quiet"]
Net(d) == <<"Network", d>>
Hard(d) == <<"Harddrive", d>>
Entries == {Net("eth0"), Hard("sda"), Hard("sdb"), Hard("sdc")}
EntryOrder == <<Net("eth0"), Hard("sda"), Hard("sdb"), Hard("sdc")>>
Orders == {<<>>, EntryOrder, <<Hard("sdc"), Hard("sdb"), Hard("sda"), Net("eth0")>>,
           <<<<"Harddrive">>, Net("eth0")>>, <<Net("eth0"), <<"Harddrive">>, Hard("sdc")>>,
           <<Hard("sdb"), <<"Network">>>>, <<Hard("sdb"), <<"Network">>, Hard("sda")>>, <<Net("eth1")>>}

-----------------------------------------------------------------------------
(* Tables with a type in two groups, and cards with a VPD, with none, and  *)
(* with one that leaves out the first slot.                                *)

Entry(g, t, n) == [group |-> g, type |-> t, name |-> n]
SomeTables == {<<>>, <<Entry(1, "Board", "Product Name"), Entry(1, "Board", "Serial"), Entry(2, "", "Filler"),
                       Entry(3, "CPU", "Socket"), Entry(4, "CPU", "Socket")>>}
Text(id, length) == [id |-> id, length |-> length]
SomeBuses ==
  {<<>>,
   <<<<Text("ID", 2), Text("PN", 3), Text("SN", 1)>>, <<>>, <<Text("ID", 1), Text("SN", 1)>>,
     [s \in {2} |-> Text("PN", 2)], <<Text("ID", 1), Text("PN", 0), Text("SN", 2)>>>>,
   <<<<>>, <<Text("ID", 2)>>, <<>>>>}
SomePorts == {<<7>>, <<1, 7>>, <<1, 0, 7>>, <<1, 0, 7, 2>>}

-----------------------------------------------------------------------------
(* Profiles of the four kinds there are, and users that share a group.     *)

Ubuntu == [bootstrap |-> "debbootstrap", manager |-> "apt", live |-> FALSE, first |-> <<>>,
           sources |-> <<"sources">>, baseTemplates |-> <<"netplan", "hosts">>, baseCmd |-> TRUE,
           base |-> {"standard"}, prebase |-> <<"timezone">>, packages |-> <<<<"", "console">>>>]
CentOS7 == [bootstrap |-> "redhatimg", manager |-> "yum", live |-> TRUE, first |-> <<"yum", "release">>,
            sources |-> <<"repos">>, baseTemplates |-> <<"hosts network">>, baseCmd |-> FALSE,
            base |-> {"Base"}, prebase |-> <<"">>, packages |-> <<<<"", "dhclient">>>>]
CentOS6 == [CentOS7 EXCEPT !.live = FALSE]
Cloud == [bootstrap |-> "tarxz", manager |-> "apt", live |-> FALSE, first |-> <<>>,
          sources |-> <<"">>, baseTemplates |-> <<"cloud-init">>, baseCmd |-> FALSE,
          base |-> {}, prebase |-> <<"">>, packages |-> <<>>]
SomeProfiles == {Ubuntu, CentOS7, CentOS6, Cloud}
NothingAdded == [repos |-> <<>>, packages |-> <<>>, users |-> <<>>, script |-> FALSE]
Repo(type, uri, file) == [type |-> type, uri |-> uri, file |-> file]
User(name, group, sudo) == [name |-> name, group |-> group, sudo |-> sudo]
SomeValues ==
  {NothingAdded,
   [repos |-> <<Repo("apt", "k1", ""), Repo("yum", "k2", "f2"), Repo("apt", "k1", "f1"), Repo("apt", "", "f0"),
                Repo("yum", "k2", "g2"), Repo("yum", "k4", ""), Repo("yum", "", "f0"), Repo("apt", "k3", "f3")>>,
    packages |-> <<<<"yum", "mc">>, <<"apt", "vim">>, <<"", "less">>>>,
    users |-> <<User("ann", "staff", TRUE), User("bob", "", TRUE)>>, script |-> FALSE],
   [NothingAdded EXCEPT !.script = TRUE],
   [NothingAdded EXCEPT !.users = <<User("ann", "staff", TRUE), User("bob", "staff", FALSE)>>],
   [NothingAdded EXCEPT !.packages = <<<<"", "ghost">>>>]}

-----------------------------------------------------------------------------
(* Two folders of files with a cache of two templates, dictionaries and a  *)
(* package below prefixes, and what was compiled before the files.         *)

BothFolders == Branches("file", <<"own", "shared">>)
TemplateEnvironments ==
  {[loader |-> BothFolders, size |-> 1, autoReload |-> TRUE, bytecode |-> "files", sources |-> Branches("function", <<"own">>)],
   [loader |-> PrefixLoader("p", Branches("dict", <<"own">>)) \o PrefixLoader("q", Branches("package", <<"shared">>)),
    size |-> -1, autoReload |-> TRUE, bytecode |-> "memcached", sources |-> BothFolders],
   [loader |-> Branches("modules", <<"">>) \o Branches("file", <<"own">>) \o Branches("zip", <<"shared">>),
    size |-> 2, autoReload |-> FALSE, bytecode |-> "none", sources |-> BothFolders]}
TemplateRequests == {<<<<"a">>>>, <<<<"b">>, <<".", "a">>>>, <<<<"p", "a">>, <<"q", "a">>>>, <<<<"..", "a">>>>}
TemplateStems == {<<"a">>, <<"b">>}
TemplateContent == [spot \in {"own", "shared"} \X TemplateStems |->
                     CASE spot = <<"own", <<"a">>>> -> <<"s1", "s2">>
                       [] spot = <<"own", <<"b">>>> -> <<"s3">>
                       [] spot = <<"shared", <<"a">>>> -> <<"s4", "bad">>
                       [] OTHER -> <<>>]
AnyCaller == Permutations(Callers)

-----------------------------------------------------------------------------
(* Drives whose counters are read, and drives that are not tested as they  *)
(* should: a SCSI drive, one of a type without a table, one of a MegaRAID. *)

HealthDrive(name, model, protocol, port) == [name |-> name, model |-> model, protocol |-> protocol, port |-> port]
HealthMachines ==
  {{},
   {HealthDrive("a", "st", "ATA", "SASslot"), HealthDrive("b", "hitachi", "ATA", "ATA")},
   {HealthDrive("a", "samsung", "ATA", "ATA"), HealthDrive("b", "other", "ATA", "SASslot")},
   {HealthDrive("a", "st", "SCSI", "SASslot"), HealthDrive("b", "intelssd", "NVME", "NVME")},
   {HealthDrive("a", "st", "ATA", "SASslot"), HealthDrive("b", "wd", "ATA", "MegaRAID")}}

-----------------------------------------------------------------------------
(* Templates of up to three statements: the second of every kind, with     *)
(* bodies that read and set, and with one more frame or branch in them.    *)

Out(name) == [kind |-> "out", name |-> name]
Put(name, value) == [kind |-> "set", name |-> name, value |-> <<value>>]
Branch(test, body, elifs, else) == [kind |-> "if", test |-> test, body |-> body, elifs |-> elifs, else |-> else]
Loop(items, body, else) == [kind |-> "for", name |-> "b", items |-> items, body |-> body, else |-> else]
FramesAround(bodies) ==
  {Loop(items, body, <<Out("a")>>) : items \in {0, 2}, body \in bodies}
  \cup {[kind |-> "with", name |-> "b", value |-> "a", body |-> body] : body \in bodies}
  \cup {[kind |-> "capture", name |-> "a", body |-> body] : body \in bodies}
  \cup {[kind |-> "filter", body |-> body] : body \in bodies}
  \cup {[kind |-> "block", scoped |-> scoped, body |-> body] : scoped \in BOOLEAN, body \in bodies}
BranchesAround(bodies) ==
  {Branch(test, body, elifs, else) :
     test \in BOOLEAN, body \in bodies, else \in {<<>>, <<Put("a", "5")>>},
     elifs \in {<<>>} \cup {<<Branch(other, <<Put("a", "4")>>, <<>>, <<>>)>> : other \in BOOLEAN}}
SomeBodies == {<<>>, <<Out("a")>>, <<Put("a", "1")>>, <<Out("b")>>, <<Put("b", "2")>>,
           <<Put("a", "3"), Out("a")>>, <<Out("a"), Put("a", "3")>>, <<Out("loop")>>}
WithinSome == FramesAround({<<Out("a")>>, <<Put("a", "3"), Out("a")>>, <<Out("loop")>>})
              \cup BranchesAround({<<Put("a", "3")>>, <<Out("a")>>})
Nested == {<<s>> : s \in WithinSome} \cup {<<Put("a", "6"), s>> : s \in WithinSome} \cup {<<s, Out("a")>> : s \in WithinSome}
MiddleOnes == FramesAround(SomeBodies \cup Nested) \cup BranchesAround(SomeBodies \cup Nested)
LeadingOnes == {Out("a"), Out("b"), Put("a", "7"), Put("b", "8")} \cup FramesAround({<<Out("a")>>})
TrailingOnes == {Out("a"), Put("a", "9")}
SomeStatements == <<LeadingOnes, MiddleOnes, TrailingOnes>>
SomeContexts == {<<>>, [a |-> <<"ca">>], [a |-> <<"ca">>, b |-> <<"cb">>]}

-----------------------------------------------------------------------------

Init ==
  /\ library \in {"drives", "cinp", "handlers", "bios", "inventory", "newSystem", "templates", "health", "scopes"}
  /\ DrivesStart
  /\ CInPInit /\ (library # "cinp" => records = <<>>)
  /\ HandlersInit /\ (library # "handlers" => board = "Supermicro" /\ plugins = {})
  /\ BiosInit
  /\ library # "bios" => /\ tool = "syscfg" /\ wantOrder = <<>> /\ setting = Wanted
                         /\ order = EntryOrder /\ legacy /\ password = "none"
  /\ InventoryInit
  /\ library # "inventory" => dmi = <<>> /\ bus = <<>> /\ devices = {}
  /\ NewSystemInit /\ (library # "newSystem" => profile = Cloud /\ valueMap = NothingAdded /\ image = {})
  /\ TemplatesInit /\ (library # "templates" => environment = (CHOOSE e \in Environments : TRUE) /\ store = [s \in Spots |-> 0])
  /\ HealthInit /\ (library # "health" => machine = {} /\ ~reports /\ lights = {})
  /\ ScopesInit /\ (library # "scopes" => variables = <<>>)

Next ==
  \/ /\ library = "drives" /\ DrivesNext
     /\ UNCHANGED <<library, cinpVars, handlersVars, biosVars, inventoryVars, newSystemVars,
                    templatesVars, healthVars, scopesVars>>
  \/ /\ library = "cinp" /\ CInPNext
     /\ UNCHANGED <<library, drivesVars, handlersVars, biosVars, inventoryVars, newSystemVars,
                    templatesVars, healthVars, scopesVars>>
  \/ /\ library = "handlers" /\ HandlersNext
     /\ UNCHANGED <<library, drivesVars, cinpVars, biosVars, inventoryVars, newSystemVars, templatesVars,
                    healthVars, scopesVars>>
  \/ /\ library = "bios" /\ BiosNext
     /\ UNCHANGED <<library, drivesVars, cinpVars, handlersVars, inventoryVars, newSystemVars,
                    templatesVars, healthVars, scopesVars>>
  \/ /\ library = "inventory" /\ InventoryNext
     /\ UNCHANGED <<library, drivesVars, cinpVars, handlersVars, biosVars, newSystemVars, templatesVars,
                    healthVars, scopesVars>>
  \/ /\ library = "newSystem" /\ NewSystemNext
     /\ UNCHANGED <<library, drivesVars, cinpVars, handlersVars, biosVars, inventoryVars, templatesVars,
                    healthVars, scopesVars>>
  \/ /\ library = "templates" /\ TemplatesNext
     /\ UNCHANGED <<library, drivesVars, cinpVars, handlersVars, biosVars, inventoryVars, newSystemVars,
                    healthVars, scopesVars>>
  \/ /\ library = "health" /\ HealthNext
     /\ UNCHANGED <<library, drivesVars, cinpVars, handlersVars, biosVars, inventoryVars, newSystemVars,
                    templatesVars, scopesVars>>
  \/ /\ library = "scopes" /\ ScopesNext
     /\ UNCHANGED <<library, drivesVars, cinpVars, handlersVars, biosVars, inventoryVars, newSystemVars,
                    templatesVars, healthVars>>

Spec == Init /\ [][Next]_<<library, drivesVars, cinpVars, handlersVars, biosVars, inventoryVars,
                           newSystemVars, templatesVars, healthVars, scopesVars>>

-----------------------------------------------------------------------------
(* What the libraries compute without keeping it is what it is defined to  *)
(* be: a name of a template has its value from where the template says,    *)
(* a URI is taken apart into the parts it was put together from, boot      *)
(* devices written class by class come in the order the machine boots in,  *)
(* and an order that is taken for the wanted one has the devices it names  *)
(* in their order, also where it names a class alone.                      *)
AlgorithmsAreRight == NamesAreTrue /\ URIsAreRead /\ OrderIsKept /\ OrderIsReached
=============================================================================
