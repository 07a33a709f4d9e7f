SPECIFICATION Spec
CONSTANTS
  Disks <- DriveDisks
  IDEPortNames <- DriveIDE
  Hosts <- DriveHosts
  SASHosts = {"sas0"}
  ExcludedHosts = {"usb0"}
  DoubleHosts = {"ata0"}
  Controllers = {0}
  Enclosures <- DriveEnclosures
  Slots = {0, 1}
  Place <- DrivePlaces
  NoBlock = {"sg"}
  MaxPlugs = 2
  NoDisk = NoDisk
  Root <- RootPath
  Namespaces <- SomeNamespaces
  Models = {"BaseJob"}
  Actions = {"signal"}
  IdLists <- SomeIds
  Words <- SomeWords
  RetryCounts <- Retries
  Records <- SomeRecords
  PageSize = 2
  ChunkSize = 1
  MaxTries = 4
  NewRecords <- MoreRecords
  Missing = Missing
  PluginSets <- SomePlugins
  Boards = {"Supermicro", "Intel"}
  Cards <- SomeCards
  HardDrives = {"sda"}
  KeptLines = 2
  MaxChatter = 2
  MaxNoise = 2
  Tools = {"syscfg", "sum1_3", "sum1_5"}
  Items <- BiosItems
  Wanted <- BiosWanted
  Values <- BiosValues
  DependsOn <- BiosDepends
  BootEntries <- Entries
  BootOrders <- Orders
  MaxAttempts = 5
  Tables <- SomeTables
  Buses <- SomeBuses
  ListSize = 4
  Interfaces = {"eth0", "eth1"}
  Neighbours = {"eth0", "eth9"}
  PortNames <- SomePorts
  MaxWaits = 3
  Profiles <- SomeProfiles
  ValueMaps <- SomeValues
  ImageFiles = {{}, {"hostname", "resolv"}, {"stub"}}
  TemplateFiles = {"repos", "sources", "netplan", "hosts", "timezone", "cloud-init"}
  Services = {"start", "service"}
  NoSuchPackage = {"ghost"}
  MaxRetries = 10
  Environments <- TemplateEnvironments
  Requests <- TemplateRequests
  Folders = {"own", "shared"}
  Stems <- TemplateStems
  Content <- TemplateContent
  Broken = {"bad"}
  Callers = {c1, c2}
  MaxEvents = 3
  Machines <- HealthMachines
  Attributes = {10, 197}
  RawValues = {0, 2, 3}
  MaxScans = 3
  Statements <- SomeStatements
  Contexts <- SomeContexts
  MaxStatements = 3
INVARIANTS
  AlgorithmsAreRight
  HealthIsTold
  TemplatesAreCurrent
  SystemIsWhole
  InventoryIsKept
  BiosIsAsWanted
  HandlersAreTrue
  ScansAreTrue
  AnswersAreTrue
SYMMETRY AnyCaller
CHECK_DEADLOCK FALSE
