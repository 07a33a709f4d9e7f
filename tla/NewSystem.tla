------------------------------- MODULE NewSystem -------------------------------
(***************************************************************************)
(* What the installer does inside the new system, command by command       *)
(* (disks/linux-installer/root/installer/bootstrap.py, packaging.py,       *)
(* users.py, config.py, misc.py, httputils.py and procutils.py, in the     *)
(* order of installer.py).  Module Installer has the same steps as one     *)
(* command each, and the drives below them.                                *)
(*                                                                         *)
(* A function of the installer is the commands it executes, for a profile  *)
(* and the values of Contractor.  A command that fails ends the installer. *)
(* The programs of the new system are outside of the repository.           *)
(***************************************************************************)
EXTENDS Integers, Sequences, FiniteSets, SequencesExt

CONSTANTS
  Profiles,       \* of a distribution
  ValueMaps,      \* what Contractor adds to it
  ImageFiles,     \* what an image may bring, of "hostname", "resolv" and "stub"
  TemplateFiles,  \* the templates of the profile
  Services,       \* that are diverted
  NoSuchPackage,  \* packages the repositories do not have
  MaxRetries      \* EXEC_RETRY_COUNT, 10

\* The kinds of images there are, one of them with two packages.  The repositories have the base of a profile of
\* yum, which does not tell of what it does not find.
ASSUME NewSystemAssumption ==
  /\ IsFiniteSet(Services)
  /\ \A p \in Profiles : /\ p.bootstrap \in {"debbootstrap", "redhatimg", "tarxz"}
                         /\ p.bootstrap = "redhatimg" => {1, 2} \subseteq DOMAIN p.first
                         /\ p.manager = "yum" => p.base \cap NoSuchPackage = {}
                         /\ p.packages \in Seq(ToSet(p.packages))
  /\ \A v \in ValueMaps : \A list \in {v.repos, v.packages, v.users} : list \in Seq(ToSet(list))

VARIABLES
  profile, valueMap,
  image,          \* the files of the image
  part,           \* of installer.py
  work,           \* commands of it that are still to be executed
  retries,
  system          \* the new system

newSystemVars == <<profile, valueMap, image, part, work, retries, system>>

Parts == <<"bootstrap", "sources", "baseConfig", "divert", "preBase", "base", "users", "packages",
           "update", "fullConfig", "post", "undivert", "clean", "done">>
PartNumber(p) == CHOOSE k \in DOMAIN Parts : Parts[k] = p
NextPart == Parts[PartNumber(part) + 1]

Command(do, what) == [do |-> do, what |-> what]
Each(do, s) == [k \in DOMAIN s |-> Command(do, s[k])]
When(condition, commands) == IF condition THEN commands ELSE <<>>
Apt == profile.manager = "apt"
Yum == profile.manager = "yum"

-----------------------------------------------------------------------------
(* The commands of the functions.                                          *)

\* The image of CentOS 7 is one within another, and is copied over what the
\* first wrote.
BootstrapCommands ==
  CASE profile.bootstrap = "debbootstrap" -> <<Command("unpack", image)>>
    [] profile.bootstrap = "redhatimg" ->
         <<Command("copy", "hostname"), Command("copy", "resolv"), Command("get", "image")>>
           \o (IF profile.live THEN <<Command("unpack", {}), Command("unpack", image), Command("copy", "resolv")>>
                               ELSE <<Command("unpack", image)>>)
           \o <<Command("get", "list")>>
           \o FlattenSeq([k \in 1..2 |-> <<Command("get", "rpm"), Command("install", {profile.first[k]})>>])
    [] profile.bootstrap = "tarxz" ->
         <<Command("get", "image"), Command("unpack", image), Command("copy", "hostname"),
           Command("makedirs", "stub"), Command("copy", "stub")>>

\* A key is fetched once for its URI, for the first repository of the kind, and
\* goes where that one says.  Without a file apt takes it, and the others do not.
NoKey == ""
NoFile == ""
Own(repo) == repo.type = profile.manager
HasKey(repo) == Own(repo) /\ repo.uri # NoKey
NewKey(k) ==
  /\ HasKey(valueMap.repos[k])
  /\ \A j \in 1..(k - 1) : Own(valueMap.repos[j]) => valueMap.repos[j].uri # valueMap.repos[k].uri
IsUsed(repo) == repo.file # NoFile \/ Apt
KeyOf(repo) == [uri |-> repo.uri, place |-> IF repo.file # NoFile THEN repo.file ELSE "apt-key"]
KeyCommands ==
  FlattenSeq([k \in DOMAIN valueMap.repos |->
    When(NewKey(k), <<Command("get", "key")>>
                      \o When(IsUsed(valueMap.repos[k]), <<Command("key", KeyOf(valueMap.repos[k]))>>))])

\* renderTemplates takes those that are there, all of them written anew.
Render(templates) == <<Command("render", ToSet(templates) \cap TemplateFiles)>>

ListCommands == When(Apt, <<Command("lists", "")>>)

SourcesCommands ==
  When(Yum, <<Command("clearRepos", "")>>) \o KeyCommands \o Render(profile.sources) \o ListCommands

\* installPackages.  yum does not tell of a package that it does not have.
PackageCommands(names) ==
  <<Command("install", names)>> \o When(Yum, <<Command("query", names)>>)

\* Repositories that came with the base are removed once.
BaseCommands ==
  IF profile.base = {} THEN <<>>
  ELSE <<Command("install", profile.base)>>
         \o When(Yum, <<Command("run", "reinstall"), Command("clearRepos", "")>> \o Render(profile.sources))

\* Mutant: the kind of a package is not compared.
ForAny(packages) == {p[2] : p \in ToSet(packages)}

\* A package of the form <manager>:<name> is for that manager.
ForManager(packages) == {p[2] : p \in {p \in ToSet(packages) : p[1] \in {"", profile.manager}}}
OtherPackages == ForManager(profile.packages \o valueMap.packages)

DivertCommands == When(Apt, Each("divert", SetToSeq(Services)))
UndivertCommands == When(Apt, Each("restore", SetToSeq(Services)))

PreBaseCommands ==
  Render(profile.prebase) \o When(Apt, <<Command("run", "debconf-set-selections")>>) \o <<Command("run", "prebase_cmd")>>

UserCommands ==
  <<Command("run", "usermod")>>
    \o FlattenSeq([k \in DOMAIN valueMap.users |->
         LET u == valueMap.users[k]
         IN  When(u.group # "", <<Command("addgroup", u.group)>>)
               \o <<Command("useradd", u)>> \o When(u.sudo, <<Command("sudo", u.name)>>)])

\* The script of Contractor may be somewhere else.
PostCommands ==
  <<Command("run", "after_cmd")>>
    \o When(valueMap.script, <<Command("get", "script"), Command("write", "script"), Command("run", "/postinstall.sh")>>)
    \o <<Command("run", "postinstall_command_list")>>

CommandsOf(p) ==
  CASE p = "sources" -> SourcesCommands
    [] p = "baseConfig" -> Render(profile.baseTemplates) \o When(profile.baseCmd, <<Command("run", "base_cmd")>>)
    [] p = "divert" -> DivertCommands
    [] p = "preBase" -> PreBaseCommands
    [] p = "base" -> BaseCommands
    [] p = "users" -> UserCommands
    [] p = "packages" -> PackageCommands(OtherPackages)
    [] p = "update" -> ListCommands \o <<Command("run", "upgrade")>>
    [] p = "fullConfig" -> <<Command("render", TemplateFiles)>>
    [] p = "post" -> PostCommands
    [] p = "undivert" -> UndivertCommands
    [] p = "clean" -> <<Command("run", "clean")>>
    [] p = "done" -> <<>>

-----------------------------------------------------------------------------
(* What a command does.                                                    *)

HasRepos == system.repos # {}

\* What no run of the command can do.  A script is fetched as bytes, and the file
\* it should be written to is opened for text.
Impossible(c) ==
  CASE c.do = "makedirs" -> c.what \in image
    [] c.do = "clearRepos" -> ~HasRepos
    [] c.do = "install" -> (Yum /\ c.what = {}) \/ (~Yum /\ c.what \cap NoSuchPackage # {})
    [] c.do = "query" -> c.what = {} \/ ~(c.what \subseteq system.packages)
    [] c.do = "write" -> TRUE
    [] c.do = "addgroup" -> c.what \in system.groups
    [] c.do = "useradd" -> c.what.name \in system.users \/ (c.what.group # "" /\ c.what.group \notin system.groups)
    [] OTHER -> FALSE

Files(names, from) == [f \in DOMAIN system.files |-> IF f \in names THEN from ELSE system.files[f]]

\* Packages of yum bring repositories of their own.
Done(c) ==
  CASE c.do = "unpack" -> [system EXCEPT !.files = Files(c.what, "image")]
    [] c.do = "copy" -> [system EXCEPT !.files = Files({c.what}, "installer")]
    [] c.do = "key" -> [system EXCEPT !.keys = Append(@, c.what)]
    [] c.do = "clearRepos" -> [system EXCEPT !.repos = {}]
    [] c.do = "render" -> [system EXCEPT !.written = @ \cup c.what,
                                         !.repos = IF "repos" \in c.what THEN @ \cup {"repos"} ELSE @]
    [] c.do = "install" -> [system EXCEPT !.packages = @ \cup (c.what \ NoSuchPackage),
                                          !.repos = IF Yum THEN @ \cup {"stray"} ELSE @]
    [] c.do = "divert" -> [system EXCEPT !.diverted = @ \cup {c.what}]
    [] c.do = "restore" -> [system EXCEPT !.diverted = @ \ {c.what}]
    [] c.do = "addgroup" -> [system EXCEPT !.groups = @ \cup {c.what}]
    [] c.do = "useradd" -> [system EXCEPT !.users = @ \cup {c.what.name}]
    [] c.do = "sudo" -> [system EXCEPT !.sudo = Append(@, c.what)]
    [] OTHER -> system

NewSystemInit ==
  /\ profile \in Profiles /\ valueMap \in ValueMaps /\ image \in ImageFiles
  /\ part = "bootstrap" /\ work = BootstrapCommands /\ retries = 0
  /\ system = [files |-> [f \in {"hostname", "resolv", "stub"} |-> "none"], keys |-> <<>>, repos |-> {}, written |-> {},
               packages |-> {}, diverted |-> {}, groups |-> {}, users |-> {}, sudo |-> <<>>]

Execute ==
  /\ work # <<>> /\ ~Impossible(Head(work))
  /\ system' = Done(Head(work))
  /\ work' = Tail(work)
  /\ retries' = 0
  /\ UNCHANGED <<profile, valueMap, image, part>>

\* Any command may fail.  A redirection back to the same place does.
ExecuteFails ==
  /\ work # <<>>
  /\ part' = "failed" /\ work' = <<>> /\ retries' = 0
  /\ UNCHANGED <<profile, valueMap, image, system>>

\* apt-get update that ends with 100 is repeated, and what is fetched may be
\* somewhere else, without a bound.
ExecuteAgain ==
  /\ work # <<>> /\ Head(work).do = "lists"
  /\ retries < MaxRetries
  /\ retries' = retries + 1
  /\ IF retries' = MaxRetries THEN part' = "failed" /\ work' = <<>> ELSE UNCHANGED <<part, work>>
  /\ UNCHANGED <<profile, valueMap, image, system>>

GoOn ==
  /\ work = <<>> /\ part \notin {"done", "failed"}
  /\ part' = NextPart
  /\ work' = CommandsOf(part')
  /\ UNCHANGED <<profile, valueMap, image, retries, system>>

NewSystemNext == Execute \/ ExecuteFails \/ ExecuteAgain \/ GoOn

-----------------------------------------------------------------------------

Passed(p) == part # "failed" /\ PartNumber(part) > PartNumber(p)

\* Whenever packages are installed by apt after the first image, no service of
\* the new system can be started, and in the end all of them can.
ServicesAreQuiet ==
  /\ Apt /\ part # "bootstrap" /\ work # <<>> /\ Head(work).do = "install" => Services = system.diverted
  /\ Passed("undivert") => system.diverted = {}

\* An installed system has every package its profile and Contractor name for its
\* manager, and none they name for another one only, but those it began with;
\* every user, each of the sudo lines once, and the templates.
NamedPackages == ToSet(profile.packages) \cup ToSet(valueMap.packages)
FirstPackages == profile.base \cup ToSet(profile.first)
NothingIsForgotten ==
  part = "done" =>
    /\ \A p \in NamedPackages :
         IF p[1] \in {"", profile.manager} THEN p[2] \in system.packages
         ELSE p[2] \in system.packages \ FirstPackages =>
                \E q \in NamedPackages : q[2] = p[2] /\ q[1] \in {"", profile.manager}
    /\ profile.base \subseteq system.packages
    /\ \A u \in ToSet(valueMap.users) : u.name \in system.users /\ (u.group # "" => u.group \in system.groups)
    /\ IsInjective(system.sudo)
    /\ TemplateFiles \subseteq system.written

\* The key of a URI is in the new system once, where a repository with it says:
\* for apt always, and for the others when each of its repositories names a file;
\* when none of them does it is not there.
KeysAreThere ==
  part = "done" =>
    LET repos == {r \in ToSet(valueMap.repos) : HasKey(r)}
        uris == {k.uri : k \in ToSet(system.keys)}
    IN  /\ \A i, j \in DOMAIN system.keys : system.keys[i].uri = system.keys[j].uri => i = j
        /\ ToSet(system.keys) \subseteq {KeyOf(r) : r \in {r \in repos : IsUsed(r)}}
        /\ \A r \in repos : (\A o \in repos : o.uri = r.uri => IsUsed(o)) => r.uri \in uris

\* The base of yum comes from the repositories of the configuration: those an
\* image brings are gone before, those of the base after it, if the profile has
\* a template for them.
ReposAreOwn ==
  Yum /\ "repos" \in ToSet(profile.sources) \cap TemplateFiles =>
    /\ part \in {"baseConfig", "divert", "preBase"} => system.repos = {"repos"}
    /\ part = "users" /\ profile.base # {} => system.repos = {"repos"}

\* The name server of the new system is that of the installer, whatever the
\* image brings, but for an image that is unpacked once, over what was copied.
ResolverIsCopied ==
  Passed("bootstrap") =>
    CASE profile.bootstrap = "tarxz" -> system.files["stub"] = "installer" /\ system.files["hostname"] = "installer"
      [] profile.bootstrap = "redhatimg" -> (profile.live \/ "resolv" \notin image) => system.files["resolv"] = "installer"
      [] OTHER -> TRUE

\* The new system is what its profile and its configuration make of it, whatever
\* kind it is of (installer.py and the modules it calls).
SystemIsWhole == ServicesAreQuiet /\ NothingIsForgotten /\ KeysAreThere /\ ReposAreOwn /\ ResolverIsCopied
=============================================================================
