------------------------------- MODULE Templates -------------------------------
(***************************************************************************)
(* How an environment of jinja2 finds a template (src/libconfig/jinja2:    *)
(* environment.py, loaders.py, bccache.py and LRUCache of utils.py), while *)
(* somebody edits the files, a second caller asks the same environment,    *)
(* and the process may die.                                                *)
(*                                                                         *)
(* The name of a template is the sequence of its pieces.  A loader is the  *)
(* sequence of the branches it tries in turn.  What is at a place has a    *)
(* version, 0 if there is nothing; the version stands for the mtime, and   *)
(* every version has a source of its own.                                  *)
(*                                                                         *)
(* Compiled code fits the buffer of its file, so that it is written at     *)
(* once, when the file is closed.                                          *)
(***************************************************************************)
EXTENDS Integers, Sequences, FiniteSets, SequencesExt

CONSTANTS
  Environments,  \* records of a loader, a size of the cache, auto_reload, a bytecode cache
                 \* and the loader of an environment that compiles all it has
  Requests,      \* sequences of names, as for select_template
  Folders,       \* search paths, packages, dictionaries and functions
  Stems,         \* sequences of pieces that may be in a folder
  Content,       \* the source of each version of a place
  Broken,        \* sources that have a syntax error
  Callers,       \* that share the environment
  MaxEvents      \* of questions, edits and deaths

\* Loaders and lists of names are sequences; of no names at all none is loaded.
ASSUME TemplatesAssumption ==
  /\ IsFiniteSet(Stems)
  /\ \A names \in Requests : names \in Seq(ToSet(names)) /\ names # <<>>
  /\ \A e \in Environments :
       /\ e.loader \in Seq(ToSet(e.loader)) /\ e.sources \in Seq(ToSet(e.sources))
       /\ e.size \in Int /\ e.bytecode \in {"none", "files", "memcached"}

VARIABLES
  environment,
  store,         \* the version at each place
  modules,       \* what compile_templates made, by name
  bytecode,      \* the files of the bytecode cache, or memcached
  mapping, queue, \* the cache of the environment
  calls,         \* what the callers are about
  used,          \* the names asked for, the latest last
  events

templatesVars == <<environment, store, modules, bytecode, mapping, queue, calls, used, events>>

-----------------------------------------------------------------------------
(* The loaders.                                                            *)

Spots == Folders \X Stems
Source(spot, version) == Content[spot][version]
SourceNow(spot) == Source(spot, store[spot])

\* split_template_path: no name leads out of its folder.
Pieces(name) == SelectSeq(name, LAMBDA p : p \notin {"", "."})
Inside(name) == ".." \notin ToSet(name)

\* A branch is a folder and the prefixes of the names it is asked for.  A choice of
\* loaders tries the branches of one after those of the other.
Branches(kind, folders) == [k \in DOMAIN folders |-> [kind |-> kind, folder |-> folders[k], under |-> <<>>]]
PrefixLoader(prefix, loader) == [k \in DOMAIN loader |-> [loader[k] EXCEPT !.under = <<prefix>> \o @]]

\* Functions, zip files and modules do not tell whether a template is up to date,
\* and functions and modules cannot be listed.
Paths == {"file", "package", "zip"}
Telling == {"file", "package", "dict"}
Listing == {"file", "package", "zip", "dict"}

\* Where a branch looks: below its prefixes, and not above its folder.
PlaceOf(branch, name) ==
  LET rest == SubSeq(name, Len(branch.under) + 1, Len(name))
  IN  [how |-> branch.kind, name |-> rest,
       spot |-> <<branch.folder, IF branch.kind \in Paths THEN Pieces(rest) ELSE rest>>,
       fits |-> /\ Len(name) > Len(branch.under) /\ IsPrefix(branch.under, name)
                /\ branch.kind \in Paths => Inside(rest)]
LooksAt(loader, name) == [k \in DOMAIN loader |-> PlaceOf(loader[k], name)]

There(place) ==
  /\ place.fits
  /\ IF place.how = "modules" THEN place.spot[2] \in DOMAIN modules
     ELSE place.spot \in Spots /\ store[place.spot] > 0

\* list_templates.
CanList(loader) == \A k \in DOMAIN loader : loader[k].kind \in Listing
StemsIn(folder) == {stem \in Stems : store[<<folder, stem>>] > 0}
ListTemplates(loader) == UNION {{loader[k].under \o stem : stem \in StemsIn(loader[k].folder)} : k \in DOMAIN loader}

\* Mutant: a file that is older than the template is taken for the same.
UpToDateIfOlder(t) ==
  CASE t.how \in {"file", "package"} -> store[t.spot] \in 1..t.mtime
    [] t.how = "dict" -> store[t.spot] > 0 /\ SourceNow(t.spot) = t.source
    [] OTHER -> TRUE

\* is_up_to_date.
UpToDate(t) ==
  CASE t.how \in {"file", "package"} -> store[t.spot] > 0 /\ store[t.spot] = t.mtime
    [] t.how = "dict" -> store[t.spot] > 0 /\ SourceNow(t.spot) = t.source
    [] OTHER -> TRUE

-----------------------------------------------------------------------------
(* The cache of the environment: none, a dictionary or an LRUCache.        *)

LRU == environment.size > 0
Touched(names, name) == Append(RemoveFirst(names, name), name)

Seen(name) == queue' = IF LRU THEN Touched(queue, name) ELSE queue

Without(f, name) == [n \in DOMAIN f \ {name} |-> f[n]]
With(f, name, value) == [n \in DOMAIN f \cup {name} |-> IF n = name THEN value ELSE f[n]]

Set(name, t) ==
  LET full == LRU /\ name \notin DOMAIN mapping /\ Cardinality(DOMAIN mapping) = environment.size
  IN  /\ mapping' = CASE environment.size = 0 -> mapping
                      [] full -> With(Without(mapping, Head(queue)), name, t)
                      [] OTHER -> With(mapping, name, t)
      /\ queue' = IF LRU THEN Touched(IF full THEN Tail(queue) ELSE queue, name) ELSE queue

-----------------------------------------------------------------------------

Nothing == [how |-> "none"]
NoCall == [step |-> "idle", compile |-> FALSE, asked |-> <<>>, names |-> <<>>, places |-> <<>>,
           got |-> Nothing, cached |-> FALSE, quiet |-> TRUE]
Ended == {"given", "notFound", "syntax", "vanished", "diskFull", "unlistable", "compiled"}

TemplatesInit ==
  /\ environment \in Environments
  /\ store \in {versions \in [Spots -> 0..2] : \A spot \in Spots : versions[spot] <= Len(Content[spot])}
  /\ modules = <<>> /\ bytecode = <<>>
  /\ mapping = <<>> /\ queue = <<>> /\ used = <<>>
  /\ calls = [c \in Callers |-> NoCall]
  /\ events = 0

Call(c, call) == calls' = [calls EXCEPT ![c] = call]
At(c, step) == calls[c].step = step
Loader(c) == IF calls[c].compile THEN environment.sources ELSE environment.loader
Name(c) == Head(calls[c].names)

Ask(c) ==
  /\ calls[c].step \in Ended \cup {"idle"} /\ events < MaxEvents
  /\ \E names \in Requests : Call(c, [NoCall EXCEPT !.step = "look", !.asked = names, !.names = names])
  /\ events' = events + 1
  /\ UNCHANGED <<environment, store, modules, bytecode, mapping, queue, used>>

LookUp(c) ==
  /\ At(c, "look")
  /\ IF Name(c) \in DOMAIN mapping
       THEN /\ Call(c, [calls[c] EXCEPT !.step = "check", !.got = mapping[Name(c)], !.cached = TRUE])
            /\ Seen(Name(c)) /\ used' = Touched(used, Name(c))
       ELSE /\ Call(c, [calls[c] EXCEPT !.step = "open", !.places = LooksAt(Loader(c), Name(c))])
            /\ UNCHANGED <<queue, used>>
  /\ UNCHANGED <<environment, store, modules, bytecode, mapping, events>>

Check(c) ==
  /\ At(c, "check")
  /\ IF environment.autoReload => UpToDate(calls[c].got)
       THEN Call(c, [calls[c] EXCEPT !.step = "given"])
       ELSE Call(c, [calls[c] EXCEPT !.step = "open", !.cached = FALSE, !.places = LooksAt(Loader(c), Name(c))])
  /\ UNCHANGED <<environment, store, modules, bytecode, mapping, queue, used, events>>

\* A name that is nowhere is passed over while there are others.
PassOver(c) ==
  /\ At(c, "open") /\ calls[c].places = <<>>
  /\ IF calls[c].compile THEN Call(c, [calls[c] EXCEPT !.step = "vanished"])
     ELSE IF Len(calls[c].names) = 1 THEN Call(c, [calls[c] EXCEPT !.step = "notFound"])
     ELSE Call(c, [calls[c] EXCEPT !.step = "look", !.names = Tail(calls[c].names)])
  /\ UNCHANGED <<environment, store, modules, bytecode, mapping, queue, used, events>>

AfterSource(c) == IF calls[c].compile THEN "compile" ELSE "code"

\* A file is read before its mtime, the resource of a package after it.
Open(c) ==
  /\ At(c, "open") /\ calls[c].places # <<>>
  /\ LET place == Head(calls[c].places)
         version == store[place.spot]
         found == [how |-> place.how, spot |-> place.spot, name |-> place.name, source |-> "", code |-> "", read |-> 0, mtime |-> 0]
     IN  IF ~There(place) THEN Call(c, [calls[c] EXCEPT !.places = Tail(calls[c].places)])
         ELSE CASE place.how = "modules" ->
                     Call(c, [calls[c] EXCEPT !.step = "keep", !.got = [found EXCEPT !.code = modules[place.spot[2]]]])
                [] place.how = "package" ->
                     Call(c, [calls[c] EXCEPT !.step = "read", !.got = [found EXCEPT !.mtime = version]])
                [] OTHER ->
                     Call(c, [calls[c] EXCEPT !.step = IF place.how = "file" THEN "stat" ELSE AfterSource(c),
                              !.got = [found EXCEPT !.source = SourceNow(place.spot), !.read = version]])
  /\ UNCHANGED <<environment, store, modules, bytecode, mapping, queue, used, events>>

\* The mtime of a file that was read, or the content of one whose mtime was.
ReadOn(c) ==
  LET t == calls[c].got
      version == store[t.spot]
  IN  /\ calls[c].step \in {"stat", "read"}
      /\ IF version = 0 THEN Call(c, [calls[c] EXCEPT !.step = "vanished"])
         ELSE Call(c, [calls[c] EXCEPT !.step = AfterSource(c),
                       !.got = IF At(c, "stat") THEN [t EXCEPT !.mtime = version]
                               ELSE [t EXCEPT !.read = version, !.source = SourceNow(t.spot)]])
      /\ UNCHANGED <<environment, store, modules, bytecode, mapping, queue, used, events>>

-----------------------------------------------------------------------------
(* The code of a template.                                                 *)

Key(t) == <<t.name, IF t.how \in {"file", "package"} THEN t.spot ELSE <<>>>>
Bucket(t) == [checksum |-> t.source, code |-> t.source]
Emptied == [checksum |-> "", code |-> ""]

\* A bucket that was never written to its end has no magic.
InBucket(t) == Key(t) \in DOMAIN bytecode /\ bytecode[Key(t)] # Emptied /\ bytecode[Key(t)].checksum = t.source

Compiled(c, t, next) ==
  IF t.source \in Broken THEN Call(c, [calls[c] EXCEPT !.step = "syntax"])
  ELSE Call(c, [calls[c] EXCEPT !.step = next, !.got = [t EXCEPT !.code = t.source]])

Code(c) ==
  LET t == calls[c].got
  IN  /\ At(c, "code")
      /\ \/ /\ environment.bytecode # "none" /\ InBucket(t)
            /\ Call(c, [calls[c] EXCEPT !.step = "keep", !.got = [t EXCEPT !.code = bytecode[Key(t)].code]])
         \/ /\ environment.bytecode = "memcached" \/ ~InBucket(t)
            /\ Compiled(c, t, IF environment.bytecode = "none" THEN "keep" ELSE "dump")
      /\ UNCHANGED <<environment, store, modules, bytecode, mapping, queue, used, events>>

\* A file is emptied first; memcached may ignore what it is given.
Dump(c) ==
  /\ At(c, "dump")
  /\ IF environment.bytecode = "files"
       THEN bytecode' = With(bytecode, Key(calls[c].got), Emptied) /\ Call(c, [calls[c] EXCEPT !.step = "write"])
       ELSE /\ bytecode' \in {bytecode, With(bytecode, Key(calls[c].got), Bucket(calls[c].got))}
            /\ Call(c, [calls[c] EXCEPT !.step = "keep"])
  /\ UNCHANGED <<environment, store, modules, mapping, queue, used, events>>

\* Into the file that was opened, also if it was removed since.
WriteBytecode(c) ==
  /\ calls[c].step \in {"write", "removed"}
  /\ \/ /\ bytecode' = IF At(c, "write") THEN With(bytecode, Key(calls[c].got), Bucket(calls[c].got)) ELSE bytecode
        /\ Call(c, [calls[c] EXCEPT !.step = "keep"])
     \/ Call(c, [calls[c] EXCEPT !.step = "diskFull"]) /\ UNCHANGED bytecode
  /\ UNCHANGED <<environment, store, modules, mapping, queue, used, events>>

Keep(c) ==
  /\ At(c, "keep")
  /\ Set(Name(c), calls[c].got)
  /\ used' = IF environment.size = 0 THEN used ELSE Touched(used, Name(c))
  /\ Call(c, [calls[c] EXCEPT !.step = "given"])
  /\ UNCHANGED <<environment, store, modules, bytecode, events>>

-----------------------------------------------------------------------------
(* compile_templates, into a folder, which one caller fills at a time.     *)

\* list_templates sorts the names, which have no order here.
InSomeOrder(names) == {s \in [1..Cardinality(names) -> names] : ToSet(s) = names}

CompileTemplates(c) ==
  /\ calls[c].step \in Ended \cup {"idle"} /\ events < MaxEvents
  /\ \A d \in Callers : calls[d].compile => calls[d].step \in Ended
  /\ IF CanList(environment.sources)
       THEN \E names \in InSomeOrder(ListTemplates(environment.sources)) :
              Call(c, [NoCall EXCEPT !.compile = TRUE, !.step = "next", !.asked = names, !.names = names])
       ELSE Call(c, [NoCall EXCEPT !.compile = TRUE, !.step = "unlistable"])
  /\ events' = events + 1
  /\ UNCHANGED <<environment, store, modules, bytecode, mapping, queue, used>>

NextName(c) ==
  /\ At(c, "next")
  /\ IF calls[c].names = <<>> THEN Call(c, [calls[c] EXCEPT !.step = "compiled"])
     ELSE Call(c, [calls[c] EXCEPT !.step = "open", !.places = LooksAt(Loader(c), Name(c))])
  /\ UNCHANGED <<environment, store, modules, bytecode, mapping, queue, used, events>>

\* A template with a syntax error is left out.  To those who look in the folder it
\* is an edit.
CompileOne(c) ==
  LET t == calls[c].got
  IN  /\ At(c, "compile")
      /\ modules' = IF t.source \in Broken THEN modules ELSE With(modules, Name(c), t.source)
      /\ calls' = [d \in Callers |-> IF d = c THEN [calls[c] EXCEPT !.step = "next", !.names = Tail(@)]
                                     ELSE [calls[d] EXCEPT !.quiet = FALSE]]
      /\ UNCHANGED <<environment, store, bytecode, mapping, queue, used, events>>

-----------------------------------------------------------------------------

Edit ==
  /\ events < MaxEvents
  /\ \E spot \in Spots : \E version \in (0..Len(Content[spot])) \ {store[spot]} : store' = [store EXCEPT ![spot] = version]
  /\ calls' = [c \in Callers |-> [calls[c] EXCEPT !.quiet = FALSE]]
  /\ events' = events + 1
  /\ UNCHANGED <<environment, modules, bytecode, mapping, queue, used>>

\* clear, or memcached that has no room.
Clear ==
  /\ bytecode # <<>>
  /\ IF environment.bytecode = "files"
       THEN /\ bytecode' = <<>>
            /\ calls' = [c \in Callers |-> IF At(c, "write") THEN [calls[c] EXCEPT !.step = "removed"] ELSE calls[c]]
       ELSE bytecode' \in {Without(bytecode, key) : key \in DOMAIN bytecode} /\ UNCHANGED calls
  /\ UNCHANGED <<environment, store, modules, mapping, queue, used, events>>

Dies ==
  /\ events < MaxEvents
  /\ calls' = [c \in Callers |-> NoCall]
  /\ mapping' = <<>> /\ queue' = <<>> /\ used' = <<>>
  /\ events' = events + 1
  /\ UNCHANGED <<environment, store, modules, bytecode>>

TemplatesNext ==
  \/ \E c \in Callers : \/ Ask(c) \/ LookUp(c) \/ Check(c) \/ PassOver(c) \/ Open(c) \/ ReadOn(c) \/ Code(c) \/ Dump(c)
                        \/ WriteBytecode(c) \/ Keep(c) \/ CompileTemplates(c) \/ NextName(c) \/ CompileOne(c)
  \/ Edit \/ Clear \/ Dies

-----------------------------------------------------------------------------

FirstThere(places) ==
  LET found == {k \in DOMAIN places : There(places[k])}
  IN  IF found = {} THEN Nothing ELSE places[CHOOSE k \in found : \A j \in found : k <= j]
Nowhere(name) == FirstThere(LooksAt(environment.loader, name)) = Nothing

\* A template of the cache that nobody can tell is stale: its place does not say,
\* or it was edited between the reading of its content and of its mtime.
CannotTell(t) == \/ ~environment.autoReload \/ t.how \notin Telling
                 \/ t.how \in {"file", "package"} /\ t.read # t.mtime

\* If nothing was edited while a caller was at it, it gets what an environment
\* without caches would give: the first of the names that is somewhere, compiled
\* from what is there now, from the first place that has it (one of the cache may
\* come from a later place), and none of them only if they are nowhere.
SameAsFresh ==
  \A c \in Callers : LET call == calls[c]
                         passed == SubSeq(call.asked, 1, Len(call.asked) - Len(call.names))
                         places == LooksAt(Loader(c), Name(c))
                     IN
    call.quiet /\ ~call.compile =>
      /\ call.step # "vanished"
      /\ call.step = "given" =>
           /\ \A name \in ToSet(passed) : Nowhere(name)
           /\ ~call.cached => call.got.how = FirstThere(places).how /\ call.got.spot = FirstThere(places).spot
           /\ call.got.how # "modules" => call.got.code = call.got.source
           /\ ~(call.cached /\ CannotTell(call.got)) /\ call.got.how # "modules" =>
                /\ \E place \in ToSet(places) : place.spot = call.got.spot /\ There(place)
                /\ call.got.code = SourceNow(call.got.spot)
      /\ call.step = "notFound" => \A name \in ToSet(call.asked) : Nowhere(name)
      /\ call.step = "syntax" => SourceNow(call.got.spot) \in Broken

\* The cache holds the templates that were asked for last, as many as it has room
\* for, the one to go first in front.
LatestAreKept ==
  LET size == IF LRU /\ Len(used) > environment.size THEN environment.size ELSE Len(used)
      latest == SubSeq(used, Len(used) - size + 1, Len(used))
  IN  DOMAIN mapping = ToSet(latest) /\ (LRU => queue = latest)

\* What was compiled to a folder while nothing was edited is every template of the
\* loader that compiles, as it is.
AllAreCompiled ==
  \A c \in Callers : calls[c].step = "compiled" /\ calls[c].quiet =>
    \A name \in ListTemplates(environment.sources) :
      LET source == SourceNow(FirstThere(LooksAt(environment.sources, name)).spot)
      IN  source \in Broken \/ (name \in DOMAIN modules /\ modules[name] = source)

\* Whatever its caches hold, and whoever edits while it loads, an environment gives
\* what the loaders would (environment.py, loaders.py, bccache.py, LRUCache of
\* utils.py).
TemplatesAreCurrent == SameAsFresh /\ LatestAreKept /\ AllAreCompiled
=============================================================================
