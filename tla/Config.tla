--------------------------------- MODULE Config ---------------------------------
(***************************************************************************)
(* libconfig's Config (src/libconfig/libconfig.py): values fetched from    *)
(* Contractor and kept in a database, and templates rendered into files.   *)
(*                                                                         *)
(* One process calls it; it may end at any step, by an exception or with   *)
(* the machine, and a new one opens the database again.  Beside it         *)
(* Contractor changes values, packages change templates and somebody       *)
(* changes or removes files.                                               *)
(*                                                                         *)
(* Values are their version at Contractor, a template is its version, and  *)
(* a rendered file is what it was rendered from: so equal hashes are equal *)
(* contents.  The targets of a template are taken in any order.  Values    *)
(* that setOverlayValues adds are not versioned and left out.              *)
(***************************************************************************)
EXTENDS Integers, FiniteSets

CONSTANTS
  Templates,    \* of one package
  Targets,      \* files
  Produces,     \* the targets of a template, by its version and the values' version
  Calls,        \* the arguments of configPackage
  MaxVersion,   \* bound on the versions of a template
  MaxValues,    \* bound on the versions of the values
  MaxTime,      \* bound on the clock
  MaxEdits,     \* bound on what somebody does to the files
  MaxDeaths,    \* bound on the processes that end early
  Local,        \* a content that libconfig did not write
  Empty,        \* a file that is open for writing
  Missing,      \* no file
  Nil,          \* no row in the database, or no template in work
  Null          \* a column without a value

Versions == 0..MaxVersion
Gone == -1
Values == 0..MaxValues
Rendered == [tpl: Templates, ver: Versions, val: Values]
Contents == Rendered \cup {Local, Empty}
Options == [force: BOOLEAN, dry_run: BOOLEAN, no_backups: BOOLEAN,
            re_generate: BOOLEAN, dest_rootdir: BOOLEAN]

ASSUME BoundsAssumption ==
  /\ MaxVersion \in Nat /\ MaxValues \in Nat \ {0} /\ MaxTime \in Nat
  /\ MaxEdits \in Nat /\ MaxDeaths \in Nat
ASSUME CallsAssumption == Calls \subseteq Options
ASSUME ProducesAssumption ==
  Produces \in [Templates -> [Versions -> [Values -> SUBSET Targets]]]
ASSUME NamesAssumption ==
  /\ Cardinality({Local, Empty, Missing, Null, Nil}) = 5
  /\ {Local, Empty, Missing, Null, Nil} \cap Rendered = {}
  /\ Nil \notin Templates /\ Null \notin Int

VARIABLES
  now,          \* in half seconds
  changedAt,    \* when the values became a version
  server,       \* the version of the values at Contractor
  template,     \* the files of the templates
  file,         \* the targets
  edits, deaths,
  \* the database
  control,      \* how far the tables have come
  cache,        \* value_cache and valuesLastModified
  templates,    \* templateHash of the table templates
  rows,         \* targetHash and lastBuilt of the table targets
  \* the process
  pc,
  fetched,
  opts,         \* of the call, or Nil
  queue,        \* templates still to do
  tpl, version, \* the template in work and the version that was hashed
  targets,      \* target_list
  seen,         \* what the loop over the targets found
  need_build, no_build,
  rendered,     \* the version that is written
  left,         \* targets still to write
  target        \* the one that is open

world == <<now, changedAt, server, template>>
faults == <<edits, deaths>>
db == <<control, cache, templates, rows>>
plan == <<tpl, version, targets, seen, need_build, no_build>>
output == <<rendered, left, target>>
vars == <<world, file, faults, db, pc, fetched, opts, queue, plan, output>>

-----------------------------------------------------------------------------

\* CURRENT_TIMESTAMP has no fractions of a second.
CurrentTimestamp == now - (now % 2)

Row == [hash: Contents \cup {Null}, built: 0..MaxTime \cup {Null}]
NoRows == [p \in Templates |-> [t \in Targets |-> Nil]]
NoValues == [version |-> 0, modified |-> 0]
InDB(t) == rows[tpl][t] # Nil
Unseen == targets \ DOMAIN seen

NoPlan ==
  /\ tpl' = Nil /\ version' = 0 /\ targets' = {} /\ seen' = [t \in {} |-> Missing]
  /\ need_build' = FALSE /\ no_build' = FALSE
NoOutput == rendered' = 0 /\ left' = {} /\ target' = Nil

Init ==
  /\ now = 0 /\ server = 1 /\ edits = 0 /\ deaths = 0
  /\ changedAt = [v \in Values |-> 0]
  /\ template = [p \in Templates |-> 0]
  /\ file \in [Targets -> {Missing, Local}]
  /\ control = "none"
  /\ cache = NoValues
  /\ templates = [p \in Templates |-> Nil]
  /\ rows = NoRows
  /\ pc = "down"
  /\ fetched = NoValues
  /\ opts = Nil /\ queue = {}
  /\ tpl = Nil /\ version = 0 /\ targets = {} /\ seen = [t \in {} |-> Missing]
  /\ need_build = FALSE /\ no_build = FALSE
  /\ rendered = 0 /\ left = {} /\ target = Nil

-----------------------------------------------------------------------------
(* The world.                                                              *)

Tick ==
  /\ now < MaxTime
  /\ now' = now + 1
  /\ UNCHANGED <<changedAt, server, template, file, faults, db, pc, fetched, opts, queue, plan, output>>

\* __last_modified has fractions of a second.
ValuesChange ==
  /\ server < MaxValues
  /\ server' = server + 1
  /\ changedAt' = [changedAt EXCEPT ![server + 1] = now]
  /\ UNCHANGED <<now, template, file, faults, db, pc, fetched, opts, queue, plan, output>>

TemplateChanges ==
  /\ \E p \in Templates, v \in Versions \cup {Gone} :
       /\ template[p] # Gone
       /\ v = template[p] + 1 \/ v = Gone
       /\ template' = [template EXCEPT ![p] = v]
  /\ UNCHANGED <<now, changedAt, server, file, faults, db, pc, fetched, opts, queue, plan, output>>

\* Not in the moment a file is open for writing.
SomebodyEdits ==
  /\ edits < MaxEdits
  /\ edits' = edits + 1
  /\ \E t \in Targets, c \in {Local, Missing} :
       /\ file[t] # c
       /\ t # target
       /\ file' = [file EXCEPT ![t] = c]
  /\ UNCHANGED <<world, deaths, db, pc, fetched, opts, queue, plan, output>>

-----------------------------------------------------------------------------
(* Opening the database.  Every statement of _checkDB is committed.        *)

\* Mutant: the tables of a current database are made anew.
OpenAnew ==
  /\ pc = "down"
  /\ \/ control = "none" /\ control' = "empty" /\ pc' = "fill"
     \/ control \in {"new", "done"} /\ pc' = "tables" /\ UNCHANGED control
  /\ UNCHANGED <<world, file, faults, cache, templates, rows, fetched, opts, queue, plan, output>>

\* An empty control table, left by a process that ended before its row was in,
\* lets no process in.
Open ==
  /\ pc = "down"
  /\ \/ control = "none" /\ control' = "empty" /\ pc' = "fill"
     \/ control = "new"  /\ pc' = "tables" /\ UNCHANGED control
     \/ control = "done" /\ pc' = "idle" /\ UNCHANGED control
  /\ UNCHANGED <<world, file, faults, cache, templates, rows, fetched, opts, queue, plan, output>>

FillControl ==
  /\ pc = "fill"
  /\ control' = "new"
  /\ pc' = "tables"
  /\ UNCHANGED <<world, file, faults, cache, templates, rows, fetched, opts, queue, plan, output>>

CreateTables ==
  /\ pc = "tables"
  /\ cache' = [version |-> 0, modified |-> CurrentTimestamp]
  /\ templates' = [p \in Templates |-> Nil]
  /\ rows' = NoRows
  /\ pc' = "mark"
  /\ UNCHANGED <<world, file, faults, control, fetched, opts, queue, plan, output>>

MarkVersion ==
  /\ pc = "mark"
  /\ control' = "done"
  /\ pc' = "idle"
  /\ UNCHANGED <<world, file, faults, cache, templates, rows, fetched, opts, queue, plan, output>>

\* The process ends; what is not committed is lost.
Exit ==
  /\ pc' = "down"
  /\ fetched' = NoValues
  /\ queue' = {}
  /\ opts' = Nil
  /\ NoPlan /\ NoOutput
  /\ UNCHANGED <<world, file, db>>

Close ==
  /\ pc = "idle"
  /\ Exit
  /\ UNCHANGED faults

\* An exception of Contractor, of a template or of a file, or the machine.
Dies ==
  /\ pc \notin {"down", "idle"}
  /\ deaths < MaxDeaths
  /\ deaths' = deaths + 1
  /\ Exit
  /\ UNCHANGED edits

-----------------------------------------------------------------------------
(* The values.                                                             *)

Fetch ==
  /\ pc = "idle"
  /\ fetched' = [version |-> server, modified |-> changedAt[server]]
  /\ pc' = "store"
  /\ UNCHANGED <<world, file, faults, db, opts, queue, plan, output>>

\* Mutant: the time of the values is when they are stored.
StoreValuesNow ==
  /\ pc = "store"
  /\ cache' = [fetched EXCEPT !.modified = CurrentTimestamp]
  /\ fetched' = NoValues
  /\ pc' = "idle"
  /\ UNCHANGED <<world, file, faults, control, templates, rows, opts, queue, plan, output>>

\* The rows of the names fetched are updated or inserted, the others deleted,
\* and the time is set, in one transaction.
StoreValues ==
  /\ pc = "store"
  /\ cache' = fetched
  /\ fetched' = NoValues
  /\ pc' = "idle"
  /\ UNCHANGED <<world, file, faults, control, templates, rows, opts, queue, plan, output>>

-----------------------------------------------------------------------------
(* configPackage.                                                          *)

ConfigPackage ==
  /\ pc = "idle"
  /\ opts' \in Calls
  /\ queue' \in SUBSET {p \in Templates : template[p] # Gone} \ {{}}
  /\ pc' = "next"
  /\ UNCHANGED <<world, file, faults, db, fetched, plan, output>>

EndPackage ==
  /\ pc = "next"
  /\ queue = {}
  /\ pc' = "idle"
  /\ opts' = Nil
  /\ UNCHANGED <<world, file, faults, db, fetched, queue, plan, output>>

\* A template whose file is gone is passed over.
PassOver ==
  /\ pc = "next"
  /\ \E p \in queue : template[p] = Gone /\ queue' = queue \ {p}
  /\ UNCHANGED <<world, file, faults, db, pc, fetched, opts, plan, output>>

\* The file of the template is hashed, and run dry for its targets.
NextTemplate ==
  /\ pc = "next"
  /\ \E p \in queue :
       /\ template[p] # Gone
       /\ queue' = queue \ {p}
       /\ tpl' = p
       /\ version' = template[p]
       /\ targets' = Produces[p][template[p]][cache.version]
  /\ pc' = "check"
  /\ UNCHANGED <<world, file, faults, db, fetched, opts, seen, need_build, no_build, output>>

\* What is compared with last_modified was never built: its lastBuilt is null.
CheckRaises ==
  /\ pc = "check"
  /\ \E t \in Unseen : InDB(t) /\ rows[tpl][t].built = Null
  /\ Exit
  /\ UNCHANGED faults

Found(t) == IF opts.dest_rootdir THEN Missing ELSE file[t]
Newer(t) == InDB(t) /\ cache.modified > rows[tpl][t].built
Differs(t) == InDB(t) /\ Found(t) # Missing /\ Found(t) # rows[tpl][t].hash
Exists(t) == ~InDB(t) /\ Found(t) # Missing

Look(t) == seen' = [u \in DOMAIN seen \cup {t} |-> IF u = t THEN Found(t) ELSE seen[u]]

\* Mutant: a changed file only counts when there is nothing else to build.
CheckLazily ==
  /\ pc = "check"
  /\ \E t \in Unseen :
       /\ ~(InDB(t) /\ rows[tpl][t].built = Null)
       /\ Look(t)
       /\ need_build' = (need_build \/ Found(t) = Missing \/ Newer(t) \/ Differs(t))
       /\ no_build' = (no_build \/ (~need_build /\ ~Newer(t) /\ Differs(t) /\ ~opts.force))
  /\ UNCHANGED <<world, file, faults, db, pc, fetched, opts, queue, tpl, version, targets, output>>

\* One round of the loop over the targets.  With dest_rootdir the file is looked
\* for below an empty directory.  What is saved goes to a name of its own.
Check ==
  /\ pc = "check"
  /\ \E t \in Unseen :
       LET building == need_build \/ Found(t) = Missing \/ Newer(t) \/ Differs(t)
           held     == building /\ (Differs(t) \/ Exists(t))
       IN  /\ ~(InDB(t) /\ rows[tpl][t].built = Null)
           /\ Look(t)
           /\ need_build' = building
           /\ no_build' = (no_build \/ (held /\ ~opts.force))
           /\ IF held /\ opts.force /\ ~opts.no_backups /\ ~opts.dry_run
                THEN file' = [file EXCEPT ![t] = Missing]
                ELSE UNCHANGED file
  /\ UNCHANGED <<world, faults, db, pc, fetched, opts, queue, tpl, version, targets, output>>

AllSeen == pc = "check" /\ Unseen = {}
Building == need_build \/ templates[tpl] # version \/ opts.re_generate

Skip ==
  /\ AllSeen
  /\ no_build \/ opts.dry_run
  /\ pc' = "next"
  /\ NoPlan
  /\ UNCHANGED <<world, file, faults, db, fetched, opts, queue, output>>

\* Nothing to build: targets new to the database are inserted without a hash.
OnlyChecked ==
  /\ AllSeen
  /\ ~no_build /\ ~opts.dry_run
  /\ ~Building /\ ~opts.dest_rootdir
  /\ rows' = [rows EXCEPT ![tpl] = [t \in Targets |->
                IF t \in targets /\ ~InDB(t) THEN [hash |-> Null, built |-> Null]
                                             ELSE rows[tpl][t]]]
  /\ pc' = "next"
  /\ NoPlan
  /\ UNCHANGED <<world, file, faults, control, cache, templates, fetched, opts, queue, output>>

\* Into another directory: neither the targets nor the database are touched.
RenderElsewhere ==
  /\ AllSeen
  /\ ~no_build /\ ~opts.dry_run
  /\ opts.dest_rootdir /\ template[tpl] # Gone
  /\ pc' = "next"
  /\ NoPlan
  /\ UNCHANGED <<world, file, faults, db, fetched, opts, queue, output>>

\* The template is read again.
RenderTemplate ==
  /\ AllSeen
  /\ ~no_build /\ ~opts.dry_run
  /\ Building /\ ~opts.dest_rootdir
  /\ template[tpl] # Gone
  /\ rendered' = template[tpl]
  /\ left' = Produces[tpl][template[tpl]][cache.version]
  /\ pc' = "write"
  /\ UNCHANGED <<world, file, faults, db, fetched, opts, queue, plan, target>>

RenderRaises ==
  /\ AllSeen
  /\ ~no_build /\ ~opts.dry_run
  /\ Building \/ opts.dest_rootdir
  /\ template[tpl] = Gone
  /\ Exit
  /\ UNCHANGED faults

\* TargetWriter opens the file, and then renders what goes into it.
OpenTarget ==
  /\ pc = "write"
  /\ target' \in left
  /\ file' = [file EXCEPT ![target'] = Empty]
  /\ pc' = "body"
  /\ UNCHANGED <<world, faults, db, fetched, opts, queue, plan, rendered, left>>

WriteTarget ==
  /\ pc = "body"
  /\ file' = [file EXCEPT ![target] = [tpl |-> tpl, ver |-> rendered, val |-> cache.version]]
  /\ left' = left \ {target}
  /\ target' = Nil
  /\ pc' = "write"
  /\ UNCHANGED <<world, faults, db, fetched, opts, queue, plan, rendered>>

\* A target that is not there cannot be hashed.
RecordRaises ==
  /\ pc = "write" /\ left = {}
  /\ \E t \in targets : file[t] = Missing
  /\ Exit
  /\ UNCHANGED faults

\* The hashes are of the files as they are now.  A template that is in the
\* database updates the rows of its targets, and inserts none.
Record ==
  /\ pc = "write" /\ left = {}
  /\ \A t \in targets : file[t] # Missing
  /\ templates' = [templates EXCEPT ![tpl] = version]
  /\ rows' = [rows EXCEPT ![tpl] = [t \in Targets |->
                IF t \in targets /\ (templates[tpl] = Nil \/ InDB(t))
                  THEN [hash |-> file[t], built |-> CurrentTimestamp]
                  ELSE rows[tpl][t]]]
  /\ pc' = "next"
  /\ NoPlan /\ NoOutput
  /\ UNCHANGED <<world, file, faults, control, cache, fetched, opts, queue>>

-----------------------------------------------------------------------------

Next ==
  \/ Tick \/ ValuesChange \/ TemplateChanges \/ SomebodyEdits
  \/ Open \/ FillControl \/ CreateTables \/ MarkVersion \/ Close \/ Dies
  \/ Fetch \/ StoreValues
  \/ ConfigPackage \/ EndPackage \/ PassOver \/ NextTemplate
  \/ CheckRaises \/ Check \/ Skip \/ OnlyChecked
  \/ RenderElsewhere \/ RenderTemplate \/ RenderRaises
  \/ OpenTarget \/ WriteTarget \/ RecordRaises \/ Record

Spec == Init /\ [][Next]_vars

-----------------------------------------------------------------------------
(* Properties.                                                             *)

\* Every variable has its type.
TypeOK ==
  /\ now \in 0..MaxTime /\ server \in Values
  /\ changedAt \in [Values -> 0..MaxTime]
  /\ template \in [Templates -> Versions \cup {Gone}]
  /\ file \in [Targets -> Contents \cup {Missing}]
  /\ edits \in 0..MaxEdits /\ deaths \in 0..MaxDeaths
  /\ control \in {"none", "empty", "new", "done"}
  /\ cache \in [version: Values, modified: 0..MaxTime]
  /\ templates \in [Templates -> Versions \cup {Nil}]
  /\ rows \in [Templates -> [Targets -> Row \cup {Nil}]]
  /\ pc \in {"down", "fill", "tables", "mark", "idle", "store", "next", "check", "write", "body"}
  /\ fetched \in [version: Values, modified: 0..MaxTime]
  /\ opts \in Calls \cup {Nil} /\ queue \in SUBSET Templates
  /\ tpl \in Templates \cup {Nil} /\ version \in Versions /\ targets \in SUBSET Targets
  /\ DOMAIN seen \in SUBSET targets
  /\ seen \in [DOMAIN seen -> Contents \cup {Missing}]
  /\ need_build \in BOOLEAN /\ no_build \in BOOLEAN
  /\ rendered \in Versions /\ left \in SUBSET Targets /\ target \in Targets \cup {Nil}

\* A target recorded before Contractor changed its values, as far as the clock
\* tells, is older than valuesLastModified once the new values are cached, so
\* the next configPackage builds it again, whatever process crashed or fetched
\* in between.
ChangeIsNoticed ==
  control = "done" =>
    \A p \in Templates, t \in Targets :
      LET row == rows[p][t]
          stale == row # Nil /\ row.hash \in Rendered /\ row.hash.val < cache.version
      IN  stale /\ row.built < changedAt[cache.version] => cache.modified > row.built

\* The values never go back: no file and no recorded hash was rendered from
\* values newer than those in the database.
NothingIsNewer ==
  /\ \A t \in Targets : file[t] \in Rendered => file[t].val <= cache.version
  /\ \A p \in Templates, t \in Targets :
       rows[p][t] # Nil /\ rows[p][t].hash \in Rendered => rows[p][t].hash.val <= cache.version

\* A dry run and a run into another directory leave the targets and their rows
\* alone, and without force no target is replaced that the run found to differ
\* from what was recorded of it.
OnlyAsAsked ==
  [][/\ \A t \in Targets : file'[t] # file[t] /\ edits' = edits =>
          /\ ~opts.dry_run /\ ~opts.dest_rootdir
          /\ opts.force \/ t \notin DOMAIN seen \/ ~InDB(t)
               \/ seen[t] \in {Missing, rows[tpl][t].hash}
     /\ (rows' # rows /\ pc = "check") => (~opts.dry_run /\ ~opts.dest_rootdir)]_vars
=============================================================================
