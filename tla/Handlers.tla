-------------------------------- MODULE Handlers --------------------------------
(***************************************************************************)
(* The handlers of the firmware disk (disks/firmware/root/firmware/        *)
(* manager.py, handler.py, plugins/harddrive.py and handlers/*/plugin):    *)
(* which handlers a set of plugins makes, how the output of a command is   *)
(* read while it runs, and what a handler makes of it: the targets it      *)
(* finds, and whether an update succeeded.                                 *)
(*                                                                         *)
(* The tools of the vendors are outside of the repository: a command       *)
(* writes its lines, perhaps something on stderr, and ends with any code.  *)
(* Module Firmware has firmware.py itself, and relies on what a handler    *)
(* tells it.                                                               *)
(***************************************************************************)
EXTENDS Integers, Sequences, FiniteSets, SequencesExt

CONSTANTS
  PluginSets,      \* what an archive of handlers may hold, beside harddrive
  Boards,          \* the manufacturers of the machine's board
  Cards,           \* of Mellanox, the first function of each, in the order of pciInfo
  HardDrives,
  KeptLines,       \* of its stdout the last 5000 characters, counted in lines
  MaxChatter,      \* bound on the lines of a command that no handler looks for
  MaxNoise         \* bound on what a command writes on stderr

NoDevice == "none"

ASSUME HandlersAssumption ==
  /\ Cards \in Seq(ToSet(Cards)) /\ NoDevice \notin ToSet(Cards) \cup HardDrives
  /\ KeptLines \in Nat \ {0} /\ MaxChatter \in Nat /\ MaxNoise \in Nat

VARIABLES
  board,
  plugins,     \* the files in the directory
  handlers,    \* getHandlers, in the order of PRIORITY
  calling,     \* "load", "idle", "command", "judge", "told", "raised"
  handler,     \* that is called
  updating,    \* the target of updateTarget, NoDevice in getTargets
  todo,        \* commands still to be executed, each the lines it writes
  reader,      \* where _execute is
  toWrite,     \* lines the process has not written yet
  noise,       \* how much it wrote on stderr
  out, err,    \* the pipes
  rc,          \* of the process, Running before its end
  logged, lines, \* the log of the command, and return_lines
  found,       \* result of getTargets
  written,     \* targets a command of this call flashed
  success      \* what updateTarget returned

handlersVars == <<board, plugins, handlers, calling, handler, updating, todo, reader, toWrite, noise,
                  out, err, rc, logged, lines, found, written, success>>
callVars == <<board, plugins, handlers, calling, handler, updating, todo, found, written, success>>
processVars == <<reader, toWrite, noise, out, err, rc, logged, lines>>

Running == 256
Noise == [key |-> "stderr", of |-> NoDevice]
Line(key, d) == [key |-> key, of |-> d]

Priority == [saa |-> 20, afudos |-> 20, megaraid |-> 60, mellanox |-> 80, harddrive |-> 100]

\* getattr( module, module.NAME ): AfuDOS and Mega RAID are not the names of
\* their classes.
Loadable == {"saa", "mellanox", "harddrive"}

\* What a machine has, for a handler.
Devices(h) ==
  CASE h = "saa" -> IF board = "Supermicro" THEN {"BIOS", "BMC"} ELSE {}
    [] h = "mellanox" -> ToSet(Cards)
    [] h = "harddrive" -> HardDrives

\* A tool has more to say than what its handler looks for.
Chatter(n) == [i \in 1..n |-> Line("other", NoDevice)]
VersionLines(d, n) == <<Line("version", d)>> \o Chatter(n)
CardLines(c, n) == <<Line("PSID", c), Line("version", c)>> \o Chatter(n)

\* The commands of getTargets, each the lines it writes.
Queries(h, n) ==
  CASE h = "saa" /\ board = "Supermicro" -> <<VersionLines("BIOS", n), VersionLines("BMC", n)>>
    [] h = "mellanox" -> [k \in DOMAIN Cards |-> CardLines(Cards[k], n)]
    [] OTHER -> <<>>

-----------------------------------------------------------------------------

HandlersInit ==
  /\ board \in Boards /\ plugins \in PluginSets
  /\ handlers = <<>> /\ calling = "load" /\ handler = NoDevice /\ updating = NoDevice /\ todo = <<>>
  /\ reader = "idle" /\ toWrite = <<>> /\ noise = 0 /\ out = <<>> /\ err = <<>>
  /\ rc = Running /\ logged = <<>> /\ lines = <<>>
  /\ found = {} /\ written = {} /\ success = FALSE

\* Manager: sorted by PRIORITY; of equal ones the directory decides.
LoadHandlers ==
  /\ calling = "load"
  /\ IF plugins \subseteq Loadable
       THEN /\ \E s \in SetToSeqs(plugins \cup {"harddrive"}) :
                 /\ \A i, j \in DOMAIN s : i < j => Priority[s[i]] <= Priority[s[j]]
                 /\ handlers' = s
            /\ calling' = "idle"
       ELSE calling' = "raised" /\ UNCHANGED handlers
  /\ UNCHANGED <<board, plugins, handler, updating, todo, found, written, success>>
  /\ UNCHANGED processVars

GetTargets ==
  /\ calling = "idle"
  /\ \E k \in DOMAIN handlers :
       /\ handler' = handlers[k]
       /\ \E n \in 0..MaxChatter : todo' = Queries(handlers[k], n)
       /\ found' = IF handlers[k] = "harddrive" THEN HardDrives ELSE {}
       /\ calling' = IF todo' = <<>> THEN "told" ELSE "command"
  /\ updating' = NoDevice
  /\ UNCHANGED <<board, plugins, handlers, written, success>>
  /\ UNCHANGED processVars

\* Firmware of drives is not updated.
UpdateTarget ==
  /\ calling = "told" /\ updating = NoDevice
  /\ \E d \in found : updating' = d
  /\ success' = FALSE
  /\ written' = {}
  /\ todo' = IF handler = "harddrive" THEN <<>> ELSE <<<<>>>>
  /\ calling' = IF todo' = <<>> THEN "told" ELSE "command"
  /\ UNCHANGED <<board, plugins, handlers, handler, found>>
  /\ UNCHANGED processVars

-----------------------------------------------------------------------------
(* _execute, and the process it started.                                   *)

Start ==
  /\ calling = "command" /\ reader = "idle"
  /\ reader' = "poll"
  /\ toWrite' = Head(todo)
  /\ noise' = 0 /\ out' = <<>> /\ err' = <<>> /\ rc' = Running /\ logged' = <<>> /\ lines' = <<>>
  /\ UNCHANGED callVars

ProcessWrites ==
  /\ reader # "idle" /\ rc = Running
  /\ \/ /\ toWrite # <<>>
        /\ out' = Append(out, Head(toWrite)) /\ toWrite' = Tail(toWrite)
        /\ UNCHANGED <<err, noise>>
     \/ /\ noise < MaxNoise
        /\ err' = Append(err, Noise) /\ noise' = noise + 1
        /\ UNCHANGED <<out, toWrite>>
  /\ UNCHANGED <<reader, rc, logged, lines>>
  /\ UNCHANGED callVars

\* A tool that fails may have flashed its target all the same, one that succeeds
\* has, and has written all of its lines.
ProcessEnds ==
  /\ reader # "idle" /\ rc = Running
  /\ rc' \in {0, 1}
  /\ rc' = 0 => toWrite = <<>>
  /\ IF updating = NoDevice THEN UNCHANGED written
     ELSE written' \in IF rc' = 0 THEN {{updating}} ELSE {{}, {updating}}
  /\ UNCHANGED <<board, plugins, handlers, calling, handler, updating, todo, found, success>>
  /\ UNCHANGED <<reader, toWrite, noise, out, err, logged, lines>>

Poll ==
  /\ reader = "poll"
  /\ reader' = IF rc = Running THEN "out" ELSE "lastout"
  /\ UNCHANGED <<toWrite, noise, out, err, rc, logged, lines>>
  /\ UNCHANGED callVars

\* [-5000:].  A line that is cut in two is none the handler would know.
Latest(s) == IF Len(s) <= KeptLines THEN s ELSE SubSeq(s, Len(s) - KeptLines + 1, Len(s))

\* stdout is read until nothing is there: all of it for the log, and the end of
\* it for the handler.
ReadOut ==
  /\ reader \in {"out", "lastout"}
  /\ logged' = logged \o out /\ lines' = Latest(lines \o out) /\ out' = <<>>
  /\ reader' = IF out # <<>> THEN reader ELSE IF reader = "out" THEN "err" ELSE "lasterr"
  /\ UNCHANGED <<toWrite, noise, err, rc>>
  /\ UNCHANGED callVars

ReadErr ==
  /\ reader \in {"err", "lasterr"}
  /\ logged' = logged \o err /\ err' = <<>>
  /\ reader' = IF err # <<>> THEN (IF reader = "err" THEN "errout" ELSE "lasterrout")
               ELSE IF reader = "err" THEN "poll" ELSE "done"
  /\ UNCHANGED <<toWrite, noise, out, rc, lines>>
  /\ UNCHANGED callVars

\* The loop below stderr goes on with stdout, and for the log only.
ReadOutAsErr ==
  /\ reader \in {"errout", "lasterrout"}
  /\ logged' = logged \o out /\ out' = <<>>
  /\ reader' = IF out # <<>> THEN reader ELSE IF reader = "errout" THEN "poll" ELSE "done"
  /\ UNCHANGED <<toWrite, noise, err, rc, lines>>
  /\ UNCHANGED callVars

-----------------------------------------------------------------------------
(* What a handler makes of a command.                                      *)

\* A version that matches is a target; a card without its PSID or its version
\* is a KeyError.
JudgeQuery ==
  /\ calling = "command" /\ reader = "done" /\ updating = NoDevice
  /\ LET said == {l.key : l \in ToSet(lines)} \ {"other"}
         fine == rc = 0 /\ (handler = "mellanox" => said = {"PSID", "version"})
     IN  IF fine
           THEN /\ found' = found \cup {l.of : l \in {x \in ToSet(lines) : x.key = "version"}}
                /\ todo' = Tail(todo)
                /\ calling' = IF todo' = <<>> THEN "told" ELSE "command"
           ELSE calling' = "raised" /\ UNCHANGED <<found, todo>>
  /\ reader' = "idle"
  /\ UNCHANGED <<board, plugins, handlers, handler, updating, written, success>>
  /\ UNCHANGED <<toWrite, noise, out, err, rc, logged, lines>>

\* Mutant: the code of the tool is not looked at.
SucceedsAnyway == TRUE

Succeeds == rc = 0

\* The BIOS is taken at a reboot, which is asked for; if it does not come the
\* update has failed.
JudgeUpdate ==
  /\ calling = "command" /\ reader = "done" /\ updating # NoDevice
  /\ success' = (Succeeds /\ updating # "BIOS")
  /\ calling' = IF Succeeds /\ updating = "BIOS" THEN "reboot" ELSE "told"
  /\ reader' = "idle"
  /\ todo' = <<>>
  /\ UNCHANGED <<board, plugins, handlers, handler, updating, found, written>>
  /\ UNCHANGED <<toWrite, noise, out, err, rc, logged, lines>>

RebootLate ==
  /\ calling = "reboot"
  /\ calling' = "told"
  /\ UNCHANGED <<board, plugins, handlers, handler, updating, todo, found, written, success>>
  /\ UNCHANGED processVars

HandlersNext ==
  \/ LoadHandlers \/ GetTargets \/ UpdateTarget
  \/ Start \/ ProcessWrites \/ ProcessEnds \/ Poll \/ ReadOut \/ ReadErr \/ ReadOutAsErr
  \/ JudgeQuery \/ JudgeUpdate \/ RebootLate

-----------------------------------------------------------------------------

\* The log has what was said, in its order, and noise between it.
Holding(log, said, n) ==
  /\ Len(log) = Len(said) + n
  /\ \E place \in [DOMAIN said -> DOMAIN log] :
       /\ \A i, j \in DOMAIN said : i < j => place[i] < place[j]
       /\ \A i \in DOMAIN said : log[place[i]] = said[i]
       /\ \A k \in DOMAIN log : log[k] = Noise \/ \E i \in DOMAIN said : place[i] = k

\* However the output of a command and the reading of it interleave, the log
\* has every line once, those of stdout in their order; and the lines that are
\* returned are of stdout, the last of them that fit when nothing came on stderr.
OutputIsKept ==
  reader = "done" /\ rc = 0 =>
    /\ Holding(logged, Head(todo), noise)
    /\ ToSet(lines) \subseteq ToSet(Head(todo))
    /\ noise = 0 => lines = Latest(Head(todo))

\* A target is one of the machine.  None is missing, but of saa, whose lines may
\* be lost to stderr or be cut off: there the last command tells the BMC if it was
\* silent there and all that it wrote was kept.  An update that is reported done,
\* or is rebooted into, was carried out.
HandlersAreHonest ==
  /\ found \subseteq (IF handler = NoDevice THEN {} ELSE Devices(handler))
  /\ calling = "told" /\ handler \in {"mellanox", "harddrive"} => found = Devices(handler)
  /\ calling = "told" /\ updating = NoDevice /\ handler = "saa" /\ noise = 0 /\ Len(lines) < KeptLines =>
       Devices("saa") \ found \subseteq {"BIOS"}
  /\ success \/ calling = "reboot" => written = {updating}

\* firmware.py is told what the tool of the vendor said and did (handler.py and
\* the handlers).
HandlersAreTrue == OutputIsKept /\ HandlersAreHonest
=============================================================================
