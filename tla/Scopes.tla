--------------------------------- MODULE Scopes --------------------------------
(***************************************************************************)
(* What the names of a template of jinja2 stand for                        *)
(* (src/libconfig/jinja2: idtracking.py, compiler.py, Context of           *)
(* runtime.py).                                                            *)
(*                                                                         *)
(* The compiler gives every name of every frame a local variable of        *)
(* Python, the level of the frame and the name, and decides where it has   *)
(* its value from when the frame is entered.  `Run` is what the generated  *)
(* code does; `Meaning` is what the template says.                         *)
(*                                                                         *)
(* A test of an `if` is its outcome, an iterable the number of its items.  *)
(* Macros, imports, inheritance, recursive loops and filters of loops are  *)
(* left out.                                                               *)
(***************************************************************************)
EXTENDS Integers, Sequences, FiniteSets, TLC, SequencesExt

CONSTANTS
  Statements,    \* what a template may consist of
  Contexts,      \* the variables a template is rendered with
  MaxStatements

VARIABLES program, variables, result

scopesVars == <<program, variables, result>>

-----------------------------------------------------------------------------
(* The symbols of a frame.  The frames around it are a sequence, the       *)
(* outermost first; a local variable is a level and a name.                *)

NewSymbols(level) == [level |-> level, refs |-> {}, loads |-> <<>>, stores |-> {}]

NoRef == <<>>
FindRef(frames, name) ==
  LET having == {k \in DOMAIN frames : name \in frames[k].refs}
  IN  IF having = {} THEN NoRef
      ELSE LET k == CHOOSE k \in having : \A j \in having : j <= k IN <<frames[k].level, name>>

DefineRef(sym, name, load) == [sym EXCEPT !.refs = @ \cup {name}, !.loads = (name :> load) @@ @]

Parameter == [how |-> "param", of |-> NoRef]
Resolved == [how |-> "resolve", of |-> NoRef]
Undefined == [how |-> "undefined", of |-> NoRef]
FromOuter(outer, name, otherwise) ==
  IF FindRef(outer, name) = NoRef THEN otherwise ELSE [how |-> "alias", of |-> FindRef(outer, name)]

Stored(outer, sym, name) ==
  LET known == IF name \in sym.refs THEN sym ELSE DefineRef(sym, name, FromOuter(outer, name, Undefined))
  IN  [known EXCEPT !.stores = @ \cup {name}]

DeclareParameter(sym, name) == [DefineRef(sym, name, Parameter) EXCEPT !.stores = @ \cup {name}]

Loaded(outer, sym, name) ==
  IF FindRef(Append(outer, sym), name) = NoRef THEN DefineRef(sym, name, Resolved) ELSE sym

\* Mutant: a name that some branches set is left to them.
SetInSomeNever(sym, branches) == {}

\* The names that some of the branches set, not all, and nothing before them.
SetInSome(sym, branches) ==
  {name \in UNION {b.stores : b \in ToSet(branches)} \ sym.stores : \E b \in ToSet(branches) : name \notin b.stores}

BranchUpdate(outer, sym, branches) ==
  LET loads == FoldLeft(LAMBDA acc, b : b.loads @@ acc, sym.loads, branches)
      some == SetInSome(sym, branches)
  IN  [sym EXCEPT !.refs = @ \cup UNION {b.refs : b \in ToSet(branches)},
                  !.stores = @ \cup UNION {b.stores : b \in ToSet(branches)},
                  !.loads = [name \in some |-> FromOuter(outer, name, Resolved)] @@ loads]

\* The visitor stops at the nodes that have a frame of their own.
RECURSIVE Inspect(_, _, _)
Inspect(outer, sym, nodes) ==
  IF nodes = <<>> THEN sym
  ELSE LET node == Head(nodes)
           visited ==
             CASE node.kind = "out" -> Loaded(outer, sym, node.name)
               [] node.kind = "with" -> Loaded(outer, sym, node.value)
               [] node.kind \in {"set", "capture"} -> Stored(outer, sym, node.name)
               [] node.kind = "if" ->
                    BranchUpdate(outer, sym, <<Inspect(outer, sym, node.body), Inspect(outer, sym, node.elifs),
                                               Inspect(outer, sym, node.else)>>)
               [] OTHER -> sym
       IN  Inspect(outer, visited, Tail(nodes))

\* find_undeclared, which stops at blocks only.
RECURSIVE Mentions(_, _)
Mentions(name, nodes) ==
  \E node \in ToSet(nodes) :
    CASE node.kind = "out" -> node.name = name
      [] node.kind = "with" -> node.value = name \/ Mentions(name, node.body)
      [] node.kind = "if" -> Mentions(name, node.body) \/ Mentions(name, node.elifs) \/ Mentions(name, node.else)
      [] node.kind = "for" -> Mentions(name, node.body) \/ Mentions(name, node.else)
      [] node.kind \in {"capture", "filter"} -> Mentions(name, node.body)
      [] OTHER -> FALSE

Extended(node) == Mentions("loop", node.body)

\* The frames in a node that has its own, its symbols analyzed.
Inner(frames, node) ==
  LET new == NewSymbols(Last(frames).level + 1)
      looped == IF node.kind = "for" /\ Extended(node) THEN DeclareParameter(new, "loop") ELSE new
      bound == IF node.kind \in {"with", "for"} THEN DeclareParameter(looped, node.name) ELSE looped
  IN  Append(frames, Inspect(frames, bound, node.body))
ElseFrames(frames, node) == Append(frames, Inspect(frames, NewSymbols(Last(frames).level + 1), node.else))

RootFrames(nodes) == <<Inspect(<<>>, NewSymbols(0), nodes)>>

-----------------------------------------------------------------------------
(* The generated code: the local variables of a function, the variables of *)
(* the context that the toplevel sets, and what is written.                *)

Absent == <<"missing">>
Undef == <<"undefined">>
Value(f, key) == IF key \in DOMAIN f THEN f[key] ELSE Absent

EnterFrame(frames, context, st) ==
  LET sym == Last(frames)
      entered == {name \in DOMAIN sym.loads : sym.loads[name].how # "param"}
      start(name) == CASE sym.loads[name].how = "resolve" -> Value(st.vars @@ context, name)
                       [] sym.loads[name].how = "alias" -> st.locals[sym.loads[name].of]
                       [] OTHER -> Absent
  IN  [st EXCEPT !.locals = [v \in {<<sym.level, name>> : name \in entered} |-> start(v[2])] @@ @]

LeaveFrame(frames, st) ==
  LET sym == Last(frames)
  IN  [st EXCEPT !.locals = [v \in {<<sym.level, name>> : name \in DOMAIN sym.loads} |-> Absent] @@ @]

Assigned(frames, toplevel, st, name, value) ==
  [st EXCEPT !.locals = (FindRef(frames, name) :> value) @@ @,
             !.vars = IF toplevel THEN (name :> value) @@ @ ELSE @]

Read(frames, st, name) ==
  LET value == st.locals[FindRef(frames, name)] IN IF value = Absent THEN Undef ELSE value

\* derive_context: what the frames have set so far, for a scoped block.
LocalContext(frames, st) ==
  LET stores == {name \in UNION {sym.stores : sym \in ToSet(frames)} : Value(st.locals, FindRef(frames, name)) # Absent}
  IN  [name \in stores |-> st.locals[FindRef(frames, name)]]

Written(st, text) == [st EXCEPT !.out = @ \o text]
ItemAt(k) == <<"item", k>>
Turn(k) == <<"turn", k>>

RECURSIVE Run(_, _, _, _, _), RunFor(_, _, _, _, _)
RunIn(frames, context, nodes, st) ==
  LeaveFrame(frames, Run(frames, FALSE, context, nodes, EnterFrame(frames, context, st)))

RunBlock(frames, context, node, st) ==
  LET inner == RootFrames(node.body)
      derived == IF node.scoped THEN LocalContext(frames, st) @@ st.vars @@ context ELSE context
      start == [locals |-> <<>>, vars |-> IF node.scoped THEN <<>> ELSE st.vars, out |-> <<>>]
  IN  Run(inner, FALSE, derived, node.body, EnterFrame(inner, derived, start)).out

RunFor(frames, context, node, st, k) ==
  LET loop == Inner(frames, node)
      level == Last(loop).level
      bound == [st EXCEPT !.locals = (<<level, node.name>> :> ItemAt(k))
                                     @@ (IF Extended(node) THEN <<level, "loop">> :> Turn(k) ELSE <<>>) @@ @]
  IN  IF k > node.items THEN LeaveFrame(loop, st)
      ELSE RunFor(frames, context, node, Run(loop, FALSE, context, node.body, EnterFrame(loop, context, bound)), k + 1)

Run(frames, toplevel, context, nodes, st) ==
  IF nodes = <<>> THEN st
  ELSE
  LET node == Head(nodes)
      inner == Inner(frames, node)
      captured == RunIn(inner, context, node.body, [st EXCEPT !.out = <<>>])
      after ==
        CASE node.kind = "out" -> Written(st, <<Read(frames, st, node.name)>>)
          [] node.kind = "set" -> Assigned(frames, toplevel, st, node.name, node.value)
          [] node.kind = "if" ->
               LET true == SelectSeq(<<node>> \o node.elifs, LAMBDA branch : branch.test)
               IN  Run(frames, toplevel, context, IF true = <<>> THEN node.else ELSE Head(true).body, st)
          [] node.kind = "for" ->
               LET looped == RunFor(frames, context, node, st, 1)
               IN  IF node.items > 0 THEN looped ELSE RunIn(ElseFrames(frames, node), context, node.else, looped)
          [] node.kind = "with" ->
               LET entered == EnterFrame(inner, context, st)
                   value == Read(frames, entered, node.value)
               IN  LeaveFrame(inner, Run(inner, FALSE, context, node.body, Assigned(inner, FALSE, entered, node.name, value)))
          [] node.kind = "capture" ->
               Assigned(frames, toplevel, [captured EXCEPT !.out = st.out], node.name, <<"text", captured.out>>)
          [] node.kind = "filter" -> [captured EXCEPT !.out = st.out \o <<<<"filtered">>>> \o captured.out]
          [] node.kind = "block" -> Written(st, RunBlock(frames, context, node, st))
  IN  Run(frames, toplevel, context, Tail(nodes), after)

Rendered(nodes, context) ==
  LET frames == RootFrames(nodes)
      start == [locals |-> <<>>, vars |-> <<>>, out |-> <<>>]
  IN  Run(frames, TRUE, context, nodes, EnterFrame(frames, context, start)).out

-----------------------------------------------------------------------------
(* What a template says: a scope sees what is set around it so far, and    *)
(* what is set in it ends with it; a block sees what the toplevel has set, *)
(* a scoped one what there is where it stands.                             *)

Shown(st, text) == [st EXCEPT !.out = @ \o text]

RECURSIVE Says(_, _, _), SaysFor(_, _, _, _)
InFrame(nodes, env, top) == Says(nodes, FALSE, [env |-> env, top |-> top, out |-> <<>>]).out
Bound(env, name) == IF name \in DOMAIN env THEN env[name] ELSE Undef
SetTo(st, toplevel, name, value) ==
  [st EXCEPT !.env = (name :> value) @@ @, !.top = IF toplevel THEN (name :> value) @@ @ ELSE @]

SaysFor(node, env, top, k) ==
  IF k > node.items THEN <<>>
  ELSE InFrame(node.body, (node.name :> ItemAt(k)) @@ ("loop" :> Turn(k)) @@ env, top) \o SaysFor(node, env, top, k + 1)

Says(nodes, toplevel, st) ==
  IF nodes = <<>> THEN st
  ELSE
  LET node == Head(nodes)
      after ==
        CASE node.kind = "out" -> Shown(st, <<Bound(st.env, node.name)>>)
          [] node.kind = "set" -> SetTo(st, toplevel, node.name, node.value)
          [] node.kind = "capture" -> SetTo(st, toplevel, node.name, <<"text", InFrame(node.body, st.env, st.top)>>)
          [] node.kind = "if" ->
               IF node.test THEN Says(node.body, toplevel, st)
               ELSE IF node.elifs # <<>>
                 THEN Says(<<[Head(node.elifs) EXCEPT !.elifs = Tail(node.elifs), !.else = node.else]>>, toplevel, st)
               ELSE Says(node.else, toplevel, st)
          [] node.kind = "for" ->
               Shown(st, IF node.items > 0 THEN SaysFor(node, st.env, st.top, 1) ELSE InFrame(node.else, st.env, st.top))
          [] node.kind = "with" -> Shown(st, InFrame(node.body, (node.name :> Bound(st.env, node.value)) @@ st.env, st.top))
          [] node.kind = "filter" -> Shown(st, <<<<"filtered">>>> \o InFrame(node.body, st.env, st.top))
          [] node.kind = "block" ->
               LET env == IF node.scoped THEN st.env ELSE st.top IN Shown(st, InFrame(node.body, env, env))
  IN  Says(Tail(nodes), toplevel, after)

Meaning(nodes, context) == Says(nodes, TRUE, [env |-> context, top |-> context, out |-> <<>>]).out

-----------------------------------------------------------------------------
(* The templates whose names the compiler gets wrong.                      *)

Names == {"a", "b", "loop"}

RECURSIVE Flat(_)
Flat(nodes) ==
  FlattenSeq([k \in DOMAIN nodes |->
    IF nodes[k].kind = "if" THEN Flat(nodes[k].body) \o Flat(nodes[k].elifs) \o Flat(nodes[k].else) ELSE <<nodes[k]>>])

Sets(name, node) == node.kind \in {"set", "capture"} /\ node.name = name
ReadsHere(name, node) == (node.kind = "out" /\ node.name = name) \/ (node.kind = "with" /\ node.value = name)
FramesOf(node) ==
  CASE node.kind = "for" -> {node.body, node.else}
    [] node.kind \in {"with", "capture", "filter"} -> {node.body}
    [] OTHER -> {}

\* A name that a frame sets, having not read it before, is undefined until then in
\* the frames inside, whatever the context has.
RECURSIVE ReadTooEarly(_, _)
ReadTooEarly(nodes, known) ==
  LET flat == Flat(nodes)
      here == {name \in Names : \E node \in ToSet(flat) : Sets(name, node) \/ ReadsHere(name, node)}
  IN  \/ \E name \in Names \ known : \E i, j \in DOMAIN flat :
           /\ i <= j /\ Sets(name, flat[j])
           /\ \E frame \in FramesOf(flat[i]) : Mentions(name, frame)
           /\ \A h \in 1..(i - 1) : ~Sets(name, flat[h]) /\ ~ReadsHere(name, flat[h])
      \/ \E node \in ToSet(flat) :
           \/ \E frame \in FramesOf(node) :
                ReadTooEarly(frame, known \cup here \cup (IF node.kind \in {"for", "with"} THEN {node.name} ELSE {}))
           \/ node.kind = "block" /\ ReadTooEarly(node.body, {})

\* If the three parts of an if set a name, but not on every path before it is read,
\* it is undefined on the others, whatever the context has.
RECURSIVE SetFirst(_, _), SetOnSomePaths(_)
SetsSome(name, nodes) == \E node \in ToSet(Flat(nodes)) : Sets(name, node)
AllSetFirst(name, node) ==
  \A part \in {node.body, node.else} \cup {e.body : e \in ToSet(node.elifs)} : SetFirst(name, part)
SetFirst(name, nodes) ==
  \E i \in DOMAIN nodes :
    /\ ~Mentions(name, SubSeq(nodes, 1, i - 1))
    /\ \/ Sets(name, nodes[i]) /\ ~Mentions(name, <<nodes[i]>>)
       \/ nodes[i].kind = "if" /\ AllSetFirst(name, nodes[i])
SetOnSomePaths(nodes) ==
  \E node \in ToSet(nodes) :
    \/ /\ node.kind = "if"
       /\ \/ \E name \in Names : /\ \A part \in {node.body, node.elifs, node.else} : SetsSome(name, part)
                                  /\ ~AllSetFirst(name, node)
          \/ SetOnSomePaths(node.body) \/ SetOnSomePaths(node.elifs) \/ SetOnSomePaths(node.else)
    \/ node.kind # "if" /\ \E frame \in FramesOf(node) : SetOnSomePaths(frame)
    \/ node.kind = "block" /\ SetOnSomePaths(node.body)

\* A loop has no loop variable that only a scoped block in it reads.
RECURSIVE BlockReadsLoop(_)
BlockReadsLoop(nodes) ==
  \E node \in ToSet(Flat(nodes)) :
    \/ node.kind = "block" /\ (Mentions("loop", node.body) \/ BlockReadsLoop(node.body))
    \/ \E frame \in FramesOf(node) : BlockReadsLoop(frame)

-----------------------------------------------------------------------------

NoResult == <<<<"none">>>>

ScopesInit == program = <<>> /\ variables \in Contexts /\ result = NoResult

Write ==
  /\ result = NoResult /\ Len(program) < MaxStatements
  /\ \E statement \in Statements[Len(program) + 1] : program' = Append(program, statement)
  /\ UNCHANGED <<variables, result>>

RenderProgram ==
  /\ result = NoResult /\ program # <<>>
  /\ result' = Rendered(program, variables)
  /\ UNCHANGED <<program, variables>>

ScopesNext == Write \/ RenderProgram

\* Rendering a template shows at each of its names what the template says it
\* stands for there, whatever frames, branches, blocks and variables of the
\* context it has, but for the three kinds of templates above.
NamesAreTrue ==
  result # NoResult =>
    \/ result = Meaning(program, variables)
    \/ ReadTooEarly(program, {}) \/ SetOnSomePaths(program) \/ BlockReadsLoop(program)
=============================================================================
