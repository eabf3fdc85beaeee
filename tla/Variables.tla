------------------------------ MODULE Variables ------------------------------
(***************************************************************************)
(* How the editor looks at the variables of a stopped state.  The adapter  *)
(* (script/variables.lua, vm.lua) hands out references: fresh ids for the  *)
(* scopes of a frame, and the number under which the backend has cached a  *)
(* table of the state (DebugBackend.cpp, CacheTable) for a table.  A       *)
(* request for a reference becomes a command, the answer comes back as an  *)
(* event, and everything is forgotten: by the backend when the state runs  *)
(* on, by the adapter at the next stop of any state.                       *)
(*                                                                         *)
(* An object is what the user looks at: a scope of a frame, or a table.  A *)
(* value is abstracted to the tables in it that are not empty.  Requests   *)
(* wait in the order they are made in, so a request and its handling in    *)
(* the adapter are one step.                                               *)
(***************************************************************************)
EXTENDS Naturals, Sequences, SequencesExt, FiniteSets, FiniteSetsExt, Functions

CONSTANTS VM,          \* addresses of the lua_States, positive
          Table,       \* tables of a state
          Stack,       \* the frames of a stop, innermost first: is the frame a
                       \* Lua function, and if not, the number of native frames
                       \* shown in its place
          InFrame,     \* the tables in the variables of a frame, by level
          InTable,     \* the tables in a table
          None,        \* no table
          FrameLimit,  \* frames a frame id can tell apart: 2 ^ 5 in the code
          Together,    \* whether several states may be stopped at a time
          MaxStops, MaxRequests, MaxId

Level    == 0 .. Len(Stack) - 1
LuaLevel == {l \in Level : Stack[l + 1].lua}
Scope    == {1, 2}      \* '(Local)', '(Upvalue)'

ASSUME VariablesAssumption ==
    /\ VM \subseteq Nat \ {0}
    /\ Stack \in Seq([lua : BOOLEAN, native : Nat])
    /\ InFrame \in [LuaLevel -> SUBSET Table] /\ InTable \in [Table -> SUBSET Table]
    /\ None \notin Table
    /\ FrameLimit \in Nat \ {0} /\ Together \in BOOLEAN
    /\ MaxStops \in Nat /\ MaxRequests \in Nat /\ MaxId \in Nat

\* Objects.  A table has no level and no scope, a scope no table.
ScopeOf(v, l, s) == [vm |-> v, level |-> l, scope |-> s, table |-> None]
TableOf(v, t)    == [vm |-> v, level |-> 0, scope |-> 0, table |-> t]
Object == {ScopeOf(v, l, s) : v \in VM, l \in Level, s \in Scope}
          \cup {TableOf(v, t) : v \in VM, t \in Table}
Nothing == TableOf(0, None)

\* The tables shown inside an object.
Inside(o) == IF o.scope = 0 THEN InTable[o.table]
             ELSE IF o.level \in LuaLevel THEN InFrame[o.level] ELSE {}

\* The place of a frame in the stack that is sent: the frames of C functions are
\* left out of it, the native frames that are found instead are in it.
\* Mutant: the stack is numbered from one.
FrameIndexFromOne(l) == 1 + l
FrameIndex(l) ==
    MapThenSumSet(LAMBDA m : IF Stack[m + 1].lua THEN 1 ELSE Stack[m + 1].native, 0 .. l - 1)

\* (nvm << 5) | (i - 1), and back.  States are aligned to eight bytes: the bits
\* below are free.
FrameId(v, l)   == v * FrameLimit + FrameIndex(l)
ThreadOf(frame) == frame \div FrameLimit
LevelOf(frame)  == frame % FrameLimit

VARIABLES
    phase,       \* per state: "run", "stopped", or "clear": it is to drop its cache
    cache,       \* per state: the tables cached, in the order of their numbers
    commands, events,
    stackTrace,  \* states the adapter takes for stopped
    variables,   \* what is known of each reference handed out
    id,          \* the last fresh id
    tree,        \* references the editor holds, with what they stand for
    asked,       \* what each request was about
    answer,      \* per request: what was shown, Nothing before, or Failed
    stops        \* stops so far

backend == <<phase, cache>>
adapter == <<stackTrace, variables, id>>
editor  == <<tree, asked, answer>>
vars    == <<backend, commands, events, adapter, editor, stops>>

Failed == [Nothing EXCEPT !.scope = 1]

Init ==
    /\ phase = [v \in VM |-> "run"] /\ cache = [v \in VM |-> <<>>]
    /\ commands = <<>> /\ events = <<>>
    /\ stackTrace = {} /\ variables = <<>> /\ id = 0
    /\ tree = {} /\ asked = <<>> /\ answer = <<>>
    /\ stops = 0

TypeOK ==
    /\ phase \in [VM -> {"run", "stopped", "clear"}]
    /\ \A v \in VM : cache[v] \in Seq(Table) /\ IsInjective(cache[v])
    /\ stackTrace \subseteq VM
    /\ \A r \in DOMAIN variables :
           LET var == variables[r] IN
           /\ var.vm \in VM /\ var.scope \in Scope \cup {0}
           /\ var.value \in Object \cup {Nothing}
           /\ var.scope = 0 <=> r < 2 ^ 16
    /\ id \in Nat
    /\ \A n \in tree : n.of \in Object
    /\ asked \in Seq(Object) /\ answer \in Seq(Object \cup {Nothing, Failed})
    /\ Len(asked) = Len(answer) /\ Len(asked) <= MaxRequests /\ stops <= MaxStops

-----------------------------------------------------------------------------
(* The backend.                                                            *)

\* A state stops (breakpoint, step, error) and reports it.
Stop(v) ==
    /\ phase[v] = "run" /\ stops < MaxStops
    /\ Together \/ \A w \in VM : phase[w] # "stopped"
    /\ phase' = [phase EXCEPT ![v] = "stopped"]
    /\ events' = Append(events, [kind |-> "break", vm |-> v])
    /\ stops' = stops + 1
    /\ UNCHANGED <<cache, commands, adapter, editor>>

\* The stopped thread goes on: it drops what was cached during the stop.
Clear(v) ==
    /\ phase[v] = "clear"
    /\ phase' = [phase EXCEPT ![v] = "run"]
    /\ cache' = [cache EXCEPT ![v] = <<>>]
    /\ UNCHANGED <<commands, events, adapter, editor, stops>>

\* The cache with every table of a set in it, in the order of a traversal.
\* Mutants: the numbers are given out again from one; a table that is cached
\* already gets another number.
CacheAllAnew(c, ts) == SetToSeq(ts \ Range(c)) \o c
CacheAllAgain(c, ts) == c \o SetToSeq(ts)
CacheAll(c, ts) == c \o SetToSeq(ts \ Range(c))
\* The number of a cached table.
Reference(c, t) == CHOOSE i \in DOMAIN c : c[i] = t

\* The tables of a set as they are in an answer, with their numbers.
Children(c, ts) == {[ref |-> Reference(c, t), table |-> t] : t \in ts}

Command == Head(commands)
Executed(kind) == /\ commands # <<>> /\ Command.kind = kind
                  /\ commands' = Tail(commands)

CmdContinue ==
    /\ Executed("continue")
    /\ phase' = [phase EXCEPT ![Command.vm] =
                    IF phase[Command.vm] = "stopped" THEN "clear" ELSE @]
    /\ UNCHANGED <<cache, events, adapter, editor, stops>>

\* What a command stands for in the state as it is: a scope of the frame with
\* that level, or what is cached under that number.  (For a level that is not
\* there the code links a null element; a frame id that comes back has one.)
Target(c) ==
    IF c.scope # 0
    THEN IF c.level \in Level THEN ScopeOf(c.vm, c.level, c.scope) ELSE Failed
    ELSE IF c.ref \in DOMAIN cache[c.vm] THEN TableOf(c.vm, cache[c.vm][c.ref]) ELSE Failed

\* ExpandTable: the object's tables are cached and sent with their numbers.
CmdExpand ==
    /\ Executed("expand")
    /\ LET c == Command
           target == Target(c)
           ts == IF target = Failed THEN {} ELSE Inside(target)
           cached == CacheAll(cache[c.vm], ts)
       IN  /\ cache' = [cache EXCEPT ![c.vm] = cached]
           /\ events' = Append(events,
                  [kind |-> "expandRet", seq |-> c.seq, vm |-> c.vm, ref |-> c.ref,
                   of |-> target, children |-> Children(cached, ts)])
    /\ UNCHANGED <<phase, adapter, editor, stops>>

\* Evaluate, of an expression that names a table of the frame it was written
\* for: in a frame that does not have it, the result is an error.
CmdEvaluate ==
    /\ Executed("evaluate")
    /\ LET c == Command
           found == c.level \in LuaLevel /\ c.table \in InFrame[c.level]
           ts == IF found THEN {c.table} ELSE {}
           cached == CacheAll(cache[c.vm], ts)
       IN  /\ cache' = [cache EXCEPT ![c.vm] = cached]
           /\ events' = Append(events,
                  [kind |-> "evaluateRet", seq |-> c.seq, vm |-> c.vm,
                   of |-> IF found THEN TableOf(c.vm, c.table) ELSE Failed,
                   children |-> Children(cached, ts)])
    /\ UNCHANGED <<phase, adapter, editor, stops>>

Backend == \/ \E v \in VM : Clear(v)
           \/ CmdContinue \/ CmdExpand \/ CmdEvaluate

-----------------------------------------------------------------------------
(* The adapter handles an event.                                           *)

\* createVariable, for a set of references: what was known of them is replaced.
Created(vs, refs, v, level, scope) ==
    [r \in DOMAIN vs \cup refs |->
        IF r \in refs THEN [vm |-> v, level |-> level, scope |-> scope,
                            value |-> Nothing, children |-> {}]
        ELSE vs[r]]

Event == Head(events)
Handled(kind) == /\ events # <<>> /\ Event.kind = kind
                 /\ events' = Tail(events)

\* What the editor learns from an answer: references into the object, unless it
\* has resumed the state meanwhile.
Learned(o, children) ==
    tree \cup {[ref |-> c.ref, of |-> TableOf(o.vm, c.table)] :
                  c \in {d \in children : o.vm \in stackTrace}}

\* handleBreak, and the handler of 'stopped' in variables.lua: no reference is
\* valid any more, whatever state it was for.
FrontBreak ==
    /\ Handled("break")
    /\ stackTrace' = stackTrace \cup {Event.vm}
    /\ variables' = <<>> /\ id' = 0
    /\ UNCHANGED <<backend, commands, editor, stops>>

\* Each answer is given for the request with its number.  An evaluation that
\* gives a table makes a reference of its number (worker.lua emits the event
\* twice, so the request is answered twice, with the same).
FrontEvaluateRet ==
    /\ Handled("evaluateRet")
    /\ LET refs == {c.ref : c \in Event.children} IN
       /\ variables' = Created(variables, refs, Event.vm, 0, 0)
       /\ answer' = [answer EXCEPT ![Event.seq] = Event.of]
       /\ tree' = Learned(Event.of, Event.children)
    /\ UNCHANGED <<backend, commands, stackTrace, id, asked, stops>>

\* An answer for a reference that is not known any more is dropped.  The
\* variable keeps its value, unless it has become another one among the
\* children: a table that contains itself.
\* Mutant: so is the answer for a state that runs again.
FrontExpandRetStopped ==
    /\ Handled("expandRet")
    /\ IF Event.ref \notin DOMAIN variables \/ Event.vm \notin stackTrace
       THEN UNCHANGED <<variables, answer, tree>>
       ELSE /\ answer' = [answer EXCEPT ![Event.seq] = Event.of]
            /\ tree' = Learned(Event.of, Event.children)
            /\ variables' = [variables EXCEPT ![Event.ref].value = Event.of,
                                             ![Event.ref].children = Event.children]
    /\ UNCHANGED <<backend, commands, stackTrace, id, asked, stops>>
FrontExpandRet ==
    /\ Handled("expandRet")
    /\ LET refs == {c.ref : c \in Event.children}
           known == Created(variables, refs, Event.vm, 0, 0) IN
       IF Event.ref \notin DOMAIN variables
       THEN UNCHANGED <<variables, answer, tree>>
       ELSE /\ answer' = [answer EXCEPT ![Event.seq] = Event.of]
            /\ tree' = Learned(Event.of, Event.children)
            /\ variables' =
                   IF Event.of = Failed \/ Event.ref \in refs THEN known
                   ELSE [known EXCEPT ![Event.ref].value = Event.of,
                                      ![Event.ref].children = Event.children]
    /\ UNCHANGED <<backend, commands, stackTrace, id, asked, stops>>

Adapter == FrontBreak \/ FrontEvaluateRet \/ FrontExpandRet

-----------------------------------------------------------------------------
(* The adapter handles a request of the editor.                            *)

\* A request about an object gets the next number, and an answer or none yet.
Ask(o, shown) == /\ Len(asked) < MaxRequests
                 /\ asked' = Append(asked, o)
                 /\ answer' = Append(answer, shown)
Number == Len(asked) + 1

\* scopes: two fresh references for a frame the editor shows.  The stack that
\* was sent with the stop has the Lua functions only.
ScopesRequest(v, l) ==
    LET frame == FrameId(v, l)
        fresh(s) == (id + s) * 2 ^ 16
        scoped(vs, s) == Created(vs, {fresh(s)}, ThreadOf(frame), LevelOf(frame), s)
    IN
    /\ v \in stackTrace /\ l \in LuaLevel
    /\ id < MaxId
    /\ IF ThreadOf(frame) \in stackTrace
       THEN /\ variables' = scoped(scoped(variables, 1), 2)
            /\ id' = id + 2
            /\ tree' = tree \cup {[ref |-> fresh(s), of |-> ScopeOf(v, l, s)] : s \in Scope}
       ELSE UNCHANGED <<variables, id, tree>>
    /\ UNCHANGED <<backend, commands, events, stackTrace, asked, answer, stops>>

\* variables: what is known is shown again; what is not is asked of the backend,
\* in a state that is stopped; a reference of an earlier stop gets no answer.
VariablesRequest ==
    \E n \in tree :
        IF n.ref \notin DOMAIN variables
        THEN /\ Ask(n.of, Nothing)
             /\ UNCHANGED <<backend, commands, events, adapter, tree, stops>>
        ELSE LET var == variables[n.ref] IN
             IF var.value # Nothing
             THEN /\ Ask(n.of, var.value)
                  /\ tree' = Learned(var.value, var.children)
                  /\ UNCHANGED <<backend, commands, events, adapter, stops>>
             ELSE /\ Ask(n.of, Nothing)
                  /\ commands' = IF var.vm \notin stackTrace THEN commands
                                 ELSE Append(commands,
                                     [kind |-> "expand", seq |-> Number, vm |-> var.vm,
                                      level |-> var.level, scope |-> var.scope, ref |-> n.ref])
                  /\ UNCHANGED <<backend, events, adapter, tree, stops>>

\* evaluate, in a frame the editor shows: an expression that names a table there.
EvaluateRequest(v, l, t) ==
    LET frame == FrameId(v, l) IN
    /\ v \in stackTrace /\ l \in LuaLevel /\ t \in InFrame[l]
    /\ Ask(TableOf(v, t), Nothing)
    /\ commands' = IF ThreadOf(frame) \notin stackTrace THEN commands
                   ELSE Append(commands,
                       [kind |-> "evaluate", seq |-> Number, vm |-> ThreadOf(frame),
                        level |-> LevelOf(frame), table |-> t])
    /\ UNCHANGED <<backend, events, adapter, tree, stops>>

\* continue and the steps: the editor drops what it shows of the state.
ContinueRequest(v) ==
    /\ v \in stackTrace
    /\ commands' = Append(commands, [kind |-> "continue", vm |-> v])
    /\ stackTrace' = stackTrace \ {v}
    /\ tree' = {n \in tree : n.of.vm # v}
    /\ UNCHANGED <<backend, events, variables, id, asked, answer, stops>>

User == \E v \in VM :
            \/ \E l \in Level : ScopesRequest(v, l) \/ \E t \in Table : EvaluateRequest(v, l, t)
            \/ ContinueRequest(v)

Next == Backend \/ Adapter \/ User \/ VariablesRequest \/ \E v \in VM : Stop(v)

Spec == Init /\ [][Next]_vars

\* The command thread, the threads that were resumed and the adapter's loop run;
\* the program need not stop and the user need not ask or continue.
FairSpec == Spec /\ WF_vars(Backend) /\ WF_vars(Adapter)

-----------------------------------------------------------------------------
(* Properties.                                                             *)

\* What is shown is what the user asked for, and no request about a variable
\* that the editor shows fails: whatever was resumed, stopped, numbered again and
\* cached in between (variables.lua 15-18, 145-162, 201-207;
\* DebugBackend.cpp 1789-1866).  CHANGELOG.md has "supports multi thread
\* breakpoints" (1.1.4); DebugBackend.cpp 1730-1731 "Adjust the desired stack
\* level based on the number of stack levels we skipped when we sent the front
\* end the call stack."
ShownIsAsked == \A i \in DOMAIN asked : answer[i] \in {Nothing, asked[i]}

\* A table reference the editor holds is, in the cache of a state that has not
\* been resumed, the table it stands for: the two sides forget their numbers by
\* events of their own (variables.lua 15, DebugBackend.cpp 1468).
NumbersAgree ==
    \A n \in tree :
        n.of.scope = 0 /\ phase[n.of.vm] = "stopped" =>
            /\ n.ref \in DOMAIN cache[n.of.vm]
            /\ cache[n.of.vm][n.ref] = n.of.table

\* Every request for variables or a value is answered, also when the user resumes
\* the state before the answer is there (variables.lua 146-147, 169).
RequestsAnswered ==
    \A i \in 1 .. MaxRequests :
        i \in DOMAIN asked ~> i \in DOMAIN asked /\ answer[i] = asked[i]
=============================================================================
