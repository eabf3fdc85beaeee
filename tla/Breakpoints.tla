------------------------------ MODULE Breakpoints ------------------------------
(***************************************************************************)
(* Breakpoints from the user to the script and back: the tables of the     *)
(* adapter (breakpoint.lua, files.lua), the toggles it sends, the scripts  *)
(* and their breakpoints in the backend (RegisterScript, ToggleBreakpoint  *)
(* in DebugBackend.cpp), and what the adapter does when one is hit: the    *)
(* condition, the hit condition and the log message, each an evaluation in *)
(* the stopped state.                                                      *)
(*                                                                         *)
(* One Lua state runs; how several share the backend is in Backend, which  *)
(* functions get line events in Hooks.  Files and scripts are numbered     *)
(* from one here.  A text is abstracted: a chunk name to the path, title   *)
(* and source it stands for, a condition to the answer it may get.         *)
(***************************************************************************)
EXTENDS Naturals, Sequences, FiniteSets, SequencesExt

CONSTANTS Chunk,    \* the chunks the program loads: [name -> path, title, source]
          Requests, \* the breakpoints a user may set in a file, as sequences
          Period,   \* number of request ids that are told apart, see Ask
          MaxId,    \* bound on the breakpoint ids
          MaxEval,  \* bound on the evaluations
          MaxPipe   \* bound on the commands under way when the user acts

Name  == DOMAIN Chunk
Path  == {Chunk[n].path : n \in Name}
Check == {"condition", "hitCondition", "logMessage"}

\* What an evaluation may answer: "false" also stands for a failure, "none" for an
\* expression that succeeds without a value, as the call of a function that returns
\* nothing does.
Answer == {"true", "false", "none"}

\* What the user asks for; bad stands for a condition that does not compile.
Source == [line : Nat \ {0}, checks : SUBSET Check, bad : BOOLEAN]

ASSUME BreakpointsAssumption ==
    /\ \A n \in Name : DOMAIN Chunk[n] = {"path", "title", "source"}
    /\ Requests \subseteq Seq(Source)
    /\ Period \in Nat \ {0} /\ MaxId \in Nat /\ MaxEval \in Nat /\ MaxPipe \in Nat

VARIABLES
    vm,       \* "run", "load" (waits for LoadDone) or "stop" (at a breakpoint)
    index,    \* m_nameToScript: the script of a chunk name, 0 if unknown
    scripts,  \* m_scripts, with their breakpoints: lines that count from zero
    cmds, evs,\* the two pipes
    files,    \* files of files.lua: path and breakpoints by line
    latest,   \* path2file: the file of a path, 0 if unknown
    pending,  \* unvalidBreakpoints: those of a path that is not loaded
    lastId,   \* the last breakpoint id
    evals,    \* evaluations so far: m_breakpointEvaluateId
    ask,      \* m_penddingRequests: the evaluation under way
    at,       \* the breakpoint object its answer is for
    shown,    \* whether the user has been told of the stop
    wish,     \* what the user knows: the breakpoints of each path, with the ids
              \* of the last response,
    verified, \* and the ids that have been verified
    answers,  \* history: the answers since the last stop
    fresh     \* history: files whose path had no request since they were loaded

backend == <<vm, index, scripts>>
tables  == <<files, latest, pending, lastId>>
checks  == <<evals, ask, at, shown, answers>>
client  == <<wish, verified, fresh>>
vars    == <<backend, cmds, evs, tables, checks, client>>

Toggle(f, b)   == [type |-> "Toggle", file |-> f, line |-> b]
Command(ty)    == [type |-> ty]
NoAsk          == [seq |-> 0, stage |-> "none"]
NoBp           == [id |-> 0, line |-> 0, checks |-> {}]

Init ==
    /\ vm = "run" /\ index = [n \in Name |-> 0] /\ scripts = <<>>
    /\ cmds = <<>> /\ evs = <<>>
    /\ files = <<>> /\ latest = [p \in Path |-> 0] /\ pending = [p \in Path |-> <<>>]
    /\ lastId = 0 /\ evals = 0
    /\ ask = NoAsk /\ at = NoBp /\ shown = FALSE /\ answers = {}
    /\ wish = [p \in Path |-> <<>>] /\ verified = {} /\ fresh = {}

-----------------------------------------------------------------------------
(* The backend: the script thread, and the command thread.                 *)

\* A name is another name of a script with its title and source.
SameScript(n) == {i \in DOMAIN scripts : /\ scripts[i].title = Chunk[n].title
                                         /\ scripts[i].source = Chunk[n].source}

\* Mutant: the load of a script under another name is told to the adapter too.
RegisterScriptTold(n) ==
    /\ vm = "run" /\ index[n] = 0
    /\ IF SameScript(n) # {}
       THEN /\ index' = [index EXCEPT ![n] = CHOOSE i \in SameScript(n) : TRUE]
            /\ UNCHANGED scripts
       ELSE /\ index' = [index EXCEPT ![n] = Len(scripts) + 1]
            /\ scripts' = Append(scripts, [title |-> Chunk[n].title,
                                           source |-> Chunk[n].source, bps |-> {}])
    /\ evs' = Append(evs, [type |-> "LoadScript", name |-> n])
    /\ vm' = "load"
    /\ UNCHANGED <<cmds, tables, checks, client>>

\* A state that loads a new script waits until the adapter has answered.
RegisterScript(n) ==
    /\ vm = "run" /\ index[n] = 0
    /\ IF SameScript(n) # {}
       THEN /\ index' = [index EXCEPT ![n] = CHOOSE i \in SameScript(n) : TRUE]
            /\ UNCHANGED <<vm, scripts, evs>>
       ELSE /\ index' = [index EXCEPT ![n] = Len(scripts) + 1]
            /\ scripts' = Append(scripts, [title |-> Chunk[n].title,
                                           source |-> Chunk[n].source, bps |-> {}])
            /\ evs' = Append(evs, [type |-> "LoadScript", name |-> n])
            /\ vm' = "load"
    /\ UNCHANGED <<cmds, tables, checks, client>>

\* A line is executed that has a breakpoint.
BreakFromScript(n, l) ==
    /\ vm = "run" /\ index[n] # 0 /\ l - 1 \in scripts[index[n]].bps
    /\ vm' = "stop"
    /\ evs' = Append(evs, [type |-> "Break", file |-> index[n], line |-> l])
    /\ UNCHANGED <<index, scripts, cmds, tables, checks, client>>

Next1(ty) == cmds # <<>> /\ Head(cmds).type = ty /\ cmds' = Tail(cmds)

ToggleBreakpoint ==
    LET c   == Head(cmds)
        set == c.line \notin scripts[c.file].bps IN
    /\ Next1("Toggle")
    /\ scripts' = [scripts EXCEPT ![c.file].bps =
                       IF set THEN @ \cup {c.line} ELSE @ \ {c.line}]
    /\ evs' = Append(evs, [type |-> "SetBreakpoint", file |-> c.file,
                           line |-> c.line, set |-> set])
    /\ UNCHANGED <<vm, index, tables, checks, client>>

LoadDone ==
    /\ Next1("LoadDone") /\ vm' = "run"
    /\ UNCHANGED <<index, scripts, evs, tables, checks, client>>

Continue ==
    /\ Next1("Continue") /\ vm' = "run"
    /\ UNCHANGED <<index, scripts, evs, tables, checks, client>>

\* Without a value the result is the empty string, and the evaluation a success.
Evaluate ==
    /\ Next1("Evaluate")
    /\ \E a \in Answer :
          evs' = Append(evs, [type |-> "EvaluateRet", seq |-> Head(cmds).seq, answer |-> a])
    /\ UNCHANGED <<backend, tables, checks, client>>

-----------------------------------------------------------------------------
(* The adapter sets breakpoints.                                           *)

\* The entries whose conditions compile.
Good(req) == {k \in DOMAIN req : ~req[k].bad}

\* The objects of a request, by line; of two on a line the last one stays.
LastOn(req, l) == CHOOSE k \in Good(req) :
                     /\ req[k].line = l
                     /\ \A j \in Good(req) : req[j].line = l => j <= k
Objects(req) ==
    [l \in {req[k].line : k \in Good(req)} |->
        [id |-> req[LastOn(req, l)].id, line |-> l, checks |-> req[LastOn(req, l)].checks]]

Ascending(S) == {q \in SetToSeqs(S) : \A i, j \in DOMAIN q : i < j => q[i] < q[j]}

LinesAt(req, q)   == [k \in DOMAIN q |-> req[q[k]].line]
ToggleLines(f, q) == [k \in DOMAIN q |-> Toggle(f, q[k] - 1)]

\* Mutant: a line that had a breakpoint is toggled again.
TogglesAll(f, old, req) ==
    {ToggleLines(f, LinesAt(req, on)) \o ToggleLines(f, off) :
        on \in Ascending(Good(req)), off \in SetToSeqs(old \ DOMAIN Objects(req))}

\* The new lines are toggled in the order of the request, then the old ones that
\* are not in it, in any order.
Added(old, req)   == {k \in Good(req) : req[k].line \notin old}
Removed(old, req) == old \ DOMAIN Objects(req)
Toggles(f, old, req) ==
    {ToggleLines(f, LinesAt(req, on)) \o ToggleLines(f, off) :
        on \in Ascending(Added(old, req)), off \in SetToSeqs(Removed(old, req))}

WithIds(req) == [k \in DOMAIN req |-> [line |-> req[k].line, checks |-> req[k].checks,
                                      bad |-> req[k].bad, id |-> lastId + k]]

\* Those that are verified by the response: their line has a breakpoint already.
VerifiedAtOnce(old, req) == {req[k].id : k \in {j \in Good(req) : req[j].line \in old}}

\* Mutant: the breakpoints of a file that is not loaded are added up.
KeepForLoadTwice(p, req) ==
    /\ latest[p] = 0
    /\ pending' = [pending EXCEPT ![p] = @ \o req]
    /\ UNCHANGED <<files, cmds, verified>>

KeepForLoad(p, req) ==
    /\ latest[p] = 0
    /\ pending' = [pending EXCEPT ![p] = req]
    /\ UNCHANGED <<files, cmds, verified>>

SetInFile(p, req) ==
    LET f   == latest[p]
        old == DOMAIN files[f].bps IN
    /\ f # 0
    /\ files' = [files EXCEPT ![f].bps = Objects(req)]
    /\ \E sent \in Toggles(f, old, req) : cmds' = cmds \o sent
    /\ verified' = verified \cup VerifiedAtOnce(old, req)
    /\ UNCHANGED pending

\* A setBreakpoints request of the user, who learns the ids from the response.
SetBreakpoints(p, req) ==
    /\ Len(cmds) < MaxPipe /\ lastId + Len(req) <= MaxId
    /\ KeepForLoad(p, WithIds(req)) \/ SetInFile(p, WithIds(req))
    /\ lastId' = lastId + Len(req)
    /\ wish' = [wish EXCEPT ![p] = WithIds(req)]
    /\ fresh' = fresh \ {latest[p]}
    /\ UNCHANGED <<backend, evs, latest, checks>>

Event(ty) == evs # <<>> /\ Head(evs).type = ty /\ evs' = Tail(evs)

\* Mutant: the load is acknowledged before the breakpoints go out.
FrontLoadScriptEarly ==
    LET p == Chunk[Head(evs).name].path
        f == Len(files) + 1 IN
    /\ Event("LoadScript")
    /\ files' = Append(files, [path |-> p, bps |-> Objects(pending[p])])
    /\ latest' = [latest EXCEPT ![p] = f]
    /\ pending' = [pending EXCEPT ![p] = <<>>]
    /\ \E sent \in Toggles(f, {}, pending[p]) :
          cmds' = Append(cmds, Command("LoadDone")) \o sent
    /\ fresh' = fresh \cup {f}
    /\ UNCHANGED <<backend, lastId, checks, wish, verified>>

\* addFile: the file is the latest of its path, and gets the breakpoints that were
\* kept for it before the script goes on.
FrontLoadScript ==
    LET p == Chunk[Head(evs).name].path
        f == Len(files) + 1 IN
    /\ Event("LoadScript")
    /\ files' = Append(files, [path |-> p, bps |-> Objects(pending[p])])
    /\ latest' = [latest EXCEPT ![p] = f]
    /\ pending' = [pending EXCEPT ![p] = <<>>]
    /\ \E sent \in Toggles(f, {}, pending[p]) :
          cmds' = Append(cmds \o sent, Command("LoadDone"))
    /\ fresh' = fresh \cup {f}
    /\ UNCHANGED <<backend, lastId, checks, wish, verified>>

\* Mutant: the line of the event is taken as it is.
FrontSetBreakpointZero ==
    LET e == Head(evs) IN
    /\ Event("SetBreakpoint")
    /\ verified' = verified \cup
           {files[e.file].bps[l].id : l \in {e.line} \cap DOMAIN files[e.file].bps}
    /\ UNCHANGED <<backend, cmds, tables, checks, wish, fresh>>

\* A breakpoint that was set verifies the object its line has now.
FrontSetBreakpoint ==
    LET e == Head(evs) IN
    /\ Event("SetBreakpoint")
    /\ verified' = verified \cup
           {files[e.file].bps[l].id :
               l \in {e.line + 1} \cap {l \in DOMAIN files[e.file].bps : e.set}}
    /\ UNCHANGED <<backend, cmds, tables, checks, wish, fresh>>

-----------------------------------------------------------------------------
(* The adapter decides on a stop.                                          *)

Stop(bp) == shown' = TRUE /\ at' = bp /\ ask' = NoAsk /\ UNCHANGED <<cmds, evals>>

Skip(bp) == /\ cmds' = Append(cmds, Command("Continue"))
            /\ at' = bp /\ ask' = NoAsk /\ UNCHANGED <<shown, evals>>

\* Request ids are the count shifted by 16 bits, sent in 32 bits: after 2^16 of
\* them (Period) they start again from zero, but the adapter keeps the long ones.
Ask(bp, stage) ==
    /\ evals < MaxEval
    /\ evals' = evals + 1
    /\ ask' = [seq |-> evals + 1, stage |-> stage]
    /\ at' = bp
    /\ cmds' = Append(cmds, [type |-> "Evaluate", seq |-> (evals + 1) % Period])
    /\ UNCHANGED shown

Reached(bp, stage) == stage \in bp.checks

\* Mutant: a log message stops like any other breakpoint.
LogMessageStops(bp) == Stop(bp) \/ Ask(bp, "logMessage")

\* A log message has any number of expressions to evaluate; then the script goes on.
LogMessage(bp) == Skip(bp) \/ Ask(bp, "logMessage")

CheckStatLog(bp) == IF Reached(bp, "logMessage") THEN LogMessage(bp) ELSE Stop(bp)

CheckHitCondition(bp) ==
    IF Reached(bp, "hitCondition") THEN Ask(bp, "hitCondition") ELSE CheckStatLog(bp)

CheckCondition(bp) ==
    IF Reached(bp, "condition") THEN Ask(bp, "condition") ELSE CheckHitCondition(bp)

\* handleBreak: where the breakpoint has gone meanwhile, the script stops.
FrontBreak ==
    LET e   == Head(evs)
        bps == files[e.file].bps IN
    /\ Event("Break")
    /\ IF e.line \in DOMAIN bps THEN CheckCondition(bps[e.line]) ELSE Stop(NoBp)
    /\ answers' = {}
    /\ UNCHANGED <<backend, tables, client>>

\* Mutant: a false condition is answered by nothing.
AnsweredSilent(stage, ok) ==
    CASE stage = "condition"    -> IF ok THEN CheckHitCondition(at)
                                   ELSE UNCHANGED <<cmds, evals, ask, at, shown>>
      [] stage = "hitCondition" -> IF ok THEN CheckStatLog(at) ELSE Skip(at)
      [] stage = "logMessage"   -> LogMessage(at)

\* The callbacks of exec.
Answered(stage, ok) ==
    CASE stage = "condition"    -> IF ok THEN CheckHitCondition(at) ELSE Skip(at)
      [] stage = "hitCondition" -> IF ok THEN CheckStatLog(at) ELSE Skip(at)
      [] stage = "logMessage"   -> LogMessage(at)

\* worker.lua makes a sentence of a result that is empty; toboolean and tostring
\* take it for a tree, and the error they raise, before the callback or the request
\* is dropped, ends the handling of the event (message.lua:63).
Decides(answer) == answer # "none"

FrontEvaluateRet ==
    LET e == Head(evs) IN
    /\ Event("EvaluateRet")
    /\ IF ask # NoAsk /\ e.seq = ask.seq
       THEN /\ IF Decides(e.answer) THEN Answered(ask.stage, e.answer = "true")
               ELSE UNCHANGED <<cmds, evals, ask, at, shown>>
            /\ answers' = answers \cup {<<ask.stage, e.answer>>}
       ELSE UNCHANGED <<cmds, evals, ask, at, shown, answers>>
    /\ UNCHANGED <<backend, tables, client>>

UserContinue ==
    /\ shown /\ Len(cmds) < MaxPipe
    /\ cmds' = Append(cmds, Command("Continue"))
    /\ shown' = FALSE /\ at' = NoBp
    /\ UNCHANGED <<backend, evs, tables, evals, ask, answers, client>>

Script   == \/ \E n \in Name : RegisterScript(n)
            \/ \E n \in Name : \E l \in {r.line : r \in UNION {ToSet(q) : q \in Requests}} :
                  BreakFromScript(n, l)
Commands == ToggleBreakpoint \/ LoadDone \/ Continue \/ Evaluate
Adapter  == FrontLoadScript \/ FrontSetBreakpoint \/ FrontBreak \/ FrontEvaluateRet
User     == UserContinue \/ \E p \in Path : \E req \in Requests : SetBreakpoints(p, req)

Next == Script \/ Commands \/ Adapter \/ User

Spec == Init /\ [][Next]_vars

-----------------------------------------------------------------------------
(* Properties.                                                             *)

Object == [id : Nat, line : Nat, checks : SUBSET Check]

\* The variables keep their types; files and scripts have the same numbers.
TypeOK ==
    /\ vm \in {"run", "load", "stop"}
    /\ index \in [Name -> 0 .. Len(scripts)]
    /\ \A i \in DOMAIN scripts : scripts[i].bps \subseteq Nat
    /\ Len(files) <= Len(scripts)
    /\ \A f \in DOMAIN files :
          /\ files[f].path \in Path
          /\ \A l \in DOMAIN files[f].bps : files[f].bps[l] \in Object
    /\ latest \in [Path -> 0 .. Len(files)]
    /\ \A p \in Path : /\ \A k \in DOMAIN pending[p] : pending[p][k].id \in 1 .. lastId
                       /\ \A k \in DOMAIN wish[p] : wish[p][k].id \in 1 .. lastId
    /\ lastId \in Nat /\ evals \in Nat /\ at \in Object /\ shown \in BOOLEAN
    /\ ask.seq \in 0 .. evals /\ ask.stage \in Check \cup {"none"}
    /\ verified \subseteq 1 .. lastId
    /\ fresh \subseteq DOMAIN files

\* breakpoint.lua:81 toggles only lines that change: once the toggles under way are
\* executed, each script has the breakpoints of the adapter's table, line for line.
Odd(S) == Cardinality(S) % 2 = 1
TablesAgree ==
    \A f \in DOMAIN files : \A b \in {c.line : c \in {x \in ToSet(cmds) : x.type = "Toggle"}}
                                     \cup scripts[f].bps \cup {l - 1 : l \in DOMAIN files[f].bps} :
        b + 1 \in DOMAIN files[f].bps
        <=> (b \in scripts[f].bps) # Odd({k \in DOMAIN cmds : cmds[k] = Toggle(f, b)})

\* breakpoint.lua:98 keeps what is set before its file is loaded: the user's last
\* request for a path is what the adapter's table has for the file that runs, with
\* the ids of the response.
WishKept ==
    \A p \in Path : IF latest[p] = 0 THEN pending[p] = wish[p]
                    ELSE files[latest[p]].bps = Objects(wish[p])

\* breakpoint.lua:132: with nothing under way, the user sees as verified exactly the
\* breakpoints the backend has.
VerifiedAtRest ==
    \A p \in Path :
        latest[p] # 0 /\ cmds = <<>> /\ (\A k \in DOMAIN evs : evs[k].type # "SetBreakpoint")
        => {wish[p][k].line - 1 : k \in {j \in DOMAIN wish[p] : wish[p][j].id \in verified}}
           = scripts[latest[p]].bps

\* DebugBackend.cpp:634 "Stop execution so that the frontend has an opportunity to
\* send us the break points before we start executing the first line of the script":
\* when a script goes on after its load, its breakpoints are in place.
FirstLineStops ==
    \A f \in fresh : vm # "load" =>
        scripts[f].bps = {l - 1 : l \in DOMAIN files[f].bps}

\* What may still decide on a stop, or has: the messages under way, and the user.
Outstanding ==
    Cardinality({k \in DOMAIN evs : evs[k].type = "Break"})
    + Cardinality({k \in DOMAIN evs : evs[k].type = "EvaluateRet" /\ evs[k].seq = ask.seq})
    + Cardinality({k \in DOMAIN cmds : cmds[k].type = "Evaluate" /\ cmds[k].seq = ask.seq})
    + Cardinality({k \in DOMAIN cmds : cmds[k].type = "Continue"})
    + (IF shown THEN 1 ELSE 0)

\* A check of this stop has been answered without a value.
Valueless == \E c \in Check : <<c, "none">> \in answers

\* breakpoint.lua:274: a state that is stopped at a breakpoint is known to the user,
\* or exactly one message is under way that will decide on it; except that a check
\* that was answered without a value leaves it stopped with nothing under way.
StopAccounted == vm = "stop" => Outstanding = IF Valueless THEN 0 ELSE 1

\* CHANGELOG.md:87 "Supports condition breakpoint, hit breakpoint and logMessage": each
\* decides on the stop, whatever the expression in it answers.
EveryStopDecided == vm = "stop" => Outstanding = 1

\* breakpoint.lua:274: a stop is shown only if every condition of the breakpoint that
\* was hit held and it is no log message, and is passed over only if not.
Due(bp) == \A c \in bp.checks : c # "logMessage" /\ <<c, "true">> \in answers
ChecksDecide ==
    /\ shown => Due(at)
    /\ (\E k \in DOMAIN cmds : cmds[k].type = "Continue") /\ at # NoBp => ~Due(at)

=============================================================================
