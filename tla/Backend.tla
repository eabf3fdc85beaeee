------------------------------- MODULE Backend -------------------------------
(***************************************************************************)
(* The part of vecoda that runs inside the debugged process                *)
(* (src/LuaInject/LuaInject/DebugBackend.cpp): every script thread runs    *)
(* one lua_State and calls into the backend from the hooked Lua functions, *)
(* one command thread executes what the debug adapter sends.  The threads  *)
(* share two critical sections, a break_event per virtual machine, one     *)
(* m_loadEvent and one m_detachEvent.  The adapter (src/script/worker.lua) *)
(* and its user are the environment at the other end of the two pipes.     *)
(*                                                                         *)
(* Data is abstracted to what the waiting and the locking depend on: a     *)
(* script has one line that may carry a breakpoint, an evaluated           *)
(* expression is a step that may raise an error, and whether a step-over   *)
(* or a step-out has come back to its depth is left open at every line.    *)
(***************************************************************************)
EXTENDS Naturals, Sequences, FiniteSets

CONSTANTS VM,         \* lua_States; each is run by a script thread of its own
          Script,     \* the scripts the program may load or run
          Cmd,        \* the command thread
          None,       \* no thread, no virtual machine, no script
          Steps,      \* the resume commands the user gives
          Occurs,     \* what else happens in this instance: errors in the
                      \* program, states it closes, requests of the user
          MaxPending  \* bound on the length of a pipe at which activity starts

Occasion   == {"loadError", "exception", "evalError", "close",
               "pause", "evaluate", "breakpoint", "disconnect"}
ResumeKind == {"Continue", "StepInto", "StepOver", "StepOut"}

ASSUME BackendAssumption ==
    /\ Cmd \notin VM
    /\ None \notin VM \cup {Cmd} \cup Script
    /\ Steps \subseteq ResumeKind
    /\ Occurs \subseteq Occasion
    /\ MaxPending \in Nat \ {0}

Thread == VM \cup {Cmd}

VARIABLES
    pc,          \* where each thread is
    work,        \* per VM: the hook event or the load its thread is handling
    cmd,         \* the command the command thread is executing
    found,       \* whether its virtual machine was found when it was read
    cs,          \* owner of m_criticalSection, or None
    breakLock,   \* owner of m_breakLock, or None
    vms,         \* m_stateToVm: the states the backend knows
    mode,        \* VirtualMachine::mode
    hooked,      \* whether a Lua hook is installed on the state
    breakEvent,  \* VirtualMachine::break_event, auto-reset
    loadEvent,   \* m_loadEvent, auto-reset
    detachEvent, \* m_detachEvent, manual-reset
    known,       \* m_nameToScript
    bps,         \* the scripts whose line carries a breakpoint
    evs,         \* the event pipe, backend to adapter
    cmds,        \* the command pipe, adapter to backend
    front,       \* the adapter: "up", "lost" (out of step with the pipe), "gone"
    stopped,     \* VMs the adapter reports as stopped (stackTrace in vm.lua)
    checking,    \* VMs whose breakpoint condition the adapter is evaluating
    listed,      \* VMs in the adapter's thread list
    files,       \* scripts the adapter has been told of (files.lua)
    want         \* scripts on which the user wants a breakpoint

backend  == <<cs, breakLock, vms, mode, hooked, known, bps>>
signals  == <<breakEvent, loadEvent, detachEvent>>
adapter  == <<front, stopped, checking, listed, files, want>>
vars == <<pc, work, cmd, found, backend, signals, evs, cmds, adapter>>

-----------------------------------------------------------------------------
(* Locations of the script threads.  The waits are WaitForEvent calls.     *)

BreakWaits == {"brkWait", "errWait", "excWait"}
LoadWaits  == {"hookLoad", "loadWait"}
HoldsCs    == {"hook", "errLock"}
InError    == {"excSend", "excBreak", "excWait"}
AtWork     == {"hookIn", "hook", "hookLoad", "hookBack", "load"}
ScriptPc   == BreakWaits \cup LoadWaits \cup HoldsCs \cup InError \cup
              {"off", "attach", "run", "hookIn", "hookBack", "brkSend", "brkClear",
               "load", "errCs", "close", "crash"}
CmdPc      == InError \cup {"read", "exec", "eval", "cleanup", "crash", "exit"}

EventType   == {"CreateVM", "DestroyVM", "LoadScript", "Break", "SetBreakpoint",
                "Exception", "LoadError", "Message", "EvaluateRet"}
CommandType == ResumeKind \cup {"Break", "Toggle", "Evaluate", "LoadDone",
                                "DetachRun", "DetachKill", "none"}
Mode        == ResumeKind
Work        == [kind : {"none", "line", "call", "load", "failed"},
                script : Script \cup {None}, fresh : BOOLEAN]
Event       == {e \in [type : EventType, vm : VM \cup {None},
                       script : Script \cup {None}] :
                  /\ e.type = "LoadScript" => e.script \in Script
                  /\ e.type \notin {"Message", "SetBreakpoint"} => e.vm \in VM}
Command     == {c \in [type : CommandType, vm : VM \cup {None},
                       script : Script \cup {None}] :
                  /\ c.type = "Toggle" => c.script \in Script
                  /\ c.type \in ResumeKind \cup {"Break", "Evaluate", "LoadDone"}
                     => c.vm \in VM}

Msg(ty, v)        == [type |-> ty, vm |-> v, script |-> None]
MsgOn(ty, v, s)   == [type |-> ty, vm |-> v, script |-> s]
NoWork            == [kind |-> "none", script |-> None, fresh |-> FALSE]
NoCmd             == Msg("none", None)
Goto(t, l)        == pc' = [pc EXCEPT ![t] = l]
\* A script thread drops its work, the command thread reads the next command.
Begin(v, k, s)    == work' = [work EXCEPT ![v] = [kind |-> k, script |-> s, fresh |-> FALSE]]
Finish(v, l)      == Goto(v, l) /\ work' = [work EXCEPT ![v] = NoWork]
NextCommand       == Goto(Cmd, "read") /\ cmd' = NoCmd /\ found' = FALSE
\* Writes to a pipe the adapter has closed fail and are ignored.
Send(es)          == evs' = IF front = "gone" THEN evs ELSE evs \o es
\* Bounds the model: Lua code and the user make their next move only while the
\* event pipe is short.
Quiet             == Len(evs) < MaxPending
\* The Lua state a thread works on: its own, or the one it evaluates in.
StateOf(t)        == IF t = Cmd THEN cmd.vm ELSE t

Init ==
    /\ pc = [t \in Thread |-> IF t = Cmd THEN "read" ELSE "off"]
    /\ work = [v \in VM |-> NoWork]
    /\ cmd = NoCmd /\ found = FALSE
    /\ cs = None /\ breakLock = None
    /\ vms = {} /\ known = {} /\ bps = {}
    /\ mode = [v \in VM |-> "Continue"]
    /\ hooked = [v \in VM |-> FALSE]
    /\ breakEvent = [v \in VM |-> FALSE]
    /\ loadEvent = FALSE /\ detachEvent = FALSE
    /\ evs = <<>> /\ cmds = <<>>
    /\ front = "up"
    /\ stopped = {} /\ checking = {} /\ listed = {} /\ files = {} /\ want = {}

-----------------------------------------------------------------------------
(* Creating and closing a state.                                           *)

\* Mutant: the detach event is read the wrong way round.
NewStateInverted(v) ==
    /\ pc[v] = "off" /\ Quiet
    /\ Goto(v, IF detachEvent THEN "attach" ELSE "run")
    /\ UNCHANGED <<work, cmd, found, backend, signals, evs, cmds, adapter>>

\* lua_newstate, luaL_newstate, lua_newthread: AttachState looks at the
\* detach event before it asks for the critical section.
NewState(v) ==
    /\ pc[v] = "off" /\ Quiet
    /\ Goto(v, IF detachEvent THEN "run" ELSE "attach")
    /\ UNCHANGED <<work, cmd, found, backend, signals, evs, cmds, adapter>>

AttachState(v) ==
    /\ pc[v] = "attach" /\ cs = None
    /\ vms' = vms \cup {v}
    /\ mode' = [mode EXCEPT ![v] = "Continue"]
    /\ breakEvent' = [breakEvent EXCEPT ![v] = FALSE]
    /\ hooked' = [hooked EXCEPT ![v] = TRUE]
    /\ Send(<<Msg("CreateVM", v)>>)
    /\ Goto(v, "run")
    /\ UNCHANGED <<work, cmd, found, cs, breakLock, known, bps, loadEvent, detachEvent,
                   cmds, adapter>>

\* Mutant: DetachState is called first, for a state that still has its hook.
CloseStateLater(v) ==
    /\ pc[v] = "run" /\ Quiet /\ "close" \in Occurs
    /\ Goto(v, "close")
    /\ UNCHANGED <<work, cmd, found, backend, signals, evs, cmds, adapter>>

\* lua_close: the state is gone before DetachState forgets it.
CloseState(v) ==
    /\ pc[v] = "run" /\ Quiet /\ "close" \in Occurs
    /\ hooked' = [hooked EXCEPT ![v] = FALSE]
    /\ Goto(v, "close")
    /\ UNCHANGED <<work, cmd, found, cs, breakLock, vms, mode, known, bps, signals,
                   evs, cmds, adapter>>

DetachState(v) ==
    /\ pc[v] = "close" /\ cs = None
    /\ Send(IF v \in vms THEN <<Msg("DestroyVM", v)>> ELSE <<>>)
    /\ vms' = vms \ {v}
    /\ Goto(v, "off")
    /\ UNCHANGED <<work, cmd, found, cs, breakLock, mode, hooked, known, bps, signals,
                   cmds, adapter>>

-----------------------------------------------------------------------------
(* WaitForEvent: the event in question, or the detach event.               *)

\* Mutant: waits for the break event alone.
WaitForBreakOnly(t, next) ==
    /\ breakEvent[StateOf(t)]
    /\ breakEvent' = [breakEvent EXCEPT ![StateOf(t)] = FALSE]
    /\ Goto(t, next)
    /\ UNCHANGED <<loadEvent, detachEvent>>

\* Mutant: m_loadEvent created as a manual-reset event.
WaitForManualLoad(v, next) ==
    /\ loadEvent \/ detachEvent
    /\ Goto(v, next)
    /\ UNCHANGED signals

WaitForContinue(t, next) ==
    LET v == StateOf(t) IN
    /\ breakEvent[v] \/ detachEvent
    /\ breakEvent' = [breakEvent EXCEPT ![v] = FALSE]
    /\ Goto(t, next)
    /\ UNCHANGED <<loadEvent, detachEvent>>

WaitForLoad(v, next) ==
    /\ loadEvent \/ detachEvent
    /\ loadEvent' = FALSE
    /\ Goto(v, next)
    /\ UNCHANGED <<breakEvent, detachEvent>>

-----------------------------------------------------------------------------
(* HookCallback, with UpdateHookMode and the RegisterScript it may call.   *)

\* Lua calls the hook, which asks for the critical section.
HookEnter(v) ==
    /\ pc[v] = "run" /\ hooked[v] /\ Quiet
    /\ \E k \in {"line", "call"}, s \in Script : Begin(v, k, s)
    /\ Goto(v, "hookIn")
    /\ UNCHANGED <<cmd, found, backend, signals, evs, cmds, adapter>>

\* Inside it: while stepping the hook is reinstalled, and a call or return has
\* then nothing more to do than count the depth.
HookStart(v) ==
    LET stepping == mode[v] # "Continue" IN
    /\ pc[v] = "hookIn" /\ cs = None /\ v \in vms
    /\ hooked' = [hooked EXCEPT ![v] = @ \/ stepping]
    /\ IF stepping /\ work[v].kind = "call"
       THEN Finish(v, "run") /\ UNCHANGED cs
       ELSE Goto(v, "hook") /\ cs' = v /\ UNCHANGED work
    /\ UNCHANGED <<cmd, found, breakLock, vms, mode, known, bps, signals, evs, cmds,
                   adapter>>

\* The hook of a state the backend has dropped finds no virtual machine to use.
HookUnknown(v) ==
    /\ pc[v] = "hookIn" /\ cs = None /\ v \notin vms
    /\ Goto(v, "crash")
    /\ UNCHANGED <<work, cmd, found, backend, signals, evs, cmds, adapter>>

\* A line, and a call that chooses the hook mode, look their script up.
MustRegister(v) == work[v].script \notin known

\* Mutant: waits for the load inside the critical section.
HookRegisterInside(v) ==
    /\ pc[v] = "hook" /\ MustRegister(v)
    /\ known' = known \cup {work[v].script}
    /\ Send(<<MsgOn("LoadScript", v, work[v].script)>>)
    /\ Goto(v, "hookLoad")
    /\ UNCHANGED <<work, cmd, found, cs, breakLock, vms, mode, hooked, bps, signals,
                   cmds, adapter>>

\* The critical section is left before the wait and taken again after it.
HookRegister(v) ==
    /\ pc[v] = "hook" /\ MustRegister(v)
    /\ known' = known \cup {work[v].script}
    /\ Send(<<MsgOn("LoadScript", v, work[v].script)>>)
    /\ cs' = None
    /\ Goto(v, "hookLoad")
    /\ UNCHANGED <<work, cmd, found, breakLock, vms, mode, hooked, bps, signals, cmds,
                   adapter>>

HookLoaded(v) ==
    /\ pc[v] = "hookLoad" /\ WaitForLoad(v, "hookBack")
    /\ UNCHANGED <<work, cmd, found, backend, evs, cmds, adapter>>

HookReenter(v) ==
    /\ pc[v] = "hookBack" /\ cs = None
    /\ cs' = v
    /\ Goto(v, "hook")
    /\ UNCHANGED <<work, cmd, found, breakLock, vms, mode, hooked, known, bps, signals,
                   evs, cmds, adapter>>

\* A call or return event ends by (re)installing the hook it has chosen.
HookCall(v) ==
    /\ pc[v] = "hook" /\ work[v].kind = "call" /\ ~MustRegister(v)
    /\ hooked' = [hooked EXCEPT ![v] = TRUE]
    /\ cs' = None
    /\ Finish(v, "run")
    /\ UNCHANGED <<cmd, found, breakLock, vms, mode, known, bps, signals, evs,
                   cmds, adapter>>

\* A line event stops on a breakpoint, at every line while stepping into, and
\* while stepping over or out once the call depth is back (atDepth).
HookLine(v) ==
    /\ pc[v] = "hook" /\ work[v].kind = "line" /\ ~MustRegister(v)
    /\ \E onLine, atDepth \in BOOLEAN :
          LET hit  == onLine /\ work[v].script \in bps
              step == \/ mode[v] = "StepInto"
                      \/ mode[v] \in {"StepOver", "StepOut"} /\ atDepth
          IN  Finish(v, IF hit \/ step THEN "brkSend" ELSE "run")
    /\ cs' = None
    /\ UNCHANGED <<cmd, found, breakLock, vms, mode, hooked, known, bps, signals,
                   evs, cmds, adapter>>

(* BreakFromScript.                                                        *)

BreakSend(v) ==
    /\ pc[v] = "brkSend" /\ cs = None
    /\ Send(<<Msg("Break", v)>>)
    /\ Goto(v, "brkWait")
    /\ UNCHANGED <<work, cmd, found, backend, signals, cmds, adapter>>

BreakWake(v) ==
    /\ pc[v] = "brkWait" /\ WaitForContinue(v, "brkClear")
    /\ UNCHANGED <<work, cmd, found, backend, evs, cmds, adapter>>

\* ClearCache under the break lock.
BreakClear(v) ==
    /\ pc[v] = "brkClear" /\ breakLock = None
    /\ Goto(v, "run")
    /\ UNCHANGED <<work, cmd, found, backend, signals, evs, cmds, adapter>>

-----------------------------------------------------------------------------
(* Loading a script: the intercepts of lua_load and luaL_load* end in      *)
(* PostLoadScript.                                                         *)

LoadScript(v) ==
    /\ pc[v] = "run" /\ ~detachEvent /\ Quiet
    /\ \E s \in Script, k \in {"load", "failed"} :
          /\ k = "failed" => "loadError" \in Occurs
          /\ Begin(v, k, s)
    /\ Goto(v, "load")
    /\ UNCHANGED <<cmd, found, backend, signals, evs, cmds, adapter>>

LoadRegister(v) ==
    LET s == work[v].script IN
    /\ pc[v] = "load" /\ cs = None
    /\ known' = known \cup {s}
    /\ Send(IF s \in known THEN <<>> ELSE <<MsgOn("LoadScript", v, s)>>)
    /\ IF work[v].kind = "load" /\ s \in known
       THEN Finish(v, "run")
       ELSE /\ Goto(v, IF work[v].kind = "failed" THEN "errCs" ELSE "loadWait")
            /\ work' = [work EXCEPT ![v].fresh = s \notin known]
    /\ UNCHANGED <<cmd, found, cs, breakLock, vms, mode, hooked, bps, signals, cmds,
                   adapter>>

\* "Make sure no other threads are running Lua while we handle the error":
\* the critical section is taken first, and the break lock inside it.
LoadErrorEnter(v) ==
    /\ pc[v] = "errCs" /\ cs = None
    /\ cs' = v
    /\ Goto(v, "errLock")
    /\ UNCHANGED <<work, cmd, found, breakLock, vms, mode, hooked, known, bps, signals,
                   evs, cmds, adapter>>

LoadErrorSend(v) ==
    /\ pc[v] = "errLock" /\ breakLock = None
    /\ Send(<<Msg("LoadError", v), Msg("Break", v)>>)
    /\ cs' = None
    /\ Goto(v, IF v \in vms THEN "errWait" ELSE "crash")
    /\ UNCHANGED <<work, cmd, found, breakLock, vms, mode, hooked, known, bps, signals,
                   cmds, adapter>>

LoadErrorWake(v) ==
    /\ pc[v] = "errWait"
    /\ WaitForContinue(v, IF work[v].fresh THEN "loadWait" ELSE "run")
    /\ work' = IF work[v].fresh THEN work ELSE [work EXCEPT ![v] = NoWork]
    /\ UNCHANGED <<cmd, found, backend, evs, cmds, adapter>>

LoadWake(v) ==
    /\ pc[v] = "loadWait" /\ WaitForLoad(v, "run")
    /\ work' = [work EXCEPT ![v] = NoWork]
    /\ UNCHANGED <<cmd, found, backend, evs, cmds, adapter>>

-----------------------------------------------------------------------------
(* ErrorHandler, on whatever thread the Lua error is raised: a script      *)
(* thread, or the command thread while it evaluates an expression whose C  *)
(* code calls back through the hooked lua_call.                            *)

Raising(t) == \/ t \in VM /\ pc[t] = "run" /\ Quiet /\ "exception" \in Occurs
              \/ t = Cmd /\ pc[t] = "eval" /\ Quiet /\ "evalError" \in Occurs

\* GetApiForVm has no interface to answer with for a state it does not know.
ErrorUnknown(t) ==
    /\ Raising(t) /\ StateOf(t) \notin vms
    /\ Goto(t, "crash")
    /\ UNCHANGED <<work, cmd, found, backend, signals, evs, cmds, adapter>>

ErrorHandler(t) ==
    /\ Raising(t) /\ StateOf(t) \in vms
    /\ breakLock = None
    /\ breakLock' = t
    /\ Goto(t, "excSend")
    /\ UNCHANGED <<work, cmd, found, cs, vms, mode, hooked, known, bps, signals, evs,
                   cmds, adapter>>

\* Somebody holds the break lock: report the error as a message and go on.
ErrorMessage(t) ==
    /\ Raising(t) /\ StateOf(t) \in vms
    /\ breakLock # None
    /\ Send(<<Msg("Message", None)>>)
    /\ UNCHANGED <<pc, work, cmd, found, backend, signals, cmds, adapter>>

\* SendExceptionEvent takes no lock.
ExceptionSend(t) ==
    /\ pc[t] = "excSend"
    /\ Send(<<Msg("Exception", StateOf(t))>>)
    /\ Goto(t, "excBreak")
    /\ UNCHANGED <<work, cmd, found, backend, signals, cmds, adapter>>

ExceptionBreak(t) ==
    /\ pc[t] = "excBreak" /\ cs = None
    /\ Send(<<Msg("Break", StateOf(t))>>)
    /\ Goto(t, "excWait")
    /\ UNCHANGED <<work, cmd, found, backend, signals, cmds, adapter>>

ExceptionWake(t) ==
    /\ pc[t] = "excWait"
    /\ WaitForContinue(t, IF t = Cmd THEN "eval" ELSE "run")
    /\ breakLock' = None
    /\ UNCHANGED <<work, cmd, found, cs, vms, mode, hooked, known, bps, evs, cmds,
                   adapter>>

-----------------------------------------------------------------------------
(* CommandThreadProc.                                                      *)

CmdRead ==
    /\ pc[Cmd] = "read" /\ cmds # <<>>
    /\ cmd' = Head(cmds)
    /\ found' = (Head(cmds).vm \in vms)
    /\ cmds' = Tail(cmds)
    /\ Goto(Cmd, "exec")
    /\ UNCHANGED <<work, backend, signals, evs, adapter>>

Executing(ty) == pc[Cmd] = "exec" /\ cmd.type \in ty

\* The virtual machine is looked up when the command is read, without a lock,
\* and dereferenced when it is executed, whether or not it was found.
Usable == found /\ cmd.vm \in vms

\* Between lua_close and DetachState the backend still lists a freed state.
Freed(v)   == v \in vms /\ pc[v] = "close"
Unhook(V)  == hooked' = [v \in VM |-> hooked[v] /\ v \notin V]
HookAll(V) == hooked' = [v \in VM |-> hooked[v] \/ (v \in V /\ ~Freed(v))]

\* Mutant: the event is not set.
CmdResumeSilent ==
    /\ Executing(ResumeKind) /\ cs = None /\ Usable
    /\ mode' = [mode EXCEPT ![cmd.vm] = cmd.type]
    /\ NextCommand
    /\ UNCHANGED <<work, cs, breakLock, vms, hooked, known, bps, signals, evs, cmds,
                   adapter>>

\* Continue, StepInto, StepOver, StepOut.
CmdResume ==
    /\ Executing(ResumeKind) /\ cs = None /\ Usable
    /\ mode' = [mode EXCEPT ![cmd.vm] = cmd.type]
    /\ HookAll(IF cmd.type = "Continue" THEN {} ELSE {cmd.vm})
    /\ breakEvent' = [breakEvent EXCEPT ![cmd.vm] = TRUE]
    /\ NextCommand
    /\ UNCHANGED <<work, cs, breakLock, vms, known, bps, loadEvent,
                   detachEvent, evs, cmds, adapter>>

\* Mutant: a pause sets the event, as the steps do.
CmdBreakSignals ==
    /\ Executing({"Break"}) /\ Usable
    /\ mode' = [mode EXCEPT ![cmd.vm] = "StepInto"]
    /\ HookAll({cmd.vm})
    /\ breakEvent' = [breakEvent EXCEPT ![cmd.vm] = TRUE]
    /\ NextCommand
    /\ UNCHANGED <<work, cs, breakLock, vms, known, bps, loadEvent, detachEvent, evs,
                   cmds, adapter>>

\* Break takes no lock.
CmdBreak ==
    /\ Executing({"Break"}) /\ Usable
    /\ mode' = [mode EXCEPT ![cmd.vm] = "StepInto"]
    /\ HookAll({cmd.vm})
    /\ NextCommand
    /\ UNCHANGED <<work, cs, breakLock, vms, known, bps, signals, evs, cmds,
                   adapter>>

\* Setting a breakpoint turns the hooks of all virtual machines on.
CmdToggle ==
    LET s == cmd.script
        set == s \notin bps IN
    /\ Executing({"Toggle"}) /\ cs = None
    /\ bps' = IF set THEN bps \cup {s} ELSE bps \ {s}
    /\ HookAll(IF set THEN vms ELSE {})
    /\ Send(<<MsgOn("SetBreakpoint", None, s)>>)
    /\ NextCommand
    /\ UNCHANGED <<work, cs, breakLock, vms, mode, known, signals, cmds,
                   adapter>>

\* What a command does to no virtual machine, or to the hook of a freed state,
\* is undefined.
Stray ==
    \/ cmd.type \in ResumeKind \cup {"Break"} /\ (~Usable \/ Freed(cmd.vm))
    \/ cmd.type \in {"Toggle", "DetachRun", "DetachKill"} /\ \E v \in VM : Freed(v)

CmdStray ==
    /\ pc[Cmd] = "exec" /\ Stray
    /\ cs = None \/ cmd.type = "Break"
    /\ Goto(Cmd, "crash")
    /\ UNCHANGED <<work, cmd, found, backend, signals, evs, cmds, adapter>>

CmdLoadDone ==
    /\ Executing({"LoadDone"})
    /\ loadEvent' = TRUE
    /\ NextCommand
    /\ UNCHANGED <<work, backend, breakEvent, detachEvent, evs, cmds, adapter>>

\* Evaluate and ExpandTable: the command thread runs Lua code in the state
\* (Evaluate with the hook off) and answers.  An unknown state is answered at
\* once.
CmdEvaluate ==
    /\ Executing({"Evaluate"})
    /\ IF cmd.vm \in vms
       THEN /\ cs = None
            /\ \E off \in BOOLEAN : hooked' = [hooked EXCEPT ![cmd.vm] = @ /\ ~off]
            /\ Goto(Cmd, "eval")
            /\ UNCHANGED <<cmd, found, evs>>
       ELSE /\ Send(<<Msg("EvaluateRet", cmd.vm)>>)
            /\ NextCommand
            /\ UNCHANGED hooked
    /\ UNCHANGED <<work, cs, breakLock, vms, mode, known, bps, signals, cmds,
                   adapter>>

CmdEvaluated ==
    /\ pc[Cmd] = "eval"
    /\ hooked' = [hooked EXCEPT ![cmd.vm] = TRUE]
    /\ Send(<<Msg("EvaluateRet", cmd.vm)>>)
    /\ NextCommand
    /\ UNCHANGED <<work, cs, breakLock, vms, mode, known, bps, signals, cmds,
                   adapter>>

CmdDetach ==
    /\ Executing({"DetachRun", "DetachKill"}) /\ cs = None
    /\ Unhook(vms)
    /\ detachEvent' = TRUE
    /\ Goto(Cmd, IF cmd.type = "DetachRun" THEN "read" ELSE "cleanup")
    /\ cmd' = NoCmd /\ found' = FALSE
    /\ UNCHANGED <<work, cs, breakLock, vms, mode, known, bps, breakEvent,
                   loadEvent, evs, cmds, adapter>>

\* After a detach that ends the process scripts and virtual machines are freed,
\* without a lock.
CmdCleanup ==
    /\ pc[Cmd] = "cleanup"
    /\ vms' = {} /\ known' = {} /\ bps' = {}
    /\ Goto(Cmd, "exit")
    /\ UNCHANGED <<work, cmd, found, cs, breakLock, mode, hooked, signals, evs, cmds,
                   adapter>>

\* After a detach that leaves the process running the pipe ends: the
\* breakpoints are deleted and the thread goes on to WaitForAttach.
CmdPipeClosed ==
    /\ pc[Cmd] = "read" /\ cmds = <<>> /\ front = "gone"
    /\ bps' = {}
    /\ Goto(Cmd, "exit")
    /\ UNCHANGED <<work, cmd, found, cs, breakLock, vms, mode, hooked, known, signals,
                   evs, cmds, adapter>>

-----------------------------------------------------------------------------
(* The adapter: worker.lua handles one event at a time, in pipe order.     *)

FrontEvent(ty) == front = "up" /\ evs # <<>> /\ Head(evs).type \in ty

\* breakOrContinue.
Decide(v) ==
    /\ checking' = checking \ {v}
    /\ \/ stopped' = stopped \cup {v} /\ UNCHANGED cmds
       \/ cmds' = Append(cmds, Msg("Continue", v)) /\ UNCHANGED stopped

\* A condition or a log message of the breakpoint is evaluated first.
AskFirst(v) ==
    /\ checking' = checking \cup {v}
    /\ cmds' = Append(cmds, Msg("Evaluate", v))
    /\ UNCHANGED stopped

\* Mutant: every event puts its sender into the list.
FrontListSender ==
    /\ evs # <<>> /\ front = "up"
    /\ listed' = listed \cup {Head(evs).vm}
    /\ evs' = Tail(evs)
    /\ UNCHANGED <<pc, work, cmd, found, backend, signals, cmds, front, stopped,
                   checking, files, want>>

\* A destroyed VM stays in the list: exitThread is handed the wrong argument
\* and compares a field no thread has.
FrontCreateVM ==
    /\ FrontEvent({"CreateVM"})
    /\ listed' = listed \cup {Head(evs).vm}
    /\ evs' = Tail(evs)
    /\ UNCHANGED <<pc, work, cmd, found, backend, signals, cmds, front, stopped,
                   checking, files, want>>

\* Mutant: the wanted breakpoints are not sent.
FrontLoadScriptBare ==
    LET e == Head(evs) IN
    /\ FrontEvent({"LoadScript"})
    /\ files' = files \cup {e.script}
    /\ cmds' = Append(cmds, Msg("LoadDone", e.vm))
    /\ evs' = Tail(evs)
    /\ UNCHANGED <<pc, work, cmd, found, backend, signals, front, stopped, checking,
                   listed, want>>

\* Mutant: the script is never acknowledged.
FrontLoadScriptMute ==
    LET e == Head(evs) IN
    /\ FrontEvent({"LoadScript"})
    /\ files' = files \cup {e.script}
    /\ cmds' = IF e.script \in want
               THEN Append(cmds, MsgOn("Toggle", None, e.script)) ELSE cmds
    /\ evs' = Tail(evs)
    /\ UNCHANGED <<pc, work, cmd, found, backend, signals, front, stopped, checking,
                   listed, want>>

\* The wanted breakpoints of the file go out before the LoadDone.
FrontLoadScript ==
    LET e == Head(evs) IN
    /\ FrontEvent({"LoadScript"})
    /\ files' = files \cup {e.script}
    /\ cmds' = cmds \o (IF e.script \in want
                        THEN <<MsgOn("Toggle", None, e.script)>> ELSE <<>>)
                    \o <<Msg("LoadDone", e.vm)>>
    /\ evs' = Tail(evs)
    /\ UNCHANGED <<pc, work, cmd, found, backend, signals, front, stopped, checking,
                   listed, want>>

FrontBreak ==
    /\ FrontEvent({"Break"})
    /\ Decide(Head(evs).vm) \/ AskFirst(Head(evs).vm)
    /\ evs' = Tail(evs)
    /\ UNCHANGED <<pc, work, cmd, found, backend, signals, front, listed, files,
                   want>>

\* After an error event the adapter takes whatever comes next for the break
\* event of the same VM.
FrontError ==
    /\ FrontEvent({"Exception", "LoadError"}) /\ Len(evs) > 1
    /\ IF evs[2] = Msg("Break", evs[1].vm)
       THEN Decide(evs[1].vm) /\ UNCHANGED front
       ELSE front' = "lost" /\ UNCHANGED <<stopped, checking, cmds>>
    /\ evs' = Tail(Tail(evs))
    /\ UNCHANGED <<pc, work, cmd, found, backend, signals, listed, files, want>>

FrontEvaluateRet ==
    /\ FrontEvent({"EvaluateRet"})
    /\ IF Head(evs).vm \in checking
       THEN Decide(Head(evs).vm) \/ AskFirst(Head(evs).vm)
       ELSE UNCHANGED <<stopped, checking, cmds>>
    /\ evs' = Tail(evs)
    /\ UNCHANGED <<pc, work, cmd, found, backend, signals, front, listed, files,
                   want>>

FrontOther ==
    /\ FrontEvent({"DestroyVM", "SetBreakpoint", "Message"})
    /\ evs' = Tail(evs)
    /\ UNCHANGED <<pc, work, cmd, found, backend, signals, cmds, adapter>>

(* Requests of the user.                                                   *)

UserMay == front = "up" /\ Len(cmds) < MaxPending /\ Quiet

\* Mutant: the virtual machine stays stopped in the adapter's books.
UserResumeAgain(v) ==
    /\ UserMay /\ v \in stopped
    /\ \E k \in Steps : cmds' = Append(cmds, Msg(k, v))
    /\ UNCHANGED <<pc, work, cmd, found, backend, signals, evs, adapter>>

UserResume(v) ==
    /\ UserMay /\ v \in stopped
    /\ \E k \in Steps : cmds' = Append(cmds, Msg(k, v))
    /\ stopped' = stopped \ {v}
    /\ UNCHANGED <<pc, work, cmd, found, backend, signals, evs, front, checking,
                   listed, files, want>>

UserPause(v) ==
    /\ UserMay /\ "pause" \in Occurs /\ v \in listed \ stopped
    /\ cmds' = Append(cmds, Msg("Break", v))
    /\ UNCHANGED <<pc, work, cmd, found, backend, signals, evs, adapter>>

UserEvaluate(v) ==
    /\ UserMay /\ "evaluate" \in Occurs /\ v \in stopped
    /\ cmds' = Append(cmds, Msg("Evaluate", v))
    /\ UNCHANGED <<pc, work, cmd, found, backend, signals, evs, adapter>>

UserBreakpoint(s) ==
    /\ UserMay /\ "breakpoint" \in Occurs
    /\ want' = IF s \in want THEN want \ {s} ELSE want \cup {s}
    /\ cmds' = IF s \in files THEN Append(cmds, MsgOn("Toggle", None, s)) ELSE cmds
    /\ UNCHANGED <<pc, work, cmd, found, backend, signals, evs, front, stopped,
                   checking, listed, files>>

\* Disconnecting closes both pipes; what was written is still delivered.
UserDisconnect ==
    /\ UserMay /\ "disconnect" \in Occurs
    /\ \E k \in {"DetachRun", "DetachKill"} : cmds' = Append(cmds, Msg(k, None))
    /\ front' = "gone"
    /\ evs' = <<>> /\ stopped' = {} /\ checking' = {}
    /\ UNCHANGED <<pc, work, cmd, found, backend, signals, listed, files, want>>

-----------------------------------------------------------------------------
Alive == \A t \in Thread : pc[t] # "crash"

Lifecycle(v) == NewState(v) \/ AttachState(v) \/ CloseState(v) \/ DetachState(v)
Hook(v)      == \/ HookEnter(v) \/ HookRegister(v) \/ HookLoaded(v)
                \/ HookReenter(v) \/ HookCall(v) \/ HookLine(v)
                \/ HookStart(v) \/ HookUnknown(v)
Break(v)     == BreakSend(v) \/ BreakWake(v) \/ BreakClear(v)
Load(v)      == \/ LoadScript(v) \/ LoadRegister(v) \/ LoadErrorEnter(v)
                \/ LoadErrorSend(v) \/ LoadErrorWake(v) \/ LoadWake(v)
Error(t)     == \/ ErrorUnknown(t) \/ ErrorHandler(t) \/ ErrorMessage(t)
                \/ ExceptionSend(t) \/ ExceptionBreak(t) \/ ExceptionWake(t)
CmdThread    == \/ CmdRead \/ CmdResume \/ CmdBreak \/ CmdToggle \/ CmdLoadDone
                \/ CmdEvaluate \/ CmdEvaluated \/ CmdDetach \/ CmdCleanup
                \/ CmdPipeClosed \/ CmdStray
Front        == \/ FrontCreateVM \/ FrontLoadScript \/ FrontBreak
                \/ FrontError \/ FrontEvaluateRet \/ FrontOther
User         == \/ \E v \in VM : UserResume(v) \/ UserPause(v) \/ UserEvaluate(v)
                \/ \E s \in Script : UserBreakpoint(s)
                \/ UserDisconnect

Next == /\ Alive
        /\ \/ \E v \in VM : Lifecycle(v) \/ Hook(v) \/ Break(v) \/ Load(v)
           \/ \E t \in Thread : Error(t)
           \/ CmdThread
           \/ Front
           \/ User

Spec == Init /\ [][Next]_vars

\* The operating system runs every thread that can run and hands a critical
\* section to every thread that keeps asking for it; the adapter keeps reading.
\* Nothing obliges the program to call Lua again, or the user to ask anything.
Proceed(v) == \/ AttachState(v) \/ DetachState(v)
              \/ HookStart(v) \/ HookRegister(v) \/ HookLoaded(v)
              \/ HookReenter(v) \/ HookCall(v) \/ HookLine(v)
              \/ Break(v)
              \/ LoadRegister(v) \/ LoadErrorEnter(v) \/ LoadErrorSend(v)
              \/ LoadErrorWake(v) \/ LoadWake(v)
Report(t)  == ExceptionSend(t) \/ ExceptionBreak(t) \/ ExceptionWake(t)

Fairness == /\ \A v \in VM : SF_vars(Alive /\ (Proceed(v) \/ Report(v)))
            /\ SF_vars(Alive /\ (CmdThread \/ Report(Cmd)))
            /\ WF_vars(Alive /\ Front)
FairSpec == Spec /\ Fairness

-----------------------------------------------------------------------------
(* Safety.                                                                 *)

\* The variables keep their types: in particular a script thread and the command
\* thread stay in their own code, and no command or event names a virtual
\* machine or a script that does not exist.
PcOK      == /\ pc \in [Thread -> ScriptPc \cup CmdPc]
             /\ \A v \in VM : pc[v] \in ScriptPc
             /\ pc[Cmd] \in CmdPc
WorkOK    == work \in [VM -> Work]
CmdOK     == cmd \in Command /\ found \in BOOLEAN
BackendOK == /\ cs \in Thread \cup {None} /\ breakLock \in Thread \cup {None}
             /\ vms \subseteq VM
             /\ mode \in [VM -> Mode] /\ hooked \in [VM -> BOOLEAN]
             /\ known \subseteq Script /\ bps \subseteq Script
SignalsOK == /\ breakEvent \in [VM -> BOOLEAN]
             /\ loadEvent \in BOOLEAN /\ detachEvent \in BOOLEAN
PipesOK   == evs \in Seq(Event) /\ cmds \in Seq(Command)
AdapterOK == /\ front \in {"up", "lost", "gone"}
             /\ stopped \subseteq VM /\ checking \subseteq VM /\ listed \subseteq VM
             /\ files \subseteq Script /\ want \subseteq Script

BusyOK    == /\ \A v \in VM : pc[v] \in AtWork => work[v].script \in Script
             /\ pc[Cmd] \in {"eval"} \cup InError => cmd.type = "Evaluate"

TypeOK == /\ PcOK /\ WorkOK /\ CmdOK /\ BackendOK
          /\ SignalsOK /\ PipesOK /\ AdapterOK /\ BusyOK

\* Each critical section belongs to the thread that is inside it, and to no
\* other: a thread inside RegisterScript's wait, inside any WaitForContinue or
\* blocked on the detach event has given m_criticalSection back, while an
\* exception stop keeps m_breakLock from the TryLock to the end of its wait.
LockOwnership ==
    /\ \A t \in Thread : cs = t <=> pc[t] \in HoldsCs
    /\ \A t \in Thread : breakLock = t <=> pc[t] \in InError

\* At most one thread is stopped in an exception, whatever the number of VMs
\* that raise errors: the others report theirs as messages.
OneExceptionStop ==
    \A t, u \in Thread : pc[t] \in InError /\ pc[u] \in InError => t = u

\* Where the permission to resume v is: in a Break event on its way out, with
\* the adapter, in a resume command on its way back, or in break_event.
One(b)         == IF b THEN 1 ELSE 0
IsResume(c, v) == c.type \in ResumeKind /\ c.vm = v
IsBreak(e, v)  == e.type = "Break" /\ e.vm = v
Permits(v) ==
    Cardinality({i \in DOMAIN evs : IsBreak(evs[i], v)})
    + One(v \in stopped) + One(v \in checking)
    + Cardinality({i \in DOMAIN cmds : IsResume(cmds[i], v)})
    + One(pc[Cmd] = "exec" /\ IsResume(cmd, v))
    + One(breakEvent[v])

\* Every stop is paid for by exactly one resume: a VM in a break wait has one
\* permit under way, a VM that is not waiting has none that could let it run
\* through a later stop.  (Until a detach, while the adapter follows the pipe,
\* and unless the command thread itself has stopped in an error handler.)
BreakPermit ==
    front = "up" /\ ~detachEvent /\ pc[Cmd] # "excWait" =>
        \A v \in VM : Permits(v) = One(pc[v] \in BreakWaits)

\* While the command thread evaluates an expression in a state, the thread of
\* that state is in a break wait: no two threads ever run the same lua_State.
EvaluateWhileStopped ==
    pc[Cmd] \in {"eval"} \cup InError => pc[cmd.vm] \in BreakWaits

\* The breakpoint a file has in the adapter is the one the backend has, up to
\* the toggles under way; so both sides agree once the pipes are empty.
IsToggle(c, s) == c.type = "Toggle" /\ c.script = s
Toggles(s)     == Cardinality({i \in DOMAIN cmds : IsToggle(cmds[i], s)})
                  + One(pc[Cmd] = "exec" /\ IsToggle(cmd, s))
BreakpointsAgree ==
    front = "up" /\ Alive =>
        \A s \in Script :
            (s \in bps) = (s \in files \cap want) <=> Toggles(s) % 2 = 0

\* A continue or a step always finds its virtual machine, though it is looked up
\* without a lock and used with one: nobody closes a state the user sees stopped.
\* (A pause has no such luck.)
ResumeFindsItsVm ==
    pc[Cmd] = "crash" => cmd.type \notin ResumeKind

\* While attached no script thread meets an error handler or a hook for a state
\* the backend does not know, where it would have no virtual machine to use.
ScriptsSurvive == ~detachEvent => \A v \in VM : pc[v] # "crash"

\* While attached, only states the backend knows are hooked: HookCallback never
\* has to attach one, and a detach that unhooks those it knows unhooks them all.
HookedKnown == ~detachEvent => \A v \in VM : hooked[v] => v \in vms

-----------------------------------------------------------------------------
(* What the backend and the adapter promise together.                      *)

\* How far the stop of v has come: where the permission to go on is.
StopStage(v) ==
    IF pc[v] \notin BreakWaits THEN "running"
    ELSE IF breakEvent[v] THEN "released"
    ELSE IF v \in stopped THEN "shown"
    ELSE IF \/ \E i \in DOMAIN cmds : IsResume(cmds[i], v)
            \/ pc[Cmd] = "exec" /\ IsResume(cmd, v) THEN "resumed"
    ELSE IF v \in checking \/ \E i \in DOMAIN evs : IsBreak(evs[i], v) THEN "told"
    ELSE "lost"

Protocol == INSTANCE Stops
    WITH stage      <- [v \in VM |-> StopStage(v)],
         evaluating <- IF pc[Cmd] \in {"eval"} \cup InError THEN {cmd.vm} ELSE {},
         linked     <- front = "up" /\ pc[Cmd] # "excWait"

\* Every stop is reported, shown or passed over, resumed, released and left once, in
\* this order, whoever else stops, pauses, loads, raises errors or asks for values in
\* between; and the command thread runs Lua in a state only while it is stopped
\* and has not been released (DebugBackend.cpp 993-1010, 1061-1163).
StopsFollow == Protocol!Spec

-----------------------------------------------------------------------------
(* Liveness, under FairSpec.                                               *)

\* A continue or a step lets its virtual machine out of the stop it was given
\* for, whatever else the command thread has been told to do before it.
ResumeTakesEffect ==
    \A v \in VM : (\E i \in DOMAIN cmds : IsResume(cmds[i], v))
                  ~> (pc[v] \notin BreakWaits \/ ~Alive)

\* Whatever a thread waits for, a detach ends the wait.
DetachReleases ==
    \A v \in VM : (detachEvent /\ pc[v] \in BreakWaits \cup LoadWaits)
                  ~> (pc[v] \notin BreakWaits \cup LoadWaits \/ ~Alive)

\* DebugBackend.cpp:472 "Stop execution so that the frontend has an opportunity
\* to send us the break points before we start executing the first line of the
\* script": the opportunity ends, and the script starts.
LoadWaitEnds ==
    \A v \in VM : pc[v] \in LoadWaits ~> (pc[v] \notin LoadWaits \/ ~Alive)

-----------------------------------------------------------------------------
(* What the comments say of the program.  LoadWaitHonoured (and LoadWaitEnds *)
(* above) hold while it has a single virtual machine, the others fail.     *)

\* DebugBackend.cpp:823 "We need to exit the critical section before waiting
\* so that we don't monopolize it": nobody holds the critical section while it
\* waits for somebody who waits for the user.
CsNotMonopolized ==
    \A v \in VM : pc[v] = "errLock" =>
        breakLock = None \/ pc[breakLock] # "excWait"

\* DebugBackend.cpp:1556 "To avoid deadlocking in this case, just send an
\* error message": the command thread does not wait for a resume command,
\* which it alone could execute.
CommandThreadNeverWaits == pc[Cmd] # "excWait"

\* DebugBackend.cpp:472 "Stop execution so that the frontend has an
\* opportunity to send us the break points before we start executing the first
\* line of the script": a wait for a load ends by the LoadDone for that load.
LoadUnderWay(v) ==
    \/ \E i \in DOMAIN evs : evs[i].type = "LoadScript" /\ evs[i].vm = v
    \/ \E i \in DOMAIN cmds : cmds[i] = Msg("LoadDone", v)
    \/ pc[Cmd] = "exec" /\ cmd = Msg("LoadDone", v)
LoadWaitHonoured ==
    [][\A v \in VM : /\ pc[v] \in LoadWaits /\ pc'[v] # pc[v]
                     /\ front = "up"
                     => ~LoadUnderWay(v)]_vars

=============================================================================
