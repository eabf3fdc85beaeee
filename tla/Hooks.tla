--------------------------------- MODULE Hooks ---------------------------------
(***************************************************************************)
(* Which events of a Lua state reach the debug backend, and which of them  *)
(* stop it: HookCallback and UpdateHookMode (DebugBackend.cpp), with the   *)
(* hook masks of SetHookMode (LuaDll.cpp).  To run a script fast the       *)
(* backend asks Lua for line events only while a function on the stack     *)
(* has a breakpoint, and it counts calls and returns to find the end of a  *)
(* step over or a step out.                                                *)
(*                                                                         *)
(* A hook runs under m_criticalSection, as every command does that changes *)
(* breakpoints or hooks, except the pause: DebugBackend::Break writes the  *)
(* mode and then the hook without the lock.  So a hook that changes the    *)
(* hook mask is three steps here (it chooses, looks at the mode once more, *)
(* and sets what it chose) and keeps the lock until it has set it; the two *)
(* stores of a pause fall anywhere between them.  The waits in the middle  *)
(* of a hook are in Backend.  A script is known before it runs.            *)
(***************************************************************************)
EXTENDS Naturals, Sequences, FiniteSets

CONSTANTS VM,        \* Lua states
          Lua51,     \* those of Lua 5.1, where every tail call has a return event
          Fun,       \* the functions of the program: [name -> their lines]
          Features,  \* what this program does: see Feature
          MaxBusy,   \* bound on the states that execute a function at a time
          MaxDepth,  \* bound on the call stack of each state
          MaxTail,   \* bound on the tail calls that led to a frame
          MaxCount   \* bound on callCount

Fn      == DOMAIN Fun
Script  == {Fun[f].script : f \in Fn}
Feature == {"tailCall",    \* a function takes the place of its caller
            "error",       \* an error unwinds the stack without events
            "closeLast"}   \* all states are closed before another is opened

\* Lines count from one here; a function has first..last around its body, and the
\* main chunk of a script has zeros.  Where a function is written on one line,
\* first, last and body are that line.
ASSUME HooksAssumption ==
    /\ \A f \in Fn : Fun[f].first \in Nat /\ Fun[f].last \in Nat
                     /\ Fun[f].body \subseteq Nat \ {0}
    /\ Lua51 \subseteq VM /\ Features \subseteq Feature
    /\ MaxBusy \in Nat /\ MaxDepth \in [VM -> Nat] /\ MaxTail \in Nat /\ MaxCount \in Nat

VARIABLES
    phase,     \* "off", "run", "stopped" in a break; in UpdateHookMode: "hook" where
               \* the mask is chosen, "set" where the mode has been looked at again
    stack,     \* the functions being executed, the innermost last
    hook,      \* the hook mask
    mode,      \* VirtualMachine::mode
    callCount, \* VirtualMachine::callCount
    inStack,   \* VirtualMachine::breakpointInStack
    active,    \* VirtualMachine::haveActiveBreakpoints
    chosen,    \* the mask that UpdateHookMode is about to set
    pausing,   \* the state whose pause is between its two stores
    bps,       \* Script::breakpoints: lines that count from zero
    kept,      \* history: in a step over or out, how many frames are left of those
               \* on the stack when it was given (those below it, for a step out)
    lost,      \* history: a call was counted since whose return never comes
    missed     \* history: the full hook of a pause came between the last look at the
               \* mode and the setting of the mask, and was not renewed since

machine == <<mode, callCount, inStack, active, hook>>
history == <<kept, lost>>
pause   == <<pausing, missed>>
vars    == <<phase, stack, machine, chosen, bps, history, pause>>

HookMode == {"None", "CallsOnly", "CallsAndReturns", "Full"}
Mask(h)  == CASE h = "None"            -> {}
              [] h = "CallsOnly"       -> {"call"}
              [] h = "CallsAndReturns" -> {"call", "return"}
              [] h = "Full"            -> {"call", "return", "line"}
Stepping == {"StepInto", "StepOver", "StepOut"}
Counting == {"StepOver", "StepOut"}

Init ==
    /\ phase = [v \in VM |-> "off"]
    /\ stack = [v \in VM |-> <<>>]
    /\ hook = [v \in VM |-> "None"]
    /\ mode = [v \in VM |-> "Continue"]
    /\ callCount = [v \in VM |-> 0]
    /\ inStack = [v \in VM |-> TRUE]
    /\ active = [v \in VM |-> FALSE]
    /\ bps = [s \in Script |-> {}]
    /\ chosen = [v \in VM |-> "None"]
    /\ pausing = {}
    /\ kept = [v \in VM |-> 0] /\ lost = [v \in VM |-> FALSE]
    /\ missed = [v \in VM |-> FALSE]

\* What is remembered of a step over or a step out, while there is one.
Remember(v, n, l) ==
    IF mode[v] \notin Counting THEN UNCHANGED history
    ELSE /\ kept' = [kept EXCEPT ![v] = IF @ > n THEN n ELSE @]
         /\ lost' = [lost EXCEPT ![v] = @ \/ l]

Forget(v) == kept' = [kept EXCEPT ![v] = 0] /\ lost' = [lost EXCEPT ![v] = FALSE]

Attached == {v \in VM : phase[v] # "off"}

\* The states whose hook is about to set a mask hold m_criticalSection; a command
\* that takes the lock comes after the pause before it, for one thread executes
\* all commands.
InHook   == {"hook", "set"}
Unlocked == \A v \in VM : phase[v] \notin InHook
Command  == Unlocked /\ pausing = {}

-----------------------------------------------------------------------------
(* What the hook does to the virtual machine.                              *)

\* Script::HasBreakPointInRange: the lines of bps count from zero.
InRange(f) == \E b \in bps[Fun[f].script] : b >= Fun[f].first /\ b < Fun[f].last

\* A main chunk needs line events while its script has any breakpoint.
IsChunk(f)       == Fun[f].first = 0 /\ Fun[f].last = 0
HasBreakpoint(f) == \/ InRange(f)
                    \/ IsChunk(f) /\ bps[Fun[f].script] # {}

\* Mutant: only the function that is entered counts.
StackForgotten(s) == FALSE
StackHasBreakpoint(s) == \E i \in DOMAIN s : HasBreakpoint(s[i].fn)

\* UpdateHookMode, on entering the functions in fs (none for a return) with the
\* stack s, up to the comparison with the mask that is set.  A pause that comes
\* before it ends as one that comes right after it.
UpdateHookMode(v, fs, s) ==
    LET full == \/ \E f \in fs : HasBreakpoint(f)
                \/ inStack[v] /\ StackHasBreakpoint(s)
        mask == IF ~active[v] THEN "CallsAndReturns" ELSE IF full THEN "Full" ELSE "CallsOnly"
    IN  /\ inStack' = [inStack EXCEPT ![v] = full]
        /\ IF mask = hook[v] THEN UNCHANGED <<phase, chosen>>
           ELSE /\ phase' = [phase EXCEPT ![v] = "hook"]
                /\ chosen' = [chosen EXCEPT ![v] = mask]
        /\ UNCHANGED <<hook, callCount, missed>>

\* Mutant: the mode is not looked at again.
CheckModeBlind(v) ==
    /\ phase[v] = "hook"
    /\ phase' = [phase EXCEPT ![v] = "set"]
    /\ UNCHANGED <<stack, machine, chosen, bps, history, pause>>

\* "Always switch to Full hook mode when stepping": a pause may have come since.
CheckMode(v) ==
    /\ phase[v] = "hook"
    /\ phase' = [phase EXCEPT ![v] = "set"]
    /\ chosen' = [chosen EXCEPT ![v] = IF mode[v] # "Continue" THEN "Full" ELSE @]
    /\ UNCHANGED <<stack, machine, bps, history, pause>>

SetHook(v) ==
    /\ phase[v] = "set"
    /\ phase' = [phase EXCEPT ![v] = "run"]
    /\ hook' = [hook EXCEPT ![v] = chosen[v]]
    /\ chosen' = [chosen EXCEPT ![v] = "None"]
    /\ UNCHANGED <<stack, mode, callCount, inStack, active, bps, history, pause>>

\* While stepping the hook stays full, and the stack is to be looked at again.
KeepFull(v) ==
    /\ hook' = [hook EXCEPT ![v] = "Full"]
    /\ inStack' = [inStack EXCEPT ![v] = TRUE]
    /\ missed' = [missed EXCEPT ![v] = FALSE]

\* A hook that is called waits for the lock.
Seen(v, event)  == event \in Mask(hook[v])
Waits(v, event) == Seen(v, event) /\ ~Unlocked
Unseen == UNCHANGED <<phase, chosen, hook, inStack, callCount, missed>>

\* Mutant: the calls of a step over are not counted.
CallHookUncounted(v, f, s) ==
    IF ~Seen(v, "call") THEN Unseen
    ELSE IF mode[v] = "Continue" THEN UpdateHookMode(v, {f}, s)
    ELSE /\ KeepFull(v) /\ UNCHANGED <<phase, chosen>>
         /\ callCount' = [callCount EXCEPT ![v] = IF mode[v] = "StepOut" THEN @ + 1 ELSE @]

CallHook(v, f, s) ==
    IF ~Seen(v, "call") THEN Unseen
    ELSE IF mode[v] = "Continue" THEN UpdateHookMode(v, {f}, s)
    ELSE /\ KeepFull(v) /\ UNCHANGED <<phase, chosen>>
         /\ callCount' = [callCount EXCEPT ![v] = IF mode[v] \in Counting THEN @ + 1 ELSE @]

\* Mutant: the count is not kept from going below zero.
ReturnHookUnchecked(v, n, s) ==
    IF ~Seen(v, "return") THEN Unseen
    ELSE IF mode[v] = "Continue" THEN UpdateHookMode(v, {}, s)
    ELSE /\ KeepFull(v) /\ UNCHANGED <<phase, chosen>>
         /\ callCount' = [callCount EXCEPT ![v] = IF mode[v] \notin Counting THEN @ ELSE @ - n]

\* n return events: one, and one for each tail call under the frame in Lua 5.1.
ReturnHook(v, n, s) ==
    IF ~Seen(v, "return") THEN Unseen
    ELSE IF mode[v] = "Continue" THEN UpdateHookMode(v, {}, s)
    ELSE /\ KeepFull(v) /\ UNCHANGED <<phase, chosen>>
         /\ callCount' = [callCount EXCEPT
                ![v] = IF mode[v] \notin Counting THEN @ ELSE IF @ > n THEN @ - n ELSE 0]

Stops(v, l) ==
    /\ Seen(v, "line")
    /\ \/ l \in {b + 1 : b \in bps[Fun[stack[v][Len(stack[v])].fn].script]}
       \/ mode[v] = "StepInto"
       \/ mode[v] \in Counting /\ callCount[v] = 0

\* The mode is looked at before the line and once more for the stop: where a pause
\* comes between, the state stops though the first look found nothing.
LineHook(v, l) ==
    /\ \/ Seen(v, "line") /\ mode[v] # "Continue" /\ KeepFull(v)
       \/ /\ Seen(v, "line") => mode[v] = "Continue" \/ v \in pausing
          /\ UNCHANGED <<hook, inStack, missed>>
    /\ phase' = [phase EXCEPT ![v] = IF Stops(v, l) THEN "stopped" ELSE @]

-----------------------------------------------------------------------------
(* The program: states come and go, functions call each other.             *)

\* States share nothing but the breakpoints, so few of them need to be busy.
MayStart(v) == Cardinality({w \in VM \ {v} : stack[w] # <<>>}) < MaxBusy

Frame(f) == [fn |-> f, tail |-> 0]

\* A state is found when it is created or when it next calls the API, which may
\* be in the middle of a function.
Found(v, s) == s = <<>> \/ MayStart(v)

\* Mutant: a new virtual machine does not inherit the flag.
AttachBare(v, s) ==
    /\ phase[v] = "off" /\ Found(v, s) /\ Unlocked
    /\ phase' = [phase EXCEPT ![v] = "run"]
    /\ stack' = [stack EXCEPT ![v] = s]
    /\ hook' = [hook EXCEPT ![v] = "Full"]
    /\ mode' = [mode EXCEPT ![v] = "Continue"]
    /\ callCount' = [callCount EXCEPT ![v] = 0]
    /\ inStack' = [inStack EXCEPT ![v] = TRUE]
    /\ active' = [active EXCEPT ![v] = FALSE]
    /\ UNCHANGED <<chosen, bps, history, pause>>

\* AttachState: the new virtual machine learns from the others whether any
\* breakpoint is set.
AttachState(v, s) ==
    /\ phase[v] = "off" /\ Found(v, s) /\ Unlocked
    /\ phase' = [phase EXCEPT ![v] = "run"]
    /\ stack' = [stack EXCEPT ![v] = s]
    /\ hook' = [hook EXCEPT ![v] = "Full"]
    /\ mode' = [mode EXCEPT ![v] = "Continue"]
    /\ callCount' = [callCount EXCEPT ![v] = 0]
    /\ inStack' = [inStack EXCEPT ![v] = TRUE]
    /\ active' = [active EXCEPT ![v] = \E w \in Attached : active[w]]
    /\ UNCHANGED <<chosen, bps, history, pause>>

\* The virtual machine is deleted: its fields take their initial values here.  A
\* pause would go on to use it.
CloseState(v) ==
    /\ phase[v] = "run" /\ stack[v] = <<>> /\ Unlocked /\ v \notin pausing
    /\ "closeLast" \in Features \/ Attached # {v}
    /\ phase' = [phase EXCEPT ![v] = "off"]
    /\ hook' = [hook EXCEPT ![v] = "None"]
    /\ mode' = [mode EXCEPT ![v] = "Continue"]
    /\ callCount' = [callCount EXCEPT ![v] = 0]
    /\ inStack' = [inStack EXCEPT ![v] = TRUE]
    /\ active' = [active EXCEPT ![v] = FALSE]
    /\ missed' = [missed EXCEPT ![v] = FALSE]
    /\ Forget(v)
    /\ UNCHANGED <<stack, chosen, bps, pausing>>

Call(v, f) ==
    LET s == Append(stack[v], Frame(f)) IN
    /\ phase[v] = "run" /\ MayStart(v) /\ ~Waits(v, "call")
    /\ Len(s) <= MaxDepth[v] /\ callCount[v] < MaxCount
    /\ stack' = [stack EXCEPT ![v] = s]
    /\ CallHook(v, f, s)
    /\ UNCHANGED <<mode, active, bps, history, pausing>>

Running(v) == phase[v] = "run" /\ stack[v] # <<>>
Top(v)     == stack[v][Len(stack[v])]
Below(v)   == SubSeq(stack[v], 1, Len(stack[v]) - 1)

\* The new function takes the place of the one that calls it.
TailCall(v, f) ==
    LET tail == IF v \in Lua51 THEN Top(v).tail + 1 ELSE 0
        s    == Append(Below(v), [fn |-> f, tail |-> tail]) IN
    /\ Running(v) /\ "tailCall" \in Features /\ ~Waits(v, "call")
    /\ callCount[v] < MaxCount /\ tail <= MaxTail
    /\ stack' = [stack EXCEPT ![v] = s]
    /\ Remember(v, Len(s) - 1, v \notin Lua51)
    /\ CallHook(v, f, s)
    /\ UNCHANGED <<mode, active, bps, pausing>>

\* The hook of a return still finds the function on the stack.
Return(v) ==
    /\ Running(v) /\ ~Waits(v, "return")
    /\ stack' = [stack EXCEPT ![v] = Below(v)]
    /\ Remember(v, Len(stack[v]) - 1, FALSE)
    /\ ReturnHook(v, Top(v).tail + 1, stack[v])
    /\ UNCHANGED <<mode, active, bps, pausing>>

\* An error is caught n frames below; Lua calls no hook for the others.
Throw(v, n) ==
    /\ Running(v) /\ "error" \in Features /\ n < Len(stack[v])
    /\ stack' = [stack EXCEPT ![v] = SubSeq(@, 1, n)]
    /\ Remember(v, n, TRUE)
    /\ UNCHANGED <<phase, machine, chosen, bps, pause>>

\* The innermost function starts to execute line l.
Line(v, l) ==
    /\ Running(v) /\ l \in Fun[Top(v).fn].body /\ ~Waits(v, "line")
    /\ LineHook(v, l)
    /\ UNCHANGED <<stack, mode, callCount, active, chosen, bps, history, pausing>>

-----------------------------------------------------------------------------
(* The command thread.                                                     *)

\* Mutant: a step over counts from one, as a step out does.
ResumeCounted(v, k) ==
    /\ phase[v] = "stopped" /\ Command
    /\ phase' = [phase EXCEPT ![v] = "run"]
    /\ mode' = [mode EXCEPT ![v] = k]
    /\ callCount' = [callCount EXCEPT ![v] = IF k \in Counting THEN 1 ELSE 0]
    /\ hook' = [hook EXCEPT ![v] = IF k = "Continue" THEN @ ELSE "Full"]
    /\ kept' = [kept EXCEPT ![v] = CASE k = "StepOver" -> Len(stack[v])
                                     [] k = "StepOut"  -> Len(stack[v]) - 1
                                     [] OTHER          -> 0]
    /\ lost' = [lost EXCEPT ![v] = FALSE] /\ missed' = [missed EXCEPT ![v] = FALSE]
    /\ UNCHANGED <<stack, inStack, active, chosen, bps, pausing>>

\* Continue, StepInto, StepOver, StepOut.
Resume(v, k) ==
    /\ phase[v] = "stopped" /\ Command
    /\ phase' = [phase EXCEPT ![v] = "run"]
    /\ mode' = [mode EXCEPT ![v] = k]
    /\ callCount' = [callCount EXCEPT ![v] = IF k = "StepOut" THEN 1 ELSE 0]
    /\ hook' = [hook EXCEPT ![v] = IF k = "Continue" THEN @ ELSE "Full"]
    /\ kept' = [kept EXCEPT ![v] = CASE k = "StepOver" -> Len(stack[v])
                                     [] k = "StepOut"  -> Len(stack[v]) - 1
                                     [] OTHER          -> 0]
    /\ lost' = [lost EXCEPT ![v] = FALSE] /\ missed' = [missed EXCEPT ![v] = FALSE]
    /\ UNCHANGED <<stack, inStack, active, chosen, bps, pausing>>

\* A pause, also of a state that is stopped already: Break takes no lock, and other
\* threads run between its two stores.
BreakMode(v) ==
    /\ v \in Attached /\ pausing = {}
    /\ pausing' = {v}
    /\ mode' = [mode EXCEPT ![v] = "StepInto"]
    /\ Forget(v)
    /\ UNCHANGED <<phase, stack, hook, callCount, inStack, active, chosen, bps, missed>>

BreakHook(v) ==
    /\ v \in pausing
    /\ pausing' = pausing \ {v}
    /\ hook' = [hook EXCEPT ![v] = "Full"]
    /\ missed' = [missed EXCEPT ![v] = phase[v] = "set" /\ chosen[v] # "Full"]
    /\ UNCHANGED <<phase, stack, mode, callCount, inStack, active, chosen, bps, history>>

\* An evaluation takes the hook off and leaves a full one.
Evaluate(v) ==
    /\ phase[v] = "stopped" /\ Command
    /\ hook' = [hook EXCEPT ![v] = "Full"]
    /\ UNCHANGED <<phase, stack, mode, callCount, inStack, active, chosen, bps, history, pause>>

SetBreakpoint(s, b) ==
    /\ Attached # {} /\ b \notin bps[s] /\ Command
    /\ bps' = [bps EXCEPT ![s] = @ \cup {b}]
    /\ active' = [v \in VM |-> active[v] \/ v \in Attached]
    /\ inStack' = [v \in VM |-> inStack[v] \/ v \in Attached]
    /\ hook' = [v \in VM |-> IF v \in Attached THEN "Full" ELSE hook[v]]
    /\ missed' = [v \in VM |-> missed[v] /\ v \notin Attached]
    /\ UNCHANGED <<phase, stack, mode, callCount, chosen, history, pausing>>

\* The flags go down with the last breakpoint; the hooks follow when they are
\* called.
ClearBreakpoint(s, b) ==
    /\ Attached # {} /\ b \in bps[s] /\ Command
    /\ bps' = [bps EXCEPT ![s] = @ \ {b}]
    /\ active' = [v \in VM |-> active[v] /\ (v \in Attached => \E t \in Script : bps'[t] # {})]
    /\ UNCHANGED <<phase, stack, mode, callCount, inStack, hook, chosen, history, pause>>

\* The lines a user can see, and set a breakpoint on.
Lines(s) == {l - 1 : l \in UNION {Fun[f].body : f \in {g \in Fn : Fun[g].script = s}}}

Program(v) == \/ AttachState(v, <<>>) \/ CloseState(v) \/ Return(v)
              \/ CheckMode(v) \/ SetHook(v)
              \/ \E f \in Fn : \/ AttachState(v, <<Frame(f)>>)
                              \/ Call(v, f) \/ TailCall(v, f)
              \/ \E n \in 0 .. MaxDepth[v] - 1 : Throw(v, n)
              \/ \E l \in UNION {Fun[f].body : f \in Fn} : Line(v, l)
User(v)    == \/ \E k \in Stepping \cup {"Continue"} : Resume(v, k)
              \/ BreakMode(v) \/ BreakHook(v) \/ Evaluate(v)

Next == \/ \E v \in VM : Program(v) \/ User(v)
        \/ \E s \in Script : \E b \in Lines(s) : SetBreakpoint(s, b) \/ ClearBreakpoint(s, b)

Spec == Init /\ [][Next]_vars

-----------------------------------------------------------------------------
(* Properties.                                                             *)

\* The variables keep their types, and a stack holds functions of the program.
StackOK ==
    /\ phase \in [VM -> {"off", "run", "stopped"} \cup InHook]
    /\ DOMAIN stack = VM
    /\ \A v \in VM : /\ stack[v] \in Seq([fn : Fn, tail : Nat])
                     /\ phase[v] = "stopped" => stack[v] # <<>>
MachineOK ==
    /\ hook \in [VM -> HookMode] /\ chosen \in [VM -> HookMode]
    /\ mode \in [VM -> Stepping \cup {"Continue"}]
    /\ callCount \in [VM -> Nat]
    /\ inStack \in [VM -> BOOLEAN]
FlagsOK   == active \in [VM -> BOOLEAN] /\ bps \in [Script -> SUBSET Nat]
HistoryOK == kept \in [VM -> Nat] /\ lost \in [VM -> BOOLEAN]
PauseOK   == missed \in [VM -> BOOLEAN] /\ pausing \in SUBSET VM
TypeOK    == StackOK /\ MachineOK /\ FlagsOK /\ HistoryOK /\ PauseOK

\* The lines a state may execute next, those with a breakpoint, and the step that
\* ends there.
NextLines(v)  == IF Running(v) THEN Fun[Top(v).fn].body ELSE {}
HasLine(v, l) == l - 1 \in bps[Fun[Top(v).fn].script]
StepDue(v)    == \/ mode[v] = "StepInto"
                 \/ mode[v] \in Counting /\ Len(stack[v]) <= kept[v]

\* A pause that is in force: both its stores are done, and no hook in its last
\* moments has put another mask in the place of the full one.
InForce(v) == v \notin pausing /\ ~missed[v]

\* DebugBackend.cpp:903 "Keep the hook in Full mode while theres a function in the
\* stack somewhere that has a breakpoint in it": outside of a hook, a state gets
\* every line event while it steps, also where a pause came while a hook was choosing
\* another mask, and while any function it is executing has a breakpoint, though the
\* hook was chosen at an earlier call or return and the breakpoint set since.
FullWhereNeeded ==
    \A v \in {w \in Attached : phase[w] \notin InHook} :
        \/ mode[v] # "Continue" /\ InForce(v)
        \/ \E i \in DOMAIN stack[v] : LET g == Fun[stack[v][i].fn] IN
               \E l \in g.body : l - 1 \in bps[g.script]
        => hook[v] = "Full"

\* DebugBackend.h:115 "Continues execution until a breakpoint is hit": no line with
\* a breakpoint can be executed without a stop.
BreakpointStops ==
    \A v \in VM : \A l \in NextLines(v) : HasLine(v, l) => Stops(v, l)

\* DebugBackend.h:107 "Steps execution of a "broken" script by one line.  If the
\* current line is a function call, this will step over the function call": the
\* next line of any function that was on the stack when the step was given (below
\* the current one, for a step out) stops, whatever has been called, recursively or
\* not, and returned since, as long as every call had its return; and the next line
\* after a pause that is in force stops.
StepStops ==
    \A v \in VM : \A l \in NextLines(v) :
        StepDue(v) /\ ~lost[v] /\ InForce(v) => Stops(v, l)

\* DebugBackend.h:120 "Breaks execution of the script on the next line executed": a
\* pause that has been carried out stops the next line.
PauseStops ==
    \A v \in VM : \A l \in NextLines(v) :
        mode[v] = "StepInto" /\ v \notin pausing => Stops(v, l)

\* And nothing else stops: not a line of a function called in between, unless it
\* has a breakpoint.
StepsOverCalls ==
    \A v \in VM : \A l \in NextLines(v) :
        Stops(v, l) => StepDue(v) \/ HasLine(v, l)

\* The same of a step over, without the reservation about lost returns.
EveryStepStops ==
    \A v \in VM : \A l \in NextLines(v) :
        mode[v] = "StepOver" /\ StepDue(v) => Stops(v, l)

=============================================================================
