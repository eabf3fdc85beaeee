----------------------------- MODULE Hooks_proofs -----------------------------
(***************************************************************************)
(* Theorems about Hooks, for any number of states, any program and any     *)
(* bounds: type correctness, that a state which executes a function with a *)
(* breakpoint gets its line events and stops at the breakpoint, and where  *)
(* a step ends.                                                            *)
(*                                                                         *)
(* The second needs two things that the runs hooks_oneline and             *)
(* hooks_reopen show to be needed, hence the hypotheses of BreakpointsHit. *)
(***************************************************************************)
EXTENDS Hooks, SequenceTheorems, TLAPS

USE HooksAssumption

FrameSet == [fn : Fn, tail : Nat]

LEMMA PushType ==
  ASSUME NEW q \in Seq(FrameSet), NEW x \in FrameSet
  PROVE  /\ Append(q, x) \in Seq(FrameSet)
         /\ Len(Append(q, x)) = Len(q) + 1 /\ Len(q) \in Nat
OBVIOUS

LEMMA CutType ==
  ASSUME NEW q \in Seq(FrameSet), NEW n \in Nat, n <= Len(q)
  PROVE  /\ SubSeq(q, 1, n) \in Seq(FrameSet)
         /\ Len(SubSeq(q, 1, n)) = n
         /\ \A i \in 1 .. n : SubSeq(q, 1, n)[i] = q[i]
OBVIOUS

\* What a state that runs has on its stack.
LEMMA TopType ==
  ASSUME StackOK, NEW v \in VM, stack[v] # <<>>
  PROVE  /\ stack[v] \in Seq(FrameSet) /\ Len(stack[v]) \in Nat \ {0}
         /\ Top(v) \in FrameSet /\ Below(v) \in Seq(FrameSet)
         /\ Len(Below(v)) = Len(stack[v]) - 1
<1>1. stack[v] \in Seq(FrameSet) BY DEF StackOK, FrameSet
<1>2. Len(stack[v]) \in Nat \ {0} BY <1>1
<1>3. Len(stack[v]) - 1 \in Nat /\ Len(stack[v]) - 1 <= Len(stack[v]) BY <1>2
<1>4. Top(v) \in FrameSet BY <1>1, <1>2 DEF Top
<1>5. Below(v) \in Seq(FrameSet) /\ Len(Below(v)) = Len(stack[v]) - 1
  BY <1>1, <1>3, CutType DEF Below
<1> QED BY <1>1, <1>2, <1>4, <1>5

-----------------------------------------------------------------------------
(* Type correctness.  First the virtual machine: hooks and counts.         *)

\* A hook only leads from "run" into its own last steps.
GoesOn(v) == phase' = phase \/ phase' = [phase EXCEPT ![v] = "hook"]

LEMMA HookModeType ==
  ASSUME MachineOK, NEW v \in VM, NEW fs, NEW s, UpdateHookMode(v, fs, s),
         mode' = mode
  PROVE  MachineOK' /\ missed' = missed /\ GoesOn(v)
<1>1. chosen' \in [VM -> HookMode]
  BY DEF MachineOK, UpdateHookMode, HookMode
<1>2. inStack' \in [VM -> BOOLEAN]
  BY DEF MachineOK, UpdateHookMode
<1>3. hook' = hook /\ callCount' = callCount /\ missed' = missed /\ GoesOn(v)
  BY DEF UpdateHookMode, GoesOn
<1> QED BY <1>1, <1>2, <1>3 DEF MachineOK

LEMMA KeepFullType ==
  ASSUME MachineOK, NEW v \in VM, KeepFull(v), missed \in [VM -> BOOLEAN]
  PROVE  /\ hook' \in [VM -> HookMode] /\ inStack' \in [VM -> BOOLEAN]
         /\ missed' \in [VM -> BOOLEAN]
BY DEF MachineOK, KeepFull, HookMode

LEMMA CallHookType ==
  ASSUME MachineOK, NEW v \in VM, NEW f \in Fn, NEW s, CallHook(v, f, s), mode' = mode,
         missed \in [VM -> BOOLEAN]
  PROVE  MachineOK' /\ missed' \in [VM -> BOOLEAN] /\ GoesOn(v)
<1>1. CASE ~Seen(v, "call") BY <1>1 DEF CallHook, Unseen, MachineOK, GoesOn
<1>2. CASE Seen(v, "call") /\ mode[v] = "Continue"
  <2>1. UpdateHookMode(v, {f}, s)
    BY <1>2 DEF CallHook
  <2> QED BY <2>1, HookModeType
<1>3. CASE Seen(v, "call") /\ mode[v] # "Continue"
  <2>1. KeepFull(v) /\ UNCHANGED <<phase, chosen>> BY <1>3 DEF CallHook
  <2>2. callCount' = [callCount EXCEPT ![v] = IF mode[v] \in Counting THEN @ + 1 ELSE @]
    BY <1>3 DEF CallHook
  <2>3. callCount' \in [VM -> Nat] BY <2>2 DEF MachineOK
  <2>4. /\ hook' \in [VM -> HookMode] /\ inStack' \in [VM -> BOOLEAN]
        /\ missed' \in [VM -> BOOLEAN]
    BY <2>1, KeepFullType
  <2> QED BY <2>1, <2>3, <2>4 DEF MachineOK, GoesOn
<1> QED BY <1>1, <1>2, <1>3 DEF Seen

LEMMA ReturnHookType ==
  ASSUME MachineOK, NEW v \in VM, NEW n \in Nat, NEW s, ReturnHook(v, n, s), mode' = mode,
         missed \in [VM -> BOOLEAN]
  PROVE  MachineOK' /\ missed' \in [VM -> BOOLEAN] /\ GoesOn(v)
<1>1. CASE ~Seen(v, "return") BY <1>1 DEF ReturnHook, Unseen, MachineOK, GoesOn
<1>2. CASE Seen(v, "return") /\ mode[v] = "Continue"
  <2>1. UpdateHookMode(v, {}, s)
    BY <1>2 DEF ReturnHook
  <2> QED BY <2>1, HookModeType
<1>3. CASE Seen(v, "return") /\ mode[v] # "Continue"
  <2>1. KeepFull(v) /\ UNCHANGED <<phase, chosen>> BY <1>3 DEF ReturnHook
  <2>2. callCount' = [callCount EXCEPT
            ![v] = IF mode[v] \notin Counting THEN @ ELSE IF @ > n THEN @ - n ELSE 0]
    BY <1>3 DEF ReturnHook
  <2>3. callCount' \in [VM -> Nat] BY <2>2 DEF MachineOK
  <2>4. /\ hook' \in [VM -> HookMode] /\ inStack' \in [VM -> BOOLEAN]
        /\ missed' \in [VM -> BOOLEAN]
    BY <2>1, KeepFullType
  <2> QED BY <2>1, <2>3, <2>4 DEF MachineOK, GoesOn
<1> QED BY <1>1, <1>2, <1>3 DEF Seen

LEMMA RememberType ==
  ASSUME HistoryOK, NEW v \in VM, NEW n \in Nat, NEW l \in BOOLEAN, Remember(v, n, l)
  PROVE  HistoryOK'
<1>1. kept' \in [VM -> Nat] BY DEF HistoryOK, Remember, history
<1>2. lost' \in [VM -> BOOLEAN]
  <2>1. CASE mode[v] \notin Counting BY <2>1 DEF HistoryOK, Remember, history
  <2>2. CASE mode[v] \in Counting BY <2>2, Zenon DEF HistoryOK, Remember
  <2> QED BY <2>1, <2>2
<1> QED BY <1>1, <1>2 DEF HistoryOK

-----------------------------------------------------------------------------
(* Then the actions.                                                       *)

LEMMA PushOK ==
  ASSUME StackOK, NEW v \in VM, NEW s \in Seq(FrameSet), phase[v] = "run",
         stack' = [stack EXCEPT ![v] = s], GoesOn(v)
  PROVE  StackOK'
<1>1. phase' \in [VM -> {"off", "run", "stopped"} \cup InHook]
  BY DEF StackOK, GoesOn, InHook
<1>2. \A w \in VM : phase'[w] = "stopped" => phase[w] = "stopped" /\ w # v
  BY DEF StackOK, GoesOn
<1>3. DOMAIN stack' = VM BY DEF StackOK
<1>4. \A w \in VM : /\ stack'[w] \in Seq(FrameSet)
                    /\ phase'[w] = "stopped" => stack'[w] # <<>>
  BY <1>2 DEF StackOK, FrameSet
<1> QED BY <1>1, <1>3, <1>4 DEF StackOK, FrameSet

LEMMA AttachType ==
  ASSUME TypeOK, NEW v \in VM, NEW s \in Seq(FrameSet), AttachState(v, s)
  PROVE  TypeOK'
<1>1. StackOK' BY DEF AttachState, TypeOK, StackOK, FrameSet
<1>2. MachineOK' BY DEF AttachState, TypeOK, MachineOK, HookMode
<1>3. active' \in [VM -> BOOLEAN]
  BY Zenon DEF AttachState, TypeOK, FlagsOK
<1>4. UNCHANGED <<bps, kept, lost, missed, pausing>> BY DEF AttachState, history, pause
<1> QED BY <1>1, <1>2, <1>3, <1>4 DEF TypeOK, FlagsOK, HistoryOK, PauseOK

LEMMA CloseType == ASSUME TypeOK, NEW v \in VM, CloseState(v) PROVE TypeOK'
<1>1. StackOK' BY DEF CloseState, TypeOK, StackOK
<1>2. MachineOK' BY DEF CloseState, TypeOK, MachineOK, HookMode
<1>3. FlagsOK' /\ HistoryOK' /\ PauseOK'
  BY DEF CloseState, Forget, TypeOK, FlagsOK, HistoryOK, PauseOK
<1> QED BY <1>1, <1>2, <1>3 DEF TypeOK

LEMMA CallType ==
  ASSUME TypeOK, NEW v \in VM, NEW f \in Fn, Call(v, f)
  PROVE  TypeOK'
<1> DEFINE s == Append(stack[v], Frame(f))
<1>1. s \in Seq(FrameSet)
  BY PushType DEF TypeOK, StackOK, Frame, FrameSet
<1>2. /\ CallHook(v, f, s) /\ phase[v] = "run"
      /\ stack' = [stack EXCEPT ![v] = s]
      /\ UNCHANGED <<mode, active, bps, kept, lost, pausing>>
  BY DEF Call, history
<1> HIDE DEF s
<1>3. MachineOK' /\ missed' \in [VM -> BOOLEAN] /\ GoesOn(v)
  BY <1>2, CallHookType DEF TypeOK, PauseOK
<1>4. StackOK' BY <1>1, <1>2, <1>3, PushOK DEF TypeOK
<1> QED BY <1>2, <1>3, <1>4 DEF TypeOK, FlagsOK, HistoryOK, PauseOK

LEMMA TailCallType ==
  ASSUME TypeOK, NEW v \in VM, NEW f \in Fn, TailCall(v, f)
  PROVE  TypeOK'
<1> DEFINE t == IF v \in Lua51 THEN Top(v).tail + 1 ELSE 0
           s == Append(Below(v), [fn |-> f, tail |-> t])
<1>1. stack[v] # <<>> BY DEF TailCall, Running
<1>2. [fn |-> f, tail |-> t] \in FrameSet
  BY <1>1, TopType DEF TypeOK, FrameSet
<1>3. s \in Seq(FrameSet) /\ Len(s) - 1 \in Nat
  BY <1>1, <1>2, TopType, PushType DEF TypeOK
<1>4. /\ CallHook(v, f, s) /\ phase[v] = "run"
      /\ Remember(v, Len(s) - 1, v \notin Lua51)
      /\ stack' = [stack EXCEPT ![v] = s]
      /\ UNCHANGED <<mode, active, bps, pausing>>
  BY DEF TailCall, Running
<1> HIDE DEF s
<1>5. MachineOK' /\ missed' \in [VM -> BOOLEAN] /\ GoesOn(v)
  BY <1>4, CallHookType DEF TypeOK, PauseOK
<1>6. StackOK' BY <1>3, <1>4, <1>5, PushOK DEF TypeOK
<1>7. HistoryOK'
  <2>1. CASE v \in Lua51
    <3>1. Remember(v, Len(s) - 1, FALSE) BY <1>4, <2>1
    <3> QED BY <1>3, <3>1, RememberType DEF TypeOK
  <2>2. CASE v \notin Lua51
    <3>1. Remember(v, Len(s) - 1, TRUE) BY <1>4, <2>2
    <3> QED BY <1>3, <3>1, RememberType DEF TypeOK
  <2> QED BY <2>1, <2>2
<1> QED BY <1>4, <1>5, <1>6, <1>7 DEF TypeOK, FlagsOK, PauseOK

LEMMA ReturnType == ASSUME TypeOK, NEW v \in VM, Return(v) PROVE TypeOK'
<1>1. stack[v] # <<>> BY DEF Return, Running
<1>2. Top(v).tail + 1 \in Nat /\ Len(stack[v]) - 1 \in Nat /\ Below(v) \in Seq(FrameSet)
  <2>1. /\ Len(stack[v]) \in Nat \ {0} /\ Top(v) \in FrameSet
        /\ Below(v) \in Seq(FrameSet)
    BY <1>1, TopType DEF TypeOK
  <2>2. Top(v).tail \in Nat BY <2>1 DEF FrameSet
  <2> QED BY <2>1, <2>2
<1>3. /\ ReturnHook(v, Top(v).tail + 1, stack[v]) /\ phase[v] = "run"
      /\ Remember(v, Len(stack[v]) - 1, FALSE)
      /\ stack' = [stack EXCEPT ![v] = Below(v)]
      /\ UNCHANGED <<mode, active, bps, pausing>>
  BY DEF Return, Running
<1>4. MachineOK' /\ missed' \in [VM -> BOOLEAN] /\ GoesOn(v)
  BY <1>2, <1>3, ReturnHookType DEF TypeOK, PauseOK
<1>5. HistoryOK' BY <1>2, <1>3, RememberType DEF TypeOK
<1>6. StackOK' BY <1>2, <1>3, <1>4, PushOK DEF TypeOK
<1> QED BY <1>3, <1>4, <1>5, <1>6 DEF TypeOK, FlagsOK, HistoryOK, PauseOK

LEMMA ThrowType ==
  ASSUME TypeOK, NEW v \in VM, NEW n \in Nat, Throw(v, n)
  PROVE  TypeOK'
<1>1. stack[v] # <<>> /\ n < Len(stack[v]) /\ phase[v] = "run"
  BY DEF Throw, Running
<1>2. SubSeq(stack[v], 1, n) \in Seq(FrameSet)
  BY <1>1, TopType, CutType DEF TypeOK
<1>3. /\ stack' = [stack EXCEPT ![v] = SubSeq(stack[v], 1, n)]
      /\ Remember(v, n, TRUE)
      /\ UNCHANGED <<phase, hook, mode, callCount, inStack, active, chosen, bps, missed, pausing>>
  BY DEF Throw, machine, pause
<1>4. HistoryOK' BY <1>3, RememberType DEF TypeOK
<1>5. StackOK' BY <1>1, <1>2, <1>3, PushOK DEF TypeOK, GoesOn
<1> QED BY <1>3, <1>4, <1>5 DEF TypeOK, FlagsOK, MachineOK, PauseOK

LEMMA SetType ==
  ASSUME TypeOK, NEW v \in VM, CheckMode(v) \/ SetHook(v)
  PROVE  TypeOK'
<1>1. /\ UNCHANGED <<stack, mode, callCount, inStack, active, bps, kept, lost, missed, pausing>>
      /\ phase' \in [VM -> {"off", "run", "stopped"} \cup InHook]
      /\ \A w \in VM : phase'[w] = "stopped" => phase[w] = "stopped"
      /\ hook' \in [VM -> HookMode] /\ chosen' \in [VM -> HookMode]
  <2>1. CASE CheckMode(v)
    BY <2>1 DEF CheckMode, machine, history, pause, TypeOK, StackOK, MachineOK, HookMode, InHook
  <2>2. CASE SetHook(v)
    BY <2>2 DEF SetHook, history, pause, TypeOK, StackOK, MachineOK, HookMode, InHook
  <2> QED BY <2>1, <2>2
<1> QED BY <1>1 DEF TypeOK, StackOK, MachineOK, FlagsOK, HistoryOK, PauseOK

LEMMA LineType == ASSUME TypeOK, NEW v \in VM, NEW l, Line(v, l) PROVE TypeOK'
<1>1. /\ hook' \in [VM -> HookMode] /\ inStack' \in [VM -> BOOLEAN]
      /\ missed' \in [VM -> BOOLEAN]
  BY KeepFullType DEF Line, LineHook, TypeOK, MachineOK, PauseOK
<1>2. StackOK' BY DEF Line, LineHook, TypeOK, StackOK, Running
<1> QED BY <1>1, <1>2 DEF Line, TypeOK, MachineOK, FlagsOK, HistoryOK, PauseOK, history

LEMMA ResumeType ==
  ASSUME TypeOK, NEW v \in VM, NEW k \in Stepping \cup {"Continue"}, Resume(v, k)
  PROVE  TypeOK'
<1>1. Len(stack[v]) \in Nat \ {0} BY TopType DEF Resume, TypeOK, StackOK
<1>2. HistoryOK' BY <1>1 DEF Resume, TypeOK, HistoryOK
<1>3. MachineOK'
  <2>1. callCount' \in [VM -> Nat] BY DEF Resume, TypeOK, MachineOK
  <2>2. hook' \in [VM -> HookMode] BY DEF Resume, TypeOK, MachineOK, HookMode
  <2> QED BY <2>1, <2>2 DEF Resume, TypeOK, MachineOK
<1>4. StackOK' BY DEF Resume, TypeOK, StackOK
<1>5. PauseOK' BY DEF Resume, TypeOK, PauseOK
<1> QED BY <1>2, <1>3, <1>4, <1>5 DEF Resume, TypeOK, FlagsOK

LEMMA BreakType ==
  ASSUME TypeOK, NEW v \in VM, BreakMode(v) \/ BreakHook(v)
  PROVE  TypeOK'
<1>1. CASE BreakMode(v)
  <2>1. MachineOK' BY <1>1 DEF BreakMode, TypeOK, MachineOK, Stepping
  <2>2. HistoryOK' /\ PauseOK' BY <1>1 DEF BreakMode, Forget, TypeOK, HistoryOK, PauseOK
  <2> QED BY <1>1, <2>1, <2>2 DEF BreakMode, TypeOK, StackOK, FlagsOK
<1>2. CASE BreakHook(v)
  <2>1. MachineOK' BY <1>2 DEF BreakHook, TypeOK, MachineOK, HookMode
  <2>2. PauseOK'
    <3>1. missed' \in [VM -> BOOLEAN] BY <1>2, Zenon DEF BreakHook, TypeOK, PauseOK
    <3> QED BY <1>2, <3>1 DEF BreakHook, TypeOK, PauseOK
  <2> QED BY <1>2, <2>1, <2>2 DEF BreakHook, TypeOK, StackOK, FlagsOK, HistoryOK, history
<1> QED BY <1>1, <1>2

LEMMA EvaluateType == ASSUME TypeOK, NEW v \in VM, Evaluate(v) PROVE TypeOK'
<1>1. MachineOK' BY DEF Evaluate, TypeOK, MachineOK, HookMode
<1> QED BY <1>1 DEF Evaluate, TypeOK, StackOK, FlagsOK, HistoryOK, PauseOK, history, pause

LEMMA BreakpointTypes ==
  ASSUME TypeOK, NEW s \in Script, NEW b \in Nat,
         SetBreakpoint(s, b) \/ ClearBreakpoint(s, b)
  PROVE  TypeOK'
<1>1. CASE SetBreakpoint(s, b)
  <2>1. hook' \in [VM -> HookMode] BY <1>1 DEF SetBreakpoint, TypeOK, MachineOK, HookMode
  <2>2. inStack' \in [VM -> BOOLEAN] /\ active' \in [VM -> BOOLEAN]
    BY <1>1, Zenon DEF SetBreakpoint
  <2>3. bps' \in [Script -> SUBSET Nat] BY <1>1 DEF SetBreakpoint, TypeOK, FlagsOK
  <2>4. PauseOK'
    <3>1. missed' \in [VM -> BOOLEAN] BY <1>1, Zenon DEF SetBreakpoint
    <3> QED BY <1>1, <3>1 DEF SetBreakpoint, TypeOK, PauseOK
  <2> QED BY <1>1, <2>1, <2>2, <2>3, <2>4
          DEF SetBreakpoint, TypeOK, StackOK, MachineOK, FlagsOK, HistoryOK, history
<1>2. CASE ClearBreakpoint(s, b)
  <2>1. active' \in [VM -> BOOLEAN] BY <1>2, Zenon DEF ClearBreakpoint
  <2>2. bps' \in [Script -> SUBSET Nat] BY <1>2 DEF ClearBreakpoint, TypeOK, FlagsOK
  <2> QED BY <1>2, <2>1, <2>2
          DEF ClearBreakpoint, TypeOK, StackOK, MachineOK, FlagsOK, HistoryOK, PauseOK, history, pause
<1> QED BY <1>1, <1>2

LEMMA StepType == TypeOK /\ [Next]_vars => TypeOK'
<1> SUFFICES ASSUME TypeOK, [Next]_vars PROVE TypeOK'
  OBVIOUS
<1>1. ASSUME NEW v \in VM, Program(v) PROVE TypeOK'
  <2>1. <<>> \in Seq(FrameSet) /\ \A f \in Fn : <<Frame(f)>> \in Seq(FrameSet)
    BY DEF FrameSet, Frame
  <2>2. CASE AttachState(v, <<>>) BY <2>1, <2>2, AttachType
  <2>3. CASE \E f \in Fn : AttachState(v, <<Frame(f)>>) BY <2>1, <2>3, AttachType
  <2>4. CASE CloseState(v) BY <2>4, CloseType
  <2>5. CASE Return(v) BY <2>5, ReturnType
  <2>6. CASE \E f \in Fn : Call(v, f) BY <2>6, CallType
  <2>7. CASE \E f \in Fn : TailCall(v, f) BY <2>7, TailCallType
  <2>8. CASE \E n \in 0 .. MaxDepth[v] - 1 : Throw(v, n) BY <2>8, ThrowType
  <2>9. CASE \E l \in UNION {Fun[f].body : f \in Fn} : Line(v, l) BY <2>9, LineType
  <2>10. CASE CheckMode(v) \/ SetHook(v) BY <2>10, SetType
  <2> QED BY <1>1, <2>2, <2>3, <2>4, <2>5, <2>6, <2>7, <2>8, <2>9, <2>10 DEF Program
<1>2. ASSUME NEW v \in VM, User(v) PROVE TypeOK'
  BY <1>2, ResumeType, BreakType, EvaluateType DEF User
<1>3. ASSUME NEW s \in Script, NEW b \in Lines(s), SetBreakpoint(s, b) \/ ClearBreakpoint(s, b)
      PROVE  TypeOK'
  <2>1. b \in Nat BY DEF Lines
  <2> QED BY <1>3, <2>1, BreakpointTypes
<1>4. CASE UNCHANGED vars
  BY <1>4 DEF vars, machine, history, pause, TypeOK, StackOK, MachineOK, FlagsOK, HistoryOK, PauseOK
<1> QED BY <1>1, <1>2, <1>3, <1>4 DEF Next

LEMMA InitType == Init => TypeOK
BY DEF Init, TypeOK, StackOK, MachineOK, FlagsOK, HistoryOK, PauseOK, HookMode, InHook

\* The hook masks, modes, counts, stacks and flags of every state stay in their
\* types: the count of a step never falls below zero, and a state that is stopped
\* is executing a function.
THEOREM TypeCorrect == Spec => []TypeOK
BY InitType, StepType, PTL DEF Spec

-----------------------------------------------------------------------------
(* A function with a breakpoint gets its line events.                      *)

\* The mask a state has, or will have when its hook ends.
EndHook(v) == IF phase[v] \in InHook THEN chosen[v] ELSE hook[v]

\* While a state steps it gets all events, except for a pause that is not in force.
FullStep(v) ==
    /\ mode[v] \in Counting => hook[v] = "Full" /\ phase[v] \notin InHook
    /\ mode[v] = "StepInto" => \/ ~InForce(v)
                               \/ phase[v] = "hook"
                               \/ EndHook(v) = "Full"

\* What holds of each state between two events.
Guarded(v) ==
    /\ hook[v] # "None" /\ EndHook(v) # "None"
    /\ FullStep(v)
    /\ StackHasBreakpoint(stack[v]) => EndHook(v) = "Full" /\ inStack[v]
    /\ (\E s \in Script : bps[s] # {}) => active[v]
AllGuarded == \A v \in Attached : Guarded(v)
NoneLeft   == Attached = {} => \A s \in Script : bps[s] = {}
HooksInv   == TypeOK /\ AllGuarded /\ NoneLeft

LEMMA Modes == ASSUME TypeOK, NEW v \in VM PROVE mode[v] \in Stepping \cup {"Continue"}
BY DEF TypeOK, MachineOK

\* What a step of one state leaves as it is in another.
SameHook(w) ==
    /\ phase'[w] = phase[w] /\ hook'[w] = hook[w] /\ inStack'[w] = inStack[w]
    /\ chosen'[w] = chosen[w] /\ missed'[w] = missed[w]
SameState(w) ==
    /\ SameHook(w) /\ stack'[w] = stack[w] /\ mode'[w] = mode[w]
    /\ active'[w] = active[w] /\ (w \in pausing' <=> w \in pausing)

LEMMA CallHookOthers ==
  ASSUME TypeOK, NEW v \in VM, NEW f, NEW s, CallHook(v, f, s)
  PROVE  \A w \in VM \ {v} : SameHook(w) /\ callCount'[w] = callCount[w]
BY DEF CallHook, Unseen, UpdateHookMode, KeepFull, SameHook, TypeOK, StackOK, MachineOK, PauseOK

LEMMA ReturnHookOthers ==
  ASSUME TypeOK, NEW v \in VM, NEW n, NEW s, ReturnHook(v, n, s)
  PROVE  \A w \in VM \ {v} : SameHook(w) /\ callCount'[w] = callCount[w]
BY DEF ReturnHook, Unseen, UpdateHookMode, KeepFull, SameHook, TypeOK, StackOK, MachineOK, PauseOK

LEMMA OthersGuarded ==
  ASSUME AllGuarded, NEW v \in VM, bps' = bps,
         \A w \in VM \ {v} : SameState(w),
         v \in Attached' => Guarded(v)'
  PROVE  AllGuarded'
<1> SUFFICES ASSUME NEW w \in Attached', w # v PROVE Guarded(w)'
  BY DEF AllGuarded, Attached
<1>0. w \in VM /\ SameState(w) BY DEF Attached
<1>1. w \in Attached /\ Guarded(w) BY <1>0 DEF AllGuarded, Attached, SameState, SameHook
<1>2. FullStep(w)' /\ EndHook(w)' = EndHook(w)
  BY <1>0, <1>1 DEF Guarded, FullStep, EndHook, InForce, SameState, SameHook
<1>3. StackHasBreakpoint(stack[w])' => StackHasBreakpoint(stack[w])
  BY <1>0 DEF SameState, StackHasBreakpoint, HasBreakpoint, InRange, IsChunk
<1> QED BY <1>0, <1>1, <1>2, <1>3 DEF Guarded, SameState, SameHook

\* Where a function has a breakpoint, the flag is up.
LEMMA MarkedActive ==
  ASSUME TypeOK, NEW v \in VM, Guarded(v), NEW f \in Fn, HasBreakpoint(f)
  PROVE  active[v]
<1>1. Fun[f].script \in Script BY DEF Script
<1>2. bps[Fun[f].script] # {} BY DEF HasBreakpoint, InRange
<1> QED BY <1>1, <1>2 DEF Guarded

LEMMA StackMarkedActive ==
  ASSUME TypeOK, NEW v \in VM, Guarded(v), NEW s \in Seq(FrameSet), StackHasBreakpoint(s)
  PROVE  active[v]
<1>1. PICK i \in DOMAIN s : HasBreakpoint(s[i].fn) BY DEF StackHasBreakpoint
<1>2. s[i] \in FrameSet BY <1>1
<1>3. s[i].fn \in Fn BY <1>2 DEF FrameSet
<1> QED BY <1>1, <1>3, MarkedActive

LEMMA KeepFullGuards ==
  ASSUME TypeOK, NEW v \in VM, Guarded(v), KeepFull(v), UNCHANGED <<bps, active>>,
         phase'[v] \notin InHook
  PROVE  Guarded(v)'
<1>1. hook'[v] = "Full" /\ inStack'[v] /\ EndHook(v)' = "Full"
  BY DEF KeepFull, EndHook, TypeOK, MachineOK
<1>2. FullStep(v)' BY <1>1 DEF FullStep
<1> QED BY <1>1, <1>2 DEF Guarded

\* UpdateHookMode leaves the guard of every stack whose functions with breakpoints
\* it has looked at.
LEMMA UpdateGuards ==
  ASSUME TypeOK, NEW v \in VM, Guarded(v), NEW fs \in SUBSET Fn, NEW s \in Seq(FrameSet),
         UpdateHookMode(v, fs, s), UNCHANGED <<bps, active, mode>>, mode[v] = "Continue",
         phase[v] = "run",
         StackHasBreakpoint(s) => (\E f \in fs : HasBreakpoint(f)) \/ inStack[v],
         StackHasBreakpoint(stack'[v]) => StackHasBreakpoint(s)
  PROVE  Guarded(v)'
<1> DEFINE full == \/ \E f \in fs : HasBreakpoint(f)
                   \/ inStack[v] /\ StackHasBreakpoint(s)
           mask == IF ~active[v] THEN "CallsAndReturns" ELSE IF full THEN "Full" ELSE "CallsOnly"
<1>1. /\ inStack' = [inStack EXCEPT ![v] = full] /\ hook' = hook
      /\ IF mask = hook[v] THEN UNCHANGED <<phase, chosen>>
         ELSE /\ phase' = [phase EXCEPT ![v] = "hook"]
              /\ chosen' = [chosen EXCEPT ![v] = mask]
  BY DEF UpdateHookMode
<1>2. full => active[v]
  BY MarkedActive, StackMarkedActive
<1>3. StackHasBreakpoint(s) => full OBVIOUS
<1>0. mask \in {"CallsAndReturns", "Full", "CallsOnly"} /\ (full => mask = "Full")
  BY <1>2
<1> HIDE DEF full, mask
<1>4. EndHook(v)' = mask
  BY <1>1 DEF TypeOK, StackOK, MachineOK, EndHook, InHook
<1>5. full => inStack'[v]
  BY <1>1, Zenon DEF TypeOK, MachineOK
<1>6. StackHasBreakpoint(stack[v])' => StackHasBreakpoint(s)
  BY DEF StackHasBreakpoint, HasBreakpoint, InRange, IsChunk
<1>7. mode'[v] = "Continue" OBVIOUS
<1>8. (\E t \in Script : bps'[t] # {}) => active'[v]
  BY DEF Guarded
<1>9. FullStep(v)' BY <1>7 DEF FullStep, Counting
<1> QED BY <1>0, <1>1, <1>3, <1>4, <1>5, <1>6, <1>8, <1>9 DEF Guarded

LEMMA CallGuards ==
  ASSUME TypeOK, NEW v \in VM, Guarded(v), NEW f \in Fn, NEW s \in Seq(FrameSet),
         CallHook(v, f, s), UNCHANGED <<bps, active, mode>>, stack'[v] = s, phase[v] = "run",
         StackHasBreakpoint(s) => HasBreakpoint(f) \/ StackHasBreakpoint(stack[v])
  PROVE  Guarded(v)'
<1>1. Seen(v, "call")
  BY DEF Guarded, Seen, Mask, TypeOK, MachineOK, HookMode
<1>2. CASE mode[v] = "Continue"
  <2>1. UpdateHookMode(v, {f}, s) BY <1>1, <1>2 DEF CallHook
  <2>2. StackHasBreakpoint(s) => (\E g \in {f} : HasBreakpoint(g)) \/ inStack[v]
    BY DEF Guarded
  <2>3. StackHasBreakpoint(stack'[v]) => StackHasBreakpoint(s) OBVIOUS
  <2> QED BY <1>2, <2>1, <2>2, <2>3, UpdateGuards
<1>3. CASE mode[v] # "Continue"
  <2>1. KeepFull(v) /\ phase'[v] \notin InHook BY <1>1, <1>3 DEF CallHook, InHook
  <2> QED BY <2>1, KeepFullGuards
<1> QED BY <1>2, <1>3

\* A stack that lost frames has no breakpoint that it did not have.
LEMMA PrefixMarked ==
  ASSUME NEW s \in Seq(FrameSet), NEW n \in Nat, n <= Len(s),
         StackHasBreakpoint(SubSeq(s, 1, n))
  PROVE  StackHasBreakpoint(s)
<1>1. DOMAIN SubSeq(s, 1, n) = 1 .. n /\ DOMAIN s = 1 .. Len(s) /\ Len(s) \in Nat
      /\ \A i \in 1 .. n : SubSeq(s, 1, n)[i] = s[i]
  BY CutType
<1>2. PICK i \in 1 .. n : HasBreakpoint(s[i].fn)
  BY <1>1 DEF StackHasBreakpoint
<1>3. i \in DOMAIN s BY <1>1
<1> QED BY <1>2, <1>3 DEF StackHasBreakpoint

LEMMA ReturnGuards ==
  ASSUME TypeOK, NEW v \in VM, Guarded(v), NEW n \in Nat, stack[v] \in Seq(FrameSet),
         ReturnHook(v, n, stack[v]), UNCHANGED <<bps, active, mode>>, phase[v] = "run",
         v \in pausing' <=> v \in pausing,
         StackHasBreakpoint(stack'[v]) => StackHasBreakpoint(stack[v])
  PROVE  Guarded(v)'
<1>1. CASE ~Seen(v, "return")
  <2>1. UNCHANGED <<hook, inStack, phase, chosen, missed>> BY <1>1 DEF ReturnHook, Unseen
  <2>2. StackHasBreakpoint(stack[v])' => StackHasBreakpoint(stack[v])
    BY DEF StackHasBreakpoint, HasBreakpoint, InRange, IsChunk
  <2>3. FullStep(v)' /\ EndHook(v)' = EndHook(v)
    BY <2>1 DEF Guarded, FullStep, EndHook, InForce
  <2> QED BY <2>1, <2>2, <2>3 DEF Guarded
<1>2. CASE Seen(v, "return") /\ mode[v] = "Continue"
  <2>1. UpdateHookMode(v, {}, stack[v]) BY <1>2 DEF ReturnHook
  <2>2. StackHasBreakpoint(stack[v]) => (\E g \in {} : HasBreakpoint(g)) \/ inStack[v]
    BY DEF Guarded
  <2> QED BY <1>2, <2>1, <2>2, UpdateGuards
<1>3. CASE Seen(v, "return") /\ mode[v] # "Continue"
  <2>1. KeepFull(v) /\ phase'[v] \notin InHook BY <1>3 DEF ReturnHook, InHook
  <2> QED BY <2>1, KeepFullGuards
<1> QED BY <1>1, <1>2, <1>3 DEF Seen

LEMMA CallKeeps ==
  ASSUME HooksInv, NEW v \in Attached, NEW f \in Fn, Call(v, f)
  PROVE  AllGuarded'
<1> DEFINE s == Append(stack[v], Frame(f))
<1>1. stack[v] \in Seq(FrameSet) /\ Frame(f) \in FrameSet
  BY DEF HooksInv, TypeOK, StackOK, FrameSet, Frame, Attached
<1>2. s \in Seq(FrameSet) BY <1>1, PushType
<1>3. StackHasBreakpoint(s) => HasBreakpoint(f) \/ StackHasBreakpoint(stack[v])
  <2> SUFFICES ASSUME NEW i \in DOMAIN s, HasBreakpoint(s[i].fn)
               PROVE  HasBreakpoint(f) \/ StackHasBreakpoint(stack[v])
    BY DEF StackHasBreakpoint
  <2>1. CASE i = Len(stack[v]) + 1
    <3>1. s[i] = Frame(f) BY <1>1, <2>1
    <3> QED BY <3>1 DEF Frame
  <2>2. CASE i # Len(stack[v]) + 1
    <3>1. i \in DOMAIN stack[v] /\ s[i] = stack[v][i] BY <1>1, <2>2
    <3> QED BY <3>1 DEF StackHasBreakpoint
  <2> QED BY <2>1, <2>2
<1>4. /\ CallHook(v, f, s) /\ stack' = [stack EXCEPT ![v] = s] /\ phase[v] = "run"
      /\ UNCHANGED <<mode, active, bps, pausing>>
  BY DEF Call
<1> HIDE DEF s
<1>5. v \in VM /\ Guarded(v) /\ stack'[v] = s
  BY <1>4 DEF HooksInv, AllGuarded, Attached, TypeOK, StackOK
<1>6. Guarded(v)' BY <1>2, <1>3, <1>4, <1>5, CallGuards DEF HooksInv
<1>7. \A w \in VM \ {v} : SameHook(w)
  BY <1>4, <1>5, CallHookOthers DEF HooksInv
<1>8. \A w \in VM \ {v} : SameState(w)
  BY <1>4, <1>5, <1>7 DEF SameState, HooksInv, TypeOK, StackOK
<1> QED BY <1>4, <1>5, <1>6, <1>8, OthersGuarded DEF HooksInv

LEMMA TailCallKeeps ==
  ASSUME HooksInv, NEW v \in Attached, NEW f \in Fn, TailCall(v, f)
  PROVE  AllGuarded'
<1> DEFINE t == IF v \in Lua51 THEN Top(v).tail + 1 ELSE 0
           x == [fn |-> f, tail |-> t]
           s == Append(Below(v), x)
<1>1. v \in VM /\ Guarded(v) /\ stack[v] # <<>>
  BY DEF TailCall, Running, HooksInv, AllGuarded, Attached
<1>2. /\ stack[v] \in Seq(FrameSet) /\ Len(stack[v]) \in Nat \ {0}
      /\ Below(v) \in Seq(FrameSet) /\ Len(Below(v)) = Len(stack[v]) - 1 /\ Top(v).tail \in Nat
  BY <1>1, TopType DEF HooksInv, TypeOK, FrameSet
<1>3. t \in Nat BY <1>2
<1>4. x \in FrameSet /\ x.fn = f BY <1>3 DEF FrameSet
<1>5. /\ CallHook(v, f, s) /\ stack' = [stack EXCEPT ![v] = s] /\ phase[v] = "run"
      /\ UNCHANGED <<mode, active, bps, pausing>>
  BY DEF TailCall, Running
<1> HIDE DEF x
<1>6. s \in Seq(FrameSet) BY <1>2, <1>4, PushType
<1>7. StackHasBreakpoint(s) => HasBreakpoint(f) \/ StackHasBreakpoint(stack[v])
  <2> SUFFICES ASSUME NEW i \in DOMAIN s, HasBreakpoint(s[i].fn)
               PROVE  HasBreakpoint(f) \/ StackHasBreakpoint(stack[v])
    BY DEF StackHasBreakpoint
  <2>1. CASE i = Len(Below(v)) + 1
    <3>1. s[i] = x BY <1>2, <1>4, <2>1
    <3> QED BY <1>4, <3>1
  <2>2. CASE i # Len(Below(v)) + 1
    <3>1. i \in DOMAIN Below(v) /\ s[i] = Below(v)[i] BY <1>2, <1>4, <2>2
    <3>2. StackHasBreakpoint(Below(v)) BY <3>1 DEF StackHasBreakpoint
    <3> QED BY <1>2, <3>2, PrefixMarked DEF Below
  <2> QED BY <2>1, <2>2
<1> HIDE DEF s
<1>8. stack'[v] = s BY <1>1, <1>5 DEF HooksInv, TypeOK, StackOK
<1>9. Guarded(v)' BY <1>1, <1>5, <1>6, <1>7, <1>8, CallGuards DEF HooksInv
<1>10. \A w \in VM \ {v} : SameHook(w)
  BY <1>1, <1>5, CallHookOthers DEF HooksInv
<1>11. \A w \in VM \ {v} : SameState(w)
  BY <1>1, <1>5, <1>10 DEF SameState, HooksInv, TypeOK, StackOK
<1> QED BY <1>1, <1>5, <1>9, <1>11, OthersGuarded DEF HooksInv

LEMMA ReturnKeeps ==
  ASSUME HooksInv, NEW v \in Attached, Return(v)
  PROVE  AllGuarded'
<1>1. v \in VM /\ Guarded(v) /\ stack[v] # <<>>
  BY DEF Return, Running, HooksInv, AllGuarded, Attached
<1>2. /\ stack[v] \in Seq(FrameSet) /\ Len(stack[v]) \in Nat \ {0} /\ Top(v).tail \in Nat
  BY <1>1, TopType DEF HooksInv, TypeOK, FrameSet
<1>3. /\ ReturnHook(v, Top(v).tail + 1, stack[v]) /\ stack' = [stack EXCEPT ![v] = Below(v)]
      /\ phase[v] = "run" /\ UNCHANGED <<mode, active, bps, pausing>>
  BY DEF Return, Running
<1>4. stack'[v] = Below(v) BY <1>1, <1>3 DEF HooksInv, TypeOK, StackOK
<1>5. StackHasBreakpoint(stack'[v]) => StackHasBreakpoint(stack[v])
  BY <1>2, <1>4, PrefixMarked DEF Below
<1>6. Top(v).tail + 1 \in Nat BY <1>2
<1>7. Guarded(v)' BY <1>1, <1>2, <1>3, <1>5, <1>6, ReturnGuards DEF HooksInv
<1>8. \A w \in VM \ {v} : SameHook(w)
  BY <1>1, <1>3, ReturnHookOthers DEF HooksInv
<1>9. \A w \in VM \ {v} : SameState(w)
  BY <1>1, <1>3, <1>8 DEF SameState, HooksInv, TypeOK, StackOK
<1> QED BY <1>1, <1>3, <1>7, <1>9, OthersGuarded DEF HooksInv

LEMMA ThrowKeeps ==
  ASSUME HooksInv, NEW v \in Attached, NEW n \in Nat, Throw(v, n)
  PROVE  AllGuarded'
<1>1. /\ v \in VM /\ Guarded(v) /\ stack[v] # <<>> /\ n < Len(stack[v])
      /\ stack' = [stack EXCEPT ![v] = SubSeq(stack[v], 1, n)]
      /\ UNCHANGED <<phase, hook, mode, inStack, active, chosen, bps, missed, pausing>>
  BY DEF Throw, Running, HooksInv, AllGuarded, Attached, machine, pause
<1>2. stack[v] \in Seq(FrameSet) /\ n <= Len(stack[v])
  BY <1>1, TopType DEF HooksInv, TypeOK
<1>3. stack'[v] = SubSeq(stack[v], 1, n) BY <1>1 DEF HooksInv, TypeOK, StackOK
<1>4. StackHasBreakpoint(stack'[v]) => StackHasBreakpoint(stack[v])
  BY <1>2, <1>3, PrefixMarked
<1>5. StackHasBreakpoint(stack[v])' => StackHasBreakpoint(stack'[v])
  BY <1>1 DEF StackHasBreakpoint, HasBreakpoint, InRange, IsChunk
<1>6. Guarded(v)'
  <2>1. FullStep(v)' /\ EndHook(v)' = EndHook(v)
    BY <1>1 DEF Guarded, FullStep, EndHook, InForce
  <2> QED BY <1>1, <1>4, <1>5, <2>1 DEF Guarded
<1>7. \A w \in VM \ {v} : SameState(w)
  BY <1>1 DEF SameState, SameHook, HooksInv, TypeOK, StackOK
<1> QED BY <1>1, <1>6, <1>7, OthersGuarded DEF HooksInv

LEMMA AttachKeeps ==
  ASSUME HooksInv, NEW v \in VM, NEW s \in Seq(FrameSet), AttachState(v, s)
  PROVE  AllGuarded' /\ NoneLeft'
<1>1. /\ phase[v] = "off" /\ UNCHANGED <<bps, chosen, missed, pausing>>
      /\ phase' = [phase EXCEPT ![v] = "run"] /\ stack' = [stack EXCEPT ![v] = s]
      /\ hook' = [hook EXCEPT ![v] = "Full"] /\ mode' = [mode EXCEPT ![v] = "Continue"]
      /\ inStack' = [inStack EXCEPT ![v] = TRUE]
      /\ active' = [active EXCEPT ![v] = \E w \in Attached : active[w]]
  BY DEF AttachState, pause
<1>2. (\E t \in Script : bps[t] # {}) => \E w \in Attached : active[w]
  BY DEF HooksInv, NoneLeft, AllGuarded, Guarded
<1>3. active'[v] <=> \E w \in Attached : active[w]
  BY <1>1, Zenon DEF HooksInv, TypeOK, FlagsOK
<1>4. hook'[v] = "Full" /\ mode'[v] = "Continue" /\ inStack'[v] /\ EndHook(v)' = "Full"
  BY <1>1 DEF HooksInv, TypeOK, StackOK, MachineOK, EndHook, InHook
<1>5. Guarded(v)' BY <1>1, <1>2, <1>3, <1>4 DEF Guarded, FullStep, Counting
<1>6. \A w \in VM \ {v} : active'[w] = active[w]
  BY <1>1, Zenon DEF HooksInv, TypeOK, FlagsOK
<1>7. \A w \in VM \ {v} : SameState(w)
  BY <1>1, <1>6 DEF SameState, SameHook, HooksInv, TypeOK, StackOK, MachineOK
<1>8. AllGuarded' BY <1>1, <1>5, <1>7, OthersGuarded DEF HooksInv
<1>9. v \in Attached' BY <1>1 DEF Attached, HooksInv, TypeOK, StackOK
<1> QED BY <1>8, <1>9 DEF NoneLeft

LEMMA CloseKeeps ==
  ASSUME HooksInv, NEW v \in VM, CloseState(v), "closeLast" \notin Features
  PROVE  AllGuarded' /\ NoneLeft'
<1>1. /\ phase[v] = "run" /\ Attached # {v} /\ UNCHANGED <<stack, bps, chosen, pausing>>
      /\ missed' = [missed EXCEPT ![v] = FALSE]
      /\ phase' = [phase EXCEPT ![v] = "off"] /\ hook' = [hook EXCEPT ![v] = "None"]
      /\ mode' = [mode EXCEPT ![v] = "Continue"] /\ inStack' = [inStack EXCEPT ![v] = TRUE]
      /\ active' = [active EXCEPT ![v] = FALSE]
  BY DEF CloseState
<1>2. v \notin Attached' BY <1>1 DEF Attached, HooksInv, TypeOK, StackOK
<1>3. \A w \in VM \ {v} : SameState(w)
  BY <1>1 DEF SameState, SameHook, HooksInv, TypeOK, StackOK, MachineOK, FlagsOK, PauseOK
<1>4. AllGuarded' BY <1>1, <1>2, <1>3, OthersGuarded DEF HooksInv
<1>5. PICK w \in Attached : w # v BY <1>1 DEF Attached
<1>6. w \in Attached' BY <1>3, <1>5 DEF Attached, SameState, SameHook
<1> QED BY <1>4, <1>6 DEF NoneLeft

LEMMA LineKeeps ==
  ASSUME HooksInv, NEW v \in Attached, NEW l, Line(v, l)
  PROVE  AllGuarded' /\ Attached' = Attached
<1>1. /\ v \in VM /\ Guarded(v) /\ UNCHANGED <<stack, mode, active, chosen, bps, pausing>>
      /\ KeepFull(v) \/ UNCHANGED <<hook, inStack, missed>>
      /\ phase[v] = "run"
      /\ phase' = [phase EXCEPT ![v] = IF Stops(v, l) THEN "stopped" ELSE @]
  BY DEF Line, LineHook, Running, HooksInv, AllGuarded, Attached
<1>0. phase'[v] \in {"run", "stopped"} /\ phase'[v] \notin InHook
  BY <1>1 DEF HooksInv, TypeOK, StackOK, InHook
<1>2. Guarded(v)'
  <2>1. CASE UNCHANGED <<hook, inStack, missed>>
    <3>1. FullStep(v)' /\ EndHook(v)' = EndHook(v)
      BY <1>0, <1>1, <2>1 DEF Guarded, FullStep, EndHook, InForce, InHook
    <3> QED BY <1>1, <2>1, <3>1 DEF Guarded, StackHasBreakpoint, HasBreakpoint, InRange, IsChunk
  <2>2. CASE KeepFull(v) BY <1>0, <1>1, <2>2, KeepFullGuards DEF HooksInv
  <2> QED BY <1>1, <2>1, <2>2
<1>3. \A w \in VM \ {v} : SameState(w)
  BY <1>1 DEF SameState, SameHook, KeepFull, HooksInv, TypeOK, StackOK, MachineOK, PauseOK
<1>4. Attached' = Attached
  BY <1>0, <1>1, <1>3 DEF Attached, SameState, SameHook
<1> QED BY <1>1, <1>2, <1>3, <1>4, OthersGuarded DEF HooksInv

\* The last two steps of a hook: a pause that has come meanwhile is seen, unless it
\* comes after the last look at the mode.
LEMMA HookKeeps ==
  ASSUME HooksInv, NEW v \in VM, CheckMode(v) \/ SetHook(v)
  PROVE  AllGuarded' /\ Attached' = Attached
<1>1. /\ UNCHANGED <<stack, mode, inStack, active, bps, missed, pausing>>
      /\ phase[v] \in InHook /\ phase'[v] # "off" /\ phase'[v] # "hook"
      /\ \A w \in VM \ {v} : phase'[w] = phase[w] /\ hook'[w] = hook[w] /\ chosen'[w] = chosen[w]
      /\ hook'[v] # "None"
      /\ EndHook(v)' = IF phase[v] = "hook" /\ mode[v] # "Continue" THEN "Full" ELSE EndHook(v)
  <2>0. phase[v] \in InHook /\ hook[v] # "None" /\ chosen[v] # "None"
    BY DEF CheckMode, SetHook, InHook, HooksInv, AllGuarded, Attached, Guarded, EndHook
  <2>1. CASE CheckMode(v)
    BY <2>0, <2>1 DEF CheckMode, EndHook, InHook, machine, pause, HooksInv, TypeOK, StackOK, MachineOK
  <2>2. CASE SetHook(v)
    BY <2>0, <2>2 DEF SetHook, EndHook, InHook, pause, HooksInv, TypeOK, StackOK, MachineOK
  <2> QED BY <2>1, <2>2
<1>2. v \in Attached /\ Guarded(v) BY <1>1 DEF HooksInv, AllGuarded, Attached, InHook
<1>3. mode[v] \notin Counting BY <1>1, <1>2 DEF Guarded, FullStep
<1>4. FullStep(v)'
  BY <1>1, <1>2, <1>3 DEF Guarded, FullStep, InForce, Counting
<1>5. Guarded(v)'
  BY <1>1, <1>2, <1>4 DEF Guarded, StackHasBreakpoint, HasBreakpoint, InRange, IsChunk
<1>6. \A w \in VM \ {v} : SameState(w) BY <1>1 DEF SameState, SameHook
<1>7. Attached' = Attached BY <1>1, <1>2 DEF Attached
<1> QED BY <1>1, <1>5, <1>6, <1>7, OthersGuarded DEF HooksInv

LEMMA ResumeKeeps ==
  ASSUME HooksInv, NEW v \in Attached, NEW k \in Stepping \cup {"Continue"},
         Resume(v, k) \/ Evaluate(v)
  PROVE  AllGuarded' /\ Attached' = Attached
<1>1. v \in VM /\ Guarded(v) /\ phase[v] # "off" BY DEF HooksInv, AllGuarded, Attached
<1>2. /\ UNCHANGED <<stack, inStack, active, chosen, bps, pausing>>
      /\ phase[v] = "stopped" /\ phase'[v] \in {"run", "stopped"}
      /\ \A w \in VM \ {v} : /\ phase'[w] = phase[w] /\ hook'[w] = hook[w]
                             /\ mode'[w] = mode[w] /\ missed'[w] = missed[w]
      /\ \/ hook'[v] = "Full"
         \/ hook'[v] = hook[v] /\ mode'[v] = "Continue"
  <2>1. CASE Resume(v, k)
    BY <1>1, <2>1 DEF Resume, HooksInv, TypeOK, StackOK, MachineOK, PauseOK
  <2>2. CASE Evaluate(v)
    BY <1>1, <2>2 DEF Evaluate, HooksInv, TypeOK, MachineOK, pause
  <2> QED BY <2>1, <2>2
<1>3. Guarded(v)'
  <2>1. StackHasBreakpoint(stack[v])' <=> StackHasBreakpoint(stack[v])
    BY <1>2 DEF StackHasBreakpoint, HasBreakpoint, InRange, IsChunk
  <2>2. EndHook(v) = hook[v] /\ EndHook(v)' = hook'[v] /\ phase'[v] \notin InHook
    BY <1>2 DEF EndHook, InHook
  <2>3. FullStep(v)' BY <1>2, <2>2 DEF FullStep, Counting
  <2> QED BY <1>1, <1>2, <2>1, <2>2, <2>3 DEF Guarded
<1>4. Attached' = Attached BY <1>1, <1>2 DEF Attached
<1>5. \A w \in VM \ {v} : SameState(w) BY <1>2 DEF SameState, SameHook
<1> QED BY <1>1, <1>2, <1>3, <1>4, <1>5, OthersGuarded DEF HooksInv

\* The stores of a pause.  The first is not in force yet; the second is, unless the
\* hook has chosen another mask and looked at the mode before the first.
LEMMA BreakKeeps ==
  ASSUME HooksInv, NEW v \in VM, BreakMode(v) \/ BreakHook(v)
  PROVE  AllGuarded' /\ Attached' = Attached
<1>1. /\ UNCHANGED <<phase, stack, inStack, active, chosen, bps>>
      /\ \A w \in VM \ {v} : hook'[w] = hook[w] /\ mode'[w] = mode[w] /\ missed'[w] = missed[w]
      /\ \A w \in VM \ {v} : w \in pausing' <=> w \in pausing
  <2>1. CASE BreakMode(v)
    BY <2>1 DEF BreakMode, HooksInv, TypeOK, MachineOK
  <2>2. CASE BreakHook(v)
    <3>1. \A w \in VM \ {v} : missed'[w] = missed[w]
      BY <2>2, Zenon DEF BreakHook, HooksInv, TypeOK, PauseOK
    <3> QED BY <2>2, <3>1 DEF BreakHook, HooksInv, TypeOK, MachineOK
  <2> QED BY <2>1, <2>2
<1>2. Attached' = Attached BY <1>1 DEF Attached
<1>3. ASSUME v \in Attached PROVE Guarded(v)'
  <2>0. Guarded(v) BY <1>3 DEF HooksInv, AllGuarded
  <2>1. StackHasBreakpoint(stack[v])' <=> StackHasBreakpoint(stack[v])
    BY <1>1 DEF StackHasBreakpoint, HasBreakpoint, InRange, IsChunk
  <2>2. CASE BreakMode(v)
    <3>1. hook' = hook /\ mode'[v] = "StepInto" /\ v \in pausing'
      BY <2>2 DEF BreakMode, HooksInv, TypeOK, MachineOK
    <3>2. FullStep(v)' /\ EndHook(v)' = EndHook(v)
      BY <1>1, <3>1 DEF FullStep, InForce, EndHook, Counting
    <3> QED BY <1>1, <2>0, <2>1, <3>1, <3>2 DEF Guarded
  <2>3. CASE BreakHook(v)
    <3>1. hook'[v] = "Full" /\ mode' = mode BY <2>3 DEF BreakHook, HooksInv, TypeOK, MachineOK
    <3>2. missed'[v] <=> phase[v] = "set" /\ chosen[v] # "Full"
      BY <2>3, Zenon DEF BreakHook, HooksInv, TypeOK, PauseOK
    <3>3. EndHook(v)' = IF phase[v] \in InHook THEN EndHook(v) ELSE "Full"
      BY <1>1, <3>1 DEF EndHook
    <3>4. FullStep(v)'
      BY <1>1, <2>0, <3>1, <3>2, <3>3 DEF Guarded, FullStep, InForce, EndHook, InHook
    <3> QED BY <1>1, <2>0, <2>1, <3>1, <3>3, <3>4 DEF Guarded
  <2> QED BY <2>2, <2>3
<1>4. \A w \in VM \ {v} : SameState(w) BY <1>1 DEF SameState, SameHook
<1> QED BY <1>1, <1>2, <1>3, <1>4, OthersGuarded DEF HooksInv

LEMMA SetKeeps ==
  ASSUME HooksInv, NEW s \in Script, NEW b, SetBreakpoint(s, b)
  PROVE  AllGuarded' /\ NoneLeft'
<1>1. Attached' = Attached /\ Attached # {} BY DEF SetBreakpoint, Attached
<1>2. ASSUME NEW v \in Attached PROVE Guarded(v)'
  <2>1. v \in VM /\ phase'[v] \notin InHook
    BY DEF Attached, SetBreakpoint, Command, Unlocked
  <2>2. hook'[v] = "Full" BY <2>1 DEF SetBreakpoint
  <2>3. active'[v] /\ inStack'[v] BY <2>1, Zenon DEF SetBreakpoint
  <2>4. EndHook(v)' = "Full" BY <2>1, <2>2 DEF EndHook
  <2>5. FullStep(v)' BY <2>1, <2>2, <2>4 DEF FullStep
  <2> QED BY <2>2, <2>3, <2>4, <2>5 DEF Guarded
<1> QED BY <1>1, <1>2 DEF AllGuarded, NoneLeft

LEMMA ClearKeeps ==
  ASSUME HooksInv, NEW s \in Script, NEW b, ClearBreakpoint(s, b)
  PROVE  AllGuarded' /\ NoneLeft'
<1>1. /\ UNCHANGED <<phase, stack, mode, inStack, hook, chosen, missed, pausing>>
      /\ Attached # {}
      /\ bps' = [bps EXCEPT ![s] = @ \ {b}]
      /\ active' = [v \in VM |-> active[v] /\ (v \in Attached => \E t \in Script : bps'[t] # {})]
  BY DEF ClearBreakpoint, pause
<1>2. Attached' = Attached BY <1>1 DEF Attached
<1>3. \A t \in Script : bps'[t] \subseteq bps[t] BY <1>1 DEF HooksInv, TypeOK, FlagsOK
<1>4. ASSUME NEW v \in Attached PROVE Guarded(v)'
  <2>1. v \in VM /\ Guarded(v) BY DEF HooksInv, AllGuarded, Attached
  <2>2. (\E t \in Script : bps'[t] # {}) => active'[v]
    <3>1. (\E t \in Script : bps'[t] # {}) => active[v] BY <1>3, <2>1 DEF Guarded
    <3> QED BY <1>1, <2>1, <3>1, Zenon
  <2>3. \A f \in Fn : HasBreakpoint(f)' => HasBreakpoint(f)
    <3>1. \A f \in Fn : Fun[f].script \in Script BY DEF Script
    <3> QED BY <1>3, <3>1 DEF HasBreakpoint, InRange, IsChunk
  <2>4. StackHasBreakpoint(stack[v])' => StackHasBreakpoint(stack[v])
    <3>1. \A i \in DOMAIN stack[v] : stack[v][i].fn \in Fn
      <4>1. stack[v] \in Seq(FrameSet) BY <2>1 DEF HooksInv, TypeOK, StackOK, FrameSet
      <4>2. \A i \in DOMAIN stack[v] : stack[v][i] \in FrameSet BY <4>1
      <4> QED BY <4>2 DEF FrameSet
    <3> QED BY <1>1, <2>3, <3>1 DEF StackHasBreakpoint
  <2>5. FullStep(v)' /\ EndHook(v)' = EndHook(v)
    BY <1>1, <2>1 DEF Guarded, FullStep, EndHook, InForce
  <2> QED BY <1>1, <2>1, <2>2, <2>4, <2>5 DEF Guarded
<1> QED BY <1>1, <1>2, <1>4 DEF AllGuarded, NoneLeft

-----------------------------------------------------------------------------
(* The invariant, and what follows from it.                                *)

LEMMA InvStep ==
  ASSUME HooksInv, [Next]_vars, "closeLast" \notin Features
  PROVE  HooksInv'
<1>1. TypeOK' BY StepType DEF HooksInv
<1>2. ASSUME NEW v \in VM, Program(v) PROVE AllGuarded' /\ NoneLeft'
  <2>1. <<>> \in Seq(FrameSet) /\ \A f \in Fn : <<Frame(f)>> \in Seq(FrameSet)
    BY DEF FrameSet, Frame
  <2>2. CASE AttachState(v, <<>>) BY <2>1, <2>2, AttachKeeps
  <2>3. CASE \E f \in Fn : AttachState(v, <<Frame(f)>>) BY <2>1, <2>3, AttachKeeps
  <2>4. CASE CloseState(v) BY <2>4, CloseKeeps
  <2>5. ASSUME phase[v] = "run", GoesOn(v), bps' = bps, AllGuarded'
        PROVE  AllGuarded' /\ NoneLeft'
    <3>1. phase' = phase \/ (phase'[v] = "hook" /\ \A w \in VM \ {v} : phase'[w] = phase[w])
      BY <2>5 DEF GoesOn, HooksInv, TypeOK, StackOK
    <3>2. v \in Attached' BY <2>5, <3>1 DEF Attached
    <3> QED BY <2>5, <3>2 DEF NoneLeft
  <2>0. MachineOK /\ missed \in [VM -> BOOLEAN] BY DEF HooksInv, TypeOK, PauseOK
  <2>6. CASE Return(v)
    <3>1. /\ v \in Attached /\ phase[v] = "run" /\ bps' = bps /\ mode' = mode /\ stack[v] # <<>>
          /\ ReturnHook(v, Top(v).tail + 1, stack[v])
      BY <2>6 DEF Return, Running, Attached
    <3>2. Top(v).tail + 1 \in Nat
      <4>1. Top(v) \in FrameSet BY <3>1, TopType DEF HooksInv, TypeOK
      <4> QED BY <4>1 DEF FrameSet
    <3>3. GoesOn(v) BY <2>0, <3>1, <3>2, ReturnHookType
    <3> QED BY <2>5, <2>6, <3>1, <3>3, ReturnKeeps
  <2>7. CASE \E f \in Fn : Call(v, f)
    <3>1. PICK f \in Fn : Call(v, f) BY <2>7
    <3>2. /\ v \in Attached /\ phase[v] = "run" /\ bps' = bps /\ mode' = mode
          /\ CallHook(v, f, Append(stack[v], Frame(f)))
      BY <3>1 DEF Call, Attached
    <3>3. GoesOn(v) BY <2>0, <3>2, CallHookType
    <3> QED BY <2>5, <3>1, <3>2, <3>3, CallKeeps
  <2>8. CASE \E f \in Fn : TailCall(v, f)
    <3>1. PICK f \in Fn : TailCall(v, f) BY <2>8
    <3>2. PICK q : q = Append(Below(v), [fn |-> f, tail |-> IF v \in Lua51 THEN Top(v).tail + 1 ELSE 0])
      OBVIOUS
    <3>3. /\ v \in Attached /\ phase[v] = "run" /\ bps' = bps /\ mode' = mode
          /\ CallHook(v, f, q)
      BY <3>1, <3>2 DEF TailCall, Running, Attached
    <3>4. GoesOn(v) BY <2>0, <3>3, CallHookType
    <3> QED BY <2>5, <3>1, <3>3, <3>4, TailCallKeeps
  <2>9. CASE \E n \in 0 .. MaxDepth[v] - 1 : Throw(v, n)
    <3>1. PICK n \in 0 .. MaxDepth[v] - 1 : Throw(v, n) BY <2>9
    <3>2. n \in Nat BY <3>1
    <3>3. v \in Attached /\ phase[v] = "run" /\ phase' = phase /\ bps' = bps
      BY <3>1 DEF Throw, Running, Attached
    <3>4. AllGuarded' BY <3>1, <3>2, <3>3, ThrowKeeps
    <3> QED BY <2>5, <3>3, <3>4 DEF GoesOn
  <2>10. CASE \E l \in UNION {Fun[f].body : f \in Fn} : Line(v, l)
    <3>1. phase[v] = "run" /\ bps' = bps BY <2>10 DEF Line, Running
    <3>2. AllGuarded' /\ Attached' = Attached BY <2>10, <3>1, LineKeeps DEF Attached
    <3> QED BY <3>1, <3>2 DEF HooksInv, NoneLeft
  <2>11. CASE CheckMode(v) \/ SetHook(v)
    <3>1. bps' = bps BY <2>11 DEF CheckMode, SetHook
    <3> QED BY <2>11, <3>1, HookKeeps DEF HooksInv, NoneLeft
  <2> QED BY <1>2, <2>2, <2>3, <2>4, <2>6, <2>7, <2>8, <2>9, <2>10, <2>11 DEF Program
<1>3. ASSUME NEW v \in VM, User(v) PROVE AllGuarded' /\ NoneLeft'
  <2>1. bps' = bps
    BY <1>3 DEF User, Resume, BreakMode, BreakHook, Evaluate
  <2>2. CASE BreakMode(v) \/ BreakHook(v)
    BY <2>1, <2>2, BreakKeeps DEF HooksInv, NoneLeft
  <2>3. CASE Evaluate(v) \/ \E k \in Stepping \cup {"Continue"} : Resume(v, k)
    <3>1. v \in Attached BY <2>3 DEF Resume, Evaluate, Attached
    <3>2. \E k \in Stepping \cup {"Continue"} : Resume(v, k) \/ Evaluate(v) BY <2>3
    <3> QED BY <2>1, <3>1, <3>2, ResumeKeeps DEF HooksInv, NoneLeft
  <2> QED BY <1>3, <2>2, <2>3 DEF User
<1>4. ASSUME NEW s \in Script, NEW b \in Lines(s), SetBreakpoint(s, b) \/ ClearBreakpoint(s, b)
      PROVE  AllGuarded' /\ NoneLeft'
  BY <1>4, SetKeeps, ClearKeeps
<1>5. CASE UNCHANGED vars
  <2>1. UNCHANGED <<phase, stack, hook, mode, inStack, active, chosen, bps, missed, pausing>>
    BY <1>5 DEF vars, machine, pause
  <2>2. Attached' = Attached BY <2>1 DEF Attached
  <2>3. ASSUME NEW v \in Attached PROVE Guarded(v)'
    <3>1. Guarded(v) BY DEF HooksInv, AllGuarded
    <3>2. FullStep(v)' /\ EndHook(v)' = EndHook(v)
      BY <2>1, <3>1 DEF Guarded, FullStep, EndHook, InForce
    <3> QED BY <2>1, <3>1, <3>2 DEF Guarded, StackHasBreakpoint, HasBreakpoint, InRange, IsChunk
  <2>4. AllGuarded' BY <2>2, <2>3 DEF AllGuarded
  <2>5. NoneLeft' BY <2>1, <2>2 DEF HooksInv, NoneLeft
  <2> QED BY <1>1, <2>4, <2>5 DEF HooksInv
<1> QED BY <1>1, <1>2, <1>3, <1>4, <1>5 DEF Next, HooksInv

LEMMA InvInit == Init => HooksInv
BY InitType DEF Init, HooksInv, AllGuarded, NoneLeft, Attached

\* Every line of a function is inside what Lua reports as its range, and not on the
\* line the range begins with.
RangesCover ==
    \A f \in Fn : IsChunk(f) \/ \A l \in Fun[f].body : Fun[f].first < l /\ l <= Fun[f].last

LEMMA BodyCovered ==
  ASSUME RangesCover, NEW f \in Fn, NEW l \in Fun[f].body, l - 1 \in bps[Fun[f].script]
  PROVE  HasBreakpoint(f)
<1>1. CASE IsChunk(f) BY <1>1 DEF HasBreakpoint
<1>2. CASE ~IsChunk(f)
  <2>1. Fun[f].first < l /\ l <= Fun[f].last BY <1>2 DEF RangesCover
  <2>2. Fun[f].first \in Nat /\ Fun[f].last \in Nat /\ l \in Nat OBVIOUS
  <2>3. l - 1 >= Fun[f].first /\ l - 1 < Fun[f].last BY <2>1, <2>2
  <2> QED BY <2>3 DEF HasBreakpoint, InRange
<1> QED BY <1>1, <1>2

LEMMA InvFull == ASSUME HooksInv, RangesCover PROVE FullWhereNeeded
<1>0. ASSUME NEW v \in Attached, phase[v] \notin InHook
      PROVE  /\ EndHook(v) = hook[v]
             /\ mode[v] # "Continue" /\ InForce(v) => hook[v] = "Full"
  <2>1. EndHook(v) = hook[v] BY <1>0 DEF EndHook
  <2>2. v \in VM /\ FullStep(v) BY DEF HooksInv, AllGuarded, Guarded, Attached
  <2>3. mode[v] \in {"StepInto", "StepOver", "StepOut", "Continue"}
    BY <2>2, Modes DEF HooksInv, Stepping
  <2> QED BY <1>0, <2>1, <2>2, <2>3 DEF FullStep, Counting, InHook
<1> SUFFICES ASSUME NEW v \in Attached, phase[v] \notin InHook, NEW i \in DOMAIN stack[v],
                    NEW l \in Fun[stack[v][i].fn].body,
                    l - 1 \in bps[Fun[stack[v][i].fn].script]
             PROVE  hook[v] = "Full"
  BY <1>0 DEF FullWhereNeeded
<1>1. stack[v] \in Seq(FrameSet) BY DEF HooksInv, TypeOK, StackOK, FrameSet, Attached
<1>2. stack[v][i] \in FrameSet BY <1>1
<1>3. stack[v][i].fn \in Fn BY <1>2 DEF FrameSet
<1>4. StackHasBreakpoint(stack[v]) BY <1>3, BodyCovered DEF StackHasBreakpoint
<1> QED BY <1>0, <1>4 DEF HooksInv, AllGuarded, Guarded

LEMMA InvStops == ASSUME HooksInv, RangesCover PROVE BreakpointStops
<1> SUFFICES ASSUME NEW v \in VM, NEW l \in NextLines(v), HasLine(v, l) PROVE Stops(v, l)
  BY DEF BreakpointStops
<1>1. /\ v \in Attached /\ stack[v] # <<>> /\ l \in Fun[Top(v).fn].body
      /\ phase[v] = "run"
  BY DEF NextLines, Running, Attached
<1>2. /\ stack[v] \in Seq(FrameSet) /\ Len(stack[v]) \in DOMAIN stack[v]
      /\ Top(v) \in FrameSet
  BY <1>1, TopType DEF HooksInv, TypeOK
<1>3. Top(v).fn \in Fn /\ l \in Nat BY <1>1, <1>2 DEF FrameSet
<1>4. HasBreakpoint(Top(v).fn) BY <1>1, <1>3, BodyCovered DEF HasLine
<1>5. StackHasBreakpoint(stack[v]) BY <1>2, <1>4 DEF StackHasBreakpoint, Top
<1>6. hook[v] = "Full" BY <1>1, <1>5 DEF HooksInv, AllGuarded, Guarded, EndHook, InHook
<1>7. Seen(v, "line") BY <1>6 DEF Seen, Mask
<1>8. l \in {b + 1 : b \in bps[Fun[Top(v).fn].script]}
  BY <1>3 DEF HasLine
<1> QED BY <1>7, <1>8 DEF Stops, Top

\* Where no function is written on one line and the last state is not closed, a state
\* has its line events on outside of its hooks, while it steps or executes a function
\* with a breakpoint, wherever in a hook a pause comes; unless it comes so late that
\* the hook puts another mask over it (missed), which hooks_pause shows the code to do.
THEOREM FullHook ==
  ASSUME RangesCover, "closeLast" \notin Features
  PROVE  Spec => []FullWhereNeeded
<1>1. Init => HooksInv BY InvInit
<1>2. HooksInv /\ [Next]_vars => HooksInv' BY InvStep
<1>3. HooksInv => FullWhereNeeded BY InvFull
<1> QED BY <1>1, <1>2, <1>3, PTL DEF Spec

\* Under the same conditions no line with a breakpoint is executed without a stop,
\* however many states share the breakpoints.
THEOREM BreakpointsHit ==
  ASSUME RangesCover, "closeLast" \notin Features
  PROVE  Spec => []BreakpointStops
<1>1. Init => HooksInv BY InvInit
<1>2. HooksInv /\ [Next]_vars => HooksInv' BY InvStep
<1>3. HooksInv => BreakpointStops BY InvStops
<1> QED BY <1>1, <1>2, <1>3, PTL DEF Spec

-----------------------------------------------------------------------------
(* Steps over and out.  A step ends when callCount is zero, which stands for *)
(* how deep the state is above the frames that were there when the step was  *)
(* given: w[i] is how many return events the frames above the kept ones,     *)
(* up to the i-th, will have.  callCount is that number, less the tail calls *)
(* that had led to the first of them already, unless a return was lost.      *)

Weighs(w, s, k) ==
    /\ w \in [0 .. Len(s) -> Nat]
    /\ w[k] = 0
    /\ \A i \in k + 1 .. Len(s) : w[i] = w[i - 1] + s[i].tail + 1
    /\ \A i, j \in k .. Len(s) : i <= j => w[i] <= w[j]
Counts(s, k, c, l) ==
    /\ k <= Len(s)
    /\ \E w : /\ Weighs(w, s, k)
              /\ ~l => c <= w[Len(s)]
              /\ k < Len(s) => c + s[k + 1].tail >= w[Len(s)]

LEMMA CountsDecide ==
  ASSUME NEW s \in Seq(FrameSet), NEW k \in Nat, NEW c \in Nat, NEW l, Counts(s, k, c, l)
  PROVE  /\ Len(s) <= k /\ ~l => c = 0
         /\ c = 0 => Len(s) <= k
<1>1. Len(s) \in Nat /\ k <= Len(s) BY DEF Counts
<1>2. PICK w : /\ Weighs(w, s, k)
               /\ ~l => c <= w[Len(s)]
               /\ k < Len(s) => c + s[k + 1].tail >= w[Len(s)]
  BY DEF Counts
<1>3. w[Len(s)] \in Nat /\ w[k] = 0 BY <1>1, <1>2 DEF Weighs
<1>4. ASSUME k < Len(s) PROVE c # 0
  <2>1. k + 1 \in k .. Len(s) /\ Len(s) \in k .. Len(s) /\ k + 1 \in k + 1 .. Len(s)
        /\ k + 1 <= Len(s) /\ k + 1 \in DOMAIN s /\ (k + 1) - 1 = k
    BY <1>1, <1>4
  <2>2. s[k + 1] \in FrameSet BY <2>1
  <2>3. s[k + 1].tail \in Nat BY <2>2 DEF FrameSet
  <2>4. w[k + 1] = w[k] + s[k + 1].tail + 1 /\ w[k + 1] <= w[Len(s)]
    BY <1>2, <2>1 DEF Weighs
  <2> QED BY <1>2, <1>3, <1>4, <2>3, <2>4
<1> QED BY <1>1, <1>2, <1>3, <1>4

\* A step is given, or ends where a frame has gone that was kept.
LEMMA CountsNone ==
  ASSUME NEW s \in Seq(FrameSet), NEW l
  PROVE  Counts(s, Len(s), 0, l)
<1>1. Len(s) \in Nat OBVIOUS
<1>2. PICK w : w = [i \in 0 .. Len(s) |-> 0] OBVIOUS
<1>3. Weighs(w, s, Len(s)) BY <1>1, <1>2 DEF Weighs
<1>4. w[Len(s)] = 0 BY <1>1, <1>2
<1> QED BY <1>1, <1>3, <1>4 DEF Counts

\* The frames of s without the last, and another on them: the count that goes with
\* one frame above the kept ones.
LEMMA CountsOne ==
  ASSUME NEW s \in Seq(FrameSet), NEW k \in Nat, Len(s) = k + 1, NEW c \in Nat \ {0}, NEW l,
         ~l => c <= s[k + 1].tail + 1
  PROVE  Counts(s, k, c, l)
<1>1. k + 1 \in DOMAIN s /\ s[k + 1] \in FrameSet OBVIOUS
<1>2. s[k + 1].tail \in Nat BY <1>1 DEF FrameSet
<1>3. PICK t \in Nat : t = s[k + 1].tail BY <1>2
<1>4. PICK w : w = [i \in 0 .. Len(s) |-> IF i = k + 1 THEN t + 1 ELSE 0] OBVIOUS
<1>5. w[k] = 0 /\ w[k + 1] = t + 1 /\ w \in [0 .. Len(s) -> Nat] BY <1>4
<1>6. Weighs(w, s, k)
  <2>1. ASSUME NEW i \in k + 1 .. Len(s) PROVE w[i] = w[i - 1] + s[i].tail + 1
    <3>1. i = k + 1 /\ i - 1 = k BY <2>1
    <3> QED BY <1>3, <1>5, <3>1
  <2>2. ASSUME NEW i \in k .. Len(s), NEW j \in k .. Len(s), i <= j PROVE w[i] <= w[j]
    <3>1. i \in {k, k + 1} /\ j \in {k, k + 1} BY <2>2
    <3> QED BY <1>5, <2>2, <3>1
  <2> QED BY <1>5, <2>1, <2>2 DEF Weighs
<1>7. c + t >= w[Len(s)] /\ (~l => c <= w[Len(s)])
  BY <1>3, <1>5
<1> QED BY <1>3, <1>6, <1>7 DEF Counts

LEMMA WeighsCut ==
  ASSUME NEW s \in Seq(FrameSet), NEW k \in Nat, NEW n \in Nat, k <= n, n <= Len(s),
         NEW w, Weighs(w, s, k)
  PROVE  /\ \E u : Weighs(u, SubSeq(s, 1, n), k) /\ u[n] = w[n]
         /\ w[n] \in Nat /\ w[Len(s)] \in Nat /\ w[n] <= w[Len(s)]
<1>1. PICK m \in Nat : m = Len(s) OBVIOUS
<1>2. PICK r : r = SubSeq(s, 1, n) OBVIOUS
<1>3. Len(r) = n /\ \A i \in 1 .. n : r[i] = s[i] BY <1>2, CutType
<1>4. PICK u : u = [i \in 0 .. n |-> w[i]] OBVIOUS
<1>5. w \in [0 .. m -> Nat] BY <1>1 DEF Weighs
<1>6. u \in [0 .. n -> Nat] /\ u[k] = 0 /\ u[n] = w[n] /\ \A i \in 0 .. n : u[i] = w[i]
  <2>1. k \in 0 .. n /\ n \in 0 .. n /\ w[k] = 0 BY DEF Weighs
  <2>2. \A i \in 0 .. n : i \in 0 .. m BY <1>1
  <2>3. \A i \in 0 .. n : w[i] \in Nat BY <1>5, <2>2
  <2> QED BY <1>4, <2>1, <2>3
<1>7. ASSUME NEW i \in k + 1 .. n PROVE u[i] = u[i - 1] + r[i].tail + 1
  <2>1. i \in 0 .. n /\ i - 1 \in 0 .. n /\ i \in 1 .. n /\ i \in k + 1 .. m BY <1>1
  <2> QED BY <1>1, <1>3, <1>6, <2>1 DEF Weighs
<1>8. ASSUME NEW i \in k .. n, NEW j \in k .. n, i <= j PROVE u[i] <= u[j]
  <2>1. i \in 0 .. n /\ j \in 0 .. n /\ i \in k .. m /\ j \in k .. m BY <1>1
  <2> QED BY <1>1, <1>6, <1>8, <2>1 DEF Weighs
<1>9. Weighs(u, r, k) BY <1>3, <1>6, <1>7, <1>8 DEF Weighs
<1>10. n \in k .. m /\ m \in k .. m /\ n <= m BY <1>1
<1>11. w[n] \in Nat /\ w[m] \in Nat /\ w[n] <= w[m] BY <1>1, <1>5, <1>10 DEF Weighs
<1> QED BY <1>1, <1>2, <1>6, <1>9, <1>11

LEMMA WeighsPush ==
  ASSUME NEW s \in Seq(FrameSet), NEW k \in Nat, k <= Len(s), NEW x \in FrameSet,
         NEW w, Weighs(w, s, k)
  PROVE  \E u : /\ Weighs(u, Append(s, x), k)
                /\ u[Len(Append(s, x))] = w[Len(s)] + x.tail + 1
<1>1. PICK m \in Nat : m = Len(s) OBVIOUS
<1>2. PICK r : r = Append(s, x) OBVIOUS
<1>3. Len(r) = m + 1 /\ r[m + 1] = x /\ \A i \in 1 .. m : r[i] = s[i] BY <1>1, <1>2
<1>4. PICK t \in Nat : t = x.tail BY DEF FrameSet
<1>5. w \in [0 .. m -> Nat] /\ w[k] = 0 BY <1>1 DEF Weighs
<1>6. PICK u : u = [i \in 0 .. m + 1 |-> IF i = m + 1 THEN w[m] + t + 1 ELSE w[i]] OBVIOUS
<1>7. /\ u \in [0 .. m + 1 -> Nat] /\ u[m + 1] = w[m] + t + 1 /\ \A i \in 0 .. m : u[i] = w[i]
      /\ w[m] \in Nat
  BY <1>5, <1>6
<1>8. ASSUME NEW i \in k + 1 .. m + 1 PROVE u[i] = u[i - 1] + r[i].tail + 1
  <2>1. CASE i = m + 1
    <3>1. i - 1 = m /\ m \in 0 .. m BY <2>1
    <3> QED BY <1>3, <1>4, <1>7, <2>1, <3>1
  <2>2. CASE i # m + 1
    <3>1. i \in 0 .. m /\ i - 1 \in 0 .. m /\ i \in 1 .. m /\ i \in k + 1 .. m BY <2>2
    <3> QED BY <1>1, <1>3, <1>7, <3>1 DEF Weighs
  <2> QED BY <2>1, <2>2
<1>9. ASSUME NEW i \in k .. m + 1, NEW j \in k .. m + 1, i <= j PROVE u[i] <= u[j]
  <2>1. CASE j = m + 1 /\ i # m + 1
    <3>1. i \in k .. m /\ i \in 0 .. m /\ m \in k .. m /\ i <= m BY <1>1, <2>1
    <3>2. w[i] <= w[m] /\ w[i] \in Nat BY <1>1, <1>5, <3>1 DEF Weighs
    <3> QED BY <1>7, <2>1, <3>1, <3>2
  <2>2. CASE j = m + 1 /\ i = m + 1
    BY <1>7, <2>2
  <2>3. CASE j # m + 1
    <3>1. i \in k .. m /\ j \in k .. m /\ i \in 0 .. m /\ j \in 0 .. m BY <1>9, <2>3
    <3> QED BY <1>1, <1>7, <1>9, <3>1 DEF Weighs
  <2> QED BY <2>1, <2>2, <2>3
<1>10. u[k] = 0
  <2>1. k \in 0 .. m BY <1>1
  <2> QED BY <1>5, <1>7, <2>1
<1>11. Weighs(u, r, k) BY <1>3, <1>7, <1>8, <1>9, <1>10 DEF Weighs
<1> QED BY <1>1, <1>2, <1>3, <1>4, <1>7, <1>11

\* A function is called.
LEMMA CountsCall ==
  ASSUME NEW s \in Seq(FrameSet), NEW k \in Nat, NEW c \in Nat, NEW l, Counts(s, k, c, l),
         NEW x \in FrameSet, x.tail = 0
  PROVE  Counts(Append(s, x), k, c + 1, l)
<1>1. PICK m \in Nat : m = Len(s) /\ k <= m BY DEF Counts
<1>2. PICK r : r = Append(s, x) OBVIOUS
<1>3. /\ Len(r) = m + 1 /\ r[m + 1] = x /\ r \in Seq(FrameSet) /\ k \in 0 .. m
      /\ \A i \in 1 .. m : r[i] = s[i]
  BY <1>1, <1>2
<1>4. PICK w : /\ Weighs(w, s, k)
               /\ ~l => c <= w[m]
               /\ k < m => c + s[k + 1].tail >= w[m]
  BY <1>1 DEF Counts
<1>5. PICK u : Weighs(u, r, k) /\ u[m + 1] = w[m] + 0 + 1
  BY <1>1, <1>2, <1>3, <1>4, WeighsPush
<1>6. w[m] \in Nat /\ w[k] = 0 BY <1>1, <1>4 DEF Weighs
<1>7. c + 1 + r[k + 1].tail >= u[m + 1]
  <2>1. CASE k = m
    <3>1. r[k + 1] = x /\ u[m + 1] = 1 BY <1>3, <1>5, <1>6, <2>1
    <3> QED BY <3>1
  <2>2. CASE k # m
    <3>1. k < m /\ k + 1 \in 1 .. m BY <1>1, <2>2
    <3>2. r[k + 1] = s[k + 1] /\ s[k + 1] \in FrameSet BY <1>1, <1>3, <3>1
    <3>3. PICK y \in Nat : y = s[k + 1].tail BY <3>2 DEF FrameSet
    <3>4. c + y >= w[m] BY <1>4, <3>1, <3>3
    <3>5. c + 1 + y >= u[m + 1] BY <1>5, <1>6, <3>4
    <3> QED BY <3>2, <3>3, <3>5
  <2> QED BY <2>1, <2>2
<1>8. ~l => c + 1 <= u[m + 1] BY <1>4, <1>5, <1>6
<1> QED BY <1>1, <1>2, <1>3, <1>5, <1>7, <1>8 DEF Counts

\* Frames go, as many as the history of the step says, without an event.
LEMMA CountsThrow ==
  ASSUME NEW s \in Seq(FrameSet), NEW k \in Nat, NEW c \in Nat, NEW l, Counts(s, k, c, l),
         NEW n \in Nat, n < Len(s), NEW h, h = (IF k > n THEN n ELSE k), NEW m, m
  PROVE  Counts(SubSeq(s, 1, n), h, c, m)
<1>1. PICK z \in Nat : z = Len(s) /\ k <= z BY DEF Counts
<1>2. PICK r : r = SubSeq(s, 1, n) OBVIOUS
<1>3. Len(r) = n /\ r \in Seq(FrameSet) /\ \A i \in 1 .. n : r[i] = s[i]
  BY <1>2, CutType
<1>4. PICK w : /\ Weighs(w, s, k)
               /\ k < z => c + s[k + 1].tail >= w[z]
  BY <1>1 DEF Counts
<1>5. CASE k >= n
  <2>1. PICK u : u = [i \in 0 .. n |-> 0] OBVIOUS
  <2>2. Weighs(u, r, n) BY <1>3, <2>1 DEF Weighs
  <2>3. h = n BY <1>5
  <2> QED BY <1>2, <1>3, <2>2, <2>3 DEF Counts
<1>6. CASE k < n
  <2>1. w[n] \in Nat /\ w[z] \in Nat /\ w[n] <= w[z]
    BY <1>1, <1>4, <1>6, WeighsCut
  <2>2. PICK u : Weighs(u, r, k) /\ u[n] = w[n]
    BY <1>1, <1>2, <1>4, <1>6, WeighsCut
  <2>4. k + 1 \in 1 .. n /\ r[k + 1] = s[k + 1] /\ k + 1 \in 1 .. z /\ k < z
    BY <1>1, <1>3, <1>6
  <2>5. s[k + 1] \in FrameSet BY <1>1, <2>4
  <2>6. PICK y \in Nat : y = s[k + 1].tail BY <2>5 DEF FrameSet
  <2>7. c + r[k + 1].tail >= u[n]
    <3>1. c + y >= w[z] BY <1>4, <2>4, <2>6
    <3>2. c + y >= u[n] BY <2>1, <2>2, <3>1
    <3> QED BY <2>4, <2>6, <3>2
  <2>8. h = k /\ k <= n BY <1>6
  <2>9. Counts(r, k, c, m) BY <1>3, <2>2, <2>7, <2>8 DEF Counts
  <2> QED BY <1>2, <2>8, <2>9
<1>7. k >= n \/ k < n OBVIOUS
<1> QED BY <1>5, <1>6, <1>7, Zenon

\* The last frame returns, with an event for each tail call that led to it.
LEMMA CountsReturn ==
  ASSUME NEW s \in Seq(FrameSet), NEW k \in Nat, NEW c \in Nat, NEW l, Counts(s, k, c, l),
         NEW n \in Nat, Len(s) = n + 1, NEW t \in Nat, t = s[n + 1].tail + 1,
         NEW h, h = (IF k > n THEN n ELSE k), NEW d, d = (IF c > t THEN c - t ELSE 0)
  PROVE  Counts(SubSeq(s, 1, n), h, d, l)
<1>1. k <= n + 1 BY DEF Counts
<1>2. PICK r : r = SubSeq(s, 1, n) OBVIOUS
<1>3. Len(r) = n /\ r \in Seq(FrameSet) /\ \A i \in 1 .. n : r[i] = s[i]
  BY <1>2, CutType
<1>4. PICK w : /\ Weighs(w, s, k)
               /\ ~l => c <= w[n + 1]
               /\ k < n + 1 => c + s[k + 1].tail >= w[n + 1]
  BY DEF Counts
<1>5. d \in Nat OBVIOUS
<1>6. CASE k >= n
  <2>1. PICK u : u = [i \in 0 .. n |-> 0] OBVIOUS
  <2>2. Weighs(u, r, n) /\ u[n] = 0 BY <1>3, <2>1 DEF Weighs
  <2>3. h = n BY <1>6
  <2>4. ~l => d = 0
    <3>1. CASE k = n
      <4>1. n + 1 \in k + 1 .. Len(s) /\ (n + 1) - 1 = k BY <3>1
      <4>2. w[n + 1] = w[k] + s[n + 1].tail + 1 /\ w[k] = 0 BY <1>4, <4>1 DEF Weighs
      <4>3. w[n + 1] = t
        <5>1. n + 1 \in DOMAIN s /\ s[n + 1] \in FrameSet OBVIOUS
        <5>2. s[n + 1].tail \in Nat BY <5>1 DEF FrameSet
        <5> QED BY <4>2, <5>2
      <4> QED BY <1>4, <4>3
    <3>2. CASE k = n + 1 BY <1>4, <1>5, <3>2 DEF Weighs
    <3> QED BY <1>1, <1>6, <3>1, <3>2
  <2> QED BY <1>2, <1>3, <1>5, <2>2, <2>3, <2>4 DEF Counts
<1>7. CASE k < n
  <2>0. k <= n /\ n <= Len(s) BY <1>7
  <2>1. PICK a \in Nat, b \in Nat : a = w[n] /\ b = w[n + 1]
    <3>1. w[n] \in Nat /\ w[n + 1] \in Nat BY <1>4, <2>0, WeighsCut
    <3> QED BY <3>1
  <2>2. PICK u : Weighs(u, r, k) /\ u[n] = a
    BY <1>2, <1>4, <1>7, <2>1, WeighsCut
  <2>3. k + 1 \in 1 .. n /\ r[k + 1] = s[k + 1] /\ k + 1 \in 1 .. n + 1
    BY <1>3, <1>7
  <2>4. s[k + 1] \in FrameSet /\ s[n + 1] \in FrameSet BY <2>3
  <2>5. PICK y \in Nat, z \in Nat : y = s[k + 1].tail /\ z = s[n + 1].tail
    BY <2>4 DEF FrameSet
  <2>6. b = a + t
    <3>1. n + 1 \in k + 1 .. Len(s) /\ (n + 1) - 1 = n BY <1>7
    <3>2. w[n + 1] = w[n] + s[n + 1].tail + 1 BY <1>4, <3>1 DEF Weighs
    <3>3. b = a + z + 1 BY <2>1, <2>5, <3>2
    <3>4. t = z + 1 BY <2>5
    <3> QED BY <3>3, <3>4
  <2>7. y + 1 <= a
    <3>1. /\ k + 1 \in k + 1 .. Len(s) /\ (k + 1) - 1 = k /\ k + 1 \in k .. Len(s)
          /\ n \in k .. Len(s) /\ k + 1 <= n
      BY <1>7
    <3>2. w[k + 1] = w[k] + s[k + 1].tail + 1 /\ w[k] = 0 /\ w[k + 1] <= w[n]
      BY <1>4, <3>1 DEF Weighs
    <3> QED BY <2>1, <2>5, <3>2
  <2>8. c + y >= b /\ (~l => c <= b)
    BY <1>4, <1>7, <2>1, <2>5
  <2>9. d = c - t BY <2>6, <2>7, <2>8
  <2>10. d + y >= a /\ (~l => d <= a) BY <2>6, <2>8, <2>9
  <2>11. h = k /\ k <= n BY <1>7
  <2>12. d + r[k + 1].tail >= u[n] BY <2>2, <2>3, <2>5, <2>10
  <2>13. Counts(r, k, d, l) BY <1>3, <2>2, <2>10, <2>11, <2>12 DEF Counts
  <2> QED BY <1>2, <2>11, <2>13
<1> QED BY <1>6, <1>7

\* A function takes the place of the last one; where its return will have one event
\* only, a return is lost.
LEMMA CountsTailCall ==
  ASSUME NEW s \in Seq(FrameSet), NEW k \in Nat, NEW c \in Nat, NEW l, Counts(s, k, c, l),
         NEW n \in Nat, Len(s) = n + 1, NEW x \in FrameSet, NEW m,
         x.tail <= s[n + 1].tail + 1, m \/ x.tail = s[n + 1].tail + 1,
         NEW h, h = (IF k > n THEN n ELSE k)
  PROVE  Counts(Append(SubSeq(s, 1, n), x), h, c + 1, l \/ m)
<1>1. k <= n + 1 BY DEF Counts
<1>2. PICK q : q = SubSeq(s, 1, n) OBVIOUS
<1>3. Len(q) = n /\ q \in Seq(FrameSet) /\ \A i \in 1 .. n : q[i] = s[i]
  BY <1>2, CutType
<1>4. PICK r : r = Append(q, x) OBVIOUS
<1>5. /\ r \in Seq(FrameSet) /\ Len(r) = n + 1 /\ r[n + 1] = x
      /\ \A i \in 1 .. n : r[i] = s[i]
  BY <1>3, <1>4
<1>6. PICK w : /\ Weighs(w, s, k)
               /\ ~l => c <= w[n + 1]
               /\ k < n + 1 => c + s[k + 1].tail >= w[n + 1]
  BY DEF Counts
<1>7. PICK t \in Nat, y \in Nat : t = s[n + 1].tail /\ y = x.tail
  <2>1. n + 1 \in DOMAIN s OBVIOUS
  <2>2. s[n + 1] \in FrameSet BY <2>1
  <2> QED BY <2>2 DEF FrameSet
<1>8. CASE k >= n
  <2>1. h = n BY <1>8
  <2>2. ~l => c <= t + 1
    <3>1. CASE k = n
      <4>1. n + 1 \in k + 1 .. Len(s) /\ (n + 1) - 1 = k BY <3>1
      <4>2. w[n + 1] = w[k] + t + 1 /\ w[k] = 0 BY <1>6, <1>7, <4>1 DEF Weighs
      <4> QED BY <1>6, <4>2
    <3>2. CASE k = n + 1 BY <1>6, <3>2 DEF Weighs
    <3> QED BY <1>1, <1>8, <3>1, <3>2
  <2>3. ~(l \/ m) => c + 1 <= y + 1 BY <1>7, <2>2
  <2>4. c + 1 \in Nat \ {0} OBVIOUS
  <2>5. Counts(r, n, c + 1, l \/ m) BY <1>5, <1>7, <2>3, <2>4, CountsOne
  <2> QED BY <1>2, <1>4, <2>1, <2>5
<1>9. CASE k < n
  <2>1. PICK a \in Nat, b \in Nat : a = w[n] /\ b = w[n + 1]
    BY <1>6, <1>9, WeighsCut
  <2>2. PICK v : Weighs(v, q, k) /\ v[n] = a
    BY <1>2, <1>6, <1>9, <2>1, WeighsCut
  <2>3. PICK u : Weighs(u, r, k) /\ u[n + 1] = a + y + 1
    <3>1. k <= Len(q) BY <1>3, <1>9
    <3>2. PICK u : Weighs(u, r, k) /\ u[Len(r)] = v[Len(q)] + x.tail + 1
      BY <1>3, <1>4, <2>2, <3>1, WeighsPush
    <3> QED BY <1>3, <1>5, <1>7, <2>2, <3>2
  <2>4. b = a + t + 1
    <3>1. n + 1 \in k + 1 .. Len(s) /\ (n + 1) - 1 = n BY <1>9
    <3>2. w[n + 1] = w[n] + s[n + 1].tail + 1 BY <1>6, <3>1 DEF Weighs
    <3> QED BY <1>7, <2>1, <3>2
  <2>5. k + 1 \in 1 .. n /\ r[k + 1] = s[k + 1] /\ s[k + 1] \in FrameSet
    BY <1>5, <1>9
  <2>6. PICK z \in Nat : z = s[k + 1].tail BY <2>5 DEF FrameSet
  <2>7. c + z >= b /\ (~l => c <= b) BY <1>6, <1>9, <2>1, <2>6
  <2>8. c + 1 + z >= a + y + 1 /\ (~(l \/ m) => c + 1 <= a + y + 1)
    <3>1. y <= t + 1 /\ (m \/ y = t + 1) BY <1>7
    <3>2. c + 1 + z >= a + y + 1 BY <2>4, <2>7, <3>1
    <3>3. ASSUME ~l, ~m PROVE c + 1 <= a + y + 1 BY <2>4, <2>7, <3>1, <3>3
    <3> QED BY <3>2, <3>3
  <2>9. h = k /\ k < n + 1 BY <1>9
  <2>10. c + 1 + r[k + 1].tail >= u[n + 1] /\ (~(l \/ m) => c + 1 <= u[n + 1])
    BY <2>3, <2>5, <2>6, <2>8
  <2> QED BY <1>2, <1>4, <1>5, <2>3, <2>9, <2>10 DEF Counts
<1> QED BY <1>8, <1>9

\* While a state steps it gets all events (FullStep), and while it counts, the count
\* is the one of its stack.
Counted(v)  == mode[v] \in Counting => Counts(stack[v], kept[v], callCount[v], lost[v])
StepInv     == TypeOK /\ \A v \in VM : FullStep(v) /\ Counted(v)

\* The parts of a state that a step of v does not touch in another.
OthersStep(v) ==
    \A w \in VM \ {v} : /\ mode'[w] = mode[w] /\ hook'[w] = hook[w] /\ stack'[w] = stack[w]
                        /\ kept'[w] = kept[w] /\ callCount'[w] = callCount[w] /\ lost'[w] = lost[w]
                        /\ phase'[w] = phase[w] /\ chosen'[w] = chosen[w] /\ missed'[w] = missed[w]
                        /\ (w \in pausing' <=> w \in pausing)

LEMMA StepOf ==
  ASSUME StepInv, NEW v \in VM, OthersStep(v), FullStep(v)', Counted(v)', TypeOK'
  PROVE  StepInv'
<1>1. ASSUME NEW w \in VM \ {v} PROVE FullStep(w)' /\ Counted(w)'
  <2>1. FullStep(w) /\ Counted(w) BY DEF StepInv
  <2> QED BY <2>1 DEF OthersStep, FullStep, EndHook, InForce, Counted
<1> QED BY <1>1 DEF StepInv

LEMMA StepParts ==
  ASSUME TypeOK, NEW v \in VM
  PROVE  /\ stack[v] \in Seq(FrameSet) /\ Len(stack[v]) \in Nat /\ kept[v] \in Nat
         /\ callCount[v] \in Nat /\ lost[v] \in BOOLEAN
<1>1. stack[v] \in Seq(FrameSet) BY DEF TypeOK, StackOK, FrameSet
<1>2. Len(stack[v]) \in Nat BY <1>1
<1>3. kept[v] \in Nat /\ callCount[v] \in Nat BY DEF TypeOK, MachineOK, HistoryOK
<1>4. lost[v] \in BOOLEAN BY Zenon DEF TypeOK, HistoryOK
<1> QED BY <1>1, <1>2, <1>3, <1>4

\* What the hooks do to a state that steps.
LEMMA CallSteps ==
  ASSUME TypeOK, NEW v \in VM, FullStep(v), NEW f, NEW s, CallHook(v, f, s), mode' = mode,
         pausing' = pausing, phase[v] = "run"
  PROVE  /\ FullStep(v)'
         /\ mode[v] \in Counting =>
                callCount'[v] = callCount[v] + 1
         /\ \A w \in VM \ {v} : SameHook(w) /\ callCount'[w] = callCount[w]
<1>1. mode[v] \in Counting => Seen(v, "call") /\ mode[v] # "Continue"
  BY DEF FullStep, Seen, Mask, Counting
<1>2. FullStep(v)'
  <2>1. CASE ~Seen(v, "call")
    BY <2>1 DEF CallHook, Unseen, FullStep, EndHook, InForce
  <2>2. CASE mode[v] = "Continue" BY <2>2 DEF FullStep, Counting
  <2>3. CASE Seen(v, "call") /\ mode[v] # "Continue"
    <3>1. hook'[v] = "Full" /\ phase' = phase
      BY <2>3 DEF CallHook, KeepFull, TypeOK, MachineOK
    <3> QED BY <3>1 DEF FullStep, EndHook, InHook
  <2> QED BY <2>1, <2>2, <2>3
<1>3. mode[v] \in Counting =>
          callCount'[v] = callCount[v] + 1
  BY <1>1 DEF CallHook, TypeOK, MachineOK
<1> QED BY <1>2, <1>3, CallHookOthers

LEMMA ReturnSteps ==
  ASSUME TypeOK, NEW v \in VM, FullStep(v), NEW n \in Nat, NEW s, ReturnHook(v, n, s), mode' = mode,
         pausing' = pausing, phase[v] = "run"
  PROVE  /\ FullStep(v)'
         /\ mode[v] \in Counting =>
                callCount'[v] = IF callCount[v] > n THEN callCount[v] - n ELSE 0
         /\ \A w \in VM \ {v} : SameHook(w) /\ callCount'[w] = callCount[w]
<1>1. mode[v] \in Counting => Seen(v, "return") /\ mode[v] # "Continue"
  BY DEF FullStep, Seen, Mask, Counting
<1>2. FullStep(v)'
  <2>1. CASE ~Seen(v, "return")
    BY <2>1 DEF ReturnHook, Unseen, FullStep, EndHook, InForce
  <2>2. CASE mode[v] = "Continue" BY <2>2 DEF FullStep, Counting
  <2>3. CASE Seen(v, "return") /\ mode[v] # "Continue"
    <3>1. hook'[v] = "Full" /\ phase' = phase
      BY <2>3 DEF ReturnHook, KeepFull, TypeOK, MachineOK
    <3> QED BY <3>1 DEF FullStep, EndHook, InHook
  <2> QED BY <2>1, <2>2, <2>3
<1>3. mode[v] \in Counting =>
          callCount'[v] = IF callCount[v] > n THEN callCount[v] - n ELSE 0
  BY <1>1 DEF ReturnHook, TypeOK, MachineOK
<1> QED BY <1>2, <1>3, ReturnHookOthers

LEMMA Remembered ==
  ASSUME TypeOK, NEW v \in VM, NEW n \in Nat, NEW l, Remember(v, n, l)
  PROVE  /\ mode[v] \in Counting => /\ kept'[v] = IF kept[v] > n THEN n ELSE kept[v]
                                    /\ lost'[v] <=> lost[v] \/ l
         /\ \A w \in VM \ {v} : kept'[w] = kept[w] /\ lost'[w] = lost[w]
<1>1. mode[v] \in Counting => kept'[v] = IF kept[v] > n THEN n ELSE kept[v]
  BY DEF Remember, history, TypeOK, HistoryOK
<1>2. mode[v] \in Counting => (lost'[v] <=> lost[v] \/ l)
  BY Zenon DEF Remember, history, TypeOK, HistoryOK
<1>3. \A w \in VM \ {v} : kept'[w] = kept[w]
  BY DEF Remember, history, TypeOK, HistoryOK
<1>4. \A w \in VM \ {v} : lost'[w] = lost[w]
  BY Zenon DEF Remember, history, TypeOK, HistoryOK
<1> QED BY <1>1, <1>2, <1>3, <1>4

LEMMA CallCounts ==
  ASSUME StepInv, NEW v \in VM, NEW f \in Fn, Call(v, f)
  PROVE  OthersStep(v) /\ FullStep(v)' /\ Counted(v)'
<1>0. TypeOK /\ FullStep(v) /\ Counted(v) BY DEF StepInv
<1>1. /\ stack[v] \in Seq(FrameSet) /\ kept[v] \in Nat /\ callCount[v] \in Nat
      /\ Frame(f) \in FrameSet /\ Frame(f).tail = 0
  BY <1>0, StepParts DEF Frame, FrameSet
<1>2. PICK s : s = Append(stack[v], Frame(f)) OBVIOUS
<1>3. /\ stack' = [stack EXCEPT ![v] = s] /\ CallHook(v, f, s) /\ phase[v] = "run"
      /\ mode' = mode /\ kept' = kept /\ lost' = lost /\ pausing' = pausing
  BY <1>2 DEF Call, history
<1>4. stack'[v] = s /\ \A w \in VM \ {v} : stack'[w] = stack[w]
  BY <1>0, <1>3 DEF TypeOK, StackOK
<1>5. /\ FullStep(v)'
      /\ mode[v] \in Counting => callCount'[v] = callCount[v] + 1
      /\ \A w \in VM \ {v} : SameHook(w) /\ callCount'[w] = callCount[w]
  BY <1>0, <1>3, CallSteps
<1>6. Counted(v)'
  <2> SUFFICES ASSUME mode[v] \in Counting
               PROVE  Counts(s, kept[v], callCount[v] + 1, lost[v])
    BY <1>3, <1>4, <1>5 DEF Counted
  <2>1. Counts(stack[v], kept[v], callCount[v], lost[v]) BY <1>0 DEF Counted
  <2> QED BY <1>1, <1>2, <2>1, CountsCall
<1> QED BY <1>3, <1>4, <1>5, <1>6 DEF OthersStep, SameHook

LEMMA TailCallCounts ==
  ASSUME StepInv, NEW v \in VM, NEW f \in Fn, TailCall(v, f)
  PROVE  OthersStep(v) /\ FullStep(v)' /\ Counted(v)'
<1>0. TypeOK /\ FullStep(v) /\ Counted(v) /\ stack[v] # <<>>
  BY DEF StepInv, TailCall, Running
<1>1. /\ stack[v] \in Seq(FrameSet) /\ kept[v] \in Nat /\ callCount[v] \in Nat
      /\ Len(stack[v]) \in Nat \ {0} /\ Top(v) \in FrameSet /\ Len(Below(v)) = Len(stack[v]) - 1
      /\ Below(v) \in Seq(FrameSet)
  BY <1>0, StepParts, TopType DEF TypeOK
<1>2. PICK n \in Nat : Len(stack[v]) = n + 1
  <2>1. Len(stack[v]) - 1 \in Nat /\ Len(stack[v]) = (Len(stack[v]) - 1) + 1 BY <1>1
  <2> QED BY <2>1
<1>3. Top(v) = stack[v][n + 1] /\ Below(v) = SubSeq(stack[v], 1, n) /\ Len(Below(v)) = n
  BY <1>1, <1>2 DEF Top, Below
<1>4. PICK t \in Nat : t = Top(v).tail BY <1>1 DEF FrameSet
<1>5. PICK x : x = [fn |-> f, tail |-> IF v \in Lua51 THEN Top(v).tail + 1 ELSE 0] OBVIOUS
<1>6. /\ x \in FrameSet /\ x.tail <= t + 1 /\ (v \notin Lua51 \/ x.tail = t + 1)
  BY <1>4, <1>5 DEF FrameSet
<1>7. PICK s : s = Append(Below(v), x) OBVIOUS
<1>8. Len(s) - 1 = n BY <1>1, <1>3, <1>6, <1>7
<1>9. /\ stack' = [stack EXCEPT ![v] = s] /\ CallHook(v, f, s) /\ mode' = mode
      /\ Remember(v, n, v \notin Lua51) /\ phase[v] = "run" /\ pausing' = pausing
  BY <1>5, <1>7, <1>8 DEF TailCall, Running
<1>10. stack'[v] = s /\ \A w \in VM \ {v} : stack'[w] = stack[w]
  BY <1>0, <1>9 DEF TypeOK, StackOK
<1>11. /\ FullStep(v)'
       /\ mode[v] \in Counting => callCount'[v] = callCount[v] + 1
       /\ \A w \in VM \ {v} : SameHook(w) /\ callCount'[w] = callCount[w]
  BY <1>0, <1>9, CallSteps
<1>12. /\ mode[v] \in Counting => /\ kept'[v] = IF kept[v] > n THEN n ELSE kept[v]
                                  /\ lost'[v] <=> lost[v] \/ v \notin Lua51
       /\ \A w \in VM \ {v} : kept'[w] = kept[w] /\ lost'[w] = lost[w]
  BY <1>0, <1>9, Remembered
<1>13. Counted(v)'
  <2> SUFFICES ASSUME mode[v] \in Counting
               PROVE  Counts(s, kept'[v], callCount[v] + 1, lost'[v])
    BY <1>9, <1>10, <1>11 DEF Counted
  <2>1. Counts(stack[v], kept[v], callCount[v], lost[v]) BY <1>0 DEF Counted
  <2>2. PICK h : h = kept'[v] OBVIOUS
  <2>3. PICK m \in BOOLEAN : m <=> v \notin Lua51 OBVIOUS
  <2>4. PICK q, k, c, l : q = stack[v] /\ k = kept[v] /\ c = callCount[v] /\ l = lost[v]
    OBVIOUS
  <2>5. /\ q \in Seq(FrameSet) /\ k \in Nat /\ c \in Nat /\ Counts(q, k, c, l)
        /\ Len(q) = n + 1 /\ h = IF k > n THEN n ELSE k
    BY <1>1, <1>2, <1>12, <2>1, <2>2, <2>4
  <2>6. x.tail <= q[n + 1].tail + 1 /\ (m \/ x.tail = q[n + 1].tail + 1)
    BY <1>3, <1>4, <1>6, <2>3, <2>4
  <2>7. Counts(Append(SubSeq(q, 1, n), x), h, c + 1, l \/ m)
    BY <1>6, <2>5, <2>6, CountsTailCall
  <2> QED BY <1>3, <1>7, <1>12, <2>2, <2>3, <2>4, <2>7 DEF Counts
<1> QED BY <1>9, <1>10, <1>11, <1>12, <1>13 DEF OthersStep, SameHook

LEMMA ReturnCounts ==
  ASSUME StepInv, NEW v \in VM, Return(v)
  PROVE  OthersStep(v) /\ FullStep(v)' /\ Counted(v)'
<1>0. TypeOK /\ FullStep(v) /\ Counted(v) /\ stack[v] # <<>>
  BY DEF StepInv, Return, Running
<1>1. /\ stack[v] \in Seq(FrameSet) /\ kept[v] \in Nat /\ callCount[v] \in Nat
      /\ Len(stack[v]) \in Nat \ {0} /\ Top(v) \in FrameSet
  BY <1>0, StepParts, TopType DEF TypeOK
<1>2. PICK n \in Nat : Len(stack[v]) = n + 1
  <2>1. Len(stack[v]) - 1 \in Nat /\ Len(stack[v]) = (Len(stack[v]) - 1) + 1 BY <1>1
  <2> QED BY <2>1
<1>3. Top(v) = stack[v][n + 1] /\ Below(v) = SubSeq(stack[v], 1, n) /\ Len(stack[v]) - 1 = n
  BY <1>1, <1>2 DEF Top, Below
<1>4. PICK t \in Nat : t = Top(v).tail + 1 BY <1>1 DEF FrameSet
<1>5. /\ stack' = [stack EXCEPT ![v] = Below(v)] /\ ReturnHook(v, t, stack[v]) /\ mode' = mode
      /\ Remember(v, n, FALSE) /\ phase[v] = "run" /\ pausing' = pausing
  BY <1>3, <1>4 DEF Return, Running
<1>6. stack'[v] = Below(v) /\ \A w \in VM \ {v} : stack'[w] = stack[w]
  BY <1>0, <1>5 DEF TypeOK, StackOK
<1>7. /\ FullStep(v)'
      /\ mode[v] \in Counting =>
             callCount'[v] = IF callCount[v] > t THEN callCount[v] - t ELSE 0
      /\ \A w \in VM \ {v} : SameHook(w) /\ callCount'[w] = callCount[w]
  BY <1>0, <1>5, ReturnSteps
<1>8. /\ mode[v] \in Counting => /\ kept'[v] = IF kept[v] > n THEN n ELSE kept[v]
                                 /\ lost'[v] <=> lost[v] \/ FALSE
      /\ \A w \in VM \ {v} : kept'[w] = kept[w] /\ lost'[w] = lost[w]
  BY <1>0, <1>5, Remembered
<1>9. Counted(v)'
  <2> SUFFICES ASSUME mode[v] \in Counting
               PROVE  Counts(Below(v), kept'[v], callCount'[v], lost'[v])
    BY <1>5, <1>6 DEF Counted
  <2>1. Counts(stack[v], kept[v], callCount[v], lost[v]) BY <1>0 DEF Counted
  <2>2. PICK h, d : h = kept'[v] /\ d = callCount'[v] OBVIOUS
  <2>3. /\ h = IF kept[v] > n THEN n ELSE kept[v]
        /\ d = IF callCount[v] > t THEN callCount[v] - t ELSE 0
        /\ t = stack[v][n + 1].tail + 1
    BY <1>3, <1>4, <1>7, <1>8, <2>2
  <2>4. PICK q, k, c, l : q = stack[v] /\ k = kept[v] /\ c = callCount[v] /\ l = lost[v]
    OBVIOUS
  <2>5. /\ q \in Seq(FrameSet) /\ k \in Nat /\ c \in Nat /\ Counts(q, k, c, l)
        /\ Len(q) = n + 1 /\ h = (IF k > n THEN n ELSE k)
        /\ d = (IF c > t THEN c - t ELSE 0) /\ t = q[n + 1].tail + 1
    BY <1>1, <1>2, <2>1, <2>3, <2>4
  <2>6. Counts(SubSeq(q, 1, n), h, d, l)
    <3>1. Len(q) = n + 1 /\ t = q[n + 1].tail + 1 BY <2>5
    <3>2. h = (IF k > n THEN n ELSE k) /\ d = (IF c > t THEN c - t ELSE 0) BY <2>5
    <3>3. q \in Seq(FrameSet) /\ k \in Nat /\ c \in Nat /\ Counts(q, k, c, l) BY <2>5
    <3> QED BY <3>1, <3>2, <3>3, CountsReturn
  <2> QED BY <1>3, <1>8, <2>2, <2>4, <2>6 DEF Counts
<1> QED BY <1>5, <1>6, <1>7, <1>8, <1>9 DEF OthersStep, SameHook

LEMMA ThrowCounts ==
  ASSUME StepInv, NEW v \in VM, NEW n \in Nat, Throw(v, n)
  PROVE  OthersStep(v) /\ FullStep(v)' /\ Counted(v)'
<1>0. TypeOK /\ FullStep(v) /\ Counted(v) BY DEF StepInv
<1>1. /\ stack[v] \in Seq(FrameSet) /\ kept[v] \in Nat /\ callCount[v] \in Nat
  BY <1>0, StepParts
<1>2. PICK s : s = SubSeq(stack[v], 1, n) OBVIOUS
<1>3. /\ n < Len(stack[v]) /\ stack' = [stack EXCEPT ![v] = s] /\ Remember(v, n, TRUE)
      /\ mode' = mode /\ callCount' = callCount /\ hook' = hook
      /\ UNCHANGED <<phase, chosen, missed, pausing>>
  BY <1>2 DEF Throw, machine, pause
<1>4. stack'[v] = s /\ \A w \in VM \ {v} : stack'[w] = stack[w]
  BY <1>0, <1>3 DEF TypeOK, StackOK
<1>5. /\ mode[v] \in Counting => /\ kept'[v] = IF kept[v] > n THEN n ELSE kept[v]
                                 /\ lost'[v] <=> lost[v] \/ TRUE
      /\ \A w \in VM \ {v} : kept'[w] = kept[w] /\ lost'[w] = lost[w]
  BY <1>0, <1>3, Remembered
<1>6. FullStep(v)' BY <1>0, <1>3 DEF FullStep, EndHook, InForce
<1>7. Counted(v)'
  <2> SUFFICES ASSUME mode[v] \in Counting
               PROVE  Counts(s, kept'[v], callCount[v], lost'[v])
    BY <1>3, <1>4 DEF Counted
  <2>1. Counts(stack[v], kept[v], callCount[v], lost[v]) BY <1>0 DEF Counted
  <2> QED BY <1>1, <1>2, <1>3, <1>5, <2>1, CountsThrow
<1> QED BY <1>3, <1>4, <1>5, <1>6, <1>7 DEF OthersStep

\* The commands of the user: a step over keeps the whole stack, a step out what is
\* below the last frame, and the others do not count.
LEMMA ResumeCounts ==
  ASSUME StepInv, NEW v \in VM, NEW k \in Stepping \cup {"Continue"}, Resume(v, k)
  PROVE  OthersStep(v) /\ FullStep(v)' /\ Counted(v)'
<1>0. TypeOK /\ stack[v] # <<>>
  BY DEF StepInv, Resume, TypeOK, StackOK
<1>1. /\ stack[v] \in Seq(FrameSet) /\ Len(stack[v]) \in Nat \ {0}
  BY <1>0, TopType DEF TypeOK
<1>2. /\ mode' = [mode EXCEPT ![v] = k]
      /\ callCount' = [callCount EXCEPT ![v] = IF k = "StepOut" THEN 1 ELSE 0]
      /\ hook' = [hook EXCEPT ![v] = IF k = "Continue" THEN @ ELSE "Full"]
      /\ kept' = [kept EXCEPT ![v] = CASE k = "StepOver" -> Len(stack[v])
                                       [] k = "StepOut"  -> Len(stack[v]) - 1
                                       [] OTHER          -> 0]
      /\ lost' = [lost EXCEPT ![v] = FALSE] /\ stack' = stack
      /\ phase' = [phase EXCEPT ![v] = "run"] /\ missed' = [missed EXCEPT ![v] = FALSE]
      /\ chosen' = chosen /\ pausing' = pausing
  BY DEF Resume
<1>3. OthersStep(v)
  <2>1. \A w \in VM \ {v} : lost'[w] = lost[w]
    BY <1>0, <1>2, Zenon DEF TypeOK, HistoryOK
  <2> QED BY <1>0, <1>2, <2>1 DEF OthersStep, TypeOK, StackOK, MachineOK, HistoryOK, PauseOK
<1>4. /\ mode'[v] = k /\ phase'[v] = "run" /\ callCount'[v] = IF k = "StepOut" THEN 1 ELSE 0
      /\ k # "Continue" => hook'[v] = "Full"
      /\ k = "StepOver" => kept'[v] = Len(stack[v])
      /\ k = "StepOut" => kept'[v] = Len(stack[v]) - 1
  BY <1>0, <1>2 DEF TypeOK, StackOK, MachineOK, HistoryOK
<1>5. Counted(v)'
  <2>1. CASE k = "StepOver"
    <3>1. Counts(stack[v], Len(stack[v]), 0, lost'[v]) BY <1>1, CountsNone
    <3> QED BY <1>2, <1>4, <2>1, <3>1 DEF Counted
  <2>2. CASE k = "StepOut"
    <3>0. Len(stack[v]) - 1 \in Nat BY <1>1
    <3>1. PICK n \in Nat : n = Len(stack[v]) - 1 BY <3>0
    <3>2. n + 1 \in DOMAIN stack[v] /\ Len(stack[v]) = n + 1 BY <1>1, <3>1
    <3>3. stack[v][n + 1] \in FrameSet BY <1>1, <3>2
    <3>4. PICK t \in Nat : t = stack[v][n + 1].tail BY <3>3 DEF FrameSet
    <3>5. 1 <= stack[v][n + 1].tail + 1 BY <3>4
    <3>6. Counts(stack[v], n, 1, lost'[v]) BY <1>1, <3>2, <3>5, CountsOne
    <3> QED BY <1>2, <1>4, <2>2, <3>1, <3>6 DEF Counted
  <2>3. CASE k \notin Counting BY <1>4, <2>3 DEF Counted
  <2> QED BY <2>1, <2>2, <2>3 DEF Counting
<1>6. FullStep(v)' BY <1>4 DEF FullStep, EndHook, InHook, Counting
<1> QED BY <1>3, <1>5, <1>6

\* States that come and go, lines and evaluations.
LEMMA OtherCounts ==
  ASSUME StepInv, NEW v \in VM,
         \/ \E s : AttachState(v, s)
         \/ CloseState(v) \/ Evaluate(v) \/ \E l : Line(v, l)
  PROVE  OthersStep(v) /\ FullStep(v)' /\ Counted(v)'
<1>0. TypeOK /\ FullStep(v) /\ Counted(v) BY DEF StepInv
<1>1. ASSUME NEW s, AttachState(v, s) PROVE OthersStep(v) /\ FullStep(v)' /\ Counted(v)'
  BY <1>0, <1>1
  DEF AttachState, OthersStep, FullStep, Counted, Counting, history, pause, TypeOK, StackOK, MachineOK
<1>2. CASE CloseState(v)
  <2>1. \A w \in VM \ {v} : lost'[w] = lost[w]
    BY <1>0, <1>2, Zenon DEF CloseState, Forget, TypeOK, HistoryOK
  <2> QED BY <1>0, <1>2, <2>1
      DEF CloseState, Forget, OthersStep, FullStep, Counted, Counting, TypeOK, StackOK, MachineOK,
          HistoryOK, PauseOK
<1>4. CASE Evaluate(v)
  <2>1. hook'[v] = "Full" /\ phase'[v] \notin InHook
    BY <1>0, <1>4 DEF Evaluate, TypeOK, MachineOK, InHook
  <2>2. FullStep(v)' BY <2>1 DEF FullStep, EndHook
  <2> QED BY <1>0, <1>4, <2>2 DEF Evaluate, OthersStep, Counted, history, pause, TypeOK, MachineOK
<1>5. ASSUME NEW l, Line(v, l) PROVE OthersStep(v) /\ FullStep(v)' /\ Counted(v)'
  <2>1. /\ UNCHANGED <<stack, mode, callCount, chosen, kept, lost, pausing>>
        /\ KeepFull(v) \/ UNCHANGED <<hook, inStack, missed>>
        /\ phase' = [phase EXCEPT ![v] = IF Stops(v, l) THEN "stopped" ELSE @] /\ phase[v] = "run"
    BY <1>5 DEF Line, LineHook, Running, history
  <2>2. phase'[v] \notin InHook /\ phase[v] \notin InHook /\ phase'[v] # "hook" /\ phase[v] # "hook"
    BY <1>0, <2>1 DEF TypeOK, StackOK, InHook
  <2>3. FullStep(v)'
    <3>1. CASE KeepFull(v)
      <4>1. hook'[v] = "Full" BY <1>0, <3>1 DEF KeepFull, TypeOK, MachineOK
      <4> QED BY <2>2, <4>1 DEF FullStep, EndHook
    <3>2. CASE UNCHANGED <<hook, inStack, missed>>
      BY <1>0, <2>1, <2>2, <3>2 DEF FullStep, EndHook, InForce
    <3> QED BY <2>1, <3>1, <3>2
  <2>4. Counted(v)' BY <1>0, <2>1 DEF Counted
  <2>5. OthersStep(v)
    BY <1>0, <2>1 DEF KeepFull, OthersStep, TypeOK, StackOK, MachineOK, PauseOK
  <2> QED BY <2>3, <2>4, <2>5
<1> QED BY <1>1, <1>2, <1>4, <1>5

\* The end of a hook, and a pause: neither comes to a state that counts and leaves it
\* counting without its events.
LEMMA PauseCounts ==
  ASSUME StepInv, NEW v \in VM,
         CheckMode(v) \/ SetHook(v) \/ BreakMode(v) \/ BreakHook(v)
  PROVE  OthersStep(v) /\ FullStep(v)' /\ Counted(v)'
<1>0. TypeOK /\ FullStep(v) /\ Counted(v) BY DEF StepInv
<1>1. CASE CheckMode(v)
  <2>1. /\ UNCHANGED <<stack, hook, mode, callCount, kept, lost, missed, pausing>>
        /\ phase[v] = "hook" /\ phase'[v] = "set"
        /\ mode[v] # "Continue" => chosen'[v] = "Full"
        /\ \A w \in VM \ {v} : phase'[w] = phase[w] /\ chosen'[w] = chosen[w]
    BY <1>0, <1>1 DEF CheckMode, machine, history, pause, TypeOK, StackOK, MachineOK
  <2>2. FullStep(v)' BY <1>0, <2>1 DEF FullStep, EndHook, InHook
  <2> QED BY <1>0, <2>1, <2>2 DEF OthersStep, Counted
<1>2. CASE SetHook(v)
  <2>1. /\ UNCHANGED <<stack, mode, callCount, kept, lost, missed, pausing>>
        /\ phase[v] = "set" /\ phase'[v] = "run" /\ hook'[v] = chosen[v]
        /\ \A w \in VM \ {v} : phase'[w] = phase[w] /\ chosen'[w] = chosen[w] /\ hook'[w] = hook[w]
    BY <1>0, <1>2 DEF SetHook, history, pause, TypeOK, StackOK, MachineOK
  <2>2. FullStep(v)' BY <1>0, <2>1 DEF FullStep, EndHook, InForce, InHook
  <2> QED BY <1>0, <2>1, <2>2 DEF OthersStep, Counted
<1>3. CASE BreakMode(v)
  <2>1. /\ UNCHANGED <<phase, stack, hook, callCount, chosen, missed>>
        /\ mode'[v] = "StepInto" /\ pausing' = {v} /\ pausing = {}
        /\ \A w \in VM \ {v} : mode'[w] = mode[w] /\ kept'[w] = kept[w]
    BY <1>0, <1>3 DEF BreakMode, Forget, TypeOK, MachineOK, HistoryOK
  <2>2. \A w \in VM \ {v} : lost'[w] = lost[w]
    BY <1>0, <1>3, Zenon DEF BreakMode, Forget, TypeOK, HistoryOK
  <2>3. FullStep(v)' /\ Counted(v)' BY <2>1 DEF FullStep, InForce, Counted, Counting
  <2> QED BY <2>1, <2>2, <2>3 DEF OthersStep
<1>4. CASE BreakHook(v)
  <2>1. /\ UNCHANGED <<phase, stack, mode, callCount, chosen, kept, lost>>
        /\ hook'[v] = "Full" /\ pausing' = pausing \ {v}
        /\ \A w \in VM \ {v} : hook'[w] = hook[w]
    BY <1>0, <1>4 DEF BreakHook, history, TypeOK, MachineOK
  <2>2. /\ missed'[v] <=> phase[v] = "set" /\ chosen[v] # "Full"
        /\ \A w \in VM \ {v} : missed'[w] = missed[w]
    BY <1>0, <1>4, Zenon DEF BreakHook, TypeOK, PauseOK
  <2>3. FullStep(v)' BY <1>0, <2>1, <2>2 DEF FullStep, EndHook, InForce, InHook
  <2> QED BY <1>0, <2>1, <2>2, <2>3 DEF OthersStep, Counted
<1> QED BY <1>1, <1>2, <1>3, <1>4

LEMMA StepKept ==
  ASSUME StepInv, [Next]_vars
  PROVE  StepInv'
<1>0. TypeOK /\ TypeOK' BY StepType DEF StepInv
<1>1. ASSUME NEW v \in VM, Program(v) PROVE StepInv'
  <2>1. CASE \E n \in 0 .. MaxDepth[v] - 1 : Throw(v, n)
    <3>1. PICK n \in 0 .. MaxDepth[v] - 1 : Throw(v, n) BY <2>1
    <3>2. n \in Nat BY <3>1
    <3> QED BY <1>0, <3>1, <3>2, ThrowCounts, StepOf
  <2>2. CASE Return(v) BY <1>0, <2>2, ReturnCounts, StepOf
  <2>3. CASE \E f \in Fn : Call(v, f) BY <1>0, <2>3, CallCounts, StepOf
  <2>4. CASE \E f \in Fn : TailCall(v, f) BY <1>0, <2>4, TailCallCounts, StepOf
  <2>5. CASE \/ AttachState(v, <<>>) \/ CloseState(v) \/ \E f \in Fn : AttachState(v, <<Frame(f)>>)
             \/ \E l \in UNION {Fun[f].body : f \in Fn} : Line(v, l)
    BY <1>0, <2>5, OtherCounts, StepOf
  <2>6. CASE CheckMode(v) \/ SetHook(v) BY <1>0, <2>6, PauseCounts, StepOf
  <2> QED BY <1>1, <2>1, <2>2, <2>3, <2>4, <2>5, <2>6 DEF Program
<1>2. ASSUME NEW v \in VM, User(v) PROVE StepInv'
  <2>1. CASE BreakMode(v) \/ BreakHook(v) BY <1>0, <2>1, PauseCounts, StepOf
  <2>2. CASE Evaluate(v) BY <1>0, <2>2, OtherCounts, StepOf
  <2>3. CASE \E k \in Stepping \cup {"Continue"} : Resume(v, k)
    BY <1>0, <2>3, ResumeCounts, StepOf
  <2> QED BY <1>2, <2>1, <2>2, <2>3 DEF User
<1>3. ASSUME NEW s \in Script, NEW b \in Lines(s), SetBreakpoint(s, b) \/ ClearBreakpoint(s, b)
      PROVE  StepInv'
  <2> SUFFICES ASSUME NEW v \in VM PROVE FullStep(v)' /\ Counted(v)'
    BY <1>0 DEF StepInv
  <2>1. FullStep(v) /\ Counted(v) BY DEF StepInv
  <2>2. /\ UNCHANGED <<phase, chosen, stack, mode, callCount, kept, lost, pausing>>
        /\ phase[v] \notin InHook /\ pausing = {}
    BY <1>3 DEF SetBreakpoint, ClearBreakpoint, Command, Unlocked, history, pause
  <2>3. \/ hook'[v] = "Full"
        \/ hook'[v] = hook[v] /\ (missed'[v] <=> missed[v])
    <3>1. CASE SetBreakpoint(s, b)
      <4>1. hook'[v] = IF v \in Attached THEN "Full" ELSE hook[v] BY <3>1 DEF SetBreakpoint
      <4>2. missed'[v] <=> missed[v] /\ v \notin Attached BY <3>1, Zenon DEF SetBreakpoint
      <4> QED BY <4>1, <4>2
    <3>2. CASE ClearBreakpoint(s, b) BY <3>2 DEF ClearBreakpoint, pause
    <3> QED BY <1>3, <3>1, <3>2
  <2>4. FullStep(v)' BY <2>1, <2>2, <2>3 DEF FullStep, EndHook, InForce
  <2> QED BY <2>1, <2>2, <2>4 DEF Counted
<1>4. CASE UNCHANGED vars
  <2> SUFFICES ASSUME NEW v \in VM PROVE FullStep(v)' /\ Counted(v)'
    BY <1>0 DEF StepInv
  <2>1. FullStep(v) /\ Counted(v) BY DEF StepInv
  <2>2. UNCHANGED <<stack, mode, callCount, kept, lost, hook, phase, chosen, missed, pausing>>
    BY <1>4 DEF vars, machine, history, pause
  <2> QED BY <2>1, <2>2 DEF FullStep, EndHook, InForce, Counted
<1> QED BY <1>1, <1>2, <1>3, <1>4 DEF Next

LEMMA StepInit == Init => StepInv
BY InitType DEF Init, StepInv, FullStep, Counted, Counting

\* Why a line stops that has no breakpoint.
LEMMA StepsEnd ==
  ASSUME StepInv, NEW v \in VM, NEW l \in NextLines(v)
  PROVE  /\ StepDue(v) /\ ~lost[v] /\ InForce(v) => Stops(v, l)
         /\ Stops(v, l) => StepDue(v) \/ HasLine(v, l)
<1>0. TypeOK /\ FullStep(v) /\ Counted(v) BY DEF StepInv
<1>1. /\ stack[v] \in Seq(FrameSet) /\ kept[v] \in Nat /\ callCount[v] \in Nat
  BY <1>0, StepParts
<1>2. mode[v] \in Counting => /\ Len(stack[v]) <= kept[v] /\ ~lost[v] => callCount[v] = 0
                              /\ callCount[v] = 0 => Len(stack[v]) <= kept[v]
  BY <1>0, <1>1, CountsDecide DEF Counted
<1>3. phase[v] = "run" BY DEF NextLines, Running
<1>4. mode[v] \in Counting \/ (mode[v] = "StepInto" /\ InForce(v)) => Seen(v, "line")
  BY <1>0, <1>3 DEF FullStep, EndHook, InHook, Seen, Mask
<1>5. StepDue(v) /\ ~lost[v] /\ InForce(v) => Stops(v, l)
  BY <1>2, <1>4 DEF StepDue, Stops
<1>6. l \in {b + 1 : b \in bps[Fun[Top(v).fn].script]} => HasLine(v, l)
  <2>1. stack[v] # <<>> BY DEF NextLines, Running
  <2>2. Top(v) \in FrameSet BY <1>0, <2>1, TopType DEF TypeOK
  <2>3. Fun[Top(v).fn].script \in Script BY <2>2 DEF FrameSet, Script
  <2>4. bps[Fun[Top(v).fn].script] \subseteq Nat BY <1>0, <2>3 DEF TypeOK, FlagsOK
  <2> QED BY <2>4 DEF HasLine
<1>7. Stops(v, l) => StepDue(v) \/ HasLine(v, l)
  BY <1>2, <1>6 DEF StepDue, Stops, Top
<1> QED BY <1>5, <1>7

\* DebugBackend.h:107 "Steps execution of a "broken" script by one line.  If the
\* current line is a function call, this will step over the function call": the next
\* line of a function that was on the stack when the step was given stops, as long
\* as every call that was counted had its return, whatever is called, recursively
\* or by a tail call, whatever errors are thrown and whichever states come and go;
\* and the next line after a pause stops, wherever in the hooks of the state its two
\* stores fall, unless the hook puts its mask over the pause in its last moment.
THEOREM StepsStop == Spec => []StepStops
<1>1. StepInv => StepStops BY StepsEnd DEF StepStops
<1> QED BY <1>1, StepInit, StepKept, PTL DEF Spec

\* And a step stops nowhere else than there and at a breakpoint, though returns were
\* lost (DebugBackend.cpp 817, 842-855).
THEOREM NothingElseStops == Spec => []StepsOverCalls
<1>1. StepInv => StepsOverCalls BY StepsEnd DEF StepsOverCalls
<1> QED BY <1>1, StepInit, StepKept, PTL DEF Spec

=============================================================================
