---------------------------- MODULE Backend_proofs ----------------------------
(***************************************************************************)
(* Theorems about Backend: type correctness, the ownership of the two      *)
(* critical sections, that at most one thread stops in an exception; that  *)
(* a stop is paid for by one resume, the command thread evaluates in       *)
(* stopped states only and no thread uses a virtual machine the backend    *)
(* does not know; and that the adapter has the breakpoints of the backend, *)
(* up to the toggles under way.                                            *)
(*                                                                         *)
(* Type correctness is proved one conjunct of TypeOK at a time: a group of *)
(* actions that leaves the variables of the conjunct alone is one leaf, an *)
(* action that changes them has a step of its own.                         *)
(*                                                                         *)
(* The theorems about stops hold together: that a resume finds its virtual *)
(* machine rests on its thread being stopped, which rests on the resumes   *)
(* before it, and an evaluation is safe because the resume of its stop is  *)
(* still behind it.                                                        *)
(***************************************************************************)
EXTENDS Backend, Counting, SequenceTheorems, TLAPS

USE BackendAssumption DEF Thread

-----------------------------------------------------------------------------
(* What the helpers of the model do to the types.                          *)

LEMMA BeginWork ==
  ASSUME WorkOK, NEW v \in VM, NEW k \in {"line", "call", "load", "failed"},
         NEW s \in Script, Begin(v, k, s)
  PROVE  WorkOK'
BY DEF WorkOK, Work, Begin

LEMMA FinishWork ==
  ASSUME WorkOK, NEW v \in VM, NEW l, Finish(v, l)
  PROVE  WorkOK'
BY DEF WorkOK, Work, Finish, NoWork

LEMMA GotoScript ==
  ASSUME PcOK, NEW v \in VM, NEW l \in ScriptPc, Goto(v, l)
  PROVE  PcOK'
BY DEF PcOK, Goto

LEMMA GotoCmd ==
  ASSUME PcOK, NEW l \in CmdPc, Goto(Cmd, l)
  PROVE  PcOK'
BY DEF PcOK, Goto

LEMMA NextCommandType ==
  ASSUME PcOK, CmdOK, NextCommand
  PROVE  PcOK' /\ CmdOK'
BY GotoCmd DEF NextCommand, NoCmd, Msg, CmdOK, Command, CommandType, ResumeKind, CmdPc

LEMMA EventMsg ==
  ASSUME NEW v \in VM, NEW ty \in EventType \ {"LoadScript"}
  PROVE  Msg(ty, v) \in Event
BY DEF Msg, Event

LEMMA EventMsgOn ==
  ASSUME NEW v \in VM, NEW s \in Script
  PROVE  MsgOn("LoadScript", v, s) \in Event
BY DEF MsgOn, Event, EventType

LEMMA EventSet == ASSUME NEW s \in Script PROVE MsgOn("SetBreakpoint", None, s) \in Event
BY DEF MsgOn, Event, EventType

LEMMA EventMessage == Msg("Message", None) \in Event
BY DEF Msg, Event, EventType

LEMMA CommandMsg ==
  ASSUME NEW v \in VM,
         NEW ty \in ResumeKind \cup {"Break", "Evaluate", "LoadDone"}
  PROVE  Msg(ty, v) \in Command
BY DEF Msg, Command, CommandType, ResumeKind

LEMMA CommandToggle == ASSUME NEW s \in Script PROVE MsgOn("Toggle", None, s) \in Command
BY DEF MsgOn, Command, CommandType, ResumeKind

LEMMA CommandDetach ==
  ASSUME NEW k \in {"DetachRun", "DetachKill"} PROVE Msg(k, None) \in Command
BY DEF Msg, Command, CommandType, ResumeKind

LEMMA SendNone == ASSUME PipesOK, Send(<<>>) PROVE evs' \in Seq(Event)
BY DEF PipesOK, Send

LEMMA SendOne ==
  ASSUME PipesOK, NEW e \in Event, Send(<<e>>)
  PROVE  evs' \in Seq(Event)
<1>1. <<e>> \in Seq(Event)
  OBVIOUS
<1> QED BY <1>1, ConcatProperties DEF PipesOK, Send

LEMMA SendTwo ==
  ASSUME PipesOK, NEW d \in Event, NEW e \in Event, Send(<<d, e>>)
  PROVE  evs' \in Seq(Event)
<1>1. <<d, e>> \in Seq(Event)
  OBVIOUS
<1> QED BY <1>1, ConcatProperties DEF PipesOK, Send

LEMMA AppendCommand ==
  ASSUME PipesOK, NEW c \in Command, cmds' = Append(cmds, c)
  PROVE  cmds' \in Seq(Command)
BY AppendProperties DEF PipesOK

LEMMA TailTail ==
  ASSUME NEW S, NEW s \in Seq(S), Len(s) > 1
  PROVE  Tail(Tail(s)) \in Seq(S)
<1> DEFINE r == Tail(s)
<1>1. s # <<>> /\ Len(s) \in Nat
  BY EmptySeq, LenProperties
<1>2. r \in Seq(S) /\ Len(r) = Len(s) - 1
  BY <1>1, HeadTailProperties
<1>3. Len(r) # 0
  BY <1>1, <1>2
<1> HIDE DEF r
<1>4. r # <<>>
  BY <1>3
<1>5. Tail(r) \in Seq(S)
  BY <1>2, <1>4, HeadTailProperties
<1> QED BY <1>5 DEF r

LEMMA FirstEvent ==
  ASSUME PipesOK, evs # <<>>
  PROVE  /\ Head(evs) \in Event /\ evs[1] \in Event /\ Head(evs) = evs[1]
         /\ Tail(evs) \in Seq(Event)
         /\ Len(evs) > 1 => Tail(Tail(evs)) \in Seq(Event)
<1>1. Tail(evs) \in Seq(Event) /\ Len(Tail(evs)) = Len(evs) - 1
  BY HeadTailProperties DEF PipesOK
<1> QED BY <1>1, TailTail, HeadTailProperties DEF PipesOK

LEMMA EvaluatedVm ==
  ASSUME TypeOK, NEW t \in Thread, t = Cmd => pc[t] \in {"eval"} \cup InError
  PROVE  StateOf(t) \in VM
BY DEF StateOf, TypeOK, BusyOK, CmdOK, Command

-----------------------------------------------------------------------------
(* Type correctness, conjunct by conjunct.                                 *)

LEMMA WorkStep == ASSUME TypeOK, Next PROVE WorkOK'
<1> USE DEF TypeOK, WorkOK
<1>1. ASSUME NEW v \in VM, Lifecycle(v) PROVE WorkOK'
  BY <1>1 DEF Lifecycle, NewState, AttachState, CloseState, DetachState
<1>2. ASSUME NEW v \in VM, Hook(v) PROVE WorkOK'
  <2>1. CASE HookEnter(v)
    BY <2>1, BeginWork DEF HookEnter
  <2>2. CASE HookStart(v)
    BY <2>2, FinishWork DEF HookStart
  <2>3. CASE HookCall(v)
    BY <2>3, FinishWork DEF HookCall
  <2>4. CASE HookLine(v)
    BY <2>4, FinishWork DEF HookLine
  <2>5. CASE \/ HookUnknown(v)
             \/ HookRegister(v)
             \/ HookLoaded(v)
             \/ HookReenter(v)
    BY <2>5 DEF HookUnknown, HookRegister, HookLoaded, HookReenter
  <2> QED BY <1>2, <2>1, <2>2, <2>3, <2>4, <2>5 DEF Hook
<1>3. ASSUME NEW v \in VM, Break(v) PROVE WorkOK'
  BY <1>3 DEF Break, BreakSend, BreakWake, BreakClear
<1>4. ASSUME NEW v \in VM, Load(v) PROVE WorkOK'
  <2>1. CASE LoadScript(v)
    BY <2>1, BeginWork DEF LoadScript
  <2>2. CASE LoadRegister(v)
    <3>1. CASE Finish(v, "run")
      BY <3>1, FinishWork
    <3>2. CASE work' = [work EXCEPT ![v].fresh = work[v].script \notin known]
      BY <3>2 DEF Work
    <3> QED BY <2>2, <3>1, <3>2 DEF LoadRegister
  <2>3. CASE LoadErrorWake(v)
    BY <2>3 DEF LoadErrorWake, Work, NoWork
  <2>4. CASE LoadWake(v)
    BY <2>4 DEF LoadWake, Work, NoWork
  <2>5. CASE LoadErrorEnter(v) \/ LoadErrorSend(v)
    BY <2>5 DEF LoadErrorEnter, LoadErrorSend
  <2> QED BY <1>4, <2>1, <2>2, <2>3, <2>4, <2>5 DEF Load
<1>5. ASSUME NEW t \in Thread, Error(t) PROVE WorkOK'
  BY <1>5 DEF Error, ErrorUnknown, ErrorHandler, ErrorMessage, ExceptionSend,
     ExceptionBreak, ExceptionWake
<1>6. CASE CmdThread
  BY <1>6 DEF CmdThread, CmdRead, CmdResume, CmdBreak, CmdToggle, CmdStray,
     CmdLoadDone, CmdEvaluate, CmdEvaluated, CmdDetach, CmdCleanup, CmdPipeClosed
<1>7. CASE Front
  BY <1>7 DEF Front, FrontCreateVM, FrontLoadScript, FrontBreak, FrontError,
     FrontEvaluateRet, FrontOther
<1>8. CASE User
  BY <1>8 DEF User, UserResume, UserPause, UserEvaluate, UserBreakpoint,
     UserDisconnect
<1> QED BY <1>1, <1>2, <1>3, <1>4, <1>5, <1>6, <1>7, <1>8 DEF Next

LEMMA PcStep == ASSUME TypeOK, Next PROVE PcOK'
<1> USE DEF TypeOK, ScriptPc, BreakWaits, LoadWaits, HoldsCs, InError, CmdPc
<1>1. ASSUME NEW v \in VM, Lifecycle(v) PROVE PcOK'
  <2>1. CASE NewState(v)
    BY <2>1, GotoScript DEF NewState
  <2>2. CASE AttachState(v)
    BY <2>2, GotoScript DEF AttachState
  <2>3. CASE CloseState(v)
    BY <2>3, GotoScript DEF CloseState
  <2>4. CASE DetachState(v)
    BY <2>4, GotoScript DEF DetachState
  <2> QED BY <1>1, <2>1, <2>2, <2>3, <2>4 DEF Lifecycle
<1>2. ASSUME NEW v \in VM, Hook(v) PROVE PcOK'
  <2>1. CASE HookEnter(v)
    BY <2>1, GotoScript DEF HookEnter
  <2>2. CASE HookStart(v)
    BY <2>2, GotoScript DEF HookStart, Finish
  <2>3. CASE HookUnknown(v)
    BY <2>3, GotoScript DEF HookUnknown
  <2>4. CASE HookRegister(v)
    BY <2>4, GotoScript DEF HookRegister
  <2>5. CASE HookLoaded(v)
    BY <2>5, GotoScript DEF HookLoaded, WaitForLoad
  <2>6. CASE HookReenter(v)
    BY <2>6, GotoScript DEF HookReenter
  <2>7. CASE HookCall(v)
    BY <2>7, GotoScript DEF HookCall, Finish
  <2>8. CASE HookLine(v)
    BY <2>8, GotoScript DEF HookLine, Finish
  <2> QED BY <1>2, <2>1, <2>2, <2>3, <2>4, <2>5, <2>6, <2>7, <2>8 DEF Hook
<1>3. ASSUME NEW v \in VM, Break(v) PROVE PcOK'
  <2>1. CASE BreakSend(v)
    BY <2>1, GotoScript DEF BreakSend
  <2>2. CASE BreakWake(v)
    BY <2>2, GotoScript DEF BreakWake, WaitForContinue
  <2>3. CASE BreakClear(v)
    BY <2>3, GotoScript DEF BreakClear
  <2> QED BY <1>3, <2>1, <2>2, <2>3 DEF Break
<1>4. ASSUME NEW v \in VM, Load(v) PROVE PcOK'
  <2>1. CASE LoadScript(v)
    BY <2>1, GotoScript DEF LoadScript
  <2>2. CASE LoadRegister(v)
    BY <2>2, GotoScript DEF LoadRegister, Finish
  <2>3. CASE LoadErrorEnter(v)
    BY <2>3, GotoScript DEF LoadErrorEnter
  <2>4. CASE LoadErrorSend(v)
    BY <2>4, GotoScript DEF LoadErrorSend
  <2>5. CASE LoadErrorWake(v)
    BY <2>5, GotoScript DEF LoadErrorWake, WaitForContinue
  <2>6. CASE LoadWake(v)
    BY <2>6, GotoScript DEF LoadWake, WaitForLoad
  <2> QED BY <1>4, <2>1, <2>2, <2>3, <2>4, <2>5, <2>6 DEF Load
<1>5. ASSUME NEW t \in Thread, Error(t) PROVE PcOK'
  <2>1. CASE ErrorUnknown(t)
    BY <2>1, GotoScript, GotoCmd DEF ErrorUnknown
  <2>2. CASE ErrorHandler(t)
    BY <2>2, GotoScript, GotoCmd DEF ErrorHandler
  <2>3. CASE ErrorMessage(t)
    BY <2>3 DEF ErrorMessage, PcOK
  <2>4. CASE ExceptionSend(t)
    BY <2>4, GotoScript, GotoCmd DEF ExceptionSend
  <2>5. CASE ExceptionBreak(t)
    BY <2>5, GotoScript, GotoCmd DEF ExceptionBreak
  <2>6. CASE ExceptionWake(t)
    BY <2>6, GotoScript, GotoCmd DEF ExceptionWake, WaitForContinue
  <2> QED BY <1>5, <2>1, <2>2, <2>3, <2>4, <2>5, <2>6 DEF Error
<1>6. CASE CmdThread
  <2>1. CASE CmdRead
    BY <2>1, GotoCmd DEF CmdRead
  <2>2. CASE CmdResume
    BY <2>2, NextCommandType DEF CmdResume
  <2>3. CASE CmdBreak
    BY <2>3, NextCommandType DEF CmdBreak
  <2>4. CASE CmdToggle
    BY <2>4, NextCommandType DEF CmdToggle
  <2>5. CASE CmdStray
    BY <2>5, GotoCmd DEF CmdStray
  <2>6. CASE CmdLoadDone
    BY <2>6, NextCommandType DEF CmdLoadDone
  <2>7. CASE CmdEvaluate
    BY <2>7, GotoCmd, NextCommandType DEF CmdEvaluate
  <2>8. CASE CmdEvaluated
    BY <2>8, NextCommandType DEF CmdEvaluated
  <2>9. CASE CmdDetach
    BY <2>9, GotoCmd DEF CmdDetach
  <2>10. CASE CmdCleanup
    BY <2>10, GotoCmd DEF CmdCleanup
  <2>11. CASE CmdPipeClosed
    BY <2>11, GotoCmd DEF CmdPipeClosed
  <2> QED BY <1>6, <2>1, <2>2, <2>3, <2>4, <2>5, <2>6, <2>7, <2>8, <2>9, <2>10, <2>11 DEF CmdThread
<1>7. CASE Front
  BY <1>7 DEF Front, FrontCreateVM, FrontLoadScript, FrontBreak, FrontError,
     FrontEvaluateRet, FrontOther, PcOK
<1>8. CASE User
  BY <1>8 DEF User, UserResume, UserPause, UserEvaluate, UserBreakpoint,
     UserDisconnect, PcOK
<1> QED BY <1>1, <1>2, <1>3, <1>4, <1>5, <1>6, <1>7, <1>8 DEF Next

LEMMA CmdStep == ASSUME TypeOK, Next PROVE CmdOK'
<1> USE DEF TypeOK, CmdOK
<1>1. ASSUME NEW v \in VM, Lifecycle(v) PROVE CmdOK'
  BY <1>1 DEF Lifecycle, NewState, AttachState, CloseState, DetachState
<1>2. ASSUME NEW v \in VM, Hook(v) PROVE CmdOK'
  BY <1>2 DEF Hook, HookEnter, HookStart, HookUnknown, HookRegister, HookLoaded,
     HookReenter, HookCall, HookLine
<1>3. ASSUME NEW v \in VM, Break(v) PROVE CmdOK'
  BY <1>3 DEF Break, BreakSend, BreakWake, BreakClear
<1>4. ASSUME NEW v \in VM, Load(v) PROVE CmdOK'
  BY <1>4 DEF Load, LoadScript, LoadRegister, LoadErrorEnter, LoadErrorSend,
     LoadErrorWake, LoadWake
<1>5. ASSUME NEW t \in Thread, Error(t) PROVE CmdOK'
  BY <1>5 DEF Error, ErrorUnknown, ErrorHandler, ErrorMessage, ExceptionSend,
     ExceptionBreak, ExceptionWake
<1>6. CASE CmdThread
  <2>1. CASE CmdRead
    BY <2>1 DEF CmdRead, PipesOK
  <2>2. CASE CmdResume
    BY <2>2, NextCommandType DEF CmdResume
  <2>3. CASE CmdBreak
    BY <2>3, NextCommandType DEF CmdBreak
  <2>4. CASE CmdToggle
    BY <2>4, NextCommandType DEF CmdToggle
  <2>5. CASE CmdLoadDone
    BY <2>5, NextCommandType DEF CmdLoadDone
  <2>6. CASE CmdEvaluate
    BY <2>6, NextCommandType DEF CmdEvaluate
  <2>7. CASE CmdEvaluated
    BY <2>7, NextCommandType DEF CmdEvaluated
  <2>8. CASE CmdDetach
    BY <2>8 DEF CmdDetach, NoCmd, Msg, Command, CommandType, ResumeKind
  <2>9. CASE CmdStray \/ CmdCleanup \/ CmdPipeClosed
    BY <2>9 DEF CmdStray, CmdCleanup, CmdPipeClosed
  <2> QED BY <1>6, <2>1, <2>2, <2>3, <2>4, <2>5, <2>6, <2>7, <2>8, <2>9 DEF CmdThread
<1>7. CASE Front
  BY <1>7 DEF Front, FrontCreateVM, FrontLoadScript, FrontBreak, FrontError,
     FrontEvaluateRet, FrontOther
<1>8. CASE User
  BY <1>8 DEF User, UserResume, UserPause, UserEvaluate, UserBreakpoint,
     UserDisconnect
<1> QED BY <1>1, <1>2, <1>3, <1>4, <1>5, <1>6, <1>7, <1>8 DEF Next

LEMMA BackendStep == ASSUME TypeOK, Next PROVE BackendOK'
<1> USE DEF TypeOK, BackendOK, backend
<1>1. ASSUME NEW v \in VM, Lifecycle(v) PROVE BackendOK'
  <2>1. CASE AttachState(v)
    BY <2>1 DEF AttachState, Mode, ResumeKind
  <2>2. CASE CloseState(v)
    BY <2>2 DEF CloseState
  <2>3. CASE DetachState(v)
    BY <2>3 DEF DetachState
  <2>4. CASE NewState(v)
    BY <2>4 DEF NewState
  <2> QED BY <1>1, <2>1, <2>2, <2>3, <2>4 DEF Lifecycle
<1>2. ASSUME NEW v \in VM, Hook(v) PROVE BackendOK'
  <2>1. CASE HookRegister(v)
    BY <2>1 DEF HookRegister, BusyOK, AtWork
  <2>2. CASE \/ HookEnter(v)
             \/ HookStart(v)
             \/ HookUnknown(v)
             \/ HookLoaded(v)
             \/ HookReenter(v)
             \/ HookCall(v)
             \/ HookLine(v)
    BY <2>2 DEF HookEnter, HookStart, HookUnknown, HookLoaded, HookReenter,
       HookCall, HookLine
  <2> QED BY <1>2, <2>1, <2>2 DEF Hook
<1>3. ASSUME NEW v \in VM, Break(v) PROVE BackendOK'
  BY <1>3 DEF Break, BreakSend, BreakWake, BreakClear
<1>4. ASSUME NEW v \in VM, Load(v) PROVE BackendOK'
  <2>1. CASE LoadRegister(v)
    BY <2>1 DEF LoadRegister, BusyOK, AtWork
  <2>2. CASE \/ LoadScript(v)
             \/ LoadErrorEnter(v)
             \/ LoadErrorSend(v)
             \/ LoadErrorWake(v)
             \/ LoadWake(v)
    BY <2>2 DEF LoadScript, LoadErrorEnter, LoadErrorSend, LoadErrorWake, LoadWake
  <2> QED BY <1>4, <2>1, <2>2 DEF Load
<1>5. ASSUME NEW t \in Thread, Error(t) PROVE BackendOK'
  BY <1>5 DEF Error, ErrorUnknown, ErrorHandler, ErrorMessage, ExceptionSend,
     ExceptionBreak, ExceptionWake
<1>6. CASE CmdThread
  <2>1. CASE CmdResume
    BY <2>1 DEF CmdResume, Executing, HookAll, Usable, Mode, ResumeKind
  <2>2. CASE CmdBreak
    BY <2>2 DEF CmdBreak, Executing, HookAll, Usable, Mode, ResumeKind
  <2>3. CASE CmdToggle
    BY <2>3 DEF CmdToggle, Executing, HookAll, CmdOK, Command
  <2>4. CASE CmdDetach
    BY <2>4 DEF CmdDetach, Unhook
  <2>5. CASE \/ CmdRead
             \/ CmdStray
             \/ CmdLoadDone
             \/ CmdEvaluate
             \/ CmdEvaluated
             \/ CmdCleanup
             \/ CmdPipeClosed
    BY <2>5 DEF CmdRead, CmdStray, CmdLoadDone, CmdEvaluate, CmdEvaluated,
       CmdCleanup, CmdPipeClosed
  <2> QED BY <1>6, <2>1, <2>2, <2>3, <2>4, <2>5 DEF CmdThread
<1>7. CASE Front
  BY <1>7 DEF Front, FrontCreateVM, FrontLoadScript, FrontBreak, FrontError,
     FrontEvaluateRet, FrontOther
<1>8. CASE User
  BY <1>8 DEF User, UserResume, UserPause, UserEvaluate, UserBreakpoint,
     UserDisconnect
<1> QED BY <1>1, <1>2, <1>3, <1>4, <1>5, <1>6, <1>7, <1>8 DEF Next

LEMMA SignalsStep == ASSUME TypeOK, Next PROVE SignalsOK'
<1> USE DEF TypeOK, SignalsOK, signals, WaitForContinue, WaitForLoad, StateOf
<1>1. ASSUME NEW v \in VM, Lifecycle(v) PROVE SignalsOK'
  <2>1. CASE AttachState(v)
    BY <2>1 DEF AttachState
  <2>2. CASE NewState(v) \/ CloseState(v) \/ DetachState(v)
    BY <2>2 DEF NewState, CloseState, DetachState
  <2> QED BY <1>1, <2>1, <2>2 DEF Lifecycle
<1>2. ASSUME NEW v \in VM, Hook(v) PROVE SignalsOK'
  BY <1>2 DEF Hook, HookEnter, HookStart, HookUnknown, HookRegister, HookLoaded,
     HookReenter, HookCall, HookLine
<1>3. ASSUME NEW v \in VM, Break(v) PROVE SignalsOK'
  BY <1>3 DEF Break, BreakSend, BreakWake, BreakClear
<1>4. ASSUME NEW v \in VM, Load(v) PROVE SignalsOK'
  BY <1>4 DEF Load, LoadScript, LoadRegister, LoadErrorEnter, LoadErrorSend,
     LoadErrorWake, LoadWake
<1>5. ASSUME NEW t \in Thread, Error(t) PROVE SignalsOK'
  BY <1>5 DEF Error, ErrorUnknown, ErrorHandler, ErrorMessage, ExceptionSend,
     ExceptionBreak, ExceptionWake
<1>6. CASE CmdThread
  BY <1>6 DEF CmdThread, CmdRead, CmdResume, CmdBreak, CmdToggle, CmdStray,
     CmdLoadDone, CmdEvaluate, CmdEvaluated, CmdDetach, CmdCleanup, CmdPipeClosed
<1>7. CASE Front
  BY <1>7 DEF Front, FrontCreateVM, FrontLoadScript, FrontBreak, FrontError,
     FrontEvaluateRet, FrontOther
<1>8. CASE User
  BY <1>8 DEF User, UserResume, UserPause, UserEvaluate, UserBreakpoint,
     UserDisconnect
<1> QED BY <1>1, <1>2, <1>3, <1>4, <1>5, <1>6, <1>7, <1>8 DEF Next

LEMMA PipesStep == ASSUME TypeOK, Next PROVE PipesOK'
<1> USE DEF TypeOK, PipesOK
<1>1. ASSUME NEW v \in VM, Lifecycle(v) PROVE PipesOK'
  <2>1. CASE AttachState(v)
    BY <2>1, SendOne, EventMsg DEF AttachState, EventType
  <2>2. CASE DetachState(v)
    BY <2>2, SendOne, SendNone, EventMsg DEF DetachState, EventType
  <2>3. CASE NewState(v) \/ CloseState(v)
    BY <2>3 DEF NewState, CloseState
  <2> QED BY <1>1, <2>1, <2>2, <2>3 DEF Lifecycle
<1>2. ASSUME NEW v \in VM, Hook(v) PROVE PipesOK'
  <2>1. CASE HookRegister(v)
    BY <2>1, SendOne, EventMsgOn DEF HookRegister, BusyOK, AtWork
  <2>2. CASE \/ HookEnter(v)
             \/ HookStart(v)
             \/ HookUnknown(v)
             \/ HookLoaded(v)
             \/ HookReenter(v)
             \/ HookCall(v)
             \/ HookLine(v)
    BY <2>2 DEF HookEnter, HookStart, HookUnknown, HookLoaded, HookReenter,
       HookCall, HookLine
  <2> QED BY <1>2, <2>1, <2>2 DEF Hook
<1>3. ASSUME NEW v \in VM, Break(v) PROVE PipesOK'
  <2>1. CASE BreakSend(v)
    BY <2>1, SendOne, EventMsg DEF BreakSend, EventType
  <2>2. CASE BreakWake(v) \/ BreakClear(v)
    BY <2>2 DEF BreakWake, BreakClear
  <2> QED BY <1>3, <2>1, <2>2 DEF Break
<1>4. ASSUME NEW v \in VM, Load(v) PROVE PipesOK'
  <2>1. CASE LoadRegister(v)
    BY <2>1, SendOne, SendNone, EventMsgOn DEF LoadRegister, BusyOK, AtWork
  <2>2. CASE LoadErrorSend(v)
    BY <2>2, SendTwo, EventMsg DEF LoadErrorSend, EventType
  <2>3. CASE \/ LoadScript(v)
             \/ LoadErrorEnter(v)
             \/ LoadErrorWake(v)
             \/ LoadWake(v)
    BY <2>3 DEF LoadScript, LoadErrorEnter, LoadErrorWake, LoadWake
  <2> QED BY <1>4, <2>1, <2>2, <2>3 DEF Load
<1>5. ASSUME NEW t \in Thread, Error(t) PROVE PipesOK'
  <2>1. CASE ErrorMessage(t)
    BY <2>1, SendOne, EventMessage DEF ErrorMessage
  <2>2. CASE ExceptionSend(t)
    <3>1. Msg("Exception", StateOf(t)) \in Event
      BY <2>2, EvaluatedVm, EventMsg DEF ExceptionSend, InError, EventType
    <3> QED BY <2>2, <3>1, SendOne DEF ExceptionSend
  <2>3. CASE ExceptionBreak(t)
    <3>1. Msg("Break", StateOf(t)) \in Event
      BY <2>3, EvaluatedVm, EventMsg DEF ExceptionBreak, InError, EventType
    <3> QED BY <2>3, <3>1, SendOne DEF ExceptionBreak
  <2>4. CASE ErrorUnknown(t) \/ ErrorHandler(t) \/ ExceptionWake(t)
    BY <2>4 DEF ErrorUnknown, ErrorHandler, ExceptionWake
  <2> QED BY <1>5, <2>1, <2>2, <2>3, <2>4 DEF Error
<1>6. CASE CmdThread
  <2>1. CASE CmdRead
    BY <2>1, HeadTailProperties DEF CmdRead
  <2>2. CASE CmdToggle
    BY <2>2, SendOne, EventSet DEF CmdToggle, Executing, CmdOK, Command
  <2>3. CASE CmdEvaluate
    <3>1. Msg("EvaluateRet", cmd.vm) \in Event
      BY <2>3, EventMsg DEF CmdEvaluate, Executing, BusyOK, CmdOK, Command, EventType
    <3> QED BY <2>3, <3>1, SendOne DEF CmdEvaluate
  <2>4. CASE CmdEvaluated
    <3>1. Msg("EvaluateRet", cmd.vm) \in Event
      BY <2>4, EventMsg DEF CmdEvaluated, Executing, BusyOK, CmdOK, Command, EventType
    <3> QED BY <2>4, <3>1, SendOne DEF CmdEvaluated
  <2>5. CASE \/ CmdResume
             \/ CmdBreak
             \/ CmdStray
             \/ CmdLoadDone
             \/ CmdDetach
             \/ CmdCleanup
             \/ CmdPipeClosed
    BY <2>5 DEF CmdResume, CmdBreak, CmdStray, CmdLoadDone, CmdDetach, CmdCleanup,
       CmdPipeClosed
  <2> QED BY <1>6, <2>1, <2>2, <2>3, <2>4, <2>5 DEF CmdThread
<1>7. CASE Front
  <2>1. CASE FrontCreateVM
    BY <2>1, FirstEvent DEF FrontCreateVM, FrontEvent
  <2>2. CASE FrontLoadScript
    <3> DEFINE e == Head(evs)
    <3>1. e \in Event /\ e.vm \in VM /\ e.script \in Script
      BY <2>2, FirstEvent DEF FrontLoadScript, FrontEvent, Event
    <3>2. /\ <<Msg("LoadDone", e.vm)>> \in Seq(Command)
          /\ <<MsgOn("Toggle", None, e.script)>> \in Seq(Command)
      BY <3>1, CommandMsg, CommandToggle
    <3>3. cmds' \in Seq(Command)
      BY <2>2, <3>2, ConcatProperties DEF FrontLoadScript
    <3> QED BY <2>2, <3>3, FirstEvent DEF FrontLoadScript, FrontEvent
  <2>3. CASE FrontBreak
    <3> DEFINE w == Head(evs).vm
    <3>1. w \in VM /\ evs[1].vm = w /\ PipesOK /\ evs # <<>>
      BY <2>3, FirstEvent DEF FrontBreak, FrontEvent, Event
    <3>2. Msg("Continue", w) \in Command /\ Msg("Evaluate", w) \in Command
      BY <3>1, CommandMsg DEF ResumeKind
    <3>3. cmds' \in Seq(Command)
      BY <2>3, <3>1, <3>2, AppendCommand DEF FrontBreak, Decide, AskFirst
    <3>4. evs' \in Seq(Event)
      BY <2>3, <3>1, FirstEvent DEF FrontBreak
    <3> QED BY <3>3, <3>4
  <2>4. CASE FrontError
    <3> DEFINE w == Head(evs).vm
    <3>1. w \in VM /\ evs[1].vm = w /\ PipesOK /\ evs # <<>>
      BY <2>4, FirstEvent DEF FrontError, FrontEvent, Event
    <3>2. Msg("Continue", w) \in Command /\ Msg("Evaluate", w) \in Command
      BY <3>1, CommandMsg DEF ResumeKind
    <3>3. cmds' \in Seq(Command)
      BY <2>4, <3>1, <3>2, AppendCommand DEF FrontError, Decide
    <3>4. evs' \in Seq(Event)
      BY <2>4, <3>1, FirstEvent DEF FrontError
    <3> QED BY <3>3, <3>4
  <2>5. CASE FrontEvaluateRet
    <3> DEFINE w == Head(evs).vm
    <3>1. w \in VM /\ evs[1].vm = w /\ PipesOK /\ evs # <<>>
      BY <2>5, FirstEvent DEF FrontEvaluateRet, FrontEvent, Event
    <3>2. Msg("Continue", w) \in Command /\ Msg("Evaluate", w) \in Command
      BY <3>1, CommandMsg DEF ResumeKind
    <3>3. cmds' \in Seq(Command)
      BY <2>5, <3>1, <3>2, AppendCommand DEF FrontEvaluateRet, Decide, AskFirst
    <3>4. evs' \in Seq(Event)
      BY <2>5, <3>1, FirstEvent DEF FrontEvaluateRet
    <3> QED BY <3>3, <3>4
  <2>6. CASE FrontOther
    BY <2>6, FirstEvent DEF FrontOther, FrontEvent
  <2> QED BY <1>7, <2>1, <2>2, <2>3, <2>4, <2>5, <2>6 DEF Front
<1>8. CASE User
  <2>1. ASSUME NEW v \in VM, UserResume(v) PROVE PipesOK'
    BY <2>1, CommandMsg, AppendCommand DEF UserResume
  <2>2. ASSUME NEW v \in VM, UserPause(v) PROVE PipesOK'
    BY <2>2, CommandMsg, AppendCommand DEF UserPause
  <2>3. ASSUME NEW v \in VM, UserEvaluate(v) PROVE PipesOK'
    BY <2>3, CommandMsg, AppendCommand DEF UserEvaluate
  <2>4. ASSUME NEW s \in Script, UserBreakpoint(s) PROVE PipesOK'
    BY <2>4, CommandToggle, AppendCommand DEF UserBreakpoint
  <2>5. CASE UserDisconnect
    BY <2>5, CommandDetach, AppendCommand DEF UserDisconnect
  <2> QED BY <1>8, <2>1, <2>2, <2>3, <2>4, <2>5 DEF User
<1> QED BY <1>1, <1>2, <1>3, <1>4, <1>5, <1>6, <1>7, <1>8 DEF Next

LEMMA AdapterStep == ASSUME TypeOK, Next PROVE AdapterOK'
<1> USE DEF TypeOK, AdapterOK, adapter
<1>1. ASSUME NEW v \in VM, Lifecycle(v) PROVE AdapterOK'
  BY <1>1 DEF Lifecycle, NewState, AttachState, CloseState, DetachState
<1>2. ASSUME NEW v \in VM, Hook(v) PROVE AdapterOK'
  BY <1>2 DEF Hook, HookEnter, HookStart, HookUnknown, HookRegister, HookLoaded,
     HookReenter, HookCall, HookLine
<1>3. ASSUME NEW v \in VM, Break(v) PROVE AdapterOK'
  BY <1>3 DEF Break, BreakSend, BreakWake, BreakClear
<1>4. ASSUME NEW v \in VM, Load(v) PROVE AdapterOK'
  BY <1>4 DEF Load, LoadScript, LoadRegister, LoadErrorEnter, LoadErrorSend,
     LoadErrorWake, LoadWake
<1>5. ASSUME NEW t \in Thread, Error(t) PROVE AdapterOK'
  BY <1>5 DEF Error, ErrorUnknown, ErrorHandler, ErrorMessage, ExceptionSend,
     ExceptionBreak, ExceptionWake
<1>6. CASE CmdThread
  BY <1>6 DEF CmdThread, CmdRead, CmdResume, CmdBreak, CmdToggle, CmdStray,
     CmdLoadDone, CmdEvaluate, CmdEvaluated, CmdDetach, CmdCleanup, CmdPipeClosed
<1>7. CASE Front
  <2>1. CASE FrontCreateVM
    BY <2>1, FirstEvent DEF FrontCreateVM, FrontEvent, Event
  <2>2. CASE FrontLoadScript
    BY <2>2, FirstEvent DEF FrontLoadScript, FrontEvent, Event
  <2>3. CASE FrontBreak
    BY <2>3, FirstEvent DEF FrontBreak, FrontEvent, Event, Decide, AskFirst
  <2>4. CASE FrontError
    BY <2>4, FirstEvent DEF FrontError, FrontEvent, Event, Decide
  <2>5. CASE FrontEvaluateRet
    BY <2>5, FirstEvent DEF FrontEvaluateRet, FrontEvent, Event, Decide, AskFirst
  <2>6. CASE FrontOther
    BY <2>6 DEF FrontOther
  <2> QED BY <1>7, <2>1, <2>2, <2>3, <2>4, <2>5, <2>6 DEF Front
<1>8. CASE User
  BY <1>8 DEF User, UserResume, UserPause, UserEvaluate, UserBreakpoint,
     UserDisconnect
<1> QED BY <1>1, <1>2, <1>3, <1>4, <1>5, <1>6, <1>7, <1>8 DEF Next

LEMMA BusyStep == ASSUME TypeOK, Next PROVE BusyOK'
<1> USE DEF TypeOK, BusyOK, AtWork, InError
<1>1. ASSUME NEW v \in VM, Lifecycle(v) PROVE BusyOK'
  <2>1. CASE NewState(v)
    BY <2>1 DEF NewState, Goto, PcOK
  <2>2. CASE AttachState(v)
    BY <2>2 DEF AttachState, Goto, PcOK
  <2>3. CASE CloseState(v)
    BY <2>3 DEF CloseState, Goto, PcOK
  <2>4. CASE DetachState(v)
    BY <2>4 DEF DetachState, Goto, PcOK
  <2> QED BY <1>1, <2>1, <2>2, <2>3, <2>4 DEF Lifecycle
<1>2. ASSUME NEW v \in VM, Hook(v) PROVE BusyOK'
  <2>1. CASE HookEnter(v)
    BY <2>1 DEF HookEnter, Goto, PcOK, Begin, WorkOK, Work
  <2>2. CASE HookStart(v)
    BY <2>2 DEF HookStart, Goto, PcOK, Finish, WorkOK, Work
  <2>3. CASE HookUnknown(v)
    BY <2>3 DEF HookUnknown, Goto, PcOK
  <2>4. CASE HookRegister(v)
    BY <2>4 DEF HookRegister, Goto, PcOK
  <2>5. CASE HookLoaded(v)
    BY <2>5 DEF HookLoaded, Goto, PcOK, WaitForLoad
  <2>6. CASE HookReenter(v)
    BY <2>6 DEF HookReenter, Goto, PcOK
  <2>7. CASE HookCall(v)
    BY <2>7 DEF HookCall, Goto, PcOK, Finish, WorkOK, Work
  <2>8. CASE HookLine(v)
    BY <2>8 DEF HookLine, Goto, PcOK, Finish, WorkOK, Work
  <2> QED BY <1>2, <2>1, <2>2, <2>3, <2>4, <2>5, <2>6, <2>7, <2>8 DEF Hook
<1>3. ASSUME NEW v \in VM, Break(v) PROVE BusyOK'
  <2>1. CASE BreakSend(v)
    BY <2>1 DEF BreakSend, Goto, PcOK
  <2>2. CASE BreakWake(v)
    BY <2>2 DEF BreakWake, Goto, PcOK, WaitForContinue, StateOf
  <2>3. CASE BreakClear(v)
    BY <2>3 DEF BreakClear, Goto, PcOK
  <2> QED BY <1>3, <2>1, <2>2, <2>3 DEF Break
<1>4. ASSUME NEW v \in VM, Load(v) PROVE BusyOK'
  <2>1. CASE LoadScript(v)
    BY <2>1 DEF LoadScript, Goto, PcOK, Begin, WorkOK, Work
  <2>2. CASE LoadRegister(v)
    BY <2>2 DEF LoadRegister, Goto, PcOK, Finish, WorkOK, Work
  <2>3. CASE LoadErrorEnter(v)
    BY <2>3 DEF LoadErrorEnter, Goto, PcOK
  <2>4. CASE LoadErrorSend(v)
    BY <2>4 DEF LoadErrorSend, Goto, PcOK
  <2>5. CASE LoadErrorWake(v)
    BY <2>5 DEF LoadErrorWake, Goto, PcOK, WaitForContinue, StateOf, WorkOK
  <2>6. CASE LoadWake(v)
    BY <2>6 DEF LoadWake, Goto, PcOK, WaitForLoad, WorkOK
  <2> QED BY <1>4, <2>1, <2>2, <2>3, <2>4, <2>5, <2>6 DEF Load
<1>5. ASSUME NEW t \in Thread, Error(t) PROVE BusyOK'
  <2>1. CASE ErrorUnknown(t)
    BY <2>1 DEF ErrorUnknown, Goto, PcOK, Raising
  <2>2. CASE ErrorHandler(t)
    BY <2>2 DEF ErrorHandler, Goto, PcOK, Raising
  <2>3. CASE ExceptionSend(t)
    BY <2>3 DEF ExceptionSend, Goto, PcOK
  <2>4. CASE ExceptionBreak(t)
    BY <2>4 DEF ExceptionBreak, Goto, PcOK
  <2>5. CASE ExceptionWake(t)
    BY <2>5 DEF ExceptionWake, Goto, PcOK, WaitForContinue
  <2>6. CASE ErrorMessage(t)
    BY <2>6 DEF ErrorMessage
  <2> QED BY <1>5, <2>1, <2>2, <2>3, <2>4, <2>5, <2>6 DEF Error
<1>6. CASE CmdThread
  <2>1. CASE CmdRead
    BY <2>1 DEF CmdRead, Goto, PcOK
  <2>2. CASE CmdResume
    BY <2>2 DEF CmdResume, Goto, PcOK, NextCommand
  <2>3. CASE CmdBreak
    BY <2>3 DEF CmdBreak, Goto, PcOK, NextCommand
  <2>4. CASE CmdToggle
    BY <2>4 DEF CmdToggle, Goto, PcOK, NextCommand
  <2>5. CASE CmdStray
    BY <2>5 DEF CmdStray, Goto, PcOK
  <2>6. CASE CmdLoadDone
    BY <2>6 DEF CmdLoadDone, Goto, PcOK, NextCommand
  <2>7. CASE CmdEvaluate
    BY <2>7 DEF CmdEvaluate, Goto, PcOK, NextCommand, Executing
  <2>8. CASE CmdEvaluated
    BY <2>8 DEF CmdEvaluated, Goto, PcOK, NextCommand
  <2>9. CASE CmdDetach
    BY <2>9 DEF CmdDetach, Goto, PcOK
  <2>10. CASE CmdCleanup
    BY <2>10 DEF CmdCleanup, Goto, PcOK
  <2>11. CASE CmdPipeClosed
    BY <2>11 DEF CmdPipeClosed, Goto, PcOK
  <2> QED BY <1>6, <2>1, <2>2, <2>3, <2>4, <2>5, <2>6, <2>7, <2>8, <2>9, <2>10, <2>11 DEF CmdThread
<1>7. CASE Front
  BY <1>7 DEF Front, FrontCreateVM, FrontLoadScript, FrontBreak, FrontError,
     FrontEvaluateRet, FrontOther
<1>8. CASE User
  BY <1>8 DEF User, UserResume, UserPause, UserEvaluate, UserBreakpoint,
     UserDisconnect
<1> QED BY <1>1, <1>2, <1>3, <1>4, <1>5, <1>6, <1>7, <1>8 DEF Next

-----------------------------------------------------------------------------
\* Every variable keeps its type, for any number of virtual machines and scripts:
\* no thread leaves its own code, no command or event names a virtual machine or
\* a script that does not exist (DebugBackend.cpp, worker.lua).
THEOREM TypeCorrect == Spec => []TypeOK
<1>1. Init => TypeOK
  <2> SUFFICES ASSUME Init PROVE TypeOK
    OBVIOUS
  <2> USE DEF Init
  <2>1. PcOK /\ BusyOK
    BY DEF PcOK, BusyOK, ScriptPc, CmdPc, BreakWaits, LoadWaits, HoldsCs, InError, AtWork
  <2>2. WorkOK /\ SignalsOK /\ AdapterOK
    BY DEF WorkOK, Work, NoWork, SignalsOK, AdapterOK
  <2>3. CmdOK
    BY DEF CmdOK, Command, CommandType, ResumeKind, NoCmd, Msg
  <2>4. BackendOK
    BY DEF BackendOK, Mode, ResumeKind
  <2>5. PipesOK
    BY DEF PipesOK
  <2> QED BY <2>1, <2>2, <2>3, <2>4, <2>5 DEF TypeOK
<1>2. TypeOK /\ [Next]_vars => TypeOK'
  <2>1. ASSUME TypeOK, Next PROVE TypeOK'
    BY <2>1, WorkStep, PcStep, CmdStep, BackendStep, SignalsStep, PipesStep, AdapterStep,
       BusyStep DEF TypeOK
  <2>2. ASSUME TypeOK, UNCHANGED vars PROVE TypeOK'
    BY <2>2 DEF TypeOK, vars, backend, signals, adapter, PcOK, WorkOK, CmdOK, BackendOK,
       SignalsOK, PipesOK, AdapterOK, BusyOK
  <2> QED BY <2>1, <2>2
<1> QED BY <1>1, <1>2, PTL DEF Spec

-----------------------------------------------------------------------------
(* The critical sections.                                                  *)

LEMMA LockStep == ASSUME TypeOK, LockOwnership, Next PROVE LockOwnership'
<1> USE DEF TypeOK, LockOwnership, PcOK, BackendOK, backend, Goto, HoldsCs, InError
<1>1. ASSUME NEW v \in VM, Lifecycle(v) PROVE LockOwnership'
  <2>1. CASE NewState(v)
    BY <2>1 DEF NewState
  <2>2. CASE AttachState(v)
    BY <2>2 DEF AttachState
  <2>3. CASE CloseState(v)
    BY <2>3 DEF CloseState
  <2>4. CASE DetachState(v)
    BY <2>4 DEF DetachState
  <2> QED BY <1>1, <2>1, <2>2, <2>3, <2>4 DEF Lifecycle
<1>2. ASSUME NEW v \in VM, Hook(v) PROVE LockOwnership'
  <2>1. CASE HookEnter(v)
    BY <2>1 DEF HookEnter
  <2>2. CASE HookStart(v)
    BY <2>2 DEF HookStart, Finish
  <2>3. CASE HookUnknown(v)
    BY <2>3 DEF HookUnknown
  <2>4. CASE HookRegister(v)
    BY <2>4 DEF HookRegister
  <2>5. CASE HookLoaded(v)
    BY <2>5 DEF HookLoaded, WaitForLoad
  <2>6. CASE HookReenter(v)
    BY <2>6 DEF HookReenter
  <2>7. CASE HookCall(v)
    BY <2>7 DEF HookCall, Finish
  <2>8. CASE HookLine(v)
    BY <2>8 DEF HookLine, Finish
  <2> QED BY <1>2, <2>1, <2>2, <2>3, <2>4, <2>5, <2>6, <2>7, <2>8 DEF Hook
<1>3. ASSUME NEW v \in VM, Break(v) PROVE LockOwnership'
  <2>1. CASE BreakSend(v)
    BY <2>1 DEF BreakSend
  <2>2. CASE BreakWake(v)
    BY <2>2 DEF BreakWake, WaitForContinue
  <2>3. CASE BreakClear(v)
    BY <2>3 DEF BreakClear
  <2> QED BY <1>3, <2>1, <2>2, <2>3 DEF Break
<1>4. ASSUME NEW v \in VM, Load(v) PROVE LockOwnership'
  <2>1. CASE LoadScript(v)
    BY <2>1 DEF LoadScript
  <2>2. CASE LoadRegister(v)
    BY <2>2 DEF LoadRegister, Finish
  <2>3. CASE LoadErrorEnter(v)
    BY <2>3 DEF LoadErrorEnter
  <2>4. CASE LoadErrorSend(v)
    BY <2>4 DEF LoadErrorSend
  <2>5. CASE LoadErrorWake(v)
    BY <2>5 DEF LoadErrorWake, WaitForContinue
  <2>6. CASE LoadWake(v)
    BY <2>6 DEF LoadWake, WaitForLoad
  <2> QED BY <1>4, <2>1, <2>2, <2>3, <2>4, <2>5, <2>6 DEF Load
<1>5. ASSUME NEW t \in Thread, Error(t) PROVE LockOwnership'
  <2>1. CASE ErrorUnknown(t)
    BY <2>1 DEF ErrorUnknown, Raising
  <2>2. CASE ErrorHandler(t)
    BY <2>2 DEF ErrorHandler, Raising
  <2>3. CASE ErrorMessage(t)
    BY <2>3 DEF ErrorMessage
  <2>4. CASE ExceptionSend(t)
    BY <2>4 DEF ExceptionSend
  <2>5. CASE ExceptionBreak(t)
    BY <2>5 DEF ExceptionBreak
  <2>6. CASE ExceptionWake(t)
    BY <2>6 DEF ExceptionWake, WaitForContinue
  <2> QED BY <1>5, <2>1, <2>2, <2>3, <2>4, <2>5, <2>6 DEF Error
<1>6. CASE CmdThread
  <2>1. CASE CmdRead
    BY <2>1 DEF CmdRead
  <2>2. CASE CmdResume
    BY <2>2 DEF CmdResume, NextCommand, Executing
  <2>3. CASE CmdBreak
    BY <2>3 DEF CmdBreak, NextCommand, Executing
  <2>4. CASE CmdToggle
    BY <2>4 DEF CmdToggle, NextCommand, Executing
  <2>5. CASE CmdStray
    BY <2>5 DEF CmdStray
  <2>6. CASE CmdLoadDone
    BY <2>6 DEF CmdLoadDone, NextCommand, Executing
  <2>7. CASE CmdEvaluate
    BY <2>7 DEF CmdEvaluate, NextCommand, Executing
  <2>8. CASE CmdEvaluated
    BY <2>8 DEF CmdEvaluated, NextCommand, Executing
  <2>9. CASE CmdDetach
    BY <2>9 DEF CmdDetach, Executing
  <2>10. CASE CmdCleanup
    BY <2>10 DEF CmdCleanup
  <2>11. CASE CmdPipeClosed
    BY <2>11 DEF CmdPipeClosed
  <2> QED BY <1>6, <2>1, <2>2, <2>3, <2>4, <2>5, <2>6, <2>7, <2>8, <2>9, <2>10, <2>11 DEF CmdThread
<1>7. CASE Front
  BY <1>7 DEF Front, FrontCreateVM, FrontLoadScript, FrontBreak, FrontError,
     FrontEvaluateRet, FrontOther
<1>8. CASE User
  BY <1>8 DEF User, UserResume, UserPause, UserEvaluate, UserBreakpoint,
     UserDisconnect
<1> QED BY <1>1, <1>2, <1>3, <1>4, <1>5, <1>6, <1>7, <1>8 DEF Next

\* Whatever the number of threads, m_criticalSection and m_breakLock belong to the
\* thread that is inside them: RegisterScript, PostLoadScript and HookCallback give
\* the first back before they wait, ErrorHandler keeps the second while it waits.
THEOREM LocksOwned == Spec => []LockOwnership
<1>1. Init => LockOwnership
  BY DEF Init, LockOwnership, HoldsCs, InError
<1>2. TypeOK /\ LockOwnership /\ [Next]_vars => LockOwnership'
  <2>1. ASSUME LockOwnership, UNCHANGED vars PROVE LockOwnership'
    BY <2>1 DEF LockOwnership, vars, backend
  <2> QED BY <2>1, LockStep
<1> QED BY <1>1, <1>2, TypeCorrect, PTL DEF Spec

\* However many virtual machines raise errors, one thread at a time is stopped in
\* ErrorHandler: the TryLock on m_breakLock turns the others away.
THEOREM OneStop == Spec => []OneExceptionStop
<1>1. LockOwnership => OneExceptionStop
  BY DEF LockOwnership, OneExceptionStop
<1> QED BY <1>1, LocksOwned, PTL

-----------------------------------------------------------------------------
(* Stops: the invariant.                                                   *)

DetachKind == {"DetachRun", "DetachKill"}
Outside    == {"off", "attach"}

\* A detach is the last command there is.
DetachLast ==
    /\ front # "gone" => /\ ~detachEvent
                         /\ \A i \in DOMAIN cmds : cmds[i].type \notin DetachKind
                         /\ pc[Cmd] = "exec" => cmd.type \notin DetachKind
    /\ \A i \in DOMAIN cmds : cmds[i].type \in DetachKind => i = Len(cmds)
    /\ pc[Cmd] = "exec" /\ cmd.type \in DetachKind => cmds = <<>>
    /\ detachEvent => cmds = <<>> /\ pc[Cmd] \in {"read", "cleanup", "exit"}
    /\ pc[Cmd] = "cleanup" => detachEvent

\* The states the backend knows are those whose threads have attached them.
StatesKnown ==
    ~detachEvent => \A v \in VM : (v \in vms <=> pc[v] \notin Outside) /\ pc[v] # "crash"
HookedInside ==
    ~detachEvent => \A v \in VM : hooked[v] => pc[v] \notin Outside \cup {"close"}

\* A thread that is stopped and has no permission to go on; and none on its way,
\* neither among the commands of q nor with the command thread.
Stopped(v) == pc[v] \in BreakWaits /\ ~breakEvent[v]
Executed(v) == pc[Cmd] = "exec" /\ IsResume(cmd, v)
ResumedIn(q, v) == \E i \in DOMAIN q : IsResume(q[i], v)

\* No resume is before an evaluation.
EvaluatesIn(q) ==
    \A i \in DOMAIN q : q[i].type = "Evaluate" =>
        /\ Stopped(q[i].vm) /\ ~Executed(q[i].vm)
        /\ \A j \in 1 .. i - 1 : ~IsResume(q[j], q[i].vm)
Evaluating == \/ pc[Cmd] \in {"eval"} \cup InError
              \/ pc[Cmd] = "exec" /\ cmd.type = "Evaluate"
EvaluateSafe == /\ Evaluating => Stopped(cmd.vm)
                /\ pc[Cmd] # "excWait" => EvaluatesIn(cmds)

\* Of the permission of a stop, the part on its way back and that on its way out.
ResumesOf(v) == {c \in Command : IsResume(c, v)}
BreaksOf(v)  == {e \in Event : IsBreak(e, v)}
Back(v) == Count(cmds, ResumesOf(v)) + Bit(Executed(v)) + Bit(breakEvent[v])
Out(v)  == Count(evs, BreaksOf(v)) + Bit(v \in stopped) + Bit(v \in checking)
Held(v) == Bit(pc[v] \in BreakWaits)
ResumeBound ==
    ~detachEvent /\ pc[Cmd] # "excWait" => \A v \in VM : Back(v) <= Held(v)
OnePermit ==
    front = "up" /\ pc[Cmd] # "excWait" => \A v \in VM : Out(v) + Back(v) = Held(v)
ResumeFound == pc[Cmd] = "exec" /\ cmd.type \in ResumeKind => found

StopInv == /\ DetachLast /\ StatesKnown /\ HookedInside /\ EvaluateSafe
           /\ ResumeBound /\ OnePermit /\ ResumeFound /\ ResumeFindsItsVm

-----------------------------------------------------------------------------
(* Queues.                                                                 *)

LEMMA AppendAt ==
    ASSUME NEW T, NEW q \in Seq(T), NEW m \in T
    PROVE  /\ Append(q, m) \in Seq(T) /\ Len(q) \in Nat /\ Len(Append(q, m)) = Len(q) + 1
           /\ DOMAIN q = 1 .. Len(q) /\ DOMAIN Append(q, m) = 1 .. Len(q) + 1
           /\ \A i \in 1 .. Len(q) : Append(q, m)[i] = q[i]
           /\ Append(q, m)[Len(q) + 1] = m
BY AppendProperties, LenProperties

LEMMA TailAt ==
    ASSUME NEW T, NEW q \in Seq(T), q # <<>>
    PROVE  /\ Tail(q) \in Seq(T) /\ Head(q) \in T /\ Head(q) = q[1]
           /\ Len(q) \in Nat \ {0} /\ Len(Tail(q)) = Len(q) - 1
           /\ DOMAIN q = 1 .. Len(q) /\ DOMAIN Tail(q) = 1 .. Len(q) - 1
           /\ \A i \in 1 .. Len(q) - 1 : Tail(q)[i] = q[i + 1]
<1>1. Tail(q) \in Seq(T) /\ Len(Tail(q)) = Len(q) - 1 /\ Head(q) = q[1]
      BY HeadTailProperties
<1>2. Len(q) \in Nat /\ Len(q) # 0
      BY LenProperties, EmptySeq
<1> QED BY <1>1, <1>2, LenProperties

LEMMA Permissions ==
    ASSUME TypeOK, NEW v \in VM
    PROVE  /\ Count(cmds, ResumesOf(v)) \in Nat /\ Count(evs, BreaksOf(v)) \in Nat
           /\ Permits(v) = Out(v) + Back(v)
<1>1. Count(cmds, ResumesOf(v)) \in Nat /\ Count(evs, BreaksOf(v)) \in Nat
      BY CountType DEF TypeOK, PipesOK
<1>2. Positions(cmds, ResumesOf(v)) = {i \in DOMAIN cmds : IsResume(cmds[i], v)}
      BY LenProperties DEF Positions, ResumesOf, TypeOK, PipesOK
<1>3. Positions(evs, BreaksOf(v)) = {i \in DOMAIN evs : IsBreak(evs[i], v)}
      BY LenProperties DEF Positions, BreaksOf, TypeOK, PipesOK
<1>4. Permits(v) = Count(evs, BreaksOf(v)) + Bit(v \in stopped) + Bit(v \in checking)
                   + Count(cmds, ResumesOf(v)) + Bit(Executed(v)) + Bit(breakEvent[v])
      BY <1>2, <1>3 DEF Permits, Count, Bit, One, Executed
<1> QED BY <1>1, <1>4 DEF Out, Back, Bit

LEMMA ConcatOne ==
    ASSUME NEW T, NEW q \in Seq(T), NEW m \in T
    PROVE  q \o <<m>> = Append(q, m)
OBVIOUS

LEMMA ConcatTwo ==
    ASSUME NEW T, NEW q \in Seq(T), NEW m \in T, NEW n \in T
    PROVE  q \o <<m, n>> = Append(Append(q, m), n)
OBVIOUS

\* An event that is sent is a permission on its way out if it is a break event.
LEMMA SentOne ==
    ASSUME TypeOK, front = "up", NEW e \in Event, Send(<<e>>), NEW v \in VM
    PROVE  Count(evs, BreaksOf(v))' = Count(evs, BreaksOf(v)) + Bit(IsBreak(e, v))
<1>1. evs' = Append(evs, e) /\ evs \in Seq(Event)
      BY ConcatOne DEF Send, TypeOK, PipesOK
<1>2. BreaksOf(v)' = BreaksOf(v) /\ (e \in BreaksOf(v) <=> IsBreak(e, v))
      BY DEF BreaksOf
<1>3. Count(Append(evs, e), BreaksOf(v)) = Count(evs, BreaksOf(v)) + Bit(e \in BreaksOf(v))
      BY <1>1, CountAppend
<1> QED BY <1>1, <1>2, <1>3 DEF Bit

LEMMA SentNone ==
    ASSUME TypeOK, Send(<<>>)
    PROVE  evs' = evs
BY ConcatProperties DEF Send, TypeOK, PipesOK

-----------------------------------------------------------------------------
(* What the actors leave alone.                                            *)

ScriptStep(v) == Lifecycle(v) \/ Hook(v) \/ Break(v) \/ Load(v) \/ Error(v)

LEMMA ScriptFrame ==
    ASSUME TypeOK, NEW v \in VM, ScriptStep(v)
    PROVE  /\ UNCHANGED <<cmd, found, detachEvent, cmds, adapter, bps>>
           /\ \A t \in Thread \ {v} : pc'[t] = pc[t]
           /\ \A u \in VM \ {v} : /\ breakEvent'[u] = breakEvent[u] /\ hooked'[u] = hooked[u]
                                  /\ u \in vms' <=> u \in vms
<1> USE DEF TypeOK, PcOK, BackendOK, SignalsOK, backend, signals, adapter, Goto, Finish
<1>1. CASE Lifecycle(v)
      BY <1>1 DEF Lifecycle, NewState, AttachState, CloseState, DetachState
<1>2. CASE Hook(v)
      BY <1>2 DEF Hook, HookEnter, HookStart, HookUnknown, HookRegister, HookLoaded,
                  HookReenter, HookCall, HookLine, WaitForLoad
<1>3. StateOf(v) = v /\ v # Cmd
      BY DEF StateOf
<1>4. ASSUME NEW l, WaitForContinue(v, l)
      PROVE  /\ UNCHANGED <<loadEvent, detachEvent>>
             /\ \A t \in Thread \ {v} : pc'[t] = pc[t]
             /\ \A u \in VM \ {v} : breakEvent'[u] = breakEvent[u]
      BY <1>3, <1>4 DEF WaitForContinue
<1>5. CASE Break(v)
  <2>1. CASE BreakWake(v)
        BY <1>4, <2>1 DEF BreakWake
  <2> QED BY <1>5, <2>1 DEF Break, BreakSend, BreakClear
<1>6. CASE Load(v)
  <2>1. CASE LoadErrorWake(v)
    <3>1. \E l : WaitForContinue(v, l)
          BY <2>1 DEF LoadErrorWake
    <3> QED BY <1>4, <2>1, <3>1 DEF LoadErrorWake
  <2> QED BY <1>6, <2>1 DEF Load, LoadScript, LoadRegister, LoadErrorEnter, LoadErrorSend,
                            LoadWake, WaitForLoad
<1>7. CASE Error(v)
  <2>1. CASE ExceptionWake(v)
    <3>1. \E l : WaitForContinue(v, l)
          BY <2>1 DEF ExceptionWake
    <3> QED BY <1>4, <2>1, <3>1 DEF ExceptionWake
  <2> QED BY <1>7, <2>1 DEF Error, ErrorUnknown, ErrorHandler, ErrorMessage, ExceptionSend,
                            ExceptionBreak
<1> QED BY <1>1, <1>2, <1>5, <1>6, <1>7 DEF ScriptStep

LEMMA OutsideFrame ==
    ASSUME Front \/ User
    PROVE  UNCHANGED <<pc, work, cmd, found, backend, signals>>
BY DEF Front, FrontCreateVM, FrontLoadScript, FrontBreak, FrontError, FrontEvaluateRet, FrontOther,
       User, UserResume, UserPause, UserEvaluate, UserBreakpoint, UserDisconnect

LEMMA NextSteps ==
    ASSUME Next
    PROVE  (\E v \in VM : ScriptStep(v)) \/ Error(Cmd) \/ CmdThread \/ Front \/ User
<1>1. CASE \E v \in VM : Lifecycle(v) \/ Hook(v) \/ Break(v) \/ Load(v)
      BY <1>1 DEF ScriptStep
<1>2. ASSUME NEW t \in Thread, Error(t)
      PROVE  (\E v \in VM : ScriptStep(v)) \/ Error(Cmd)
  <2>1. CASE t = Cmd
        BY <1>2, <2>1
  <2>2. CASE t \in VM
        BY <1>2, <2>2 DEF ScriptStep
  <2> QED BY <2>1, <2>2
<1> QED BY <1>1, <1>2 DEF Next

-----------------------------------------------------------------------------
(* The events a thread sends, as permissions on their way out.             *)

\* Of the break events of each state, n of v's are added.
Sent(v, n) ==
    front = "up" => \A u \in VM : Count(evs, BreaksOf(u))' =
                                  Count(evs, BreaksOf(u)) + (IF u = v THEN n ELSE 0)

LEMMA SentNothing ==
    ASSUME TypeOK, evs' = evs, NEW v
    PROVE  Sent(v, 0)
<1> SUFFICES ASSUME NEW u \in VM
             PROVE  Count(evs, BreaksOf(u))' = Count(evs, BreaksOf(u)) + 0
    BY DEF Sent
<1>1. BreaksOf(u)' = BreaksOf(u)
      BY DEF BreaksOf
<1>2. Count(evs, BreaksOf(u))' = Count(evs, BreaksOf(u))
      BY <1>1
<1> QED BY <1>2, Permissions

LEMMA SentOther ==
    ASSUME TypeOK, NEW e \in Event, e.type # "Break", Send(<<e>>), NEW v
    PROVE  Sent(v, 0)
BY SentOne, Permissions DEF Sent, Bit, IsBreak

LEMMA SentBreak ==
    ASSUME TypeOK, NEW v \in VM, Send(<<Msg("Break", v)>>)
    PROVE  Sent(v, 1)
<1>1. Msg("Break", v) \in Event /\ \A u : IsBreak(Msg("Break", v), u) <=> u = v
      BY EventMsg DEF EventType, IsBreak, Msg
<1> QED BY <1>1, SentOne, Permissions DEF Sent, Bit

LEMMA SentError ==
    ASSUME TypeOK, NEW v \in VM, Send(<<Msg("LoadError", v), Msg("Break", v)>>)
    PROVE  Sent(v, 1)
<1> DEFINE d == Msg("LoadError", v)
           e == Msg("Break", v)
<1> SUFFICES ASSUME front = "up", NEW u \in VM
             PROVE  Count(evs, BreaksOf(u))' =
                    Count(evs, BreaksOf(u)) + (IF u = v THEN 1 ELSE 0)
    BY DEF Sent
<1>1. d \in Event /\ e \in Event /\ evs \in Seq(Event)
      BY EventMsg DEF EventType, TypeOK, PipesOK
<1>2. /\ BreaksOf(u)' = BreaksOf(u) /\ d \notin BreaksOf(u)
      /\ e \in BreaksOf(u) <=> u = v
      BY <1>1 DEF BreaksOf, IsBreak, Msg
<1>3. evs' = Append(Append(evs, d), e) /\ Append(evs, d) \in Seq(Event)
      BY <1>1, ConcatTwo, AppendAt DEF Send
<1>4. Count(Append(evs, d), BreaksOf(u)) =
          Count(evs, BreaksOf(u)) + Bit(d \in BreaksOf(u))
      BY <1>1, CountAppend
<1>5. Count(Append(Append(evs, d), e), BreaksOf(u)) =
          Count(Append(evs, d), BreaksOf(u)) + Bit(e \in BreaksOf(u))
      BY <1>1, <1>3, CountAppend
<1>6. Count(evs, BreaksOf(u)) \in Nat
      BY Permissions
<1> HIDE DEF d, e
<1> QED BY <1>2, <1>3, <1>4, <1>5, <1>6 DEF Bit

-----------------------------------------------------------------------------
(* A step of a script thread and its stop: it goes on where it was,        *)
(* stops, or goes on with the permission it was given.                     *)

Stays(v) == /\ pc'[v] \in BreakWaits <=> pc[v] \in BreakWaits
            /\ breakEvent'[v] = breakEvent[v] /\ Sent(v, 0)
Stops(v) == /\ pc[v] \notin BreakWaits /\ pc'[v] \in BreakWaits
            /\ breakEvent'[v] = breakEvent[v] /\ Sent(v, 1)
Goes(v)  == /\ pc[v] \in BreakWaits /\ pc'[v] \notin BreakWaits
            /\ breakEvent[v] /\ ~breakEvent'[v] /\ Sent(v, 0)

LEMMA ScriptEffect ==
    ASSUME TypeOK, StatesKnown, ~detachEvent, NEW v \in VM, ScriptStep(v),
           pc[v] = "attach" => ~breakEvent[v]
    PROVE  Stays(v) \/ Stops(v) \/ Goes(v)
<1> USE DEF TypeOK, PcOK, SignalsOK, BackendOK, Goto, Finish, BreakWaits, backend, signals,
            adapter
<1>1. CASE Lifecycle(v)
  <2>1. CASE NewState(v) \/ CloseState(v)
        BY <2>1, SentNothing DEF NewState, CloseState, Stays
  <2>2. CASE AttachState(v)
    <3>1. Sent(v, 0)
          BY <2>2, EventMsg, SentOther DEF AttachState, EventType, Msg
    <3> QED BY <2>2, <3>1 DEF AttachState, Stays
  <2>3. CASE DetachState(v)
    <3>1. Sent(v, 0)
      <4>1. CASE v \in vms
            BY <2>3, <4>1, EventMsg, SentOther DEF DetachState, EventType, Msg
      <4>2. CASE v \notin vms
            BY <2>3, <4>2, SentNone, SentNothing DEF DetachState
      <4> QED BY <4>1, <4>2
    <3> QED BY <2>3, <3>1 DEF DetachState, Stays
  <2> QED BY <1>1, <2>1, <2>2, <2>3 DEF Lifecycle
<1>2. CASE Hook(v)
  <2>1. CASE HookRegister(v)
    <3>1. Sent(v, 0)
      <4>1. work[v].script \in Script
            BY <2>1 DEF HookRegister, BusyOK, AtWork
      <4> QED BY <2>1, <4>1, EventMsgOn, SentOther DEF HookRegister, MsgOn
    <3> QED BY <2>1, <3>1 DEF HookRegister, Stays
  <2>2. CASE HookStart(v)
        BY <2>2, SentNothing DEF HookStart, Stays
  <2>3. CASE HookEnter(v) \/ HookUnknown(v) \/ HookReenter(v)
        BY <2>3, SentNothing DEF HookEnter, HookUnknown, HookReenter, Stays
  <2>4. CASE HookCall(v) \/ HookLine(v)
        BY <2>4, SentNothing DEF HookCall, HookLine, Stays
  <2>5. CASE HookLoaded(v)
        BY <2>5, SentNothing DEF HookLoaded, WaitForLoad, Stays
  <2> QED BY <1>2, <2>1, <2>2, <2>3, <2>4, <2>5 DEF Hook
<1>3. CASE Break(v)
  <2>1. CASE BreakSend(v)
        BY <2>1, SentBreak DEF BreakSend, Stops
  <2>2. CASE BreakWake(v)
        BY <2>2, SentNothing DEF BreakWake, WaitForContinue, StateOf, Goes
  <2>3. CASE BreakClear(v)
        BY <2>3, SentNothing DEF BreakClear, Stays
  <2> QED BY <1>3, <2>1, <2>2, <2>3 DEF Break
<1>4. CASE Load(v)
  <2>1. CASE LoadRegister(v)
    <3>1. Sent(v, 0)
      <4>1. work[v].script \in Script
            BY <2>1 DEF LoadRegister, BusyOK, AtWork
      <4>2. CASE work[v].script \in known
            BY <2>1, <4>2, SentNone, SentNothing DEF LoadRegister
      <4>3. CASE work[v].script \notin known
            BY <2>1, <4>1, <4>3, EventMsgOn, SentOther DEF LoadRegister, MsgOn
      <4> QED BY <4>2, <4>3
    <3>2. (pc'[v] \in BreakWaits <=> pc[v] \in BreakWaits) /\ breakEvent' = breakEvent
          BY <2>1 DEF LoadRegister
    <3> QED BY <3>1, <3>2 DEF Stays
  <2>2. CASE LoadErrorSend(v)
    <3>1. v \in vms
          BY <2>2 DEF LoadErrorSend, StatesKnown, Outside
    <3> QED BY <2>2, <3>1, SentError DEF LoadErrorSend, Stops
  <2>3. CASE LoadErrorWake(v)
        BY <2>3, SentNothing DEF LoadErrorWake, WaitForContinue, StateOf, Goes
  <2>4. CASE LoadScript(v) \/ LoadErrorEnter(v)
        BY <2>4, SentNothing DEF LoadScript, LoadErrorEnter, Stays
  <2>5. CASE LoadWake(v)
        BY <2>5, SentNothing DEF LoadWake, WaitForLoad, Stays
  <2> QED BY <1>4, <2>1, <2>2, <2>3, <2>4, <2>5 DEF Load
<1>5. CASE Error(v)
  <2>1. CASE ErrorUnknown(v) \/ ErrorHandler(v)
        BY <2>1, SentNothing DEF ErrorUnknown, ErrorHandler, Raising, Stays
  <2>2. CASE ErrorMessage(v)
    <3>1. Sent(v, 0)
          BY <2>2, EventMessage, SentOther DEF ErrorMessage, Msg
    <3> QED BY <2>2, <3>1 DEF ErrorMessage, Stays
  <2>3. CASE ExceptionSend(v)
    <3>1. Sent(v, 0)
          BY <2>3, EventMsg, SentOther DEF ExceptionSend, EventType, Msg, StateOf
    <3> QED BY <2>3, <3>1 DEF ExceptionSend, Stays
  <2>4. CASE ExceptionBreak(v)
        BY <2>4, SentBreak DEF ExceptionBreak, StateOf, Stops
  <2>5. CASE ExceptionWake(v)
        BY <2>5, SentNothing DEF ExceptionWake, WaitForContinue, StateOf, Goes
  <2> QED BY <1>5, <2>1, <2>2, <2>3, <2>4, <2>5 DEF Error
<1> QED BY <1>1, <1>2, <1>3, <1>4, <1>5 DEF ScriptStep

\* A thread that is stopped without a permission stays where it is.
LEMMA StoppedStays ==
    ASSUME TypeOK, ~detachEvent, NEW v \in VM, ScriptStep(v), NEW u \in VM, Stopped(u)
    PROVE  Stopped(u)'
<1>1. CASE u # v
      BY <1>1, ScriptFrame DEF Stopped, BreakWaits
<1>2. CASE u = v
  <2> USE DEF Stopped, BreakWaits
  <2>1. pc[v] \in BreakWaits /\ ~breakEvent[v] /\ v # Cmd
        BY <1>2
  <2>2. ~Lifecycle(v)
        BY <2>1 DEF Lifecycle, NewState, AttachState, CloseState, DetachState
  <2>3. ~Hook(v)
        BY <2>1 DEF Hook, HookEnter, HookStart, HookUnknown, HookRegister, HookLoaded,
                    HookReenter, HookCall, HookLine
  <2>4. ~Break(v)
        BY <2>1 DEF Break, BreakSend, BreakWake, BreakClear, WaitForContinue, StateOf
  <2>5. ~Load(v)
        BY <2>1 DEF Load, LoadScript, LoadRegister, LoadErrorEnter, LoadErrorSend, LoadErrorWake,
                    LoadWake, WaitForContinue, StateOf
  <2>6. ~Error(v)
        BY <2>1 DEF Error, ErrorUnknown, ErrorHandler, ErrorMessage, ExceptionSend,
                    ExceptionBreak, ExceptionWake, Raising, WaitForContinue, StateOf
  <2> QED BY <2>2, <2>3, <2>4, <2>5, <2>6 DEF ScriptStep
<1> QED BY <1>1, <1>2

-----------------------------------------------------------------------------
(* The commands the adapter sends.                                         *)

\* What FrontLoadScript sends.
LEMMA LoadCommands ==
    ASSUME TypeOK, FrontLoadScript
    PROVE  \E d, e \in Command :
               /\ d.type = "Toggle" /\ e.type = "LoadDone"
               /\ cmds' = Append(cmds, e) \/ cmds' = Append(Append(cmds, d), e)
<1> DEFINE s == Head(evs).script
           v == Head(evs).vm
           d == MsgOn("Toggle", None, s)
           e == Msg("LoadDone", v)
<1>1. s \in Script /\ v \in VM
      BY FirstEvent DEF FrontLoadScript, FrontEvent, TypeOK, Event
<1>2. d \in Command /\ e \in Command /\ cmds \in Seq(Command)
      BY <1>1, CommandToggle, CommandMsg DEF TypeOK, PipesOK
<1>3. d.type = "Toggle" /\ e.type = "LoadDone"
      BY DEF Msg, MsgOn
<1>4. CASE s \in want
  <2>1. cmds' = (cmds \o <<d>>) \o <<e>>
        BY <1>4 DEF FrontLoadScript
  <2>2. cmds \o <<d>> = Append(cmds, d) /\ Append(cmds, d) \in Seq(Command)
        BY <1>2, ConcatOne, AppendAt
  <2> HIDE DEF d, e
  <2>3. cmds' = Append(Append(cmds, d), e)
        BY <1>2, <2>1, <2>2, ConcatOne
  <2> QED BY <1>2, <1>3, <2>3
<1>5. CASE s \notin want
  <2>1. cmds' = (cmds \o <<>>) \o <<e>>
        BY <1>5 DEF FrontLoadScript
  <2>2. cmds \o <<>> = cmds
        BY <1>2, ConcatProperties
  <2> HIDE DEF d, e
  <2>3. cmds' = Append(cmds, e)
        BY <1>2, <2>1, <2>2, ConcatOne
  <2> QED BY <1>2, <1>3, <2>3
<1> QED BY <1>4, <1>5

\* The virtual machine of the event the adapter handles.
LEMMA EventVm ==
    ASSUME TypeOK, NEW ty, FrontEvent(ty), ty \cap {"Message", "SetBreakpoint"} = {}
    PROVE  /\ Head(evs).vm \in VM /\ Head(evs) = evs[1] /\ Head(evs) \in Event
           /\ Msg("Continue", Head(evs).vm) \in Command
           /\ Msg("Evaluate", Head(evs).vm) \in Command
           /\ evs # <<>> /\ evs \in Seq(Event) /\ cmds \in Seq(Command)
<1>1. Head(evs) \in Event /\ Head(evs) = evs[1] /\ evs # <<>> /\ Head(evs).type \in ty
      BY FirstEvent DEF FrontEvent, TypeOK
<1>2. Head(evs).vm \in VM
      BY <1>1 DEF Event
<1> QED BY <1>1, <1>2, CommandMsg DEF TypeOK, PipesOK, ResumeKind

DetachFree(q) == \A i \in DOMAIN q : q[i].type \notin DetachKind

LEMMA DetachFreeAppend ==
    ASSUME NEW q \in Seq(Command), DetachFree(q), NEW c \in Command, c.type \notin DetachKind
    PROVE  DetachFree(Append(q, c))
BY AppendAt DEF DetachFree

\* Nobody but the user who disconnects sends a detach.
LEMMA NoDetach ==
    ASSUME TypeOK, Front \/ User, ~UserDisconnect, DetachFree(cmds)
    PROVE  DetachFree(cmds')
<1> USE DEF DetachKind, Msg, MsgOn
<1>1. cmds \in Seq(Command)
      BY DEF TypeOK, PipesOK
<1>2. ASSUME NEW v \in VM, cmds' = Append(cmds, Msg("Continue", v))
                           \/ cmds' = Append(cmds, Msg("Evaluate", v))
                           \/ cmds' = Append(cmds, Msg("Break", v))
      PROVE  DetachFree(cmds')
      BY <1>1, <1>2, CommandMsg, DetachFreeAppend DEF ResumeKind
<1>3. CASE Front
  <2>1. CASE FrontLoadScript
    <3>1. PICK d, e \in Command : /\ d.type = "Toggle" /\ e.type = "LoadDone"
                                  /\ \/ cmds' = Append(cmds, e)
                                     \/ cmds' = Append(Append(cmds, d), e)
          BY <2>1, LoadCommands
    <3>2. Append(cmds, d) \in Seq(Command) /\ DetachFree(Append(cmds, d))
          BY <1>1, <3>1, AppendAt, DetachFreeAppend
    <3> QED BY <1>1, <3>1, <3>2, DetachFreeAppend
  <2>2. CASE FrontBreak
    <3>1. Head(evs).vm \in VM
          BY <2>2, EventVm DEF FrontBreak
    <3> QED BY <1>2, <2>2, <3>1 DEF FrontBreak, Decide, AskFirst
  <2>3. CASE FrontError
    <3>1. Head(evs).vm \in VM /\ Head(evs) = evs[1]
          BY <2>3, EventVm DEF FrontError
    <3> QED BY <1>2, <2>3, <3>1 DEF FrontError, Decide
  <2>4. CASE FrontEvaluateRet
    <3>1. Head(evs).vm \in VM
          BY <2>4, EventVm DEF FrontEvaluateRet
    <3> QED BY <1>2, <2>4, <3>1 DEF FrontEvaluateRet, Decide, AskFirst
  <2>5. CASE FrontCreateVM \/ FrontOther
        BY <2>5 DEF FrontCreateVM, FrontOther
  <2> QED BY <1>3, <2>1, <2>2, <2>3, <2>4, <2>5 DEF Front
<1>4. CASE User
  <2>1. ASSUME NEW v \in VM, UserResume(v) PROVE DetachFree(cmds')
        BY <1>1, <2>1, CommandMsg, DetachFreeAppend DEF UserResume, ResumeKind
  <2>2. ASSUME NEW v \in VM, UserPause(v) \/ UserEvaluate(v) PROVE DetachFree(cmds')
        BY <1>2, <2>2 DEF UserPause, UserEvaluate
  <2>3. ASSUME NEW x \in Script, UserBreakpoint(x) PROVE DetachFree(cmds')
        BY <1>1, <2>3, CommandToggle, DetachFreeAppend DEF UserBreakpoint
  <2> QED BY <1>4, <2>1, <2>2, <2>3 DEF User
<1> QED BY <1>3, <1>4

-----------------------------------------------------------------------------
(* The parts of the invariant.                                             *)

LEMMA DetachLastStep == ASSUME TypeOK, DetachLast, Next PROVE DetachLast'
<1> USE DEF TypeOK, PcOK, PipesOK, DetachLast
<1>1. ASSUME NEW v \in VM, ScriptStep(v) PROVE DetachLast'
  <2>1. UNCHANGED <<front, detachEvent, cmds, cmd>> /\ pc'[Cmd] = pc[Cmd]
        BY <1>1, ScriptFrame DEF adapter
  <2> QED BY <2>1
<1>2. CASE Error(Cmd)
  <2>1. UNCHANGED <<front, detachEvent, cmds, cmd>>
        BY <1>2 DEF Error, ErrorUnknown, ErrorHandler, ErrorMessage, ExceptionSend, ExceptionBreak,
                    ExceptionWake, WaitForContinue, adapter, signals
  <2>2. pc[Cmd] \in InError \cup {"eval"} /\ pc'[Cmd] \in InError \cup {"eval", "crash"}
        BY <1>2 DEF Error, ErrorUnknown, ErrorHandler, ErrorMessage, ExceptionSend, ExceptionBreak,
                    ExceptionWake, WaitForContinue, Goto, Raising, InError
  <2> QED BY <2>1, <2>2 DEF InError
<1>3. CASE CmdThread
  <2> USE DEF Goto, NextCommand, Executing, adapter, signals
  <2>1. CASE CmdRead
    <3>1. cmds \in Seq(Command) /\ cmds # <<>> /\ ~detachEvent
          BY <2>1 DEF CmdRead
    <3>2. /\ cmds' = Tail(cmds) /\ cmd' = cmds[1] /\ Len(cmds) \in Nat \ {0}
          /\ cmds' \in Seq(Command) /\ Len(cmds') = Len(cmds) - 1
          /\ DOMAIN cmds = 1 .. Len(cmds) /\ DOMAIN cmds' = 1 .. Len(cmds')
          /\ \A i \in 1 .. Len(cmds') : cmds'[i] = cmds[i + 1]
          BY <2>1, <3>1, TailAt DEF CmdRead
    <3>3. /\ \A i \in DOMAIN cmds' : i \in Int /\ i + 1 \in DOMAIN cmds
          /\ 1 \in DOMAIN cmds
          BY <3>2
    <3>4. cmd'.type \in DetachKind => cmds' = <<>>
          BY <3>2, <3>3, EmptySeq
    <3>5. \A i \in DOMAIN cmds' : cmds'[i].type \in DetachKind => i = Len(cmds')
          BY <3>2, <3>3
    <3>6. pc'[Cmd] = "exec" /\ front' = front /\ detachEvent' = detachEvent
          BY <2>1 DEF CmdRead
    <3>7. front # "gone" => /\ \A i \in DOMAIN cmds' : cmds'[i].type \notin DetachKind
                            /\ cmd'.type \notin DetachKind
          BY <3>2, <3>3
    <3> QED BY <3>1, <3>4, <3>5, <3>6, <3>7
  <2>2. CASE CmdResume \/ CmdBreak \/ CmdToggle \/ CmdLoadDone \/ CmdStray
        BY <2>2 DEF CmdResume, CmdBreak, CmdToggle, CmdLoadDone, CmdStray
  <2>3. CASE CmdEvaluate \/ CmdEvaluated
        BY <2>3 DEF CmdEvaluate, CmdEvaluated
  <2>4. CASE CmdDetach
        BY <2>4 DEF CmdDetach, DetachKind
  <2>5. CASE CmdCleanup \/ CmdPipeClosed
        BY <2>5 DEF CmdCleanup, CmdPipeClosed
  <2> QED BY <1>3, <2>1, <2>2, <2>3, <2>4, <2>5 DEF CmdThread
<1>4. CASE Front \/ User
  <2>1. UNCHANGED <<pc, cmd, detachEvent>>
        BY <1>4, OutsideFrame DEF signals
  <2>2. front = "up" /\ DetachFree(cmds)
    <3>1. front = "up"
          BY <1>4 DEF Front, FrontCreateVM, FrontLoadScript, FrontBreak, FrontError,
                  FrontEvaluateRet, FrontOther, FrontEvent, User, UserResume, UserPause,
                  UserEvaluate, UserBreakpoint, UserDisconnect, UserMay
    <3> QED BY <3>1 DEF DetachFree
  <2>3. CASE UserDisconnect
    <3>1. PICK c \in Command : cmds' = Append(cmds, c) /\ c.type \in DetachKind
          BY <2>3, CommandDetach DEF UserDisconnect, DetachKind, Msg
    <3>2. /\ Len(cmds) \in Nat /\ Len(cmds') = Len(cmds) + 1
          /\ DOMAIN cmds = 1 .. Len(cmds) /\ DOMAIN cmds' = 1 .. Len(cmds) + 1
          /\ \A i \in 1 .. Len(cmds) : cmds'[i] = cmds[i]
          BY <3>1, AppendAt
    <3>3. \A i \in DOMAIN cmds' : cmds'[i].type \in DetachKind => i = Len(cmds')
          BY <2>2, <3>2 DEF DetachFree
    <3>4. front' = "gone"
          BY <2>3 DEF UserDisconnect
    <3> QED BY <2>1, <2>2, <3>3, <3>4
  <2>4. CASE ~UserDisconnect
    <3>1. DetachFree(cmds')
          BY <1>4, <2>2, <2>4, NoDetach
    <3> QED BY <2>1, <2>2, <3>1 DEF DetachFree
  <2> QED BY <2>3, <2>4
<1> QED BY <1>1, <1>2, <1>3, <1>4, NextSteps

LEMMA StatesKnownStep == ASSUME TypeOK, DetachLast, StatesKnown, Next PROVE StatesKnown'
<1> USE DEF TypeOK, PcOK, BackendOK, StatesKnown, Outside, Goto, backend, signals
<1>1. ASSUME NEW v \in VM, ScriptStep(v) PROVE StatesKnown'
  <2> SUFFICES ASSUME ~detachEvent
               PROVE  (v \in vms' <=> pc'[v] \notin Outside) /\ pc'[v] # "crash"
      BY <1>1, ScriptFrame
  <2>1. CASE Lifecycle(v)
        BY <2>1 DEF Lifecycle, NewState, AttachState, CloseState, DetachState
  <2>2. CASE Hook(v)
        BY <2>2 DEF Hook, HookEnter, HookStart, HookUnknown, HookRegister, HookLoaded,
                    HookReenter, HookCall, HookLine, Finish, WaitForLoad
  <2>3. CASE Break(v)
        BY <2>3 DEF Break, BreakSend, BreakWake, BreakClear, WaitForContinue
  <2>4. CASE Load(v)
    <3>1. vms' = vms
          BY <2>4 DEF Load, LoadScript, LoadRegister, LoadErrorEnter, LoadErrorSend,
                      LoadErrorWake, LoadWake
    <3>2. pc[v] \notin Outside
          BY <2>4 DEF Load, LoadScript, LoadRegister, LoadErrorEnter, LoadErrorSend,
                      LoadErrorWake, LoadWake
    <3>3. pc'[v] \notin Outside \cup {"crash"}
      <4>1. CASE LoadRegister(v)
            BY <4>1 DEF LoadRegister, Finish
      <4>2. CASE LoadErrorSend(v)
            BY <3>2, <4>2 DEF LoadErrorSend
      <4> QED BY <2>4, <4>1, <4>2 DEF Load, LoadScript, LoadErrorEnter, LoadErrorWake, LoadWake,
                                      WaitForContinue, WaitForLoad
    <3> QED BY <3>1, <3>2, <3>3
  <2>5. CASE Error(v)
        BY <2>5 DEF Error, ErrorUnknown, ErrorHandler, ErrorMessage, ExceptionSend, ExceptionBreak,
                    ExceptionWake, WaitForContinue, Raising, StateOf
  <2> QED BY <1>1, <2>1, <2>2, <2>3, <2>4, <2>5 DEF ScriptStep
<1>2. CASE Error(Cmd)
      BY <1>2 DEF Error, ErrorUnknown, ErrorHandler, ErrorMessage, ExceptionSend, ExceptionBreak,
                  ExceptionWake, WaitForContinue
<1>3. CASE CmdThread
  <2> USE DEF NextCommand
  <2>1. CASE CmdCleanup
        BY <2>1 DEF CmdCleanup, DetachLast
  <2>2. CASE CmdRead \/ CmdResume \/ CmdBreak \/ CmdToggle \/ CmdLoadDone
        BY <2>2 DEF CmdRead, CmdResume, CmdBreak, CmdToggle, CmdLoadDone
  <2>3. CASE CmdEvaluate \/ CmdEvaluated \/ CmdDetach \/ CmdPipeClosed \/ CmdStray
        BY <2>3 DEF CmdEvaluate, CmdEvaluated, CmdDetach, CmdPipeClosed, CmdStray
  <2> QED BY <1>3, <2>1, <2>2, <2>3 DEF CmdThread
<1>4. CASE Front \/ User
      BY <1>4, OutsideFrame
<1> QED BY <1>1, <1>2, <1>3, <1>4, NextSteps

LEMMA HookedInsideStep ==
    ASSUME TypeOK, DetachLast, StatesKnown, HookedInside, EvaluateSafe, Next
    PROVE  HookedInside'
<1> USE DEF TypeOK, PcOK, BackendOK, HookedInside, Outside, Goto, backend, signals
<1>1. ASSUME NEW v \in VM, ScriptStep(v) PROVE HookedInside'
  <2> SUFFICES ASSUME ~detachEvent, hooked'[v]
               PROVE  pc'[v] \notin Outside \cup {"close"}
      BY <1>1, ScriptFrame
  <2>1. CASE Lifecycle(v)
        BY <2>1 DEF Lifecycle, NewState, AttachState, CloseState, DetachState
  <2>2. CASE Hook(v)
        BY <2>2 DEF Hook, HookEnter, HookStart, HookUnknown, HookRegister, HookLoaded,
                    HookReenter, HookCall, HookLine, Finish, WaitForLoad
  <2>3. CASE Break(v)
        BY <2>3 DEF Break, BreakSend, BreakWake, BreakClear, WaitForContinue
  <2>4. CASE Load(v)
    <3>1. CASE LoadRegister(v)
          BY <3>1 DEF LoadRegister, Finish
    <3> QED BY <2>4, <3>1 DEF Load, LoadScript, LoadErrorEnter, LoadErrorSend, LoadErrorWake,
                              LoadWake, WaitForContinue, WaitForLoad
  <2>5. CASE Error(v)
        BY <2>5 DEF Error, ErrorUnknown, ErrorHandler, ErrorMessage, ExceptionSend, ExceptionBreak,
                    ExceptionWake, WaitForContinue, Raising, StateOf
  <2> QED BY <1>1, <2>1, <2>2, <2>3, <2>4, <2>5 DEF ScriptStep
<1>2. CASE Error(Cmd)
      BY <1>2 DEF Error, ErrorUnknown, ErrorHandler, ErrorMessage, ExceptionSend, ExceptionBreak,
                  ExceptionWake, WaitForContinue
<1>3. CASE CmdThread
  <2> USE DEF NextCommand, StatesKnown
  <2>1. CASE CmdResume
        BY <2>1 DEF CmdResume, HookAll, Freed, Usable
  <2>2. CASE CmdBreak
        BY <2>2 DEF CmdBreak, HookAll, Freed, Usable
  <2>3. CASE CmdToggle
        BY <2>3 DEF CmdToggle, HookAll, Freed
  <2>4. CASE CmdEvaluated
    <3>1. cmd.vm \in VM /\ pc[cmd.vm] \in BreakWaits
          BY <2>4, EvaluatedVm DEF CmdEvaluated, EvaluateSafe, Evaluating, Stopped, StateOf
    <3> QED BY <2>4, <3>1 DEF CmdEvaluated, BreakWaits
  <2>5. CASE CmdEvaluate
    <3>1. \A v \in VM : hooked'[v] => hooked[v]
          BY <2>5 DEF CmdEvaluate
    <3> QED BY <2>5, <3>1 DEF CmdEvaluate
  <2>6. CASE CmdRead \/ CmdLoadDone \/ CmdDetach \/ CmdCleanup \/ CmdPipeClosed \/ CmdStray
        BY <2>6 DEF CmdRead, CmdLoadDone, CmdDetach, CmdCleanup, CmdPipeClosed, CmdStray
  <2> QED BY <1>3, <2>1, <2>2, <2>3, <2>4, <2>5, <2>6 DEF CmdThread
<1>4. CASE Front \/ User
      BY <1>4, OutsideFrame
<1> QED BY <1>1, <1>2, <1>3, <1>4, NextSteps

-----------------------------------------------------------------------------
(* The permissions of a stop.                                              *)

LEMMA PermitTypes ==
    ASSUME TypeOK, NEW v \in VM
    PROVE  /\ Count(cmds, ResumesOf(v)) \in Nat /\ Count(evs, BreaksOf(v)) \in Nat
           /\ Back(v) \in Nat /\ Out(v) \in Nat /\ Held(v) \in {0, 1}
BY Permissions DEF Back, Out, Held, Bit

\* What has no permission on its way back has none in any of its places.
LEMMA NoneBack ==
    ASSUME TypeOK, NEW v \in VM, Back(v) = 0
    PROVE  /\ ~breakEvent[v] /\ ~Executed(v)
           /\ \A i \in DOMAIN cmds : ~IsResume(cmds[i], v)
<1>1. Count(cmds, ResumesOf(v)) = 0 /\ ~breakEvent[v] /\ ~Executed(v)
      BY Permissions DEF Back, Bit
<1>2. \A i \in DOMAIN cmds : cmds[i] \in Command
      BY LenProperties DEF TypeOK, PipesOK
<1>3. \A i \in DOMAIN cmds : cmds[i] \notin ResumesOf(v)
      BY <1>1, CountType DEF TypeOK, PipesOK
<1> QED BY <1>1, <1>2, <1>3 DEF ResumesOf

\* While a permission is on its way out the thread is stopped, and no resume is
\* anywhere.
LEMMA OutStopped ==
    ASSUME TypeOK, OnePermit, front = "up", pc[Cmd] # "excWait", NEW v \in VM, Out(v) # 0
    PROVE  /\ Back(v) = 0 /\ Out(v) = 1 /\ Stopped(v) /\ ~Executed(v)
           /\ \A i \in DOMAIN cmds : ~IsResume(cmds[i], v)
<1>1. Out(v) + Back(v) = Held(v)
      BY DEF OnePermit
<1>2. Back(v) = 0 /\ Out(v) = 1 /\ Held(v) = 1
      BY <1>1, PermitTypes
<1> QED BY <1>2, NoneBack DEF Held, Bit, Stopped

LEMMA BooksOut ==
    ASSUME TypeOK, NEW v \in VM, v \in stopped \cup checking
    PROVE  Out(v) # 0
BY Permissions DEF Out, Bit

LEMMA EventOut ==
    ASSUME TypeOK, NEW v \in VM, NEW i \in DOMAIN evs, IsBreak(evs[i], v)
    PROVE  Out(v) # 0
<1>1. evs[i] \in BreaksOf(v)
      BY LenProperties DEF BreaksOf, TypeOK, PipesOK
<1>2. Count(evs, BreaksOf(v)) # 0
      BY <1>1, CountType DEF TypeOK, PipesOK
<1> QED BY <1>2, Permissions DEF Out, Bit

\* A resume that is executed, or waits to be, has a stopped thread to go to.
LEMMA BackHeld ==
    ASSUME TypeOK, ResumeBound, ~detachEvent, pc[Cmd] # "excWait", NEW v \in VM,
           Executed(v) \/ \E i \in DOMAIN cmds : IsResume(cmds[i], v)
    PROVE  Back(v) = 1 /\ Held(v) = 1 /\ ~breakEvent[v] /\ pc[v] \in BreakWaits
<1>1. Back(v) # 0
      BY NoneBack
<1>2. Back(v) = 1 /\ Held(v) = 1
      BY <1>1, PermitTypes DEF ResumeBound
<1>3. Executed(v) \/ Count(cmds, ResumesOf(v)) # 0
  <2>1. ASSUME NEW i \in DOMAIN cmds, IsResume(cmds[i], v)
        PROVE  Count(cmds, ResumesOf(v)) # 0
    <3>1. cmds[i] \in ResumesOf(v)
          BY <2>1, LenProperties DEF ResumesOf, TypeOK, PipesOK
    <3> QED BY <3>1, CountType DEF TypeOK, PipesOK
  <2> QED BY <2>1
<1>4. ~breakEvent[v]
      BY <1>2, <1>3, Permissions DEF Back, Bit
<1> QED BY <1>2, <1>4 DEF Held, Bit

\* A command thread that has stopped in an error handler stays there.
LEMMA CmdStuck ==
    ASSUME TypeOK, DetachLast, EvaluateSafe, pc[Cmd] = "excWait"
    PROVE  ~Error(Cmd) /\ ~CmdThread
<1>1. ~detachEvent /\ ~breakEvent[cmd.vm] /\ StateOf(Cmd) = cmd.vm
      BY DEF DetachLast, EvaluateSafe, Evaluating, InError, Stopped, StateOf
<1>2. ~Error(Cmd)
      BY <1>1 DEF Error, ErrorUnknown, ErrorHandler, ErrorMessage, ExceptionSend, ExceptionBreak,
                  ExceptionWake, WaitForContinue, Raising
<1>3. ~CmdThread
      BY DEF CmdThread, CmdRead, CmdResume, CmdBreak, CmdToggle, CmdStray, CmdLoadDone, CmdEvaluate,
             CmdEvaluated, CmdDetach, CmdCleanup, CmdPipeClosed, Executing
<1> QED BY <1>2, <1>3

\* A resume goes astray in no state.
LEMMA StrayNoResume ==
    ASSUME TypeOK, StopInv, CmdStray
    PROVE  cmd.type \notin ResumeKind
<1> SUFFICES ASSUME cmd.type \in ResumeKind PROVE FALSE
    OBVIOUS
<1>1. pc[Cmd] = "exec" /\ ~detachEvent /\ cmd.vm \in VM /\ found
      BY DEF CmdStray, StopInv, DetachLast, TypeOK, CmdOK, Command, ResumeFound
<1>2. pc[cmd.vm] \in BreakWaits
      BY <1>1, BackHeld DEF StopInv, Executed, IsResume
<1>3. cmd.vm \in vms /\ pc[cmd.vm] # "close"
      BY <1>1, <1>2 DEF StopInv, StatesKnown, Outside, BreakWaits
<1> QED BY <1>1, <1>3 DEF CmdStray, Stray, Usable, Freed, ResumeKind

\* What is appended to the commands, and what is not.
LEMMA Asked ==
    ASSUME TypeOK, NEW c \in Command, cmds' = Append(cmds, c), UNCHANGED <<pc, cmd, signals>>,
           NEW v \in VM
    PROVE  Back(v)' = Back(v) + Bit(IsResume(c, v))
<1>1. c \in ResumesOf(v) <=> IsResume(c, v)
      BY DEF ResumesOf
<1>2. Count(Append(cmds, c), ResumesOf(v)) = Count(cmds, ResumesOf(v)) + Bit(c \in ResumesOf(v))
      BY CountAppend DEF TypeOK, PipesOK
<1>3. /\ Back(v)' = Count(cmds, ResumesOf(v))' + Bit(Executed(v))' + Bit(breakEvent[v])'
      /\ Count(cmds, ResumesOf(v))' = Count(Append(cmds, c), ResumesOf(v))
      /\ Bit(Executed(v))' = Bit(Executed(v)) /\ Bit(breakEvent[v])' = Bit(breakEvent[v])
      BY DEF Back, ResumesOf, Executed, signals
<1> QED BY <1>1, <1>2, <1>3, Permissions DEF Back, Bit

LEMMA NotAsked ==
    ASSUME TypeOK, UNCHANGED <<pc, cmd, cmds, signals>>, NEW v \in VM
    PROVE  Back(v)' = Back(v)
<1>1. Count(cmds, ResumesOf(v))' = Count(cmds, ResumesOf(v))
      BY DEF ResumesOf
<1>2. Bit(Executed(v))' = Bit(Executed(v)) /\ Bit(breakEvent[v])' = Bit(breakEvent[v])
      BY DEF Executed, signals
<1> QED BY <1>1, <1>2 DEF Back

LEMMA Taken ==
    ASSUME TypeOK, NEW q \in Seq(Event), q # <<>>, NEW v \in VM
    PROVE  Count(q, BreaksOf(v)) = Count(Tail(q), BreaksOf(v)) + Bit(IsBreak(Head(q), v))
<1>1. Head(q) \in BreaksOf(v) <=> IsBreak(Head(q), v)
      BY TailAt DEF BreaksOf
<1>2. Count(q, BreaksOf(v)) = Count(Tail(q), BreaksOf(v)) + Bit(Head(q) \in BreaksOf(v))
      BY CountTail
<1> QED BY <1>1, <1>2 DEF Bit

LEMMA CommandPermits ==
    ASSUME TypeOK, StopInv, CmdThread, pc[Cmd] # "excWait", ~detachEvent', NEW v \in VM
    PROVE  /\ Back(v)' = Back(v) /\ Held(v)' = Held(v)
           /\ front = "up" => Out(v)' = Out(v)
<1> USE DEF TypeOK, PcOK, SignalsOK, Goto, NextCommand, NoCmd, Msg, Executing, signals, adapter
<1>1. ~detachEvent
      BY DEF CmdThread, CmdRead, CmdResume, CmdBreak, CmdToggle, CmdStray, CmdLoadDone, CmdEvaluate,
             CmdEvaluated, CmdDetach, CmdCleanup, CmdPipeClosed
<1>2. UNCHANGED <<front, stopped, checking>> /\ \A u \in VM : pc'[u] = pc[u]
      BY DEF CmdThread, CmdRead, CmdResume, CmdBreak, CmdToggle, CmdStray, CmdLoadDone, CmdEvaluate,
             CmdEvaluated, CmdDetach, CmdCleanup, CmdPipeClosed
<1>3. Held(v)' = Held(v)
      BY <1>2 DEF Held
<1>4. Sent(None, 0)
  <2>1. CASE CmdToggle
    <3>1. cmd.script \in Script
          BY <2>1 DEF CmdToggle, CmdOK, Command
    <3> QED BY <2>1, <3>1, EventSet, SentOther DEF CmdToggle, MsgOn
  <2>2. CASE CmdEvaluate
    <3>1. cmd.vm \in VM
          BY <2>2 DEF CmdEvaluate, CmdOK, Command
    <3>2. CASE evs' = evs
          BY <3>2, SentNothing
    <3>3. CASE Send(<<Msg("EvaluateRet", cmd.vm)>>)
          BY <3>1, <3>3, EventMsg, SentOther DEF EventType
    <3> QED BY <2>2, <3>2, <3>3 DEF CmdEvaluate
  <2>3. CASE CmdEvaluated
    <3>1. cmd.vm \in VM
          BY <2>3, EvaluatedVm DEF CmdEvaluated, StateOf
    <3> QED BY <2>3, <3>1, EventMsg, SentOther DEF EventType, CmdEvaluated
  <2>4. CASE evs' = evs
        BY <2>4, SentNothing
  <2> QED BY <2>1, <2>2, <2>3, <2>4 DEF CmdThread, CmdRead, CmdResume, CmdBreak, CmdStray,
                                        CmdLoadDone, CmdDetach, CmdCleanup, CmdPipeClosed
<1>5. front = "up" => Out(v)' = Out(v)
  <2>1. front = "up" => Count(evs, BreaksOf(v))' = Count(evs, BreaksOf(v))
        BY <1>4, Permissions DEF Sent
  <2>2. Bit(v \in stopped)' = Bit(v \in stopped) /\ Bit(v \in checking)' = Bit(v \in checking)
        BY <1>2
  <2> QED BY <2>1, <2>2 DEF Out
<1>6. Back(v)' = Back(v)
  <2>1. CASE CmdRead
    <3>1. cmds \in Seq(Command) /\ cmds # <<>> /\ Head(cmds) \in Command
          BY <2>1, TailAt DEF CmdRead, PipesOK
    <3>2. Count(cmds, ResumesOf(v)) = Count(Tail(cmds), ResumesOf(v))
                                      + Bit(Head(cmds) \in ResumesOf(v))
          BY <3>1, CountTail
    <3>3. /\ Bit(Executed(v))' = Bit(Head(cmds) \in ResumesOf(v)) /\ ~Executed(v)
          /\ Bit(breakEvent[v])' = Bit(breakEvent[v])
          BY <2>1, <3>1 DEF CmdRead, Executed, ResumesOf, Bit
    <3>4. Count(cmds, ResumesOf(v))' = Count(Tail(cmds), ResumesOf(v))
          BY <2>1 DEF CmdRead, ResumesOf
    <3>5. /\ Back(v)' = Count(cmds, ResumesOf(v))' + Bit(Executed(v))' + Bit(breakEvent[v])'
          /\ Bit(Executed(v)) = 0
          BY <3>3 DEF Back, Bit
    <3>6. Count(Tail(cmds), ResumesOf(v)) \in Nat
          BY <3>1, TailAt, CountType
    <3> QED BY <3>2, <3>3, <3>4, <3>5, <3>6 DEF Back, Bit
  <2>2. ASSUME UNCHANGED <<cmds, breakEvent>>, ~Executed(v), ~Executed(v)'
        PROVE  Back(v)' = Back(v)
    <3>1. Count(cmds, ResumesOf(v))' = Count(cmds, ResumesOf(v))
          BY <2>2 DEF ResumesOf
    <3>2. Bit(Executed(v))' = Bit(Executed(v)) /\ Bit(breakEvent[v])' = Bit(breakEvent[v])
          BY <2>2 DEF Bit
    <3> QED BY <3>1, <3>2 DEF Back
  <2>3. CASE CmdResume
    <3>1. CASE v = cmd.vm
      <4>1. Executed(v) /\ ~breakEvent[v]
            BY <1>1, <2>3, <3>1, BackHeld DEF CmdResume, Executed, IsResume, StopInv
      <4>2. ~Executed(v)' /\ breakEvent'[v]
            BY <2>3, <3>1 DEF CmdResume, Executed
      <4>3. Count(cmds, ResumesOf(v))' = Count(cmds, ResumesOf(v))
            BY <2>3 DEF CmdResume, ResumesOf
      <4> QED BY <4>1, <4>2, <4>3, Permissions DEF Back, Bit
    <3>2. CASE v # cmd.vm
      <4>1. breakEvent'[v] = breakEvent[v] /\ ~Executed(v) /\ ~Executed(v)' /\ cmds' = cmds
            BY <2>3, <3>2 DEF CmdResume, Executed, IsResume
      <4>2. Count(cmds, ResumesOf(v))' = Count(cmds, ResumesOf(v))
            BY <4>1 DEF ResumesOf
      <4> QED BY <4>1, <4>2 DEF Back, Bit
    <3> QED BY <3>1, <3>2
  <2>4. CASE CmdStray
    <3>1. ~Executed(v) /\ ~Executed(v)'
          BY <2>4, StrayNoResume DEF CmdStray, Executed, IsResume
    <3> QED BY <2>2, <2>4, <3>1 DEF CmdStray
  <2>5. CASE CmdBreak \/ CmdToggle \/ CmdLoadDone \/ CmdEvaluate
    <3>1. ~Executed(v) /\ ~Executed(v)'
          BY <2>5 DEF CmdBreak, CmdToggle, CmdLoadDone, CmdEvaluate, Executed, IsResume, ResumeKind
    <3> QED BY <2>2, <2>5, <3>1 DEF CmdBreak, CmdToggle, CmdLoadDone, CmdEvaluate
  <2>6. CASE CmdEvaluated \/ CmdCleanup \/ CmdPipeClosed
    <3>1. ~Executed(v) /\ ~Executed(v)'
          BY <2>6 DEF CmdEvaluated, CmdCleanup, CmdPipeClosed, Executed
    <3> QED BY <2>2, <2>6, <3>1 DEF CmdEvaluated, CmdCleanup, CmdPipeClosed
  <2> QED BY <2>1, <2>3, <2>4, <2>5, <2>6 DEF CmdThread, CmdDetach
<1> QED BY <1>3, <1>5, <1>6

\* The adapter passes the permission of w on: to its own books, or as a resume.
LEMMA PassedOn ==
    ASSUME TypeOK, NEW w \in VM, Decide(w) \/ AskFirst(w), Out(w) = 1, Back(w) = 0,
           UNCHANGED <<pc, cmd, signals>>, Count(evs, BreaksOf(w))' = 0,
           w \in checking => Count(evs, BreaksOf(w)) = 0,
           \A u \in VM \ {w} : Count(evs, BreaksOf(u))' = Count(evs, BreaksOf(u)),
           Count(evs, BreaksOf(w)) # 0 \/ w \in checking,
           NEW v \in VM
    PROVE  Out(v)' + Back(v)' = Out(v) + Back(v)
<1>1. Msg("Continue", w) \in Command /\ Msg("Evaluate", w) \in Command
      BY CommandMsg DEF ResumeKind
<1>2. /\ IsResume(Msg("Continue", w), v) <=> v = w
      /\ ~IsResume(Msg("Evaluate", w), v)
      BY DEF IsResume, Msg, ResumeKind
<1>3. w \notin stopped
      BY Permissions DEF Out, Bit
<1>4. Out(v)' = Count(evs, BreaksOf(v))' + Bit(v \in stopped)' + Bit(v \in checking)'
      BY DEF Out
<1>5. CASE v # w
  <2>1. (v \in stopped' <=> v \in stopped) /\ (v \in checking' <=> v \in checking)
        BY <1>5 DEF Decide, AskFirst
  <2>2. Out(v)' = Out(v)
        BY <1>4, <1>5, <2>1 DEF Out, Bit
  <2>3. Back(v)' = Back(v)
    <3>1. CASE cmds' = cmds
          BY <3>1, NotAsked
    <3>2. ASSUME NEW c \in Command, cmds' = Append(cmds, c), ~IsResume(c, v)
          PROVE  Back(v)' = Back(v)
          BY <3>2, Asked, PermitTypes DEF Bit
    <3> QED BY <1>1, <1>2, <1>5, <3>1, <3>2 DEF Decide, AskFirst
  <2> QED BY <2>2, <2>3
<1>6. CASE v = w
  <2>1. CASE AskFirst(w)
    <3>1. Out(v)' = 1
          BY <1>3, <1>4, <1>6, <2>1 DEF AskFirst, Bit
    <3>2. Back(v)' = 0
          BY <1>1, <1>2, <1>6, <2>1, Asked DEF AskFirst, Bit
    <3> QED BY <1>6, <3>1, <3>2
  <2>2. CASE Decide(w) /\ cmds' = cmds /\ stopped' = stopped \cup {w}
    <3>1. Out(v)' = 1
          BY <1>4, <1>6, <2>2 DEF Decide, Bit
    <3>2. Back(v)' = 0
          BY <1>6, <2>2, NotAsked
    <3> QED BY <1>6, <3>1, <3>2
  <2>3. CASE Decide(w) /\ cmds' = Append(cmds, Msg("Continue", w)) /\ stopped' = stopped
    <3>1. Out(v)' = 0
          BY <1>3, <1>4, <1>6, <2>3 DEF Decide, Bit
    <3>2. Back(v)' = Back(v) + Bit(IsResume(Msg("Continue", w), v))
          BY <1>1, <2>3, Asked
    <3>3. Back(v)' = 1
          BY <1>2, <1>6, <3>2 DEF Bit
    <3> QED BY <1>6, <3>1, <3>3
  <2> QED BY <2>1, <2>2, <2>3 DEF Decide
<1> QED BY <1>5, <1>6

\* A command that is no resume, and an event that is no break event, move none.
LEMMA Unmoved ==
    ASSUME TypeOK, UNCHANGED <<pc, cmd, signals, stopped, checking>>, NEW v \in VM,
           Count(evs, BreaksOf(v))' = Count(evs, BreaksOf(v)),
           Count(cmds, ResumesOf(v))' = Count(cmds, ResumesOf(v))
    PROVE  Out(v)' + Back(v)' = Out(v) + Back(v)
<1>1. /\ Bit(Executed(v))' = Bit(Executed(v)) /\ Bit(breakEvent[v])' = Bit(breakEvent[v])
      /\ Bit(v \in stopped)' = Bit(v \in stopped) /\ Bit(v \in checking)' = Bit(v \in checking)
      BY DEF Executed, signals
<1> QED BY <1>1 DEF Out, Back

LEMMA NoResumeSent ==
    ASSUME NEW q \in Seq(Command), NEW c \in Command, NEW v \in VM, ~IsResume(c, v)
    PROVE  Count(Append(q, c), ResumesOf(v)) = Count(q, ResumesOf(v))
<1>1. Count(Append(q, c), ResumesOf(v)) = Count(q, ResumesOf(v)) + Bit(c \in ResumesOf(v))
      BY CountAppend
<1>2. c \notin ResumesOf(v)
      BY DEF ResumesOf
<1> QED BY <1>1, <1>2, CountType DEF Bit

LEMMA FrontPermits ==
    ASSUME TypeOK, OnePermit, pc[Cmd] # "excWait", Front, front' = "up", NEW v \in VM
    PROVE  Out(v)' + Back(v)' = Out(v) + Back(v)
<1>1. UNCHANGED <<pc, cmd, signals>> /\ BreaksOf(v)' = BreaksOf(v) /\ ResumesOf(v)' = ResumesOf(v)
      BY OutsideFrame DEF BreaksOf, ResumesOf
<1>2. /\ front = "up" /\ evs # <<>> /\ evs \in Seq(Event) /\ cmds \in Seq(Command)
      BY DEF Front, FrontCreateVM, FrontLoadScript, FrontBreak, FrontError, FrontEvaluateRet,
             FrontOther, FrontEvent, TypeOK, PipesOK
<1>3. ASSUME NEW u \in VM
      PROVE  /\ Count(evs, BreaksOf(u)) = Count(Tail(evs), BreaksOf(u)) + Bit(IsBreak(Head(evs), u))
             /\ Count(Tail(evs), BreaksOf(u)) \in Nat /\ Count(evs, BreaksOf(u)) \in Nat
      BY <1>2, Taken, TailAt, CountType
<1>4. ASSUME Head(evs).type # "Break", NEW u \in VM
      PROVE  Count(evs, BreaksOf(u)) = Count(Tail(evs), BreaksOf(u))
      BY <1>3, <1>4 DEF IsBreak, Bit
<1>5. ASSUME NEW u \in VM
      PROVE  /\ evs' = Tail(evs) => Count(evs, BreaksOf(u))' = Count(Tail(evs), BreaksOf(u))
             /\ cmds' = cmds => Count(cmds, ResumesOf(u))' = Count(cmds, ResumesOf(u))
      BY DEF BreaksOf, ResumesOf
<1>6. CASE FrontCreateVM \/ FrontOther
  <2>1. /\ Head(evs).type # "Break" /\ evs' = Tail(evs)
        /\ UNCHANGED <<stopped, checking, cmds>>
        BY <1>6 DEF FrontCreateVM, FrontOther, FrontEvent, adapter
  <2> QED BY <1>1, <1>4, <1>5, <2>1, Unmoved
<1>7. CASE FrontLoadScript
  <2>1. /\ Head(evs).type # "Break" /\ evs' = Tail(evs)
        /\ UNCHANGED <<stopped, checking>>
        BY <1>7 DEF FrontLoadScript, FrontEvent
  <2>2. PICK d, e \in Command : /\ d.type = "Toggle" /\ e.type = "LoadDone"
                                /\ \/ cmds' = Append(cmds, e)
                                   \/ cmds' = Append(Append(cmds, d), e)
        BY <1>7, LoadCommands
  <2>3. ~IsResume(d, v) /\ ~IsResume(e, v) /\ Append(cmds, d) \in Seq(Command)
        BY <1>2, <2>2, AppendAt DEF IsResume, ResumeKind
  <2>4. /\ Count(Append(cmds, e), ResumesOf(v)) = Count(cmds, ResumesOf(v))
        /\ Count(Append(Append(cmds, d), e), ResumesOf(v)) = Count(cmds, ResumesOf(v))
        BY <1>2, <2>3, NoResumeSent
  <2>5. Count(cmds, ResumesOf(v))' = Count(cmds, ResumesOf(v))
        BY <1>1, <2>2, <2>4
  <2> QED BY <1>1, <1>4, <1>5, <2>1, <2>5, Unmoved
<1>8. CASE FrontBreak
  <2>1. PICK w \in VM : w = Head(evs).vm
        BY <1>8, EventVm DEF FrontBreak
  <2>2. /\ Head(evs).type = "Break" /\ (Decide(w) \/ AskFirst(w)) /\ evs' = Tail(evs)
        /\ Head(evs) = evs[1] /\ 1 \in DOMAIN evs
        BY <1>2, <1>8, <2>1, TailAt DEF FrontBreak, FrontEvent
  <2>3. \A u \in VM : IsBreak(Head(evs), u) <=> u = w
        BY <2>1, <2>2 DEF IsBreak
  <2>4. Out(w) = 1 /\ Back(w) = 0
        BY <1>2, <2>2, <2>3, EventOut, OutStopped
  <2>5. Count(evs, BreaksOf(w)) = Count(Tail(evs), BreaksOf(w)) + 1
        BY <1>3, <2>1, <2>3 DEF Bit
  <2>6. Count(Tail(evs), BreaksOf(w)) = 0 /\ Count(evs, BreaksOf(w)) = 1 /\ w \notin checking
        BY <1>3, <2>1, <2>4, <2>5 DEF Out, Bit
  <2>7. Count(evs, BreaksOf(w))' = 0
        BY <1>5, <2>1, <2>2, <2>6
  <2>8. \A u \in VM \ {w} : Count(evs, BreaksOf(u))' = Count(evs, BreaksOf(u))
        BY <1>3, <1>5, <2>2, <2>3 DEF Bit
  <2> QED BY <1>1, <2>1, <2>2, <2>4, <2>6, <2>7, <2>8, PassedOn
<1>9. CASE FrontError
  <2> DEFINE r == Tail(evs)
  <2>0. PICK w \in VM : w = evs[1].vm
        BY <1>9, EventVm DEF FrontError
  <2>1. 2 \in DOMAIN evs /\ r \in Seq(Event) /\ r # <<>> /\ Head(r) = evs[2]
    <3>1. /\ Len(evs) > 1 /\ Len(evs) \in Nat /\ DOMAIN evs = 1 .. Len(evs)
          /\ r \in Seq(Event) /\ Len(r) = Len(evs) - 1
          /\ \A i \in 1 .. Len(evs) - 1 : r[i] = evs[i + 1]
          BY <1>2, <1>9, TailAt DEF FrontError
    <3> HIDE DEF r
    <3>2. r # <<>>
          BY <3>1
    <3>3. Head(r) = r[1] /\ r[1] = evs[2]
          BY <3>1, <3>2, TailAt
    <3> QED BY <3>1, <3>2, <3>3
  <2>2. /\ evs[2] = Msg("Break", w) /\ Decide(w) /\ evs' = Tail(r)
        /\ Head(evs).type # "Break"
        BY <1>9, <2>0 DEF FrontError, FrontEvent
  <2> HIDE DEF r
  <2>3. \A u \in VM : IsBreak(evs[2], u) <=> u = w
        BY <2>2 DEF IsBreak, Msg
  <2>4. Out(w) = 1 /\ Back(w) = 0
        BY <1>2, <2>1, <2>3, EventOut, OutStopped
  <2>5. ASSUME NEW u \in VM
        PROVE  /\ Count(evs, BreaksOf(u)) = Count(evs, BreaksOf(u))' + Bit(u = w)
               /\ Count(evs, BreaksOf(u))' \in Nat
    <3>1. Count(evs, BreaksOf(u)) = Count(r, BreaksOf(u))
          BY <1>4, <2>2 DEF r
    <3>2. /\ Count(r, BreaksOf(u)) = Count(Tail(r), BreaksOf(u)) + Bit(IsBreak(Head(r), u))
          /\ Count(Tail(r), BreaksOf(u)) \in Nat
          BY <2>1, Taken, TailAt, CountType
    <3>3. Count(evs, BreaksOf(u))' = Count(Tail(r), BreaksOf(u))
          BY <2>2 DEF BreaksOf
    <3> QED BY <2>1, <2>3, <3>1, <3>2, <3>3 DEF Bit
  <2>6. Count(evs, BreaksOf(w)) = 1 /\ Count(evs, BreaksOf(w))' = 0 /\ w \notin checking
        BY <2>1, <2>4, <2>5 DEF Out, Bit
  <2>7. \A u \in VM \ {w} : Count(evs, BreaksOf(u))' = Count(evs, BreaksOf(u))
        BY <2>5 DEF Bit
  <2> QED BY <1>1, <2>1, <2>2, <2>4, <2>6, <2>7, PassedOn
<1>10. CASE FrontEvaluateRet
  <2>0. PICK w \in VM : w = Head(evs).vm
        BY <1>10, EventVm DEF FrontEvaluateRet
  <2>1. Head(evs).type # "Break" /\ evs' = Tail(evs)
        BY <1>10 DEF FrontEvaluateRet, FrontEvent
  <2>2. \A u \in VM : Count(evs, BreaksOf(u))' = Count(evs, BreaksOf(u))
        BY <1>4, <1>5, <2>1
  <2>3. CASE w \notin checking
        BY <1>1, <1>5, <1>10, <2>0, <2>2, <2>3, Unmoved DEF FrontEvaluateRet
  <2>4. CASE w \in checking
    <3>1. Decide(w) \/ AskFirst(w)
          BY <1>10, <2>0, <2>4 DEF FrontEvaluateRet
    <3>2. Out(w) = 1 /\ Back(w) = 0
          BY <1>2, <2>1, <2>4, BooksOut, OutStopped
    <3>3. Count(evs, BreaksOf(w)) = 0
          BY <1>3, <2>1, <2>4, <3>2 DEF Out, Bit
    <3> QED BY <1>1, <2>1, <2>2, <2>4, <3>1, <3>2, <3>3, PassedOn
  <2> QED BY <2>3, <2>4
<1> QED BY <1>6, <1>7, <1>8, <1>9, <1>10 DEF Front

LEMMA UserPermits ==
    ASSUME TypeOK, OnePermit, pc[Cmd] # "excWait", User, ~UserDisconnect, NEW v \in VM
    PROVE  Out(v)' + Back(v)' = Out(v) + Back(v)
<1>1. /\ UNCHANGED <<pc, cmd, signals, checking>> /\ evs' = evs /\ front = "up"
      /\ cmds \in Seq(Command)
      BY OutsideFrame DEF User, UserResume, UserPause, UserEvaluate, UserBreakpoint, UserMay,
                          adapter, TypeOK, PipesOK
<1>2. Count(evs, BreaksOf(v))' = Count(evs, BreaksOf(v))
      BY <1>1 DEF BreaksOf
<1>3. ASSUME NEW c \in Command, cmds' = Append(cmds, c), ~IsResume(c, v), stopped' = stopped
      PROVE  Out(v)' + Back(v)' = Out(v) + Back(v)
  <2>1. Count(cmds, ResumesOf(v))' = Count(cmds, ResumesOf(v))
        BY <1>1, <1>3, NoResumeSent DEF ResumesOf
  <2> QED BY <1>1, <1>2, <1>3, <2>1, Unmoved
<1>4. ASSUME NEW w \in VM, UserResume(w)
      PROVE  Out(v)' + Back(v)' = Out(v) + Back(v)
  <2>1. PICK k \in Steps : cmds' = Append(cmds, Msg(k, w))
        BY <1>4 DEF UserResume
  <2>2. /\ Msg(k, w) \in Command /\ w \in stopped /\ stopped' = stopped \ {w}
        /\ IsResume(Msg(k, w), v) <=> v = w
        BY <1>4, CommandMsg DEF UserResume, IsResume, Msg
  <2>3. Back(v)' = Back(v) + Bit(IsResume(Msg(k, w), v))
        BY <1>1, <2>1, <2>2, Asked
  <2>4. Back(v)' = Back(v) + Bit(v = w)
        BY <2>2, <2>3 DEF Bit
  <2>5. Out(v)' = Count(evs, BreaksOf(v)) + Bit(v \in stopped \ {w}) + Bit(v \in checking)
        BY <1>1, <1>2, <2>2 DEF Out
  <2> QED BY <2>2, <2>4, <2>5, PermitTypes DEF Out, Bit
<1>5. ASSUME NEW w \in VM, UserPause(w) \/ UserEvaluate(w)
      PROVE  Out(v)' + Back(v)' = Out(v) + Back(v)
  <2>1. PICK ty \in {"Break", "Evaluate"} : cmds' = Append(cmds, Msg(ty, w))
        BY <1>5 DEF UserPause, UserEvaluate
  <2>2. Msg(ty, w) \in Command /\ ~IsResume(Msg(ty, w), v) /\ stopped' = stopped
        BY <1>5, CommandMsg DEF IsResume, Msg, ResumeKind, UserPause, UserEvaluate, adapter
  <2> QED BY <1>3, <2>1, <2>2
<1>6. ASSUME NEW s \in Script, UserBreakpoint(s)
      PROVE  Out(v)' + Back(v)' = Out(v) + Back(v)
  <2>1. MsgOn("Toggle", None, s) \in Command /\ ~IsResume(MsgOn("Toggle", None, s), v)
        BY CommandToggle DEF IsResume, MsgOn, ResumeKind
  <2>2. stopped' = stopped
        BY <1>6 DEF UserBreakpoint
  <2>3. CASE cmds' = cmds
    <3>1. Count(cmds, ResumesOf(v))' = Count(cmds, ResumesOf(v))
          BY <2>3 DEF ResumesOf
    <3> QED BY <1>1, <1>2, <2>2, <3>1, Unmoved
  <2>4. CASE cmds' = Append(cmds, MsgOn("Toggle", None, s))
        BY <1>3, <2>1, <2>2, <2>4
  <2> QED BY <1>6, <2>3, <2>4 DEF UserBreakpoint
<1> QED BY <1>4, <1>5, <1>6 DEF User

\* Losing the event pipe, or leaving, gives nobody a permission.
LEMMA LeavingPermits ==
    ASSUME TypeOK, Front \/ User, front' # "up", NEW v \in VM
    PROVE  Back(v)' = Back(v)
<1>1. UNCHANGED <<pc, cmd, signals>>
      BY OutsideFrame
<1>2. CASE cmds' = cmds
      BY <1>1, <1>2, NotAsked
<1>3. CASE UserDisconnect
  <2>1. PICK k \in DetachKind : cmds' = Append(cmds, Msg(k, None))
        BY <1>3 DEF UserDisconnect, DetachKind
  <2>2. Msg(k, None) \in Command /\ ~IsResume(Msg(k, None), v)
        BY CommandDetach DEF DetachKind, IsResume, Msg, ResumeKind
  <2> QED BY <1>1, <2>1, <2>2, Asked, PermitTypes DEF Bit
<1> QED BY <1>2, <1>3 DEF Front, FrontCreateVM, FrontLoadScript, FrontBreak, FrontError,
        FrontEvaluateRet, FrontOther, FrontEvent, User, UserResume, UserPause, UserEvaluate,
        UserBreakpoint, UserMay, adapter

LEMMA ErrorPermits ==
    ASSUME TypeOK, StopInv, Error(Cmd), pc'[Cmd] # "excWait", NEW v \in VM
    PROVE  /\ Back(v)' = Back(v) /\ Held(v)' = Held(v)
           /\ front = "up" => Out(v)' = Out(v)
<1>1. pc[Cmd] # "excWait"
      BY CmdStuck DEF StopInv
<1>2. /\ UNCHANGED <<cmd, signals, cmds, front, stopped, checking>> /\ \A u \in VM : pc'[u] = pc[u]
      /\ ~Executed(v) /\ ~Executed(v)'
      BY <1>1 DEF Error, ErrorUnknown, ErrorHandler, ErrorMessage, ExceptionSend, ExceptionBreak,
                  ExceptionWake, Raising, Executed, TypeOK, PcOK, Goto, adapter
<1>3. Sent(None, 0)
  <2>1. CASE ErrorMessage(Cmd)
        BY <2>1, EventMessage, SentOther DEF ErrorMessage, Msg
  <2>2. CASE ExceptionSend(Cmd)
    <3>1. StateOf(Cmd) \in VM
          BY <2>2, EvaluatedVm DEF ExceptionSend, InError
    <3> QED BY <2>2, <3>1, EventMsg, SentOther DEF ExceptionSend, Msg, EventType
  <2>3. CASE evs' = evs
        BY <2>3, SentNothing
  <2>4. ~ExceptionBreak(Cmd)
        BY DEF ExceptionBreak, Goto, TypeOK, PcOK
  <2> QED BY <1>1, <2>1, <2>2, <2>3, <2>4 DEF Error, ErrorUnknown, ErrorHandler, ExceptionWake
<1>4. front = "up" => Count(evs, BreaksOf(v))' = Count(evs, BreaksOf(v))
      BY <1>3, Permissions DEF Sent
<1>5. Count(cmds, ResumesOf(v))' = Count(cmds, ResumesOf(v))
      BY <1>2 DEF ResumesOf
<1>6. /\ Bit(Executed(v))' = Bit(Executed(v)) /\ Bit(breakEvent[v])' = Bit(breakEvent[v])
      /\ Bit(v \in stopped)' = Bit(v \in stopped) /\ Bit(v \in checking)' = Bit(v \in checking)
      /\ Held(v)' = Held(v)
      BY <1>2 DEF Bit, signals, Held
<1> QED BY <1>4, <1>5, <1>6 DEF Back, Out

\* A script thread that stops has one more permission on its way out, one that
\* goes on has used one.
LEMMA ScriptPermits ==
    ASSUME TypeOK, StopInv, ~detachEvent, pc[Cmd] # "excWait", NEW v \in VM, ScriptStep(v),
           NEW u \in VM
    PROVE  /\ Back(u) <= Held(u) => Back(u)' <= Held(u)'
           /\ front = "up" /\ Out(u) + Back(u) = Held(u) => Out(u)' + Back(u)' = Held(u)'
<1>1. /\ UNCHANGED <<cmd, cmds, front, stopped, checking>>
      /\ \A t \in Thread \ {v} : pc'[t] = pc[t]
      /\ \A w \in VM \ {v} : breakEvent'[w] = breakEvent[w]
      BY ScriptFrame DEF adapter
<1>2. pc[v] = "attach" => ~breakEvent[v]
  <2>1. Back(v) <= Held(v)
        BY DEF StopInv, ResumeBound
  <2>2. pc[v] = "attach" => Back(v) = 0
        BY <2>1, PermitTypes DEF Held, BreakWaits, Bit
  <2> QED BY <2>2, NoneBack
<1>3. Stays(v) \/ Stops(v) \/ Goes(v)
      BY <1>2, ScriptEffect DEF StopInv
<1>4. /\ Back(u)' = Count(cmds, ResumesOf(u)) + Bit(Executed(u)) + Bit(breakEvent'[u])
      /\ Out(u)' = Count(evs, BreaksOf(u))' + Bit(u \in stopped) + Bit(u \in checking)
      /\ Held(u)' = Bit(pc'[u] \in BreakWaits)
  <2>1. Count(cmds, ResumesOf(u))' = Count(cmds, ResumesOf(u))
        BY <1>1 DEF ResumesOf
  <2>2. Bit(Executed(u))' = Bit(Executed(u))
        BY <1>1 DEF Executed
  <2> QED BY <1>1, <2>1, <2>2 DEF Back, Out, Held
<1>5. CASE u # v
  <2>1. front = "up" => Count(evs, BreaksOf(u))' = Count(evs, BreaksOf(u))
        BY <1>3, <1>5, Permissions DEF Stays, Stops, Goes, Sent
  <2>2. Bit(breakEvent'[u]) = Bit(breakEvent[u]) /\ Bit(pc'[u] \in BreakWaits) = Held(u)
        BY <1>1, <1>5 DEF Held
  <2>3. Back(u)' = Back(u) /\ Held(u)' = Held(u)
        BY <1>4, <2>2 DEF Back
  <2>4. front = "up" => Out(u)' = Out(u)
        BY <1>4, <2>1 DEF Out
  <2> QED BY <2>3, <2>4
<1>6. CASE u = v
  <2>1. CASE Stays(v)
    <3>1. Back(u)' = Back(u) /\ Held(u)' = Held(u)
          BY <1>4, <1>6, <2>1 DEF Back, Held, Stays, Bit
    <3>2. front = "up" => Out(u)' = Out(u)
          BY <1>4, <1>6, <2>1, Permissions DEF Out, Stays, Sent
    <3> QED BY <3>1, <3>2
  <2>2. CASE Stops(v)
    <3>1. Back(u)' = Back(u) /\ Held(u)' = 1 /\ Held(u) = 0
          BY <1>4, <1>6, <2>2 DEF Back, Held, Stops, Bit
    <3>2. front = "up" => Count(evs, BreaksOf(u))' = Count(evs, BreaksOf(u)) + 1
          BY <1>6, <2>2 DEF Stops, Sent
    <3>3. front = "up" => Out(u)' = Out(u) + 1
          BY <1>4, <3>2, Permissions DEF Out, Bit
    <3> QED BY <3>1, <3>3, PermitTypes
  <2>3. CASE Goes(v)
    <3>1. Back(u) = Back(u)' + 1 /\ Held(u) = 1 /\ Held(u)' = 0 /\ Back(u)' \in Nat
          BY <1>4, <1>6, <2>3, Permissions DEF Back, Held, Goes, Bit
    <3>2. front = "up" => Out(u)' = Out(u)
          BY <1>4, <1>6, <2>3, Permissions DEF Out, Goes, Sent
    <3> QED BY <3>1, <3>2, PermitTypes
  <2> QED BY <1>3, <2>1, <2>2, <2>3
<1> QED BY <1>5, <1>6

LEMMA PermitStep == ASSUME TypeOK, StopInv, Next PROVE ResumeBound' /\ OnePermit'
<1> SUFFICES ASSUME pc'[Cmd] # "excWait", ~detachEvent', NEW v \in VM
             PROVE  /\ Back(v)' <= Held(v)'
                    /\ front' = "up" => Out(v)' + Back(v)' = Held(v)'
  <2>1. front' = "up" => ~detachEvent'
        BY DetachLastStep DEF StopInv, DetachLast
  <2> QED BY <2>1 DEF ResumeBound, OnePermit
<1> DEFINE Paid == /\ Back(v) <= Held(v)
                   /\ front = "up" => Out(v) + Back(v) = Held(v)
<1>1. ASSUME ~detachEvent, pc[Cmd] # "excWait" PROVE Paid
      BY <1>1 DEF StopInv, ResumeBound, OnePermit
<1>2. ASSUME NEW w \in VM, ScriptStep(w) PROVE Paid'
  <2>1. ~detachEvent /\ pc[Cmd] # "excWait" /\ front' = front
        BY <1>2, ScriptFrame DEF adapter
  <2> QED BY <1>1, <1>2, <2>1, ScriptPermits
<1>3. CASE Error(Cmd)
  <2>1. ~detachEvent /\ pc[Cmd] # "excWait" /\ front' = front
        BY <1>3, CmdStuck DEF StopInv, Error, ErrorUnknown, ErrorHandler, ErrorMessage,
           ExceptionSend, ExceptionBreak, ExceptionWake, adapter, signals, WaitForContinue
  <2> QED BY <1>1, <1>3, <2>1, ErrorPermits
<1>4. CASE CmdThread
  <2>1. pc[Cmd] # "excWait"
        BY <1>4, CmdStuck DEF StopInv
  <2>2. ~detachEvent /\ front' = front
        BY <1>4 DEF CmdThread, CmdRead, CmdResume, CmdBreak, CmdToggle, CmdStray, CmdLoadDone,
           CmdEvaluate, CmdEvaluated, CmdDetach, CmdCleanup, CmdPipeClosed, adapter, signals
  <2> QED BY <1>1, <1>4, <2>1, <2>2, CommandPermits
<1>5. CASE Front \/ User
  <2>1. UNCHANGED <<pc, cmd, signals>> /\ ~detachEvent /\ pc[Cmd] # "excWait" /\ front = "up"
    <3>1. front = "up"
          BY <1>5 DEF Front, FrontCreateVM, FrontLoadScript, FrontBreak, FrontError,
                  FrontEvaluateRet, FrontOther, FrontEvent, User, UserResume, UserPause,
                  UserEvaluate, UserBreakpoint, UserDisconnect, UserMay
    <3> QED BY <1>5, <3>1, OutsideFrame DEF signals
  <2>2. Held(v)' = Held(v) /\ Out(v)' \in Nat /\ Back(v)' \in Nat
    <3>1. Out(v)' \in Nat /\ Back(v)' \in Nat
      <4>1. TypeOK'
            BY WorkStep, PcStep, CmdStep, BackendStep, SignalsStep, PipesStep, AdapterStep,
               BusyStep DEF TypeOK
      <4>2. Count(cmds, ResumesOf(v))' \in Nat /\ Count(evs, BreaksOf(v))' \in Nat
        <5>1. ResumesOf(v)' = ResumesOf(v) /\ BreaksOf(v)' = BreaksOf(v)
              BY DEF ResumesOf, BreaksOf
        <5> QED BY <4>1, <5>1, CountType DEF TypeOK, PipesOK
      <4> QED BY <4>2 DEF Out, Back, Bit
    <3> QED BY <2>1, <3>1 DEF Held
  <2>3. Out(v) + Back(v) = Held(v) /\ Back(v) <= Held(v)
        BY <1>1, <2>1
  <2>4. CASE front' # "up"
        BY <1>5, <2>2, <2>3, <2>4, LeavingPermits
  <2>5. CASE front' = "up"
    <3>1. Out(v)' + Back(v)' = Out(v) + Back(v)
      <4>1. ~UserDisconnect
            BY <2>5 DEF UserDisconnect
      <4> QED BY <1>5, <2>1, <2>5, <4>1, FrontPermits, UserPermits DEF StopInv
    <3> QED BY <2>2, <2>3, <3>1, PermitTypes
  <2> QED BY <2>4, <2>5
<1> QED BY <1>2, <1>3, <1>4, <1>5, NextSteps

-----------------------------------------------------------------------------
(* Evaluations.                                                            *)

LEMMA EvaluatesAppend ==
    ASSUME NEW q \in Seq(Command), EvaluatesIn(q), NEW c \in Command,
           c.type = "Evaluate" => /\ Stopped(c.vm) /\ ~Executed(c.vm)
                                  /\ \A i \in DOMAIN q : ~IsResume(q[i], c.vm)
    PROVE  EvaluatesIn(Append(q, c))
<1>1. /\ Len(q) \in Nat /\ DOMAIN q = 1 .. Len(q) /\ DOMAIN Append(q, c) = 1 .. Len(q) + 1
      /\ \A i \in 1 .. Len(q) : Append(q, c)[i] = q[i]
      /\ Append(q, c)[Len(q) + 1] = c
      BY AppendAt
<1> DEFINE r == Append(q, c)
<1> HIDE DEF r
<1>2. ASSUME NEW i \in DOMAIN r, r[i].type = "Evaluate"
      PROVE  /\ Stopped(r[i].vm) /\ ~Executed(r[i].vm)
             /\ \A j \in 1 .. i - 1 : ~IsResume(r[j], r[i].vm)
  <2>1. /\ i \in 1 .. Len(q) + 1 /\ \A j \in 1 .. Len(q) : r[j] = q[j]
        /\ r[Len(q) + 1] = c
        BY <1>1 DEF r
  <2>2. CASE i \in DOMAIN q
    <3>1. r[i] = q[i] /\ \A j \in 1 .. i - 1 : r[j] = q[j]
          BY <1>1, <2>1, <2>2
    <3> QED BY <1>2, <2>2, <3>1 DEF EvaluatesIn
  <2>3. CASE i \notin DOMAIN q
    <3>1. i = Len(q) + 1 /\ r[i] = c /\ \A j \in 1 .. i - 1 : j \in DOMAIN q /\ r[j] = q[j]
          BY <1>1, <2>1, <2>3
    <3> QED BY <1>2, <3>1
  <2> QED BY <2>2, <2>3
<1> QED BY <1>2 DEF EvaluatesIn, r

\* The evaluations the adapter asks for are in states that are stopped.
LEMMA OutsideEvaluates ==
    ASSUME TypeOK, StopInv, Front \/ User, pc[Cmd] # "excWait"
    PROVE  EvaluatesIn(cmds')
<1>1. EvaluatesIn(cmds) /\ cmds \in Seq(Command)
      BY DEF StopInv, EvaluateSafe, TypeOK, PipesOK
<1>2. ASSUME NEW c \in Command, c.type # "Evaluate", cmds' = Append(cmds, c)
      PROVE  EvaluatesIn(cmds')
      BY <1>1, <1>2, EvaluatesAppend
<1>3. ASSUME NEW w \in VM, Out(w) # 0, front = "up", cmds' = Append(cmds, Msg("Evaluate", w))
      PROVE  EvaluatesIn(cmds')
  <2>1. Msg("Evaluate", w) \in Command /\ Msg("Evaluate", w).vm = w
        BY CommandMsg DEF Msg
  <2>2. Stopped(w) /\ ~Executed(w) /\ \A i \in DOMAIN cmds : ~IsResume(cmds[i], w)
        BY <1>3, OutStopped DEF StopInv
  <2> QED BY <1>1, <1>3, <2>1, <2>2, EvaluatesAppend
<1>4. ASSUME NEW w \in VM, Out(w) # 0, front = "up",
             (Decide(w) \/ AskFirst(w)) \/ UNCHANGED cmds
      PROVE  EvaluatesIn(cmds')
  <2>1. Msg("Continue", w) \in Command /\ Msg("Continue", w).type # "Evaluate"
        BY CommandMsg DEF Msg, ResumeKind
  <2> QED BY <1>1, <1>2, <1>3, <1>4, <2>1 DEF Decide, AskFirst
<1>5. CASE Front
  <2>1. CASE FrontLoadScript
    <3>1. PICK d, e \in Command : /\ d.type = "Toggle" /\ e.type = "LoadDone"
                                  /\ \/ cmds' = Append(cmds, e)
                                     \/ cmds' = Append(Append(cmds, d), e)
          BY <2>1, LoadCommands
    <3>2. Append(cmds, d) \in Seq(Command) /\ EvaluatesIn(Append(cmds, d))
          BY <1>1, <3>1, AppendAt, EvaluatesAppend
    <3> QED BY <1>1, <3>1, <3>2, EvaluatesAppend
  <2>2. CASE FrontBreak
    <3>1. PICK w \in VM : w = Head(evs).vm
          BY <2>2, EventVm DEF FrontBreak
    <3>2. /\ front = "up" /\ (Decide(w) \/ AskFirst(w))
          /\ evs # <<>> /\ evs \in Seq(Event) /\ Head(evs).type = "Break"
          BY <2>2, <3>1 DEF FrontBreak, FrontEvent, TypeOK, PipesOK
    <3>3. 1 \in DOMAIN evs /\ IsBreak(evs[1], w)
          BY <3>1, <3>2, TailAt DEF IsBreak
    <3>4. Out(w) # 0 /\ front = "up"
          BY <2>2, <3>3, EventOut DEF FrontBreak, FrontEvent
    <3> QED BY <1>4, <3>2, <3>4
  <2>3. CASE FrontError
    <3>1. PICK w \in VM : w = evs[1].vm
          BY <2>3, EventVm DEF FrontError
    <3>2. front = "up" /\ evs # <<>> /\ evs \in Seq(Event) /\ Len(evs) > 1
          BY <2>3 DEF FrontError, FrontEvent, TypeOK, PipesOK
    <3>3. CASE evs[2] = Msg("Break", w)
      <4>1. 2 \in DOMAIN evs /\ IsBreak(evs[2], w)
            BY <3>2, <3>3, TailAt DEF IsBreak, Msg
      <4>2. Out(w) # 0
            BY <4>1, EventOut
      <4>3. Decide(w)
            BY <2>3, <3>1, <3>3 DEF FrontError
      <4> QED BY <1>4, <3>2, <4>2, <4>3
    <3>4. CASE evs[2] # Msg("Break", w)
          BY <1>1, <2>3, <3>1, <3>4 DEF FrontError
    <3> QED BY <3>3, <3>4
  <2>4. CASE FrontEvaluateRet
    <3>1. PICK w \in VM : w = Head(evs).vm
          BY <2>4, EventVm DEF FrontEvaluateRet
    <3>2. CASE w \in checking
      <4>1. front = "up" /\ (Decide(w) \/ AskFirst(w)) /\ Out(w) # 0
            BY <2>4, <3>1, <3>2, BooksOut DEF FrontEvaluateRet, FrontEvent
      <4> QED BY <1>4, <4>1
    <3>3. CASE w \notin checking
          BY <1>1, <2>4, <3>1, <3>3 DEF FrontEvaluateRet
    <3> QED BY <3>2, <3>3
  <2>5. CASE FrontCreateVM \/ FrontOther
        BY <1>1, <2>5 DEF FrontCreateVM, FrontOther
  <2> QED BY <1>5, <2>1, <2>2, <2>3, <2>4, <2>5 DEF Front
<1>6. CASE User
  <2>1. ASSUME NEW w \in VM, UserResume(w) PROVE EvaluatesIn(cmds')
    <3>1. PICK k \in Steps : cmds' = Append(cmds, Msg(k, w))
          BY <2>1 DEF UserResume
    <3>2. Msg(k, w) \in Command /\ Msg(k, w).type # "Evaluate"
          BY CommandMsg DEF Msg, ResumeKind
    <3> QED BY <1>2, <3>1, <3>2
  <2>2. ASSUME NEW w \in VM, UserPause(w) PROVE EvaluatesIn(cmds')
        BY <1>2, <2>2, CommandMsg DEF UserPause, Msg
  <2>3. ASSUME NEW w \in VM, UserEvaluate(w) PROVE EvaluatesIn(cmds')
        BY <1>3, <2>3, BooksOut DEF UserEvaluate, UserMay
  <2>4. ASSUME NEW s \in Script, UserBreakpoint(s) PROVE EvaluatesIn(cmds')
        BY <1>1, <1>2, <2>4, CommandToggle DEF UserBreakpoint, MsgOn
  <2>5. CASE UserDisconnect
        BY <1>2, <2>5, CommandDetach DEF UserDisconnect, Msg
  <2> QED BY <1>6, <2>1, <2>2, <2>3, <2>4, <2>5 DEF User
<1> QED BY <1>5, <1>6

\* The vm of an evaluation is a virtual machine.
LEMMA EvaluateVm ==
    ASSUME TypeOK
    PROVE  /\ \A i \in DOMAIN cmds : cmds[i].type = "Evaluate" => cmds[i].vm \in VM
           /\ Evaluating => cmd.vm \in VM
<1>1. \A i \in DOMAIN cmds : cmds[i] \in Command
      BY LenProperties DEF TypeOK, PipesOK
<1> QED BY <1>1 DEF TypeOK, CmdOK, BusyOK, Command, Evaluating

LEMMA EvaluateSafeStep == ASSUME TypeOK, StopInv, Next PROVE EvaluateSafe'
<1>0. /\ Evaluating => Stopped(cmd.vm)
      /\ pc[Cmd] # "excWait" => EvaluatesIn(cmds)
      BY DEF StopInv, EvaluateSafe
<1>1. ASSUME NEW v \in VM, ScriptStep(v) PROVE EvaluateSafe'
  <2>1. UNCHANGED <<cmd, cmds>> /\ pc'[Cmd] = pc[Cmd]
        BY <1>1, ScriptFrame
  <2>2. CASE detachEvent
    <3>1. cmds = <<>> /\ ~Evaluating
          BY <2>2 DEF StopInv, DetachLast, Evaluating, InError
    <3> QED BY <2>1, <3>1 DEF EvaluateSafe, Evaluating, EvaluatesIn
  <2>3. CASE ~detachEvent
    <3>1. \A u \in VM : Stopped(u) => Stopped(u)'
          BY <1>1, <2>3, StoppedStays
    <3>2. Evaluating' => Stopped(cmd.vm)'
      <4>1. ASSUME Evaluating' PROVE Stopped(cmd.vm)'
        <5>1. Evaluating
              BY <2>1, <4>1 DEF Evaluating
        <5>2. PICK u \in VM : u = cmd.vm
              BY <5>1, EvaluateVm
        <5>3. Stopped(u)'
              BY <1>0, <3>1, <5>1, <5>2
        <5> QED BY <2>1, <5>2, <5>3 DEF Stopped
      <4> QED BY <4>1
    <3>3. pc'[Cmd] # "excWait" => EvaluatesIn(cmds)'
      <4> SUFFICES ASSUME pc[Cmd] # "excWait", NEW i \in DOMAIN cmds, cmds[i].type = "Evaluate",
                          NEW u \in VM, u = cmds[i].vm
                   PROVE  /\ Stopped(u)' /\ ~Executed(u)'
                          /\ \A j \in 1 .. i - 1 : ~IsResume(cmds[j], u)
          BY <2>1, EvaluateVm DEF EvaluatesIn, Stopped, Executed
      <4>1. Stopped(u) /\ ~Executed(u) /\ \A j \in 1 .. i - 1 : ~IsResume(cmds[j], u)
            BY <1>0 DEF EvaluatesIn
      <4> QED BY <2>1, <3>1, <4>1 DEF Executed
    <3> QED BY <3>2, <3>3 DEF EvaluateSafe
  <2> QED BY <2>2, <2>3
<1>2. CASE Error(Cmd)
  <2>1. pc[Cmd] # "excWait" /\ pc[Cmd] # "exec"
        BY <1>2, CmdStuck DEF StopInv, Error, ErrorUnknown, ErrorHandler, ErrorMessage,
           ExceptionSend, ExceptionBreak, ExceptionWake, Raising
  <2>2. /\ UNCHANGED <<cmd, cmds, signals>> /\ \A u \in VM : pc'[u] = pc[u]
        /\ Evaluating /\ pc'[Cmd] # "exec"
        BY <1>2, <2>1 DEF Error, ErrorUnknown, ErrorHandler, ErrorMessage, ExceptionSend,
           ExceptionBreak, ExceptionWake, Raising, Goto, TypeOK, PcOK, Evaluating, InError
  <2>3. \A u \in VM : Stopped(u)' <=> Stopped(u)
        BY <2>2 DEF Stopped, signals
  <2>4. cmd.vm \in VM /\ Stopped(cmd.vm)
        BY <1>0, <2>2, EvaluateVm
  <2>5. Stopped(cmd.vm)'
        BY <2>2, <2>4 DEF Stopped, signals
  <2>6. EvaluatesIn(cmds)'
        BY <1>0, <2>1, <2>2, <2>3, EvaluateVm DEF EvaluatesIn, Executed, Stopped, signals
  <2> QED BY <2>5, <2>6 DEF EvaluateSafe
<1>3. CASE CmdThread
  <2> USE DEF TypeOK, PcOK, SignalsOK, Goto, NextCommand, Executing, signals
  <2>1. pc[Cmd] # "excWait" /\ EvaluatesIn(cmds)
        BY <1>0, <1>3, CmdStuck DEF StopInv
  <2>2. \A u \in VM : pc'[u] = pc[u]
        BY <1>3 DEF CmdThread, CmdRead, CmdResume, CmdBreak, CmdToggle, CmdStray, CmdLoadDone,
           CmdEvaluate, CmdEvaluated, CmdDetach, CmdCleanup, CmdPipeClosed
  <2>3. CASE CmdRead
    <3>1. /\ cmds' = Tail(cmds) /\ cmd' = cmds[1] /\ Len(cmds) \in Nat \ {0}
          /\ DOMAIN cmds = 1 .. Len(cmds) /\ DOMAIN cmds' = 1 .. Len(cmds) - 1
          /\ \A i \in 1 .. Len(cmds) - 1 : cmds'[i] = cmds[i + 1]
          BY <2>3, TailAt DEF CmdRead, PipesOK
    <3>2. breakEvent' = breakEvent /\ pc'[Cmd] = "exec"
          BY <2>3 DEF CmdRead
    <3>3. 1 \in DOMAIN cmds
          BY <3>1
    <3>4. Evaluating' => Stopped(cmd.vm)'
      <4>1. ASSUME Evaluating' PROVE Stopped(cmd.vm)'
        <5>1. cmds[1].type = "Evaluate"
              BY <3>1, <3>2, <4>1 DEF Evaluating, InError
        <5>2. Stopped(cmds[1].vm) /\ cmds[1].vm \in VM
              BY <2>1, <3>3, <5>1, EvaluateVm DEF EvaluatesIn
        <5> QED BY <2>2, <3>1, <3>2, <5>2 DEF Stopped
      <4> QED BY <4>1
    <3>5. EvaluatesIn(cmds)'
      <4> SUFFICES ASSUME NEW i \in DOMAIN cmds', cmds'[i].type = "Evaluate"
                   PROVE  /\ Stopped(cmds[i].vm)' /\ ~Executed(cmds[i].vm)'
                          /\ \A j \in 1 .. i - 1 : ~IsResume(cmds'[j], cmds'[i].vm)
          BY DEF EvaluatesIn, IsResume
      <4>1. /\ i + 1 \in DOMAIN cmds /\ 1 \in 1 .. (i + 1) - 1 /\ cmds'[i] = cmds[i + 1]
            /\ \A j \in 1 .. i - 1 : j + 1 \in 1 .. (i + 1) - 1 /\ cmds'[j] = cmds[j + 1]
            BY <3>1
      <4>2. PICK u \in VM : u = cmds[i + 1].vm
            BY <4>1, EvaluateVm
      <4>3. Stopped(u) /\ ~IsResume(cmds[1], u) /\ \A j \in 1 .. i - 1 : ~IsResume(cmds[j + 1], u)
            BY <2>1, <4>1, <4>2 DEF EvaluatesIn
      <4>4. Stopped(u)' /\ ~Executed(u)' /\ \A j \in 1 .. i - 1 : ~IsResume(cmds'[j], u)
            BY <2>2, <3>1, <3>2, <4>1, <4>3 DEF Stopped, Executed, IsResume
      <4> QED BY <4>1, <4>2, <4>4 DEF Stopped, Executed
    <3> QED BY <3>4, <3>5 DEF EvaluateSafe
  <2>4. ASSUME cmds' = cmds, breakEvent' = breakEvent, pc'[Cmd] # "exec",
               Evaluating' => Evaluating /\ cmd' = cmd
        PROVE  EvaluateSafe'
    <3>1. \A u \in VM : Stopped(u)' <=> Stopped(u)
          BY <2>2, <2>4 DEF Stopped
    <3>2. Evaluating' => Stopped(cmd.vm)'
      <4>1. ASSUME Evaluating' PROVE Stopped(cmd.vm)'
        <5>1. Stopped(cmd.vm) /\ cmd.vm \in VM /\ cmd' = cmd
              BY <1>0, <2>4, <4>1, EvaluateVm
        <5> QED BY <2>2, <2>4, <5>1 DEF Stopped
      <4> QED BY <4>1
    <3>3. EvaluatesIn(cmds)'
          BY <2>1, <2>2, <2>4, EvaluateVm DEF EvaluatesIn, Executed, Stopped
    <3> QED BY <3>2, <3>3 DEF EvaluateSafe
  <2>5. CASE CmdResume
    <3>1. /\ cmds' = cmds /\ pc'[Cmd] = "read" /\ Executed(cmd.vm)
          /\ \A u \in VM \ {cmd.vm} : breakEvent'[u] = breakEvent[u]
          BY <2>5 DEF CmdResume, Executed, IsResume
    <3>2. ~Evaluating'
          BY <3>1 DEF Evaluating, InError
    <3>3. EvaluatesIn(cmds)'
      <4> SUFFICES ASSUME NEW i \in DOMAIN cmds, cmds[i].type = "Evaluate",
                          NEW u \in VM, u = cmds[i].vm
                   PROVE  /\ Stopped(u)' /\ ~Executed(u)'
                          /\ \A j \in 1 .. i - 1 : ~IsResume(cmds[j], u)
          BY <3>1, EvaluateVm DEF EvaluatesIn, Stopped, Executed
      <4>1. Stopped(u) /\ ~Executed(u) /\ \A j \in 1 .. i - 1 : ~IsResume(cmds[j], u)
            BY <2>1 DEF EvaluatesIn
      <4> QED BY <2>2, <3>1, <4>1 DEF Stopped, Executed
    <3> QED BY <3>2, <3>3 DEF EvaluateSafe
  <2>6. CASE CmdBreak \/ CmdToggle \/ CmdLoadDone \/ CmdStray
        BY <2>4, <2>6 DEF CmdBreak, CmdToggle, CmdLoadDone, CmdStray, Evaluating, InError
  <2>7. CASE CmdEvaluate \/ CmdEvaluated
        BY <2>4, <2>7 DEF CmdEvaluate, CmdEvaluated, Evaluating, InError
  <2>8. CASE CmdDetach \/ CmdCleanup \/ CmdPipeClosed
        BY <2>4, <2>8 DEF CmdDetach, CmdCleanup, CmdPipeClosed, Evaluating, InError
  <2> QED BY <1>3, <2>3, <2>5, <2>6, <2>7, <2>8 DEF CmdThread
<1>4. CASE Front \/ User
  <2>1. UNCHANGED <<pc, cmd, signals>>
        BY <1>4, OutsideFrame
  <2>2. pc[Cmd] # "excWait" => EvaluatesIn(cmds')
        BY <1>4, OutsideEvaluates
  <2>3. pc'[Cmd] # "excWait" => EvaluatesIn(cmds)'
        BY <2>1, <2>2 DEF EvaluatesIn, Stopped, Executed, signals
  <2>4. Evaluating' => Stopped(cmd.vm)'
        BY <1>0, <2>1 DEF Evaluating, Stopped, signals
  <2> QED BY <2>3, <2>4 DEF EvaluateSafe
<1> QED BY <1>1, <1>2, <1>3, <1>4, NextSteps

-----------------------------------------------------------------------------
(* Resumes find their virtual machine, and the theorems.                   *)

LEMMA ResumeFoundStep == ASSUME TypeOK, StopInv, Next PROVE ResumeFound' /\ ResumeFindsItsVm'
<1> USE DEF TypeOK, PcOK, Goto, ResumeFound, ResumeFindsItsVm
<1>1. ASSUME NEW v \in VM, ScriptStep(v) PROVE ResumeFound' /\ ResumeFindsItsVm'
  <2>1. UNCHANGED <<cmd, found>> /\ pc'[Cmd] = pc[Cmd]
        BY <1>1, ScriptFrame
  <2> QED BY <2>1 DEF StopInv
<1>2. CASE Error(Cmd)
  <2>1. pc[Cmd] \in {"eval"} \cup InError /\ pc'[Cmd] # "exec" /\ cmd' = cmd
        BY <1>2 DEF Error, ErrorUnknown, ErrorHandler, ErrorMessage, ExceptionSend, ExceptionBreak,
           ExceptionWake, Raising, WaitForContinue, InError
  <2>2. cmd.type = "Evaluate"
        BY <2>1 DEF BusyOK
  <2> QED BY <2>1, <2>2 DEF ResumeKind
<1>3. CASE CmdThread
  <2> USE DEF NextCommand
  <2>1. CASE CmdRead
    <3>1. pc[Cmd] = "read" /\ cmds # <<>> /\ cmd' = Head(cmds) /\ found' = (Head(cmds).vm \in vms)
          BY <2>1 DEF CmdRead
    <3>2. pc'[Cmd] = "exec"
          BY <2>1 DEF CmdRead
    <3>3. ~detachEvent
          BY <3>1 DEF StopInv, DetachLast
    <3>4. Head(cmds) = cmds[1] /\ 1 \in DOMAIN cmds /\ Head(cmds) \in Command
          BY <3>1, TailAt DEF PipesOK
    <3>5. ASSUME cmds[1].type \in ResumeKind PROVE cmds[1].vm \in vms
      <4>1. PICK v \in VM : v = cmds[1].vm
            BY <3>4, <3>5 DEF Command
      <4>2. pc[v] \in BreakWaits
            BY <3>1, <3>3, <3>4, <3>5, <4>1, BackHeld DEF StopInv, IsResume
      <4> QED BY <3>3, <4>1, <4>2 DEF StopInv, StatesKnown, Outside, BreakWaits
    <3> QED BY <3>1, <3>2, <3>4, <3>5
  <2>2. CASE CmdStray
        BY <2>2, StrayNoResume DEF CmdStray
  <2>3. CASE CmdResume \/ CmdBreak \/ CmdToggle \/ CmdLoadDone \/ CmdEvaluate
        BY <2>3 DEF CmdResume, CmdBreak, CmdToggle, CmdLoadDone, CmdEvaluate
  <2>4. CASE CmdEvaluated \/ CmdDetach \/ CmdCleanup \/ CmdPipeClosed
        BY <2>4 DEF CmdEvaluated, CmdDetach, CmdCleanup, CmdPipeClosed
  <2> QED BY <1>3, <2>1, <2>2, <2>3, <2>4 DEF CmdThread
<1>4. CASE Front \/ User
  <2>1. UNCHANGED <<pc, cmd, found>>
        BY <1>4, OutsideFrame
  <2> QED BY <2>1 DEF StopInv
<1> QED BY <1>1, <1>2, <1>3, <1>4, NextSteps

LEMMA StopInvInit == ASSUME Init PROVE StopInv
<1> USE DEF Init, NoCmd, Msg
<1>1. DetachLast /\ StatesKnown /\ HookedInside /\ EvaluateSafe /\ ResumeFound /\ ResumeFindsItsVm
      BY DEF DetachLast, StatesKnown, HookedInside, EvaluateSafe, ResumeFound, ResumeFindsItsVm,
             Outside, Evaluating, EvaluatesIn, InError, DetachKind
<1>2. ASSUME NEW v \in VM PROVE Back(v) = 0 /\ Out(v) = 0 /\ Held(v) = 0
  <2>1. Count(cmds, ResumesOf(v)) = 0 /\ Count(evs, BreaksOf(v)) = 0
        BY CountNone
  <2>2. ~Executed(v) /\ ~breakEvent[v] /\ v \notin stopped /\ v \notin checking
        BY DEF Executed
  <2>3. pc[v] \notin BreakWaits
        BY DEF BreakWaits
  <2> HIDE DEF Init
  <2> QED BY <2>1, <2>2, <2>3 DEF Back, Out, Held, Bit
<1>3. ResumeBound /\ OnePermit
      BY <1>2 DEF ResumeBound, OnePermit
<1> QED BY <1>1, <1>3 DEF StopInv

LEMMA StopInvariant == Spec => []StopInv
<1>1. ASSUME TypeOK, StopInv, [Next]_vars PROVE StopInv'
  <2>1. CASE Next
    <3>1. DetachLast' /\ StatesKnown' /\ HookedInside'
          BY <1>1, <2>1, DetachLastStep, StatesKnownStep, HookedInsideStep DEF StopInv
    <3>2. EvaluateSafe' /\ ResumeBound' /\ OnePermit' /\ ResumeFound' /\ ResumeFindsItsVm'
          BY <1>1, <2>1, EvaluateSafeStep, PermitStep, ResumeFoundStep
    <3> QED BY <3>1, <3>2 DEF StopInv
  <2>2. CASE UNCHANGED vars
    <3> USE DEF vars, backend, signals, adapter
    <3>1. DetachLast' /\ StatesKnown' /\ HookedInside' /\ ResumeFound' /\ ResumeFindsItsVm'
          BY <1>1, <2>2 DEF StopInv, DetachLast, StatesKnown, HookedInside, ResumeFound,
                            ResumeFindsItsVm
    <3>2. EvaluateSafe'
          BY <1>1, <2>2 DEF StopInv, EvaluateSafe, Evaluating, EvaluatesIn, Stopped, Executed
    <3>3. ASSUME NEW v \in VM
          PROVE  Back(v)' = Back(v) /\ Out(v)' = Out(v) /\ Held(v)' = Held(v)
          BY <2>2 DEF Back, Out, Held, ResumesOf, BreaksOf, Executed
    <3>4. ResumeBound' /\ OnePermit'
          BY <1>1, <2>2, <3>3 DEF StopInv, ResumeBound, OnePermit
    <3> QED BY <3>1, <3>2, <3>4 DEF StopInv
  <2> QED BY <1>1, <2>1, <2>2
<1>2. TypeOK /\ StopInv /\ [Next]_vars => StopInv'
      BY <1>1
<1>3. Init => StopInv
      BY StopInvInit
<1> QED BY <1>2, <1>3, TypeCorrect, PTL DEF Spec

\* Whatever the number of virtual machines, a stop has one permission to go on: its
\* break event, the entry in the adapter's books, the resume command and break_event
\* are never two of them, and no thread that runs has one that would let it run
\* through its next stop (BreakFromScript, WaitForContinue, worker.lua).
THEOREM OneResumePerStop == Spec => []BreakPermit
<1>1. TypeOK /\ StopInv => BreakPermit
  <2> SUFFICES ASSUME TypeOK, StopInv, front = "up", pc[Cmd] # "excWait", NEW v \in VM
               PROVE  Permits(v) = One(pc[v] \in BreakWaits)
      BY DEF BreakPermit
  <2>1. Out(v) + Back(v) = Held(v)
        BY DEF StopInv, OnePermit
  <2> QED BY <2>1, Permissions DEF Held, One, Bit
<1> QED BY <1>1, StopInvariant, TypeCorrect, PTL

\* No two threads run one lua_State: the command thread evaluates only in states
\* whose own thread is in a break wait, and none of the commands before the
\* evaluation lets it out (DebugBackend::Evaluate, WaitForContinue).
THEOREM EvaluationsAreStopped == Spec => []EvaluateWhileStopped
<1>1. StopInv => EvaluateWhileStopped
      BY DEF StopInv, EvaluateSafe, Evaluating, Stopped, EvaluateWhileStopped
<1> QED BY <1>1, StopInvariant, PTL

\* A continue or a step executes on a virtual machine that still exists, though it
\* is looked up without a lock when it is read (CommandThreadProc).
THEOREM ResumesFindTheirVm == Spec => []ResumeFindsItsVm
<1>1. StopInv => ResumeFindsItsVm
      BY DEF StopInv
<1> QED BY <1>1, StopInvariant, PTL

\* Until a detach the threads of the program meet no hook and no error handler for a
\* state the backend does not know (HookCallback, ErrorHandler).
THEOREM NoScriptCrashes == Spec => []ScriptsSurvive
<1>1. StopInv => ScriptsSurvive
      BY DEF StopInv, StatesKnown, ScriptsSurvive
<1> QED BY <1>1, StopInvariant, PTL

\* Until a detach a hooked state is one the backend knows, so the detach that unhooks
\* those it knows leaves no hook behind (AttachState, DetachState, CommandThreadProc).
THEOREM HookedAreKnown == Spec => []HookedKnown
<1>1. StopInv => HookedKnown
      BY DEF StopInv, StatesKnown, HookedInside, HookedKnown
<1> QED BY <1>1, StopInvariant, PTL

-----------------------------------------------------------------------------
(* The adapter and the backend agree on the breakpoints, up to the toggles *)
(* under way.  A toggle flips, so one too many is as bad as one too few:   *)
(* the adapter must be told of a script exactly once (ToldOnce), since     *)
(* being told sends a toggle for the breakpoint the user wants.            *)

LoadsOf(s)   == {e \in Event : e.type = "LoadScript" /\ e.script = s}
TogglesOf(s) == {c \in Command : IsToggle(c, s)}
Toggling(s)  == pc[Cmd] = "exec" /\ IsToggle(cmd, s)
Pending(s)   == Count(cmds, TogglesOf(s)) + Bit(Toggling(s))

\* A script the backend knows is on its way to the adapter or has arrived.
ToldOnce ==
    front = "up" => \A s \in Script : Count(evs, LoadsOf(s)) + Bit(s \in files) = Bit(s \in known)
Agree(s) == (s \in bps) = (s \in files \cap want) <=> Pending(s) % 2 = 0

LEMMA PendingToggles ==
    ASSUME TypeOK, NEW s \in Script
    PROVE  /\ Toggles(s) = Pending(s) /\ Pending(s) \in Nat
           /\ Count(cmds, TogglesOf(s)) \in Nat /\ Count(evs, LoadsOf(s)) \in Nat
<1>1. Count(cmds, TogglesOf(s)) \in Nat /\ Count(evs, LoadsOf(s)) \in Nat
      BY CountType DEF TypeOK, PipesOK
<1>2. Positions(cmds, TogglesOf(s)) = {i \in DOMAIN cmds : IsToggle(cmds[i], s)}
      BY LenProperties DEF Positions, TogglesOf, TypeOK, PipesOK
<1>3. Toggles(s) = Pending(s)
      BY <1>2 DEF Toggles, Pending, Count, Toggling, One, Bit
<1> QED BY <1>1, <1>3 DEF Pending, Bit

-----------------------------------------------------------------------------
(* Telling the adapter of a script.                                        *)

Untold == \A s \in Script : Count(evs, LoadsOf(s))' = Count(evs, LoadsOf(s))

LEMMA LoadSent ==
    ASSUME TypeOK, front = "up", NEW e \in Event, Send(<<e>>), NEW s \in Script
    PROVE  Count(evs, LoadsOf(s))' = Count(evs, LoadsOf(s)) + Bit(e \in LoadsOf(s))
<1>1. evs' = Append(evs, e) /\ evs \in Seq(Event)
      BY ConcatOne DEF Send, TypeOK, PipesOK
<1>2. Count(Append(evs, e), LoadsOf(s)) = Count(evs, LoadsOf(s)) + Bit(e \in LoadsOf(s))
      BY <1>1, CountAppend
<1> QED BY <1>1, <1>2 DEF LoadsOf

LEMMA UntoldSame == ASSUME evs' = evs PROVE Untold
BY DEF Untold, LoadsOf

LEMMA UntoldOther ==
    ASSUME TypeOK, front = "up", NEW e \in Event, e.type # "LoadScript", Send(<<e>>)
    PROVE  Untold
<1>1. \A s : e \notin LoadsOf(s)
      BY DEF LoadsOf
<1> QED BY <1>1, LoadSent, PendingToggles DEF Untold, Bit

LEMMA UntoldError ==
    ASSUME TypeOK, front = "up", NEW v \in VM, Send(<<Msg("LoadError", v), Msg("Break", v)>>)
    PROVE  Untold
<1> DEFINE d == Msg("LoadError", v)
           e == Msg("Break", v)
<1> SUFFICES ASSUME NEW s \in Script
             PROVE  Count(evs, LoadsOf(s))' = Count(evs, LoadsOf(s))
    BY DEF Untold
<1>1. d \in Event /\ e \in Event /\ evs \in Seq(Event)
      BY EventMsg DEF EventType, TypeOK, PipesOK
<1>2. LoadsOf(s)' = LoadsOf(s) /\ d \notin LoadsOf(s) /\ e \notin LoadsOf(s)
      BY DEF LoadsOf, Msg
<1>3. evs' = Append(Append(evs, d), e) /\ Append(evs, d) \in Seq(Event)
      BY <1>1, ConcatTwo, AppendAt DEF Send
<1>4. Count(Append(evs, d), LoadsOf(s)) = Count(evs, LoadsOf(s)) + Bit(d \in LoadsOf(s))
      BY <1>1, CountAppend
<1>5. Count(Append(Append(evs, d), e), LoadsOf(s)) =
          Count(Append(evs, d), LoadsOf(s)) + Bit(e \in LoadsOf(s))
      BY <1>1, <1>3, CountAppend
<1> HIDE DEF d, e
<1> QED BY <1>2, <1>3, <1>4, <1>5, PendingToggles DEF Bit

\* A thread that registers a script nobody knows tells of it.
LEMMA Registers ==
    ASSUME TypeOK, ToldOnce, front = "up", UNCHANGED <<front, files>>, NEW v \in VM,
           NEW x \in Script, x \notin known, known' = known \cup {x},
           Send(<<MsgOn("LoadScript", v, x)>>)
    PROVE  ToldOnce'
<1> DEFINE e == MsgOn("LoadScript", v, x)
<1> SUFFICES ASSUME NEW s \in Script
             PROVE  Count(evs, LoadsOf(s))' + Bit(s \in files)' = Bit(s \in known)'
    BY DEF ToldOnce
<1>1. e \in Event /\ (e \in LoadsOf(s) <=> s = x)
      BY EventMsgOn DEF LoadsOf, MsgOn
<1>2. Count(evs, LoadsOf(s))' = Count(evs, LoadsOf(s)) + Bit(e \in LoadsOf(s))
      BY <1>1, LoadSent
<1>3. Count(evs, LoadsOf(s)) + Bit(s \in files) = Bit(s \in known)
      BY DEF ToldOnce
<1> HIDE DEF e
<1> QED BY <1>1, <1>2, <1>3, PendingToggles DEF Bit

LEMMA ToldSame ==
    ASSUME ToldOnce, UNCHANGED <<front, files, known>>, front = "up" => Untold
    PROVE  ToldOnce'
BY DEF ToldOnce, Untold, Bit

LEMMA ScriptTells ==
    ASSUME TypeOK, ToldOnce, NEW v \in VM, Lifecycle(v) \/ Hook(v) \/ Break(v) \/ Load(v)
    PROVE  ToldOnce'
<1> USE DEF backend, adapter, signals
<1>1. UNCHANGED <<front, files>>
      BY ScriptFrame DEF ScriptStep
<1> SUFFICES ASSUME front = "up" PROVE ToldOnce'
    BY <1>1 DEF ToldOnce
<1>2. CASE Lifecycle(v)
  <2>1. known' = known
        BY <1>2 DEF Lifecycle, NewState, AttachState, CloseState, DetachState
  <2>2. Untold
    <3>1. CASE evs' = evs
          BY <3>1, UntoldSame
    <3>2. CASE Send(<<Msg("CreateVM", v)>>) \/ Send(<<Msg("DestroyVM", v)>>)
          BY <3>2, EventMsg, UntoldOther DEF EventType, Msg
    <3>3. CASE Send(<<>>)
          BY <3>3, SentNone, UntoldSame
    <3> QED BY <1>2, <3>1, <3>2, <3>3 DEF Lifecycle, NewState, AttachState, CloseState, DetachState
  <2> QED BY <1>1, <2>1, <2>2, ToldSame
<1>3. CASE Hook(v)
  <2>1. CASE HookRegister(v)
    <3>1. /\ work[v].script \in Script \ known /\ known' = known \cup {work[v].script}
          /\ Send(<<MsgOn("LoadScript", v, work[v].script)>>)
          BY <2>1 DEF HookRegister, MustRegister, TypeOK, BusyOK, AtWork
    <3> QED BY <1>1, <3>1, Registers
  <2>2. CASE UNCHANGED <<known, evs>>
        BY <1>1, <2>2, ToldSame, UntoldSame
  <2> QED BY <1>3, <2>1, <2>2 DEF Hook, HookEnter, HookStart, HookUnknown, HookLoaded, HookReenter,
                                  HookCall, HookLine
<1>4. CASE Break(v)
  <2>1. known' = known
        BY <1>4 DEF Break, BreakSend, BreakWake, BreakClear
  <2>2. CASE evs' = evs
        BY <1>1, <2>1, <2>2, ToldSame, UntoldSame
  <2>3. CASE Send(<<Msg("Break", v)>>)
    <3>1. Untold
          BY <2>3, EventMsg, UntoldOther DEF EventType, Msg
    <3> QED BY <1>1, <2>1, <3>1, ToldSame
  <2> QED BY <1>4, <2>2, <2>3 DEF Break, BreakSend, BreakWake, BreakClear
<1>5. CASE Load(v)
  <2>1. CASE LoadRegister(v)
    <3>1. PICK x \in Script : x = work[v].script
          BY <2>1 DEF LoadRegister, TypeOK, BusyOK, AtWork
    <3>2. CASE x \in known
      <4>1. known' = known /\ Send(<<>>)
            BY <2>1, <3>1, <3>2 DEF LoadRegister
      <4> QED BY <1>1, <4>1, SentNone, UntoldSame, ToldSame
    <3>3. CASE x \notin known
      <4>1. known' = known \cup {x} /\ Send(<<MsgOn("LoadScript", v, x)>>)
            BY <2>1, <3>1, <3>3 DEF LoadRegister
      <4> QED BY <1>1, <3>3, <4>1, Registers
    <3> QED BY <3>2, <3>3
  <2>2. CASE LoadErrorSend(v)
    <3>1. Untold /\ known' = known
          BY <2>2, UntoldError DEF LoadErrorSend
    <3> QED BY <1>1, <3>1, ToldSame
  <2>3. CASE UNCHANGED <<known, evs>>
        BY <1>1, <2>3, ToldSame, UntoldSame
  <2> QED BY <1>5, <2>1, <2>2, <2>3 DEF Load, LoadScript, LoadErrorEnter, LoadErrorWake, LoadWake
<1> QED BY <1>2, <1>3, <1>4, <1>5

LEMMA ErrorTells ==
    ASSUME TypeOK, ToldOnce, NEW t \in Thread, Error(t)
    PROVE  ToldOnce'
<1>1. UNCHANGED <<front, files, known>>
      BY DEF Error, ErrorUnknown, ErrorHandler, ErrorMessage, ExceptionSend, ExceptionBreak,
             ExceptionWake, adapter, backend
<1> SUFFICES ASSUME front = "up" PROVE Untold
    BY <1>1, ToldSame
<1>2. CASE evs' = evs
      BY <1>2, UntoldSame
<1>3. CASE ErrorMessage(t)
      BY <1>3, EventMessage, UntoldOther DEF ErrorMessage, Msg
<1>4. CASE ExceptionSend(t) \/ ExceptionBreak(t)
  <2>1. t = Cmd => pc[t] \in {"eval"} \cup InError
        BY <1>4 DEF ExceptionSend, ExceptionBreak, InError
  <2>2. StateOf(t) \in VM
        BY <2>1, EvaluatedVm
  <2>3. /\ Msg("Exception", StateOf(t)) \in Event /\ Msg("Break", StateOf(t)) \in Event
        /\ Msg("Exception", StateOf(t)).type # "LoadScript"
        /\ Msg("Break", StateOf(t)).type # "LoadScript"
        BY <2>2, EventMsg DEF EventType, Msg
  <2> QED BY <1>4, <2>3, UntoldOther DEF ExceptionSend, ExceptionBreak
<1> QED BY <1>2, <1>3, <1>4 DEF Error, ErrorUnknown, ErrorHandler, ExceptionWake

LEMMA CommandTells ==
    ASSUME TypeOK, DetachLast, ToldOnce, CmdThread
    PROVE  ToldOnce'
<1>1. UNCHANGED <<front, files>>
      BY DEF CmdThread, CmdRead, CmdResume, CmdBreak, CmdToggle, CmdStray, CmdLoadDone, CmdEvaluate,
             CmdEvaluated, CmdDetach, CmdCleanup, CmdPipeClosed, adapter
<1> SUFFICES ASSUME front = "up" PROVE ToldOnce'
    BY <1>1 DEF ToldOnce
<1>2. known' = known
  <2>1. ~CmdCleanup
        BY DEF CmdCleanup, DetachLast
  <2> QED BY <2>1 DEF CmdThread, CmdRead, CmdResume, CmdBreak, CmdToggle, CmdStray, CmdLoadDone,
                      CmdEvaluate, CmdEvaluated, CmdDetach, CmdPipeClosed, backend
<1>3. Untold
  <2>1. CASE evs' = evs
        BY <2>1, UntoldSame
  <2>2. CASE CmdToggle
    <3>1. cmd.script \in Script
          BY <2>2 DEF CmdToggle, Executing, TypeOK, CmdOK, Command
    <3> QED BY <2>2, <3>1, EventSet, UntoldOther DEF CmdToggle, MsgOn
  <2>3. CASE Send(<<Msg("EvaluateRet", cmd.vm)>>) /\ cmd.vm \in VM
        BY <2>3, EventMsg, UntoldOther DEF EventType, Msg
  <2>4. CASE CmdEvaluate \/ CmdEvaluated
    <3>1. cmd.vm \in VM
          BY <2>4 DEF CmdEvaluate, CmdEvaluated, Executing, TypeOK, CmdOK, BusyOK, Command
    <3> QED BY <2>1, <2>3, <2>4, <3>1 DEF CmdEvaluate, CmdEvaluated
  <2> QED BY <2>1, <2>2, <2>4 DEF CmdThread, CmdRead, CmdResume, CmdBreak, CmdStray, CmdLoadDone,
                                  CmdDetach, CmdCleanup, CmdPipeClosed
<1> QED BY <1>1, <1>2, <1>3, ToldSame

LEMMA Told ==
    ASSUME TypeOK, NEW q \in Seq(Event), q # <<>>, NEW s \in Script
    PROVE  /\ Count(q, LoadsOf(s)) = Count(Tail(q), LoadsOf(s)) + Bit(Head(q) \in LoadsOf(s))
           /\ Count(Tail(q), LoadsOf(s)) \in Nat
BY CountTail, CountType, TailAt

LEMMA OutsideTells ==
    ASSUME TypeOK, ToldOnce, Front \/ User
    PROVE  ToldOnce'
<1> SUFFICES ASSUME front' = "up", NEW s \in Script
             PROVE  Count(evs, LoadsOf(s))' + Bit(s \in files)' = Bit(s \in known)'
    BY DEF ToldOnce
<1>1. known' = known /\ LoadsOf(s)' = LoadsOf(s)
      BY OutsideFrame DEF backend, LoadsOf
<1>2. CASE User
  <2>1. front = "up" /\ evs' = evs /\ files' = files
        BY <1>2 DEF User, UserResume, UserPause, UserEvaluate, UserBreakpoint, UserDisconnect,
                    UserMay, adapter
  <2> QED BY <1>1, <2>1 DEF ToldOnce, Bit
<1>3. CASE Front
  <2>1. front = "up" /\ evs # <<>> /\ evs \in Seq(Event)
        BY <1>3 DEF Front, FrontCreateVM, FrontLoadScript, FrontBreak, FrontError,
                    FrontEvaluateRet, FrontOther, FrontEvent, TypeOK, PipesOK
  <2>2. Count(evs, LoadsOf(s)) + Bit(s \in files) = Bit(s \in known)
        BY <2>1 DEF ToldOnce
  <2>3. /\ Count(evs, LoadsOf(s)) = Count(Tail(evs), LoadsOf(s)) + Bit(Head(evs) \in LoadsOf(s))
        /\ Count(Tail(evs), LoadsOf(s)) \in Nat
        BY <2>1, Told
  <2>4. CASE FrontLoadScript
    <3>1. /\ Head(evs) \in LoadsOf(s) <=> s = Head(evs).script
          /\ evs' = Tail(evs) /\ files' = files \cup {Head(evs).script}
          BY <2>4, FirstEvent DEF FrontLoadScript, FrontEvent, LoadsOf, TypeOK
    <3>2. Count(evs, LoadsOf(s))' = Count(Tail(evs), LoadsOf(s))
          BY <1>1, <3>1
    <3>3. CASE s = Head(evs).script
      <4>1. Bit(s \in files)' = 1 /\ Bit(Head(evs) \in LoadsOf(s)) = 1
            BY <3>1, <3>3 DEF Bit
      <4>2. Bit(s \in files) = 0 /\ Count(Tail(evs), LoadsOf(s)) = 0 /\ Bit(s \in known) = 1
            BY <2>2, <2>3, <4>1 DEF Bit
      <4> QED BY <1>1, <3>2, <4>1, <4>2
    <3>4. CASE s # Head(evs).script
          BY <1>1, <2>2, <2>3, <3>1, <3>2, <3>4 DEF Bit
    <3> QED BY <3>3, <3>4
  <2>5. CASE FrontError
    <3> DEFINE r == Tail(evs)
    <3>1. /\ evs[2].type = "Break" /\ evs' = Tail(r) /\ files' = files
          /\ Head(evs).type # "LoadScript" /\ Len(evs) > 1
          BY <2>5 DEF FrontError, FrontEvent, Msg
    <3>2. r \in Seq(Event) /\ r # <<>> /\ Head(r) = evs[2]
      <4>1. /\ Len(evs) \in Nat /\ r \in Seq(Event) /\ Len(r) = Len(evs) - 1
            /\ \A i \in 1 .. Len(evs) - 1 : r[i] = evs[i + 1]
            BY <2>1, TailAt
      <4> HIDE DEF r
      <4>2. r # <<>>
            BY <3>1, <4>1
      <4> QED BY <3>1, <4>1, <4>2, TailAt
    <3> HIDE DEF r
    <3>3. /\ Count(r, LoadsOf(s)) = Count(Tail(r), LoadsOf(s)) + Bit(Head(r) \in LoadsOf(s))
          /\ Count(Tail(r), LoadsOf(s)) \in Nat
          BY <3>2, Told
    <3>4. Head(r) \notin LoadsOf(s) /\ Head(evs) \notin LoadsOf(s)
          BY <3>1, <3>2 DEF LoadsOf
    <3>5. Count(evs, LoadsOf(s))' = Count(Tail(r), LoadsOf(s))
          BY <1>1, <3>1
    <3>6. Count(evs, LoadsOf(s)) = Count(r, LoadsOf(s))
          BY <2>3, <3>4 DEF r, Bit
    <3>7. Count(r, LoadsOf(s)) = Count(Tail(r), LoadsOf(s))
          BY <3>3, <3>4 DEF Bit
    <3> QED BY <1>1, <2>2, <3>1, <3>5, <3>6, <3>7 DEF Bit
  <2>6. CASE FrontCreateVM \/ FrontBreak \/ FrontEvaluateRet \/ FrontOther
    <3>1. Head(evs).type # "LoadScript" /\ evs' = Tail(evs) /\ files' = files
          BY <2>6 DEF FrontCreateVM, FrontBreak, FrontEvaluateRet, FrontOther, FrontEvent, adapter
    <3>2. Head(evs) \notin LoadsOf(s)
          BY <3>1 DEF LoadsOf
    <3>3. Count(evs, LoadsOf(s))' = Count(evs, LoadsOf(s))
          BY <1>1, <2>3, <3>1, <3>2 DEF Bit
    <3> QED BY <1>1, <2>2, <3>1, <3>3 DEF Bit
  <2> QED BY <1>3, <2>4, <2>5, <2>6 DEF Front
<1> QED BY <1>2, <1>3

LEMMA ToldOnceStep == ASSUME TypeOK, DetachLast, ToldOnce, Next PROVE ToldOnce'
<1>1. ASSUME NEW v \in VM, ScriptStep(v) PROVE ToldOnce'
      BY <1>1, ScriptTells, ErrorTells DEF ScriptStep
<1>2. Error(Cmd) => ToldOnce'
      BY ErrorTells
<1> QED BY <1>1, <1>2, CommandTells, OutsideTells, NextSteps

-----------------------------------------------------------------------------
(* The toggles under way.                                                  *)

LEMMA Flip == ASSUME NEW n \in Nat PROVE (n + 1) % 2 = 0 <=> n % 2 # 0
OBVIOUS

LEMMA PendingSame ==
    ASSUME TypeOK, cmds' = cmds, NEW s \in Script, Toggling(s)' <=> Toggling(s)
    PROVE  Pending(s)' = Pending(s)
<1>1. Count(cmds, TogglesOf(s))' = Count(cmds, TogglesOf(s))
      BY DEF TogglesOf
<1> QED BY <1>1 DEF Pending, Bit

LEMMA AgreeSame ==
    ASSUME TypeOK, NEW s \in Script, Agree(s), UNCHANGED <<bps, files, want>>,
           Pending(s)' = Pending(s)
    PROVE  Agree(s)'
BY DEF Agree

LEMMA PendingAppend ==
    ASSUME NEW q \in Seq(Command), NEW c \in Command, NEW s \in Script
    PROVE  Count(Append(q, c), TogglesOf(s)) = Count(q, TogglesOf(s)) + Bit(IsToggle(c, s))
<1>1. Count(Append(q, c), TogglesOf(s)) = Count(q, TogglesOf(s)) + Bit(c \in TogglesOf(s))
      BY CountAppend
<1>2. c \in TogglesOf(s) <=> IsToggle(c, s)
      BY DEF TogglesOf
<1> QED BY <1>1, <1>2 DEF Bit

LEMMA Toggled ==
    ASSUME TypeOK, NEW c \in Command, cmds' = Append(cmds, c), UNCHANGED <<pc, cmd>>,
           NEW s \in Script
    PROVE  Pending(s)' = Pending(s) + Bit(IsToggle(c, s))
<1>1. Count(cmds, TogglesOf(s))' = Count(cmds, TogglesOf(s)) + Bit(IsToggle(c, s))
      BY PendingAppend DEF TogglesOf, TypeOK, PipesOK
<1>2. Bit(Toggling(s))' = Bit(Toggling(s))
      BY DEF Toggling
<1> QED BY <1>1, <1>2, PendingToggles DEF Pending, Bit

LEMMA CommandAgrees ==
    ASSUME TypeOK, DetachLast, CmdThread, front' = "up", Alive', NEW s \in Script, Agree(s)
    PROVE  Agree(s)'
<1> USE DEF TypeOK, PcOK, Goto, NextCommand, Executing
<1>1. UNCHANGED <<front, files, want>>
      BY DEF CmdThread, CmdRead, CmdResume, CmdBreak, CmdToggle, CmdStray, CmdLoadDone, CmdEvaluate,
             CmdEvaluated, CmdDetach, CmdCleanup, CmdPipeClosed, adapter
<1>2. CASE CmdRead
  <2>1. cmds \in Seq(Command) /\ cmds # <<>> /\ Head(cmds) \in Command /\ bps' = bps
        BY <1>2, TailAt DEF CmdRead, PipesOK, backend
  <2>2. /\ Count(cmds, TogglesOf(s)) = Count(Tail(cmds), TogglesOf(s))
                                       + Bit(Head(cmds) \in TogglesOf(s))
        /\ Count(Tail(cmds), TogglesOf(s)) \in Nat
        BY <2>1, CountTail, CountType, TailAt
  <2>3. /\ Toggling(s)' <=> Head(cmds) \in TogglesOf(s)
        /\ ~Toggling(s)
        BY <1>2, <2>1 DEF CmdRead, Toggling, TogglesOf, IsToggle
  <2>4. Count(cmds, TogglesOf(s))' = Count(Tail(cmds), TogglesOf(s))
        BY <1>2 DEF CmdRead, TogglesOf
  <2>5. /\ Pending(s)' = Count(cmds, TogglesOf(s))' + Bit(Toggling(s))'
        /\ Bit(Toggling(s))' = Bit(Head(cmds) \in TogglesOf(s)) /\ Bit(Toggling(s)) = 0
        BY <2>3 DEF Pending, Bit
  <2>6. Pending(s)' = Pending(s)
        BY <2>2, <2>4, <2>5 DEF Pending, Bit
  <2> QED BY <1>1, <2>1, <2>6, AgreeSame
<1>3. CASE CmdToggle
  <2>1. /\ cmds' = cmds /\ Toggling(cmd.script) /\ ~Toggling(s)'
        /\ bps' = IF cmd.script \notin bps THEN bps \cup {cmd.script} ELSE bps \ {cmd.script}
        BY <1>3 DEF CmdToggle, Toggling, IsToggle
  <2>2. CASE s = cmd.script
    <3>1. Count(cmds, TogglesOf(s))' = Count(cmds, TogglesOf(s))
          BY <2>1 DEF TogglesOf
    <3>2. Pending(s) = Pending(s)' + 1 /\ Pending(s)' \in Nat
          BY <2>1, <2>2, <3>1, PendingToggles DEF Pending, Bit
    <3>3. s \in bps' <=> s \notin bps
          BY <2>1, <2>2
    <3>4. Pending(s) % 2 = 0 <=> ~(Pending(s)' % 2 = 0)
          BY <3>2, Flip
    <3>5. (s \in files \cap want)' = (s \in files \cap want)
          BY <1>1
    <3> QED BY <3>3, <3>4, <3>5 DEF Agree
  <2>3. CASE s # cmd.script
    <3>1. ~Toggling(s) /\ (s \in bps' <=> s \in bps)
          BY <2>1, <2>3 DEF Toggling, IsToggle
    <3>2. Pending(s)' = Pending(s)
          BY <2>1, <3>1, PendingSame
    <3> QED BY <1>1, <3>1, <3>2 DEF Agree
  <2> QED BY <2>2, <2>3
<1>4. ~CmdStray /\ ~CmdDetach /\ ~CmdCleanup /\ ~CmdPipeClosed
  <2>1. ~CmdStray
        BY DEF CmdStray, Alive
  <2> QED BY <1>1, <2>1 DEF CmdDetach, CmdCleanup, CmdPipeClosed, DetachLast, DetachKind
<1>5. CASE CmdResume \/ CmdBreak \/ CmdLoadDone \/ CmdEvaluate \/ CmdEvaluated
  <2>1. UNCHANGED <<cmds, bps>> /\ ~Toggling(s) /\ ~Toggling(s)'
        BY <1>5 DEF CmdResume, CmdBreak, CmdLoadDone, CmdEvaluate, CmdEvaluated, Toggling, IsToggle,
                    ResumeKind, backend
  <2> QED BY <1>1, <2>1, PendingSame, AgreeSame
<1> QED BY <1>2, <1>3, <1>4, <1>5 DEF CmdThread

LEMMA OutsideAgrees ==
    ASSUME TypeOK, ToldOnce, Front \/ User, front' = "up", NEW s \in Script, Agree(s)
    PROVE  Agree(s)'
<1>1. UNCHANGED <<pc, cmd, bps>> /\ (Toggling(s)' <=> Toggling(s)) /\ cmds \in Seq(Command)
      BY OutsideFrame DEF backend, Toggling, TypeOK, PipesOK
<1>2. ASSUME UNCHANGED <<files, want>>,
             cmds' = cmds \/ \E c \in Command : c.type # "Toggle" /\ cmds' = Append(cmds, c)
      PROVE  Agree(s)'
  <2>1. CASE cmds' = cmds
        BY <1>1, <1>2, <2>1, PendingSame, AgreeSame
  <2>2. CASE \E c \in Command : c.type # "Toggle" /\ cmds' = Append(cmds, c)
    <3>1. PICK c \in Command : c.type # "Toggle" /\ cmds' = Append(cmds, c)
          BY <2>2
    <3>2. Pending(s)' = Pending(s)
          BY <1>1, <3>1, Toggled, PendingToggles DEF IsToggle, Bit
    <3> QED BY <1>1, <1>2, <3>2, AgreeSame
  <2> QED BY <1>2, <2>1, <2>2
<1>3. ASSUME NEW w \in VM, Decide(w) \/ AskFirst(w)
      PROVE  cmds' = cmds \/ \E c \in Command : c.type # "Toggle" /\ cmds' = Append(cmds, c)
  <2>1. /\ Msg("Continue", w) \in Command /\ Msg("Evaluate", w) \in Command
        /\ Msg("Continue", w).type # "Toggle" /\ Msg("Evaluate", w).type # "Toggle"
        BY CommandMsg DEF ResumeKind, Msg
  <2> QED BY <1>3, <2>1 DEF Decide, AskFirst
<1>4. CASE FrontLoadScript
  <2>1. PICK x \in Script : x = Head(evs).script
        BY <1>4, FirstEvent DEF FrontLoadScript, FrontEvent, TypeOK, Event
  <2>2. x \notin files
    <3>1. Head(evs) \in LoadsOf(x) /\ evs # <<>> /\ evs \in Seq(Event) /\ front = "up"
          BY <1>4, <2>1, FirstEvent DEF FrontLoadScript, FrontEvent, TypeOK, LoadsOf, PipesOK
    <3>2. /\ Count(evs, LoadsOf(x)) = Count(Tail(evs), LoadsOf(x)) + 1
          /\ Count(Tail(evs), LoadsOf(x)) \in Nat
          BY <3>1, Told DEF Bit
    <3>3. Count(evs, LoadsOf(x)) + Bit(x \in files) = Bit(x \in known)
          BY <3>1 DEF ToldOnce
    <3> QED BY <3>2, <3>3 DEF Bit
  <2>3. PICK v \in VM : v = Head(evs).vm
        BY <1>4, EventVm DEF FrontLoadScript
  <2> DEFINE d == MsgOn("Toggle", None, x)
             e == Msg("LoadDone", v)
  <2>4. /\ d \in Command /\ e \in Command /\ ~IsToggle(e, s)
        /\ IsToggle(d, s) <=> s = x
        BY CommandToggle, CommandMsg DEF IsToggle, Msg, MsgOn
  <2>5. files' = files \cup {x} /\ want' = want /\ bps' = bps
        BY <1>1, <1>4, <2>1 DEF FrontLoadScript
  <2>6. cmds' = IF x \in want THEN Append(Append(cmds, d), e) ELSE Append(cmds, e)
    <3>1. cmds' = cmds \o (IF x \in want THEN <<d>> ELSE <<>>) \o <<e>>
          BY <1>4, <2>1, <2>3 DEF FrontLoadScript
    <3>2. /\ cmds \o <<d>> = Append(cmds, d) /\ Append(cmds, d) \in Seq(Command)
          /\ cmds \o <<>> = cmds
          BY <1>1, <2>4, ConcatOne, AppendAt, ConcatProperties
    <3> HIDE DEF d, e
    <3>3. /\ Append(cmds, d) \o <<e>> = Append(Append(cmds, d), e)
          /\ cmds \o <<e>> = Append(cmds, e)
          BY <1>1, <2>4, <3>2, ConcatOne
    <3>4. CASE x \in want
          BY <3>1, <3>2, <3>3, <3>4
    <3>5. CASE x \notin want
          BY <3>1, <3>2, <3>3, <3>5
    <3> QED BY <3>4, <3>5
  <2> HIDE DEF d, e
  <2>7. /\ Count(Append(cmds, e), TogglesOf(s)) = Count(cmds, TogglesOf(s)) + Bit(IsToggle(e, s))
        /\ Count(Append(cmds, d), TogglesOf(s)) = Count(cmds, TogglesOf(s)) + Bit(IsToggle(d, s))
        /\ Count(Append(Append(cmds, d), e), TogglesOf(s)) =
              Count(Append(cmds, d), TogglesOf(s)) + Bit(IsToggle(e, s))
    <3>1. Append(cmds, d) \in Seq(Command)
          BY <1>1, <2>4, AppendAt
    <3>2. Count(Append(cmds, e), TogglesOf(s)) = Count(cmds, TogglesOf(s)) + Bit(IsToggle(e, s))
          BY <1>1, <2>4, PendingAppend
    <3>3. Count(Append(cmds, d), TogglesOf(s)) = Count(cmds, TogglesOf(s)) + Bit(IsToggle(d, s))
          BY <1>1, <2>4, PendingAppend
    <3>4. Count(Append(Append(cmds, d), e), TogglesOf(s)) =
              Count(Append(cmds, d), TogglesOf(s)) + Bit(IsToggle(e, s))
          BY <2>4, <3>1, PendingAppend
    <3> QED BY <3>2, <3>3, <3>4
  <2>8. Count(cmds, TogglesOf(s))' = Count(cmds', TogglesOf(s))
        BY DEF TogglesOf
  <2>9. CASE s = x /\ x \in want
    <3>1. cmds' = Append(Append(cmds, d), e) /\ IsToggle(d, s)
          BY <2>4, <2>6, <2>9
    <3>2. Count(cmds, TogglesOf(s))' = Count(cmds, TogglesOf(s)) + 1
          BY <2>4, <2>7, <2>8, <3>1, PendingToggles DEF Bit
    <3>3. Pending(s)' = Pending(s) + 1 /\ Pending(s) \in Nat
          BY <1>1, <3>2, PendingToggles DEF Pending, Bit
    <3>4. Pending(s)' % 2 = 0 <=> ~(Pending(s) % 2 = 0)
          BY <3>3, Flip
    <3>5. s \in files' \cap want' /\ s \notin files \cap want /\ bps' = bps
          BY <2>2, <2>5, <2>9
    <3> QED BY <3>4, <3>5 DEF Agree
  <2>10. CASE ~(s = x /\ x \in want)
    <3>1. Count(cmds, TogglesOf(s))' = Count(cmds, TogglesOf(s))
          BY <2>4, <2>6, <2>7, <2>8, <2>10, PendingToggles DEF Bit
    <3>2. Pending(s)' = Pending(s)
          BY <1>1, <3>1 DEF Pending, Bit
    <3>3. (s \in files' \cap want' <=> s \in files \cap want) /\ bps' = bps
          BY <2>5, <2>10
    <3> QED BY <3>2, <3>3 DEF Agree
  <2> QED BY <2>9, <2>10
<1>5. CASE FrontBreak \/ FrontEvaluateRet
  <2>1. PICK w \in VM : w = Head(evs).vm
        BY <1>5, EventVm DEF FrontBreak, FrontEvaluateRet
  <2>2. UNCHANGED <<files, want>> /\ (Decide(w) \/ AskFirst(w) \/ cmds' = cmds)
        BY <1>5, <2>1 DEF FrontBreak, FrontEvaluateRet
  <2> QED BY <1>2, <1>3, <2>2
<1>6. CASE FrontError
  <2>1. PICK w \in VM : w = evs[1].vm
        BY <1>6, EventVm DEF FrontError
  <2>2. UNCHANGED <<files, want>> /\ (Decide(w) \/ cmds' = cmds)
        BY <1>6, <2>1 DEF FrontError
  <2> QED BY <1>2, <1>3, <2>2
<1>7. CASE FrontCreateVM \/ FrontOther
      BY <1>2, <1>7 DEF FrontCreateVM, FrontOther, adapter
<1>8. CASE User
  <2>1. ASSUME NEW v \in VM, UserResume(v) PROVE Agree(s)'
    <3>1. PICK k \in Steps : cmds' = Append(cmds, Msg(k, v))
          BY <2>1 DEF UserResume
    <3>2. /\ Msg(k, v) \in Command /\ Msg(k, v).type # "Toggle"
          /\ UNCHANGED <<files, want>>
          BY <2>1, CommandMsg DEF Msg, UserResume, ResumeKind
    <3> QED BY <1>2, <3>1, <3>2
  <2>2. ASSUME NEW v \in VM, UserPause(v) \/ UserEvaluate(v) PROVE Agree(s)'
    <3>1. PICK ty \in {"Break", "Evaluate"} : cmds' = Append(cmds, Msg(ty, v))
          BY <2>2 DEF UserPause, UserEvaluate
    <3>2. /\ Msg(ty, v) \in Command /\ Msg(ty, v).type # "Toggle"
          /\ UNCHANGED <<files, want>>
          BY <2>2, CommandMsg DEF Msg, UserPause, UserEvaluate, adapter
    <3> QED BY <1>2, <3>1, <3>2
  <2>3. ASSUME NEW x \in Script, UserBreakpoint(x) PROVE Agree(s)'
    <3>1. /\ files' = files
          /\ want' = IF x \in want THEN want \ {x} ELSE want \cup {x}
          /\ cmds' = IF x \in files THEN Append(cmds, MsgOn("Toggle", None, x)) ELSE cmds
          BY <2>3 DEF UserBreakpoint
    <3>2. MsgOn("Toggle", None, x) \in Command /\ (IsToggle(MsgOn("Toggle", None, x), s) <=> s = x)
          BY CommandToggle DEF IsToggle, MsgOn
    <3>3. x \in files => Pending(s)' = Pending(s) + Bit(IsToggle(MsgOn("Toggle", None, x), s))
          BY <1>1, <3>1, <3>2, Toggled
    <3>4. CASE s = x /\ x \in files
      <4>1. Pending(s)' = Pending(s) + 1
            BY <3>2, <3>3, <3>4 DEF Bit
      <4>2. Pending(s)' % 2 = 0 <=> ~(Pending(s) % 2 = 0)
            BY <4>1, PendingToggles, Flip
      <4>3. (s \in files' \cap want' <=> s \notin files \cap want) /\ bps' = bps
            BY <1>1, <3>1, <3>4
      <4> QED BY <4>2, <4>3 DEF Agree
    <3>5. CASE ~(s = x /\ x \in files)
      <4>1. Pending(s)' = Pending(s)
        <5>1. CASE x \in files
              BY <3>2, <3>3, <3>5, <5>1, PendingToggles DEF Bit
        <5>2. CASE x \notin files
              BY <1>1, <3>1, <5>2, PendingSame
        <5> QED BY <5>1, <5>2
      <4>2. (s \in files' \cap want' <=> s \in files \cap want) /\ bps' = bps
            BY <1>1, <3>1, <3>5
      <4> QED BY <4>1, <4>2 DEF Agree
    <3> QED BY <3>4, <3>5
  <2>4. ~UserDisconnect
        BY DEF UserDisconnect
  <2> QED BY <1>8, <2>1, <2>2, <2>3, <2>4 DEF User
<1> QED BY <1>4, <1>5, <1>6, <1>7, <1>8 DEF Front

-----------------------------------------------------------------------------
\* While the adapter follows the event pipe, whatever the number of scripts, states
\* and commands, the breakpoint it shows for a file is the one the backend has, up
\* to the toggles under way; no script is reported twice, which would toggle its
\* breakpoint off (RegisterScript, worker.lua, DebugBackend::ToggleBreakpoint).
THEOREM SidesAgree == Spec => []BreakpointsAgree
<1> DEFINE AgreeInv == ToldOnce /\ BreakpointsAgree
<1>1. ASSUME TypeOK, StopInv, AgreeInv, Next PROVE AgreeInv'
  <2>1. DetachLast /\ Alive
        BY <1>1 DEF StopInv, Next
  <2>2. ToldOnce'
        BY <1>1, <2>1, ToldOnceStep
  <2>3. BreakpointsAgree'
    <3> SUFFICES ASSUME front' = "up", Alive', NEW s \in Script
                 PROVE  (s \in bps') = (s \in files' \cap want') <=> Toggles(s)' % 2 = 0
        BY DEF BreakpointsAgree
    <3> SUFFICES Agree(s)'
      <4>1. TypeOK'
            BY <1>1, WorkStep, PcStep, CmdStep, BackendStep, SignalsStep, PipesStep, AdapterStep,
               BusyStep DEF TypeOK
      <4>2. Positions(cmds', TogglesOf(s)) = {i \in DOMAIN cmds' : IsToggle(cmds'[i], s)}
            BY <4>1, LenProperties DEF Positions, TogglesOf, TypeOK, PipesOK
      <4>3. Positions(cmds, TogglesOf(s))' = {i \in DOMAIN cmds' : IsToggle(cmds'[i], s)}
            BY <4>2 DEF TogglesOf, Positions
      <4>4. Toggles(s)' = Pending(s)'
            BY <4>3 DEF Toggles, Pending, Count, Toggling, One, Bit, IsToggle
      <4> QED BY <4>4 DEF Agree
    <3>1. front = "up" => Agree(s)
          BY <1>1, <2>1, PendingToggles DEF BreakpointsAgree, Agree
    <3>2. ASSUME NEW v \in VM, ScriptStep(v) PROVE Agree(s)'
      <4>1. UNCHANGED <<cmd, cmds, bps, front, files, want>> /\ pc'[Cmd] = pc[Cmd]
            BY <1>1, <3>2, ScriptFrame DEF adapter
      <4>2. Toggling(s)' <=> Toggling(s)
            BY <4>1 DEF Toggling
      <4> QED BY <1>1, <3>1, <4>1, <4>2, PendingSame, AgreeSame
    <3>3. CASE Error(Cmd)
      <4>1. UNCHANGED <<cmd, cmds, bps, front, files, want>>
            BY <3>3 DEF Error, ErrorUnknown, ErrorHandler, ErrorMessage, ExceptionSend,
               ExceptionBreak, ExceptionWake, adapter, backend
      <4>2. pc[Cmd] # "exec" /\ pc'[Cmd] # "exec"
            BY <1>1, <3>3 DEF Error, ErrorUnknown, ErrorHandler, ErrorMessage, ExceptionSend,
               ExceptionBreak, ExceptionWake, Raising, WaitForContinue, Goto, TypeOK, PcOK
      <4> QED BY <1>1, <3>1, <4>1, <4>2, PendingSame, AgreeSame DEF Toggling
    <3>4. CASE CmdThread
      <4>1. front' = front
            BY <3>4 DEF CmdThread, CmdRead, CmdResume, CmdBreak, CmdToggle, CmdStray, CmdLoadDone,
               CmdEvaluate, CmdEvaluated, CmdDetach, CmdCleanup, CmdPipeClosed, adapter
      <4> QED BY <1>1, <2>1, <3>1, <3>4, <4>1, CommandAgrees
    <3>5. CASE Front \/ User
      <4>1. front = "up"
            BY <3>5 DEF Front, FrontCreateVM, FrontLoadScript, FrontBreak, FrontError,
               FrontEvaluateRet, FrontOther, FrontEvent, User, UserResume, UserPause, UserEvaluate,
               UserBreakpoint, UserDisconnect, UserMay
      <4> QED BY <1>1, <3>1, <3>5, <4>1, OutsideAgrees
    <3> QED BY <1>1, <3>2, <3>3, <3>4, <3>5, NextSteps
  <2> QED BY <2>2, <2>3
<1>2. ASSUME AgreeInv, UNCHANGED vars PROVE AgreeInv'
  <2> USE <1>2 DEF vars, backend, signals, adapter
  <2>1. ToldOnce'
        BY DEF ToldOnce, LoadsOf, Bit
  <2>2. BreakpointsAgree'
        BY DEF BreakpointsAgree, Toggles, IsToggle, One, Alive
  <2> QED BY <2>1, <2>2
<1>3. TypeOK /\ StopInv /\ AgreeInv /\ [Next]_vars => AgreeInv'
      BY <1>1, <1>2
<1>4. Init => AgreeInv
  <2> SUFFICES ASSUME Init PROVE AgreeInv
      OBVIOUS
  <2>1. ToldOnce
    <3>1. ASSUME NEW s \in Script PROVE Count(evs, LoadsOf(s)) = 0
          BY CountNone DEF Init
    <3> QED BY <3>1 DEF Init, ToldOnce, Bit
  <2>2. BreakpointsAgree
    <3> SUFFICES ASSUME NEW s \in Script PROVE Toggles(s) = 0
        BY DEF BreakpointsAgree, Init
    <3>1. {i \in DOMAIN cmds : IsToggle(cmds[i], s)} = {}
          BY DEF Init
    <3>2. Cardinality({i \in DOMAIN cmds : IsToggle(cmds[i], s)}) = 0
          BY <3>1, FS_EmptySet
    <3> QED BY <3>2 DEF Toggles, Init, One
  <2> QED BY <2>1, <2>2
<1>5. AgreeInv => BreakpointsAgree
      OBVIOUS
<1> HIDE DEF AgreeInv
<1> QED BY <1>3, <1>4, <1>5, TypeCorrect, StopInvariant, PTL DEF Spec

-----------------------------------------------------------------------------
(* The protocol of a stop: Backend implements Stops.                       *)

Linked    == front = "up" /\ pc[Cmd] # "excWait"
Evaluated == IF pc[Cmd] \in {"eval"} \cup InError THEN {cmd.vm} ELSE {}

\* The stage of a stop in terms of where its permission is: each stage is one place,
\* and one of them has it.
Fits(v) ==
    /\ StopStage(v) = "running"  <=> pc[v] \notin BreakWaits
    /\ StopStage(v) = "released" <=> breakEvent[v]
    /\ StopStage(v) = "shown"    <=> v \in stopped
    /\ StopStage(v) = "resumed"  <=> Back(v) # 0 /\ ~breakEvent[v]
    /\ StopStage(v) = "told"     <=> Out(v) # 0 /\ v \notin stopped
    /\ StopStage(v) \in {"running", "told", "shown", "resumed", "released"}
StagesFit == Linked => \A v \in VM : Fits(v)

LEMMA Places ==
    ASSUME TypeOK, NEW v \in VM
    PROVE  /\ Count(cmds, ResumesOf(v)) # 0 <=> \E i \in DOMAIN cmds : IsResume(cmds[i], v)
           /\ Count(evs, BreaksOf(v)) # 0 <=> \E i \in DOMAIN evs : IsBreak(evs[i], v)
<1>1. /\ \A i \in DOMAIN cmds : cmds[i] \in Command
      /\ \A i \in DOMAIN evs : evs[i] \in Event
      BY LenProperties DEF TypeOK, PipesOK
<1>2. /\ \A i \in DOMAIN cmds : cmds[i] \in ResumesOf(v) <=> IsResume(cmds[i], v)
      /\ \A i \in DOMAIN evs : evs[i] \in BreaksOf(v) <=> IsBreak(evs[i], v)
      BY <1>1 DEF ResumesOf, BreaksOf
<1>3. Count(cmds, ResumesOf(v)) = 0 <=> \A i \in DOMAIN cmds : cmds[i] \notin ResumesOf(v)
      BY CountType DEF TypeOK, PipesOK
<1>4. Count(evs, BreaksOf(v)) = 0 <=> \A i \in DOMAIN evs : evs[i] \notin BreaksOf(v)
      BY CountType DEF TypeOK, PipesOK
<1> QED BY <1>2, <1>3, <1>4

LEMMA StagesAre == ASSUME TypeOK, OnePermit PROVE StagesFit
<1> SUFFICES ASSUME Linked, NEW v \in VM PROVE Fits(v)
    BY DEF StagesFit
<1>1. Out(v) + Back(v) = Held(v)
      BY DEF OnePermit, Linked
<1>2. /\ Out(v) = Count(evs, BreaksOf(v)) + Bit(v \in stopped) + Bit(v \in checking)
      /\ Back(v) = Count(cmds, ResumesOf(v)) + Bit(Executed(v)) + Bit(breakEvent[v])
      /\ Held(v) = Bit(pc[v] \in BreakWaits)
      /\ Count(cmds, ResumesOf(v)) \in Nat /\ Count(evs, BreaksOf(v)) \in Nat
      BY PermitTypes DEF Out, Back, Held
<1>3. PICK c \in Nat : c = Count(cmds, ResumesOf(v))
      BY <1>2
<1>4. PICK e \in Nat : e = Count(evs, BreaksOf(v))
      BY <1>2
<1>5. StopStage(v) = IF pc[v] \notin BreakWaits THEN "running"
                     ELSE IF breakEvent[v] THEN "released"
                     ELSE IF v \in stopped THEN "shown"
                     ELSE IF c # 0 \/ Executed(v) THEN "resumed"
                     ELSE IF v \in checking \/ e # 0 THEN "told"
                     ELSE "lost"
      BY <1>3, <1>4, Places DEF StopStage, Executed
<1>6. e + Bit(v \in stopped) + Bit(v \in checking)
      + (c + Bit(Executed(v)) + Bit(breakEvent[v])) = Bit(pc[v] \in BreakWaits)
      BY <1>1, <1>2, <1>3, <1>4
<1>7. /\ Back(v) # 0 <=> c # 0 \/ Executed(v) \/ breakEvent[v]
      /\ Out(v) # 0 <=> e # 0 \/ v \in stopped \/ v \in checking
      BY <1>2, <1>3, <1>4 DEF Bit
<1>8. CASE pc[v] \notin BreakWaits
  <2>1. e = 0 /\ c = 0 /\ v \notin stopped /\ v \notin checking /\ ~Executed(v) /\ ~breakEvent[v]
        BY <1>6, <1>8 DEF Bit
  <2> QED BY <1>5, <1>7, <1>8, <2>1 DEF Fits
<1>9. CASE pc[v] \in BreakWaits
  <2>1. /\ e # 0 => ~(c # 0 \/ Executed(v) \/ breakEvent[v] \/ v \in stopped)
        /\ v \in checking => ~(c # 0 \/ Executed(v) \/ breakEvent[v] \/ v \in stopped)
        /\ v \in stopped => ~(c # 0 \/ Executed(v) \/ breakEvent[v])
        /\ breakEvent[v] => ~(c # 0 \/ Executed(v))
        /\ e # 0 \/ v \in checking \/ v \in stopped \/ c # 0 \/ Executed(v) \/ breakEvent[v]
        BY <1>6, <1>9 DEF Bit
  <2> QED BY <1>5, <1>7, <1>9, <2>1 DEF Fits
<1> QED BY <1>8, <1>9

\* What is known of a step that leaves the adapter in step.
Follows == /\ TypeOK /\ StopInv /\ Linked /\ Linked'
           /\ \A v \in VM : Fits(v) /\ Fits(v)'

\* A stop stays at its stage, and the stops of all but one do.
LEMMA StageSame ==
    ASSUME Follows, NEW v \in VM, pc'[v] \in BreakWaits <=> pc[v] \in BreakWaits,
           breakEvent'[v] <=> breakEvent[v], v \in stopped' <=> v \in stopped,
           Back(v)' = Back(v)
    PROVE  StopStage(v)' = StopStage(v)
<1>1. Fits(v) /\ Fits(v)'
      BY DEF Follows
<1> QED BY <1>1 DEF Fits

LEMMA ProtocolMoves ==
    ASSUME Follows, NEW v \in VM, NEW from, NEW to, StopStage(v) \in from, StopStage(v)' = to,
           \A u \in VM \ {v} : StopStage(u)' = StopStage(u), Evaluated' = Evaluated
    PROVE  Protocol!Move(v, from, to)
<1> DEFINE f == [u \in VM |-> StopStage(u)]
<1>1. f' = [u \in VM |-> StopStage(u)']
      OBVIOUS
<1>2. f' = [f EXCEPT ![v] = to] /\ f[v] = StopStage(v)
      BY <1>1
<1>3. Evaluated' = Evaluated /\ Linked' = Linked
      BY DEF Follows
<1> QED BY <1>2, <1>3 DEF Protocol!Move, Follows, Linked, Evaluated

LEMMA ProtocolStutters ==
    ASSUME Follows, \A u \in VM : StopStage(u)' = StopStage(u), Evaluated' = Evaluated
    PROVE  UNCHANGED Protocol!vars
<1>1. [u \in VM |-> StopStage(u)]' = [u \in VM |-> StopStage(u)]
      OBVIOUS
<1>2. Evaluated' = Evaluated /\ Linked' = Linked
      BY DEF Follows
<1> QED BY <1>1, <1>2 DEF Protocol!vars, Linked, Evaluated

\* A script thread stops, or goes on with the permission it was given, or neither.
LEMMA ScriptFollows ==
    ASSUME Follows, NEW v \in VM, ScriptStep(v)
    PROVE  Protocol!Stop(v) \/ Protocol!GoOn(v) \/ UNCHANGED Protocol!vars
<1>1. /\ UNCHANGED <<cmd, cmds, front, stopped, checking>>
      /\ \A t \in Thread \ {v} : pc'[t] = pc[t]
      /\ \A w \in VM \ {v} : breakEvent'[w] = breakEvent[w]
      BY ScriptFrame DEF adapter, Follows
<1>2. ~detachEvent /\ OnePermit /\ StatesKnown /\ TypeOK /\ \A u \in VM : Fits(u) /\ Fits(u)'
      BY DEF Follows, StopInv, DetachLast, Linked
<1>3. pc[v] = "attach" => ~breakEvent[v]
      BY <1>2 DEF Fits, BreakWaits
<1>4. Stays(v) \/ Stops(v) \/ Goes(v)
      BY <1>2, <1>3, ScriptEffect
<1>5. pc'[Cmd] = pc[Cmd] /\ Evaluated' = Evaluated
      BY <1>1 DEF Evaluated
<1>6. ASSUME NEW u \in VM, breakEvent'[u] <=> breakEvent[u]
      PROVE  Back(u)' = Back(u)
  <2>1. Count(cmds, ResumesOf(u))' = Count(cmds, ResumesOf(u))
        BY <1>1 DEF ResumesOf
  <2>2. Bit(Executed(u))' = Bit(Executed(u)) /\ Bit(breakEvent[u])' = Bit(breakEvent[u])
        BY <1>1, <1>5, <1>6 DEF Executed, Bit
  <2> QED BY <2>1, <2>2 DEF Back
<1>7. \A u \in VM \ {v} : StopStage(u)' = StopStage(u)
  <2> SUFFICES ASSUME NEW u \in VM \ {v} PROVE StopStage(u)' = StopStage(u)
      OBVIOUS
  <2>1. (pc'[u] \in BreakWaits <=> pc[u] \in BreakWaits) /\ (breakEvent'[u] <=> breakEvent[u])
        BY <1>1
  <2>2. u \in stopped' <=> u \in stopped
        BY <1>1
  <2>3. Back(u)' = Back(u)
        BY <1>6, <2>1
  <2> QED BY <2>1, <2>2, <2>3, StageSame
<1>8. CASE Stays(v)
  <2>1. (pc'[v] \in BreakWaits <=> pc[v] \in BreakWaits) /\ (breakEvent'[v] <=> breakEvent[v])
        BY <1>8 DEF Stays
  <2>2. v \in stopped' <=> v \in stopped
        BY <1>1
  <2>3. Back(v)' = Back(v)
        BY <1>6, <2>1
  <2>4. StopStage(v)' = StopStage(v)
        BY <2>1, <2>2, <2>3, StageSame
  <2> QED BY <1>5, <1>7, <2>4, ProtocolStutters
<1>9. CASE Stops(v)
  <2>1. /\ pc[v] \notin BreakWaits /\ pc'[v] \in BreakWaits
        /\ breakEvent'[v] <=> breakEvent[v]
        BY <1>9 DEF Stops
  <2>2. StopStage(v) = "running" /\ ~breakEvent[v] /\ v \notin stopped /\ Back(v) = 0
        BY <1>2, <2>1 DEF Fits
  <2>3. ~breakEvent'[v] /\ v \notin stopped' /\ Back(v)' = 0
        BY <1>1, <1>6, <2>1, <2>2
  <2>4. StopStage(v)' = "told"
        BY <1>2, <2>1, <2>3 DEF Fits
  <2> QED BY <1>5, <1>7, <2>2, <2>4, ProtocolMoves DEF Protocol!Stop
<1>10. CASE Goes(v)
  <2>1. StopStage(v) = "released"
        BY <1>2, <1>10 DEF Goes, Fits
  <2>2. StopStage(v)' = "running"
        BY <1>2, <1>10 DEF Goes, Fits
  <2> QED BY <1>5, <1>7, <2>1, <2>2, ProtocolMoves DEF Protocol!GoOn
<1> QED BY <1>4, <1>8, <1>9, <1>10

\* An error in an evaluation is handled inside it, unless it stops the command thread.
LEMMA ErrorFollows ==
    ASSUME Follows, Error(Cmd)
    PROVE  UNCHANGED Protocol!vars
<1>1. /\ UNCHANGED <<cmd, signals, stopped>> /\ \A u \in VM : pc'[u] = pc[u]
      /\ pc[Cmd] \in {"eval"} \cup InError /\ pc'[Cmd] \in {"eval"} \cup InError \cup {"crash"}
      BY DEF Error, ErrorUnknown, ErrorHandler, ErrorMessage, ExceptionSend, ExceptionBreak,
             ExceptionWake, Raising, TypeOK, PcOK, Goto, adapter, signals, Follows, Linked, InError
<1>2. cmd.vm \in VM /\ StateOf(Cmd) = cmd.vm /\ pc[Cmd] \in {"eval"} \cup InError
      BY <1>1, EvaluatedVm DEF StateOf, Follows
<1>3. pc[cmd.vm] \in BreakWaits
      BY <1>2 DEF Follows, StopInv, EvaluateSafe, Evaluating, Stopped
<1>4. cmd.vm \in vms
      BY <1>2, <1>3 DEF Follows, StopInv, StatesKnown, DetachLast, Linked, Outside, BreakWaits
<1>5. pc'[Cmd] \in {"eval"} \cup InError
  <2>1. ~ErrorUnknown(Cmd)
        BY <1>2, <1>4 DEF ErrorUnknown
  <2> QED BY <1>1, <2>1 DEF Error, ErrorHandler, ErrorMessage, ExceptionSend, ExceptionBreak,
             ExceptionWake, Goto, Follows, Linked, TypeOK, PcOK, InError
<1>6. Evaluated' = Evaluated
      BY <1>1, <1>5 DEF Evaluated
<1>7. \A u \in VM : Back(u)' = Back(u)
      BY ErrorPermits DEF Follows, Linked
<1>8. \A u \in VM : StopStage(u)' = StopStage(u)
  <2> SUFFICES ASSUME NEW u \in VM PROVE StopStage(u)' = StopStage(u)
      OBVIOUS
  <2>1. /\ pc'[u] \in BreakWaits <=> pc[u] \in BreakWaits
        /\ breakEvent'[u] <=> breakEvent[u]
        /\ u \in stopped' <=> u \in stopped
        BY <1>1 DEF signals
  <2> QED BY <1>7, <2>1, StageSame
<1> QED BY <1>6, <1>8, ProtocolStutters

\* A command moves a stop only when it is the resume it waits for, or enters or
\* leaves the state of one.
LEMMA CommandFollows ==
    ASSUME Follows, CmdThread
    PROVE  \/ \E v \in VM : Protocol!Release(v) \/ Protocol!Enter(v) \/ Protocol!Leave(v)
           \/ UNCHANGED Protocol!vars
<1> USE DEF Goto, NextCommand, Executing
<1>1. /\ ~detachEvent /\ ~detachEvent' /\ pc[Cmd] # "excWait" /\ pc'[Cmd] # "excWait"
      /\ TypeOK /\ StopInv
  <2>1. ~detachEvent /\ front' = "up" /\ TypeOK
        BY DEF Follows, StopInv, DetachLast, Linked
  <2>2. ~CmdDetach
        BY DEF CmdDetach, Follows, Linked, StopInv, DetachLast, DetachKind
  <2>3. detachEvent' = detachEvent
        BY <2>2 DEF CmdThread, CmdRead, CmdResume, CmdBreak, CmdToggle, CmdStray, CmdLoadDone,
           CmdEvaluate, CmdEvaluated, CmdCleanup, CmdPipeClosed, signals
  <2> QED BY <2>1, <2>3 DEF Follows, Linked
<1>2. /\ UNCHANGED stopped /\ \A u \in VM : pc'[u] = pc[u]
      BY <1>1 DEF CmdThread, CmdRead, CmdResume, CmdBreak, CmdToggle, CmdStray, CmdLoadDone,
         CmdEvaluate, CmdEvaluated, CmdDetach, CmdCleanup, CmdPipeClosed, TypeOK, PcOK, adapter
<1>3. \A u \in VM : Back(u)' = Back(u)
      BY <1>1, CommandPermits
<1>4. ASSUME NEW u \in VM, breakEvent'[u] <=> breakEvent[u]
      PROVE  StopStage(u)' = StopStage(u)
  <2>1. /\ pc'[u] \in BreakWaits <=> pc[u] \in BreakWaits
        /\ u \in stopped' <=> u \in stopped
        BY <1>2
  <2> QED BY <1>3, <1>4, <2>1, StageSame
<1>5. CASE CmdResume
  <2>1. PICK v \in VM : v = cmd.vm
        BY <1>5 DEF CmdResume, Follows, TypeOK, CmdOK, Command, ResumeKind
  <2>2. /\ Executed(v) /\ ~breakEvent[v] /\ breakEvent'[v] /\ Back(v) = 1
        /\ \A u \in VM \ {v} : breakEvent'[u] = breakEvent[u]
    <3>1. Executed(v)
          BY <1>5, <2>1 DEF CmdResume, Executed, IsResume
    <3>2. ~breakEvent[v] /\ Back(v) = 1
          BY <1>1, <3>1, BackHeld DEF StopInv
    <3> QED BY <1>1, <1>5, <2>1, <3>1, <3>2 DEF CmdResume, TypeOK, SignalsOK
  <2>3. StopStage(v) = "resumed" /\ StopStage(v)' = "released"
        BY <2>2 DEF Follows, Fits
  <2>4. \A u \in VM \ {v} : StopStage(u)' = StopStage(u)
        BY <1>4, <2>2
  <2>5. Evaluated = {} /\ Evaluated' = {}
        BY <1>1, <1>5 DEF CmdResume, Evaluated, InError, TypeOK, PcOK
  <2>6. Protocol!Move(v, {"resumed"}, "released")
        BY <2>3, <2>4, <2>5, ProtocolMoves
  <2> QED BY <2>5, <2>6 DEF Protocol!Release, Evaluated
<1>6. ASSUME breakEvent' = breakEvent
      PROVE  [u \in VM |-> StopStage(u)]' = [u \in VM |-> StopStage(u)]
  <2>1. \A u \in VM : StopStage(u)' = StopStage(u)
        BY <1>4, <1>6
  <2> QED BY <2>1
<1>7. CASE CmdEvaluate /\ cmd.vm \in vms
  <2>1. PICK v \in VM : v = cmd.vm
        BY <1>1, <1>7 DEF TypeOK, BackendOK
  <2>2. /\ Evaluated = {} /\ Evaluated' = {v} /\ breakEvent' = breakEvent
        BY <1>1, <1>7, <2>1 DEF CmdEvaluate, Evaluated, InError, TypeOK, PcOK, signals
  <2>3. Stopped(v)
        BY <1>1, <1>7, <2>1 DEF StopInv, EvaluateSafe, Evaluating, CmdEvaluate
  <2>4. StopStage(v) \in {"told", "shown", "resumed"}
        BY <2>3 DEF Stopped, Follows, Fits
  <2>5. Linked /\ Linked'
        BY DEF Follows
  <2>6. Protocol!Enter(v)
    <3> DEFINE f == [u \in VM |-> StopStage(u)]
    <3>1. f[v] \in Protocol!Stopped
          BY <2>4 DEF Protocol!Stopped
    <3> QED BY <1>6, <2>2, <2>5, <3>1 DEF Protocol!Enter, Evaluated, Linked
  <2> QED BY <2>6
<1>8. CASE CmdEvaluated
  <2>1. PICK v \in VM : v = cmd.vm
        BY <1>1, <1>8, EvaluatedVm DEF CmdEvaluated, StateOf
  <2>2. /\ Evaluated = {v} /\ Evaluated' = {} /\ breakEvent' = breakEvent
        BY <1>1, <1>8, <2>1 DEF CmdEvaluated, Evaluated, InError, TypeOK, PcOK, signals
  <2>3. Linked /\ Linked'
        BY DEF Follows
  <2>4. Protocol!Leave(v)
        BY <1>6, <2>2, <2>3 DEF Protocol!Leave, Evaluated, Linked
  <2> QED BY <2>4
<1>9. ASSUME breakEvent' = breakEvent, Evaluated = {}, Evaluated' = {}
      PROVE  UNCHANGED Protocol!vars
  <2>1. \A u \in VM : StopStage(u)' = StopStage(u)
        BY <1>4, <1>9
  <2> QED BY <1>9, <2>1, ProtocolStutters
<1>10. CASE CmdEvaluate /\ cmd.vm \notin vms
  <2>1. breakEvent' = breakEvent /\ Evaluated = {} /\ Evaluated' = {}
        BY <1>1, <1>10 DEF CmdEvaluate, Evaluated, InError, TypeOK, PcOK, signals
  <2> QED BY <1>9, <2>1
<1>11. CASE CmdRead \/ CmdBreak \/ CmdToggle \/ CmdStray \/ CmdLoadDone
  <2>1. breakEvent' = breakEvent /\ Evaluated = {} /\ Evaluated' = {}
        BY <1>1, <1>11 DEF CmdRead, CmdBreak, CmdToggle, CmdStray, CmdLoadDone, Evaluated,
           InError, TypeOK, PcOK, signals
  <2> QED BY <1>9, <2>1
<1>12. CASE CmdDetach \/ CmdCleanup \/ CmdPipeClosed
      BY <1>1, <1>12 DEF CmdDetach, CmdCleanup, CmdPipeClosed, StopInv, DetachLast, Follows, Linked
<1> QED BY <1>5, <1>7, <1>8, <1>10, <1>11, <1>12 DEF CmdThread

-----------------------------------------------------------------------------
(* The adapter and the user.                                               *)

\* What only queues a command that is no resume, or queues none, moves no stop.
LEMMA QuietFollows ==
    ASSUME Follows, UNCHANGED <<pc, cmd, signals, stopped>>,
           \A u \in VM : Back(u)' = Back(u)
    PROVE  UNCHANGED Protocol!vars
<1>1. \A u \in VM : StopStage(u)' = StopStage(u)
  <2> SUFFICES ASSUME NEW u \in VM PROVE StopStage(u)' = StopStage(u)
      OBVIOUS
  <2>1. /\ pc'[u] \in BreakWaits <=> pc[u] \in BreakWaits
        /\ breakEvent'[u] <=> breakEvent[u]
        /\ u \in stopped' <=> u \in stopped
        BY DEF signals
  <2> QED BY <2>1, StageSame
<1>2. Evaluated' = Evaluated
      BY DEF Evaluated
<1> QED BY <1>1, <1>2, ProtocolStutters

LEMMA QueuedFollows ==
    ASSUME Follows, UNCHANGED <<pc, cmd, signals, stopped>>, NEW c \in Command,
           cmds' = Append(cmds, c), c.type \notin ResumeKind
    PROVE  UNCHANGED Protocol!vars
<1>1. ASSUME NEW u \in VM PROVE Back(u)' = Back(u)
  <2>1. Back(u)' = Back(u) + Bit(IsResume(c, u))
        BY <1>1, Asked DEF Follows
  <2>2. ~IsResume(c, u)
        BY DEF IsResume
  <2> QED BY <2>1, <2>2, PermitTypes DEF Bit, Follows
<1> QED BY <1>1, QuietFollows

\* A resume moves the stop of one state, which the books knew of, to its way back.
LEMMA ResumedFollows ==
    ASSUME Follows, UNCHANGED <<pc, cmd, signals>>, NEW w \in VM, NEW k \in ResumeKind,
           cmds' = Append(cmds, Msg(k, w)), StopStage(w) \in {"told", "shown"},
           stopped' = stopped \ {w} \/ stopped' = stopped
    PROVE  Protocol!Resume(w)
<1>1. Msg(k, w) \in Command /\ \A u \in VM : IsResume(Msg(k, w), u) <=> u = w
      BY CommandMsg DEF IsResume, Msg
<1>2. ASSUME NEW u \in VM PROVE Back(u)' = Back(u) + Bit(u = w)
  <2>1. Back(u)' = Back(u) + Bit(IsResume(Msg(k, w), u))
        BY <1>1, <1>2, Asked DEF Follows
  <2> QED BY <1>1, <2>1 DEF Bit
<1>3. Fits(w) /\ Fits(w)' /\ Back(w) \in Nat
      BY PermitTypes DEF Follows
<1>4. ~breakEvent[w] /\ ~breakEvent'[w] /\ Back(w)' # 0
  <2>1. ~breakEvent[w]
        BY <1>3 DEF Fits
  <2>2. Back(w)' = Back(w) + Bit(w = w)
        BY <1>2
  <2> QED BY <1>3, <2>1, <2>2 DEF Bit, signals
<1>5. StopStage(w)' = "resumed"
      BY <1>3, <1>4 DEF Fits
<1>6. ASSUME NEW u \in VM \ {w} PROVE StopStage(u)' = StopStage(u)
  <2>1. Back(u)' = Back(u)
        BY <1>2, <1>6, PermitTypes DEF Bit, Follows
  <2>2. /\ pc'[u] \in BreakWaits <=> pc[u] \in BreakWaits
        /\ breakEvent'[u] <=> breakEvent[u]
        /\ u \in stopped' <=> u \in stopped
        BY <1>6 DEF signals
  <2> QED BY <1>6, <2>1, <2>2, StageSame
<1>7. Evaluated' = Evaluated
      BY DEF Evaluated
<1> QED BY <1>5, <1>6, <1>7, ProtocolMoves DEF Protocol!Resume

\* The adapter shows a stop, passes it over or asks first.
LEMMA DecisionFollows ==
    ASSUME Follows, UNCHANGED <<pc, cmd, signals>>, NEW w \in VM, StopStage(w) = "told",
           Decide(w) \/ AskFirst(w)
    PROVE  Protocol!Show(w) \/ Protocol!Resume(w) \/ UNCHANGED Protocol!vars
<1>1. CASE AskFirst(w)
  <2>1. Msg("Evaluate", w) \in Command /\ Msg("Evaluate", w).type \notin ResumeKind
        BY CommandMsg DEF Msg, ResumeKind
  <2> QED BY <1>1, <2>1, QueuedFollows DEF AskFirst
<1>2. CASE cmds' = Append(cmds, Msg("Continue", w)) /\ stopped' = stopped
      BY <1>2, ResumedFollows DEF ResumeKind
<1>3. CASE cmds' = cmds /\ stopped' = stopped \cup {w}
  <2>1. StopStage(w)' = "shown"
        BY <1>3 DEF Follows, Fits
  <2>2. ASSUME NEW u \in VM \ {w} PROVE StopStage(u)' = StopStage(u)
    <3>1. Back(u)' = Back(u)
          BY <1>3, <2>2, NotAsked DEF Follows
    <3>2. /\ pc'[u] \in BreakWaits <=> pc[u] \in BreakWaits
          /\ breakEvent'[u] <=> breakEvent[u]
          /\ u \in stopped' <=> u \in stopped
          BY <1>3, <2>2 DEF signals
    <3> QED BY <2>2, <3>1, <3>2, StageSame
  <2>3. Evaluated' = Evaluated
        BY DEF Evaluated
  <2> QED BY <2>1, <2>2, <2>3, ProtocolMoves DEF Protocol!Show
<1> QED BY <1>1, <1>2, <1>3 DEF Decide

\* A stop that is reported, or asked about, has not been shown.
LEMMA ReportedTold ==
    ASSUME Follows, NEW w \in VM,
           w \in checking \/ \E i \in DOMAIN evs : IsBreak(evs[i], w)
    PROVE  StopStage(w) = "told"
<1>1. TypeOK /\ OnePermit /\ front = "up" /\ pc[Cmd] # "excWait" /\ Fits(w)
      BY DEF Follows, StopInv, Linked
<1>2. Out(w) # 0 /\ (w \in checking \/ Count(evs, BreaksOf(w)) # 0)
      BY <1>1, EventOut, BooksOut, Places
<1>3. Out(w) = 1
      BY <1>1, <1>2, OutStopped
<1>4. w \notin stopped
      BY <1>1, <1>2, <1>3, Permissions DEF Out, Bit
<1> QED BY <1>1, <1>2, <1>4 DEF Fits

\* An event of the backend has its stop shown or passed over, or moves none.
LEMMA FrontFollows ==
    ASSUME Follows, Front
    PROVE  (\E v \in VM : Protocol!Show(v) \/ Protocol!Resume(v)) \/ UNCHANGED Protocol!vars
<1>1. UNCHANGED <<pc, cmd, signals>> /\ TypeOK /\ front' = "up"
      BY OutsideFrame DEF Follows, Linked
<1>2. CASE UNCHANGED <<cmds, stopped>>
  <2>1. \A u \in VM : Back(u)' = Back(u)
        BY <1>1, <1>2, NotAsked
  <2> QED BY <1>1, <1>2, <2>1, QuietFollows
<1>3. CASE FrontLoadScript
  <2>1. PICK d, e \in Command : /\ d.type = "Toggle" /\ e.type = "LoadDone"
                                /\ \/ cmds' = Append(cmds, e)
                                   \/ cmds' = Append(Append(cmds, d), e)
        BY <1>1, <1>3, LoadCommands
  <2>2. ASSUME NEW u \in VM PROVE Back(u)' = Back(u)
    <3>1. /\ ~IsResume(d, u) /\ ~IsResume(e, u)
          /\ cmds \in Seq(Command) /\ Append(cmds, d) \in Seq(Command)
          BY <1>1, <2>1, AppendAt DEF IsResume, ResumeKind, TypeOK, PipesOK
    <3>2. /\ Count(Append(cmds, e), ResumesOf(u)) = Count(cmds, ResumesOf(u))
          /\ Count(Append(cmds, d), ResumesOf(u)) = Count(cmds, ResumesOf(u))
          /\ Count(Append(Append(cmds, d), e), ResumesOf(u)) =
                 Count(Append(cmds, d), ResumesOf(u))
          BY <3>1, NoResumeSent
    <3>3. Count(cmds, ResumesOf(u))' = Count(cmds', ResumesOf(u))
          BY DEF ResumesOf
    <3>4. Count(cmds, ResumesOf(u))' = Count(cmds, ResumesOf(u))
          BY <2>1, <3>2, <3>3
    <3>5. Bit(Executed(u))' = Bit(Executed(u)) /\ Bit(breakEvent[u])' = Bit(breakEvent[u])
          BY <1>1 DEF Executed, signals
    <3> QED BY <3>4, <3>5 DEF Back
  <2>3. stopped' = stopped
        BY <1>3 DEF FrontLoadScript
  <2> QED BY <1>1, <2>2, <2>3, QuietFollows
<1>4. CASE FrontBreak
  <2>1. PICK w \in VM : w = Head(evs).vm
        BY <1>1, <1>4, EventVm DEF FrontBreak
  <2>2. /\ Decide(w) \/ AskFirst(w)
        /\ IsBreak(evs[1], w) /\ 1 \in DOMAIN evs
        BY <1>1, <1>4, <2>1, TailAt DEF FrontBreak, FrontEvent, IsBreak, TypeOK, PipesOK
  <2>3. StopStage(w) = "told"
        BY <2>2, ReportedTold
  <2> QED BY <1>1, <2>2, <2>3, DecisionFollows
<1>5. CASE FrontError
  <2>1. PICK w \in VM : w = evs[1].vm
        BY <1>1, <1>5, EventVm DEF FrontError
  <2>2. evs[2] = Msg("Break", w) /\ Decide(w)
        BY <1>1, <1>5, <2>1 DEF FrontError
  <2>3. IsBreak(evs[2], w) /\ 2 \in DOMAIN evs
        BY <1>1, <1>5, <2>2, LenProperties DEF FrontError, IsBreak, Msg, TypeOK, PipesOK
  <2>4. StopStage(w) = "told"
        BY <2>3, ReportedTold
  <2> QED BY <1>1, <2>2, <2>4, DecisionFollows
<1>6. CASE FrontEvaluateRet /\ Head(evs).vm \in checking
  <2>1. PICK w \in VM : w = Head(evs).vm
        BY <1>1, <1>6, EventVm DEF FrontEvaluateRet
  <2>2. StopStage(w) = "told" /\ (Decide(w) \/ AskFirst(w))
        BY <1>6, <2>1, ReportedTold DEF FrontEvaluateRet
  <2> QED BY <1>1, <2>2, DecisionFollows
<1> QED BY <1>2, <1>3, <1>4, <1>5, <1>6 DEF Front, FrontCreateVM, FrontOther, FrontEvaluateRet,
        adapter

\* A request of the user resumes a state that is shown, or moves no stop.
LEMMA UserFollows ==
    ASSUME Follows, User
    PROVE  (\E v \in VM : Protocol!Resume(v)) \/ UNCHANGED Protocol!vars
<1>1. UNCHANGED <<pc, cmd, signals>> /\ TypeOK /\ front' = "up"
      BY OutsideFrame DEF Follows, Linked
<1>2. ASSUME NEW w \in VM, UserResume(w) PROVE Protocol!Resume(w)
  <2>1. PICK k \in ResumeKind : cmds' = Append(cmds, Msg(k, w))
        BY <1>2 DEF UserResume, ResumeKind
  <2>2. w \in stopped /\ stopped' = stopped \ {w}
        BY <1>2 DEF UserResume
  <2>3. StopStage(w) = "shown"
        BY <2>2 DEF Follows, Fits
  <2> QED BY <1>1, <2>1, <2>2, <2>3, ResumedFollows
<1>3. ASSUME NEW w \in VM, UserPause(w) \/ UserEvaluate(w) PROVE UNCHANGED Protocol!vars
  <2>1. PICK ty \in {"Break", "Evaluate"} : cmds' = Append(cmds, Msg(ty, w))
        BY <1>3 DEF UserPause, UserEvaluate
  <2>2. Msg(ty, w) \in Command /\ Msg(ty, w).type \notin ResumeKind /\ stopped' = stopped
        BY <1>3, CommandMsg DEF Msg, ResumeKind, UserPause, UserEvaluate, adapter
  <2> QED BY <1>1, <2>1, <2>2, QueuedFollows
<1>4. ASSUME NEW s \in Script, UserBreakpoint(s) PROVE UNCHANGED Protocol!vars
  <2>1. /\ MsgOn("Toggle", None, s) \in Command
        /\ MsgOn("Toggle", None, s).type \notin ResumeKind
        BY CommandToggle DEF MsgOn, ResumeKind
  <2>2. stopped' = stopped
        BY <1>4 DEF UserBreakpoint
  <2>3. CASE cmds' = cmds
    <3>1. \A u \in VM : Back(u)' = Back(u)
          BY <1>1, <2>3, NotAsked
    <3> QED BY <1>1, <2>2, <3>1, QuietFollows
  <2>4. CASE cmds' = Append(cmds, MsgOn("Toggle", None, s))
        BY <1>1, <2>1, <2>2, <2>4, QueuedFollows
  <2> QED BY <1>4, <2>3, <2>4 DEF UserBreakpoint
<1>5. ~UserDisconnect
      BY <1>1 DEF UserDisconnect
<1> QED BY <1>2, <1>3, <1>4, <1>5 DEF User

\* An adapter that has left or lost its way, and a command thread that has stopped
\* in an error handler, stay so.
LEMMA LinkLost ==
    ASSUME TypeOK, StopInv, ~Linked, Next
    PROVE  ~Linked'
<1>1. CASE front # "up"
  <2>1. front' # "up"
    <3>1. ASSUME NEW v \in VM, ScriptStep(v) PROVE front' = front
          BY <3>1, ScriptFrame DEF adapter
    <3>2. ASSUME Error(Cmd) PROVE front' = front
          BY <3>2 DEF Error, ErrorUnknown, ErrorHandler, ErrorMessage, ExceptionSend,
             ExceptionBreak, ExceptionWake, adapter
    <3>3. ASSUME CmdThread PROVE front' = front
          BY <3>3 DEF CmdThread, CmdRead, CmdResume, CmdBreak, CmdToggle, CmdStray, CmdLoadDone,
             CmdEvaluate, CmdEvaluated, CmdDetach, CmdCleanup, CmdPipeClosed, adapter
    <3>4. ~Front /\ ~User
          BY <1>1 DEF Front, FrontCreateVM, FrontLoadScript, FrontBreak, FrontError,
             FrontEvaluateRet, FrontOther, FrontEvent, User, UserResume, UserPause, UserEvaluate,
             UserBreakpoint, UserDisconnect, UserMay
    <3> QED BY <1>1, <3>1, <3>2, <3>3, <3>4, NextSteps
  <2> QED BY <2>1 DEF Linked
<1>2. CASE pc[Cmd] = "excWait"
  <2>1. ~Error(Cmd) /\ ~CmdThread
        BY <1>2, CmdStuck DEF StopInv
  <2>2. ASSUME NEW v \in VM, ScriptStep(v) PROVE pc'[Cmd] = pc[Cmd]
        BY <2>2, ScriptFrame DEF Thread
  <2>3. ASSUME Front \/ User PROVE pc'[Cmd] = pc[Cmd]
        BY <2>3, OutsideFrame
  <2>4. pc'[Cmd] = pc[Cmd]
        BY <2>1, <2>2, <2>3, NextSteps
  <2> QED BY <1>2, <2>4 DEF Linked
<1> QED BY <1>1, <1>2 DEF Linked

LEMMA ProtocolStep ==
    ASSUME TypeOK, StopInv, StagesFit, StagesFit', [Next]_vars
    PROVE  [Protocol!Next]_(Protocol!vars)
<1>1. CASE UNCHANGED vars
  <2>1. ASSUME NEW u \in VM PROVE StopStage(u)' = StopStage(u)
        BY <1>1 DEF vars, StopStage, backend, signals, adapter
  <2>2. [u \in VM |-> StopStage(u)]' = [u \in VM |-> StopStage(u)]
        BY <2>1
  <2>3. Evaluated' = Evaluated /\ Linked' = Linked
        BY <1>1 DEF vars, Evaluated, Linked, adapter
  <2> QED BY <2>2, <2>3 DEF Protocol!vars, Linked, Evaluated
<1>2. CASE Next /\ ~Linked'
      BY <1>2 DEF Protocol!Next, Protocol!Part, Linked
<1>3. CASE Next /\ Linked'
  <2>1. Linked
        BY <1>3, LinkLost
  <2>2. Follows
        BY <1>3, <2>1 DEF Follows, StagesFit
  <2>3. ASSUME NEW v \in VM, ScriptStep(v)
        PROVE  Protocol!Next \/ UNCHANGED Protocol!vars
        BY <2>2, <2>3, ScriptFollows DEF Protocol!Next
  <2>4. ASSUME Error(Cmd) PROVE UNCHANGED Protocol!vars
        BY <2>2, <2>4, ErrorFollows
  <2>5. ASSUME CmdThread PROVE Protocol!Next \/ UNCHANGED Protocol!vars
        BY <2>2, <2>5, CommandFollows DEF Protocol!Next
  <2>6. ASSUME Front PROVE Protocol!Next \/ UNCHANGED Protocol!vars
        BY <2>2, <2>6, FrontFollows DEF Protocol!Next
  <2>7. ASSUME User PROVE Protocol!Next \/ UNCHANGED Protocol!vars
        BY <2>2, <2>7, UserFollows DEF Protocol!Next
  <2> QED BY <1>3, <2>3, <2>4, <2>5, <2>6, <2>7, NextSteps
<1> QED BY <1>1, <1>2, <1>3

LEMMA ProtocolInit == ASSUME Init PROVE Protocol!Init
<1>1. ASSUME NEW v \in VM PROVE StopStage(v) = "running"
      BY <1>1 DEF Init, StopStage, BreakWaits
<1>2. Evaluated = {} /\ Linked
      BY DEF Init, Evaluated, Linked, InError
<1> QED BY <1>1, <1>2 DEF Protocol!Init, Evaluated, Linked

\* The backend, the pipes and the adapter together keep the protocol of a stop: for any
\* number of states and scripts each stop is reported, shown or passed over, resumed,
\* released and left once, in this order, whatever other states, the user and the
\* command thread do in between; and Lua is run for the user in one state at a time,
\* which is stopped and stays so until the answer is out.
THEOREM BackendFollowsStops == Spec => StopsFollow
<1>1. Init => Protocol!Init
      BY ProtocolInit
<1>2. TypeOK /\ StopInv => StagesFit
      BY StagesAre DEF StopInv
<1>3. TypeOK /\ StopInv /\ StagesFit /\ StagesFit' /\ [Next]_vars
      => [Protocol!Next]_(Protocol!vars)
      BY ProtocolStep
<1>4. Spec => []TypeOK
      BY TypeCorrect
<1>5. Spec => []StopInv
      BY StopInvariant
<1> QED BY <1>1, <1>2, <1>3, <1>4, <1>5, PTL DEF Spec, StopsFollow, Protocol!Spec
=============================================================================
