--------------------------- MODULE Session_proofs ---------------------------
(***************************************************************************)
(* Proofs about Session: its type invariant, that one adapter debugs the   *)
(* process at a time, and that the adapter and the backend number the      *)
(* scripts alike, for any number of adapters and scripts.                  *)
(***************************************************************************)
EXTENDS Session, SequenceTheorems, TLAPS

-----------------------------------------------------------------------------
(* Types.                                                                  *)

End      == Adapter \cup {Backend, None}
PipeType == [PipeName -> [server : End, client : End]]
Event    == Script \cup {"initialize", "break"}
Sent     == {"loadDone", "continue", "detach"}

\* The conjuncts of TypeOK by the actors whose state they are.
BackendTyped ==
    /\ process \in Adapter \cup {"absent", "running", "dead"}
    /\ injected \in BOOLEAN /\ detached \in BOOLEAN /\ loadEvent \in BOOLEAN
    /\ commandThread \in {"none", "read", "left", "back"}
    /\ attacher \in {"none", "await", "asked", "announce", "flush"}
    /\ scripts \in Seq(Script) /\ IsInjective(scripts)
    /\ waiting \in {"no", "load", "continue"}
PipesTyped ==
    /\ pipe \in PipeType /\ hello \in BOOLEAN
    /\ events \in Seq(Event) /\ commands \in Seq(Sent) /\ info \in Seq(Seq(Script))
AdaptersTyped == pc \in [Adapter -> State] /\ files \in [Adapter -> Seq(Script)]

LEMMA TypeParts ==
    /\ TypeOK <=> BackendTyped /\ PipesTyped /\ AdaptersTyped
    /\ TypeOK' <=> BackendTyped' /\ PipesTyped' /\ AdaptersTyped'
BY DEF TypeOK, BackendTyped, PipesTyped, AdaptersTyped, PipeType, End, Event, Sent

LEMMA DropTyped ==
    ASSUME PipesTyped, NEW p \in PipeType, Drop(p)
    PROVE  PipesTyped'
BY DEF PipesTyped, Drop, Contents

LEMMA WithoutTyped ==
    ASSUME PipesTyped, NEW x
    PROVE  Without(x) \in PipeType
BY DEF PipesTyped, Without, PipeType, End

LEMMA UnpluggedTyped ==
    ASSUME PipesTyped
    PROVE  Unplugged \in PipeType
BY DEF PipesTyped, Unplugged, PipeType, End

LEMMA GotoTyped ==
    ASSUME AdaptersTyped, NEW a \in Adapter, NEW state \in State, Goto(a, state), UNCHANGED files
    PROVE  AdaptersTyped'
BY DEF AdaptersTyped, Goto

LEMMA ComeTyped ==
    ASSUME TypeOK, NEW a \in Adapter, Come(a)
    PROVE  TypeOK'
<1>1. BackendTyped /\ PipesTyped /\ AdaptersTyped
      BY TypeParts
<1>2. {"failed", "remake", "announced", "inject", "start", "debug"} \subseteq State
      BY DEF State
<1>3. ASSUME AskBackend(a) PROVE TypeOK'
  <2>1. BackendTyped' /\ AdaptersTyped'
        BY <1>1, <1>2, <1>3 DEF AskBackend, BackendTyped, AdaptersTyped, Goto
  <2>2. PipesTyped'
        BY <1>1, <1>3 DEF AskBackend, PipesTyped, PipeType, PipeName, End
  <2> QED BY <2>1, <2>2, TypeParts
<1>4. ASSUME CreatePipes(a) PROVE TypeOK'
  <2>1. BackendTyped' /\ AdaptersTyped'
        BY <1>1, <1>2, <1>4 DEF CreatePipes, backend, BackendTyped, AdaptersTyped, Goto
  <2>2. ASSUME pipe["Event"] = Closed /\ pipe["Command"] = Closed PROVE PipesTyped'
        BY <1>1, <1>4, <2>2 DEF CreatePipes, PipesTyped, PipeType, PipeName, End
  <2>3. ASSUME ~(pipe["Event"] = Closed /\ pipe["Command"] = Closed) PROVE PipesTyped'
        BY <1>1, <1>4, <2>3, WithoutTyped, DropTyped DEF CreatePipes
  <2> QED BY <2>1, <2>2, <2>3, TypeParts
<1>5. ASSUME Inject(a) PROVE TypeOK'
  <2>1. BackendTyped' /\ AdaptersTyped'
        BY <1>1, <1>2, <1>5 DEF Inject, BackendTyped, AdaptersTyped, Goto
  <2>2. ASSUME pipe' = [pipe EXCEPT !["Event"].client = Backend, !["Command"].client = Backend],
               events' = <<"initialize">>, UNCHANGED <<hello, commands, info>>
        PROVE  PipesTyped'
        BY <1>1, <2>2 DEF PipesTyped, PipeType, PipeName, End, Event
  <2>3. ASSUME Drop(Without(a)) PROVE PipesTyped'
        BY <1>1, <2>3, WithoutTyped, DropTyped
  <2> QED BY <1>5, <2>1, <2>2, <2>3, TypeParts DEF Inject
<1>6. ASSUME Start(a) PROVE TypeOK'
  <2>1. BackendTyped' /\ AdaptersTyped'
        BY <1>1, <1>2, <1>6 DEF Start, backend, BackendTyped, AdaptersTyped, Goto
  <2>2. ASSUME events # <<>>, events' = Tail(events), UNCHANGED <<pipe, hello, commands, info>>
        PROVE  PipesTyped'
        BY <1>1, <2>2 DEF PipesTyped
  <2>3. ASSUME Drop(Without(a)) PROVE PipesTyped'
        BY <1>1, <2>3, WithoutTyped, DropTyped
  <2> QED BY <1>6, <2>1, <2>2, <2>3, TypeParts DEF Start
<1>7. ASSUME Announced(a) PROVE TypeOK'
  <2>1. BackendTyped'
        BY <1>1, <1>7 DEF Announced, backend, BackendTyped
  <2>2. AdaptersTyped'
    <3>1. info # <<>> => Head(info) \in Seq(Script)
          BY <1>1 DEF PipesTyped
    <3> QED BY <1>1, <1>2, <1>7, <3>1 DEF Announced, AdaptersTyped, Goto
  <2>3. [pipe EXCEPT !["Attach"].client = None] \in PipeType
        BY <1>1 DEF PipesTyped, PipeType, PipeName, End
  <2>4. PipesTyped'
        BY <1>1, <1>7, <2>3, WithoutTyped, DropTyped DEF Announced
  <2> QED BY <2>1, <2>2, <2>4, TypeParts
<1> QED BY <1>3, <1>4, <1>5, <1>6, <1>7 DEF Come

LEMMA WrittenTyped ==
    ASSUME NEW S, NEW q \in Seq(S), NEW m \in S, NEW n
    PROVE  Written(n, q, m) \in Seq(S)
BY DEF Written

LEMMA KillTyped ==
    ASSUME TypeOK, NEW a \in Adapter, Kill(a)
    PROVE  TypeOK'
<1>1. BackendTyped'
      BY TypeParts DEF Kill, backend, BackendTyped
<1>2. PipesTyped'
  <2>1. Closed \in [server : End, client : End]
        BY DEF Closed, End
  <2>2. pipe' \in PipeType
        BY <2>1, TypeParts DEF Kill, PipesTyped, PipeType
  <2>3. hello' \in BOOLEAN
        BY DEF Kill
  <2>4. events' \in Seq(Event) /\ commands' \in Seq(Sent) /\ info' \in Seq(Seq(Script))
        BY DEF Kill
  <2> QED BY <2>2, <2>3, <2>4 DEF PipesTyped
<1>3. AdaptersTyped'
      BY TypeParts DEF Kill, AdaptersTyped, Goto, State
<1> QED BY <1>1, <1>2, <1>3, TypeParts

LEMMA CloseTyped ==
    ASSUME PipesTyped, NEW n \in PipeName, Close(n)
    PROVE  PipesTyped'
<1>1. [pipe EXCEPT ![n].server = None] \in PipeType
      BY DEF PipesTyped, PipeType, End
<1> QED BY <1>1, DropTyped DEF Close

LEMMA SessionTyped ==
    ASSUME TypeOK, NEW a \in Adapter, Stay(a) \/ User(a) \/ Crash(a)
    PROVE  TypeOK'
<1>1. BackendTyped /\ PipesTyped /\ AdaptersTyped
      BY TypeParts
<1>2. ASSUME Update(a) PROVE TypeOK'
  <2>1. BackendTyped'
        BY <1>1, <1>2 DEF Update, backend, BackendTyped
  <2>2. AdaptersTyped'
    <3>1. CASE Head(events) \in Script
      <4>1. Append(files[a], Head(events)) \in Seq(Script)
            BY <1>1, <3>1 DEF AdaptersTyped
      <4> QED BY <1>1, <1>2, <3>1, <4>1 DEF Update, AdaptersTyped
    <3>2. CASE Head(events) \notin Script
          BY <1>1, <1>2, <3>2 DEF Update, AdaptersTyped
    <3> QED BY <3>1, <3>2
  <2>3. events' \in Seq(Event)
        BY <1>1, <1>2 DEF Update, PipesTyped
  <2>4. commands' \in Seq(Sent)
        BY <1>1, <1>2, WrittenTyped DEF Update, SendCommand, PipesTyped, Sent
  <2> QED BY <1>1, <1>2, <2>1, <2>2, <2>3, <2>4, TypeParts DEF Update, PipesTyped
<1>3. ASSUME Disconnected(a) \/ Stop(a) PROVE TypeOK'
      BY <1>3, KillTyped DEF Disconnected, Stop
<1>4. ASSUME CloseCommand(a) PROVE TypeOK'
  <2>1. BackendTyped' /\ AdaptersTyped'
        BY <1>1, <1>4 DEF CloseCommand, backend, BackendTyped, AdaptersTyped, Goto, State
  <2> QED BY <1>1, <1>4, <2>1, CloseTyped, TypeParts DEF CloseCommand, PipeName
<1>5. ASSUME CloseEvent(a) PROVE TypeOK'
  <2>1. BackendTyped' /\ AdaptersTyped'
        BY <1>1, <1>5 DEF CloseEvent, backend, BackendTyped, AdaptersTyped, Goto, State
  <2> QED BY <1>1, <1>5, <2>1, CloseTyped, TypeParts DEF CloseEvent, PipeName
<1>6. ASSUME Launch(a) PROVE TypeOK'
      BY <1>1, <1>6, TypeParts
      DEF Launch, backend, pipes, BackendTyped, PipesTyped, AdaptersTyped, Goto, State
<1>7. ASSUME Attach(a) PROVE TypeOK'
      BY <1>1, <1>7, TypeParts
      DEF Attach, backend, pipes, BackendTyped, PipesTyped, AdaptersTyped, Goto, State
<1>8. ASSUME Continue(a) \/ Leave(a) PROVE TypeOK'
  <2>1. BackendTyped' /\ AdaptersTyped'
        BY <1>1, <1>8 DEF Continue, Leave, backend, BackendTyped, AdaptersTyped, Goto, State
  <2>2. commands' \in Seq(Sent)
        BY <1>1, <1>8, WrittenTyped DEF Continue, Leave, SendCommand, PipesTyped, Sent
  <2> QED BY <1>1, <1>8, <2>1, <2>2, TypeParts DEF Continue, Leave, PipesTyped
<1>9. ASSUME Crash(a) PROVE TypeOK'
  <2>1. BackendTyped' /\ AdaptersTyped'
        BY <1>1, <1>9 DEF Crash, backend, BackendTyped, AdaptersTyped, Goto, State
  <2> QED BY <1>1, <1>9, <2>1, WithoutTyped, DropTyped, TypeParts DEF Crash
<1> QED BY <1>2, <1>3, <1>4, <1>5, <1>6, <1>7, <1>8, <1>9 DEF Stay, User

\* A script that is registered is a new one.
LEMMA RegisterInjective ==
    ASSUME NEW q \in Seq(Script), IsInjective(q), NEW s \in Script, s \notin Range(q)
    PROVE  IsInjective(Append(q, s))
<1>1. /\ Append(q, s) \in Seq(Script)
      /\ Len(Append(q, s)) = Len(q) + 1
      /\ \A k \in 1 .. Len(q) : Append(q, s)[k] = q[k]
      /\ Append(q, s)[Len(q) + 1] = s
      OBVIOUS
<1>2. \A k \in 1 .. Len(q) : q[k] # s
      BY DEF Range
<1>3. DOMAIN Append(q, s) = 1 .. Len(q) + 1
      BY <1>1
<1>4. ASSUME NEW a \in 1 .. Len(q) + 1, NEW b \in 1 .. Len(q) + 1,
             Append(q, s)[a] = Append(q, s)[b]
      PROVE  a = b
  <2>1. CASE a \in 1 .. Len(q) /\ b \in 1 .. Len(q)
        BY <1>1, <1>4, <2>1 DEF IsInjective
  <2>2. CASE a = Len(q) + 1 \/ b = Len(q) + 1
        BY <1>1, <1>2, <1>4, <2>2
  <2> QED BY <2>1, <2>2
<1> QED BY <1>3, <1>4 DEF IsInjective

LEMMA EmptyInjective == <<>> \in Seq(Script) /\ IsInjective(<<>>)
BY DEF IsInjective

LEMMA ThreadTyped ==
    ASSUME TypeOK, Thread
    PROVE  TypeOK'
<1>1. BackendTyped /\ PipesTyped /\ AdaptersTyped
      BY TypeParts
<1>2. ASSUME CmdDetach \/ CmdLoadDone \/ CmdContinue PROVE TypeOK'
  <2>1. commands' \in Seq(Sent)
    <3>1. commands # <<>> /\ commands' = Tail(commands)
          BY <1>2 DEF CmdDetach, CmdLoadDone, CmdContinue, Executed
    <3> QED BY <1>1, <3>1 DEF PipesTyped
  <2>2. PipesTyped' /\ AdaptersTyped'
        BY <1>1, <1>2, <2>1 DEF CmdDetach, CmdLoadDone, CmdContinue, PipesTyped, AdaptersTyped
  <2>3. BackendTyped'
        BY <1>1, <1>2 DEF CmdDetach, CmdLoadDone, CmdContinue, BackendTyped
  <2> QED BY <2>2, <2>3, TypeParts
<1>3. ASSUME CleanUp PROVE TypeOK'
  <2>1. Unplugged \in PipeType /\ [Unplugged EXCEPT !["Attach"].server = Backend] \in PipeType
        BY <1>1, UnpluggedTyped DEF PipeType, PipeName, End
  <2>2. PipesTyped'
        BY <1>1, <1>3, <2>1, DropTyped DEF CleanUp
  <2>3. BackendTyped'
    <3>1. scripts' \in Seq(Script) /\ IsInjective(scripts')
          BY <1>1, <1>3, EmptyInjective DEF CleanUp, BackendTyped
    <3> QED BY <1>1, <1>3, <3>1 DEF CleanUp, BackendTyped
  <2>4. AdaptersTyped'
        BY <1>1, <1>3 DEF CleanUp, AdaptersTyped
  <2> QED BY <2>2, <2>3, <2>4, TypeParts
<1>4. ASSUME ComeBack PROVE TypeOK'
  <2>1. pipe' \in PipeType
        BY <1>1, <1>4 DEF ComeBack, PipesTyped, PipeType, End
  <2>2. PipesTyped' /\ AdaptersTyped'
        BY <1>1, <1>4, <2>1 DEF ComeBack, PipesTyped, AdaptersTyped
  <2>3. BackendTyped'
        BY <1>1, <1>4 DEF ComeBack, BackendTyped
  <2> QED BY <2>2, <2>3, TypeParts
<1>5. ASSUME Announce PROVE TypeOK'
  <2>1. info' \in Seq(Seq(Script))
        BY <1>1, <1>5, WrittenTyped DEF Announce, PipesTyped, BackendTyped
  <2>2. PipesTyped' /\ AdaptersTyped'
        BY <1>1, <1>5, <2>1 DEF Announce, PipesTyped, AdaptersTyped
  <2>3. BackendTyped'
        BY <1>1, <1>5 DEF Announce, BackendTyped
  <2> QED BY <2>2, <2>3, TypeParts
<1>6. ASSUME Withdraw PROVE TypeOK'
  <2>1. [pipe EXCEPT !["Attach"].server = None] \in PipeType
        BY <1>1 DEF PipesTyped, PipeType, PipeName, End
  <2>2. PipesTyped'
        BY <1>1, <1>6, <2>1, DropTyped DEF Withdraw
  <2>3. BackendTyped' /\ AdaptersTyped'
        BY <1>1, <1>6 DEF Withdraw, BackendTyped, AdaptersTyped
  <2> QED BY <2>2, <2>3, TypeParts
<1> QED BY <1>2, <1>3, <1>4, <1>5, <1>6 DEF Thread

LEMMA ProgramTyped ==
    ASSUME TypeOK, Program \/ Break \/ Exit
    PROVE  TypeOK'
<1>1. BackendTyped /\ PipesTyped /\ AdaptersTyped
      BY TypeParts
<1>2. ASSUME NEW s \in Script, Load(s) PROVE TypeOK'
  <2>1. events' \in Seq(Event)
        BY <1>1, <1>2, WrittenTyped DEF Load, SendEvent, PipesTyped, Event
  <2>2. PipesTyped' /\ AdaptersTyped'
        BY <1>1, <1>2, <2>1 DEF Load, PipesTyped, AdaptersTyped
  <2>3. scripts' \in Seq(Script) /\ IsInjective(scripts')
    <3>1. scripts \in Seq(Script) /\ IsInjective(scripts) /\ s \notin Range(scripts)
          BY <1>1, <1>2 DEF Load, BackendTyped
    <3>2. IsInjective(Append(scripts, s))
          BY <3>1, RegisterInjective
    <3> QED BY <1>2, <3>1, <3>2 DEF Load
  <2>4. BackendTyped'
        BY <1>1, <1>2, <2>3 DEF Load, BackendTyped
  <2> QED BY <2>2, <2>4, TypeParts
<1>3. ASSUME Break PROVE TypeOK'
  <2>1. events' \in Seq(Event)
        BY <1>1, <1>3, WrittenTyped DEF Break, SendEvent, PipesTyped, Event
  <2>2. PipesTyped' /\ AdaptersTyped' /\ BackendTyped'
        BY <1>1, <1>3, <2>1 DEF Break, PipesTyped, AdaptersTyped, BackendTyped
  <2> QED BY <2>2, TypeParts
<1>4. ASSUME Exit PROVE TypeOK'
  <2>1. [Unplugged EXCEPT !["Attach"].server = None] \in PipeType
        BY <1>1, UnpluggedTyped DEF PipeType, PipeName, End
  <2>2. PipesTyped'
        BY <1>1, <1>4, <2>1, DropTyped DEF Exit
  <2>3. BackendTyped' /\ AdaptersTyped'
        BY <1>1, <1>4 DEF Exit, backend, BackendTyped, AdaptersTyped
  <2> QED BY <2>2, <2>3, TypeParts
<1> QED BY <1>2, <1>3, <1>4 DEF Program

\* In every reachable state the adapters, the backend and the pipes have the
\* values they can have, and no script is registered twice (DebugBackend.cpp
\* 505-646), for any number of adapters and scripts.
THEOREM TypeCorrect == Spec => []TypeOK
<1>1. Init => TypeOK
  <2> SUFFICES ASSUME Init PROVE TypeOK
      OBVIOUS
  <2>1. BackendTyped
        BY EmptyInjective DEF Init, BackendTyped
  <2>2. PipesTyped
    <3>1. Closed \in [server : End, client : End]
          BY DEF Closed, End
    <3>2. pipe \in PipeType
          BY <3>1 DEF Init, PipeType
    <3>3. /\ hello \in BOOLEAN
          /\ events \in Seq(Event) /\ commands \in Seq(Sent) /\ info \in Seq(Seq(Script))
      <4>1. <<>> \in Seq(Event) /\ <<>> \in Seq(Sent) /\ <<>> \in Seq(Seq(Script))
            OBVIOUS
      <4>2. hello = FALSE /\ events = <<>> /\ commands = <<>> /\ info = <<>>
            BY DEF Init
      <4> QED BY <4>1, <4>2
    <3> QED BY <3>2, <3>3 DEF PipesTyped
  <2>3. AdaptersTyped
        BY DEF Init, AdaptersTyped, State
  <2> QED BY <2>1, <2>2, <2>3, TypeParts
<1>2. ASSUME TypeOK, Next PROVE TypeOK'
      BY <1>2, ComeTyped, SessionTyped, ThreadTyped, ProgramTyped DEF Next
<1>3. ASSUME TypeOK, UNCHANGED vars PROVE TypeOK'
      BY <1>3 DEF TypeOK, vars, backend, pipes
<1> QED BY <1>1, <1>2, <1>3, PTL DEF Spec

-----------------------------------------------------------------------------
(* One session.  What an adapter is doing says which pipes it has, and the   *)
(* server of a pipe is an adapter that says so: that is inductive.           *)

HasEvent   == {"inject", "start", "announced", "debug", "leaving", "parting"}
HasCommand == HasEvent \ {"parting"}
Owner(n)   == pipe[n].server

PipesOwned ==
    /\ Owner("Event") # Backend /\ Owner("Command") # Backend
    /\ \A a \in Adapter : /\ pc[a] \in HasEvent <=> Owner("Event") = a
                          /\ pc[a] \in HasCommand <=> Owner("Command") = a

\* A step that neither gives nor takes one of the two pipes.
OwnersKept ==
    /\ Owner("Event")' = Owner("Event") /\ Owner("Command")' = Owner("Command")
    /\ \A a \in Adapter : /\ pc'[a] \in HasEvent <=> pc[a] \in HasEvent
                          /\ pc'[a] \in HasCommand <=> pc[a] \in HasCommand

LEMMA KeptOwned ==
    ASSUME PipesOwned, OwnersKept
    PROVE  PipesOwned'
BY DEF PipesOwned, OwnersKept

\* An adapter that goes leaves no pipe behind.
LEMMA GoneOwned ==
    ASSUME TypeOK, PipesOwned, NEW a \in Adapter, NEW state \in State \ HasEvent,
           Goto(a, state),
           \A n \in {"Event", "Command"} :
               pipe'[n].server = IF pipe[n].server = a THEN None ELSE pipe[n].server
    PROVE  PipesOwned'
<1>1. Owner("Event")' # Backend /\ Owner("Command")' # Backend
      BY SessionAssumption DEF PipesOwned, Owner
<1>2. ASSUME NEW b \in Adapter
      PROVE  /\ pc'[b] \in HasEvent <=> Owner("Event")' = b
             /\ pc'[b] \in HasCommand <=> Owner("Command")' = b
  <2>1. CASE b = a
    <3>1. pc'[b] = state
          BY <2>1 DEF Goto, TypeOK
    <3> QED BY <2>1, <3>1, SessionAssumption DEF Owner, HasCommand
  <2>2. CASE b # a
    <3>1. pc'[b] = pc[b]
          BY <2>2 DEF Goto, TypeOK
    <3> QED BY <2>2, <3>1, SessionAssumption DEF Owner, PipesOwned
  <2> QED BY <2>1, <2>2
<1> QED BY <1>1, <1>2 DEF PipesOwned

LEMMA WithoutServer ==
    ASSUME NEW a, Drop(Without(a))
    PROVE  \A n \in {"Event", "Command"} :
               pipe'[n].server = IF pipe[n].server = a THEN None ELSE pipe[n].server
BY DEF Drop, Without, PipeName

\* A step of the backend or of the program leaves the servers' ends alone.
LEMMA UnpluggedServer ==
    ASSUME TypeOK, NEW p \in {Unplugged, [Unplugged EXCEPT !["Attach"].server = Backend],
                              [Unplugged EXCEPT !["Attach"].server = None]}
    PROVE  \A n \in {"Event", "Command"} : p[n].server = pipe[n].server
<1> SUFFICES ASSUME NEW n \in {"Event", "Command"} PROVE p[n].server = pipe[n].server
    OBVIOUS
<1>1. pipe[n] \in [server : Adapter \cup {Backend, None}, client : Adapter \cup {Backend, None}]
      BY DEF TypeOK, PipeName
<1>2. Unplugged[n].server = pipe[n].server
      BY <1>1 DEF Unplugged, PipeName
<1>3. DOMAIN Unplugged = PipeName /\ n \in PipeName /\ n # "Attach"
      BY DEF Unplugged, PipeName
<1>4. p[n] = Unplugged[n]
      BY <1>3
<1> QED BY <1>2, <1>4

LEMMA OthersOwned ==
    ASSUME TypeOK, PipesOwned, Thread \/ Program \/ Break \/ Exit
    PROVE  PipesOwned'
<1>1. pc' = pc
      BY DEF Thread, Program, CmdDetach, CmdLoadDone, CmdContinue, CleanUp, ComeBack, Announce,
             Withdraw, Load, Break, Exit
<1>2. Owner("Event")' = Owner("Event") /\ Owner("Command")' = Owner("Command")
  <2>1. CASE CmdDetach \/ CmdLoadDone \/ CmdContinue \/ Announce \/ Program \/ Break
        BY <2>1 DEF CmdDetach, CmdLoadDone, CmdContinue, Announce, Program, Load, Break, Owner
  <2>2. CASE CleanUp \/ Exit
        BY <2>2, UnpluggedServer DEF CleanUp, Exit, Drop, Owner
  <2>3. CASE ComeBack
        BY <2>3 DEF ComeBack, TypeOK, PipeName, Owner
  <2>4. CASE Withdraw
        BY <2>4 DEF Withdraw, Drop, TypeOK, PipeName, Owner
  <2> QED BY <2>1, <2>2, <2>3, <2>4 DEF Thread
<1> QED BY <1>1, <1>2, KeptOwned DEF OwnersKept

LEMMA ComeOwned ==
    ASSUME TypeOK, PipesOwned, NEW a \in Adapter, Come(a)
    PROVE  PipesOwned'
<1> USE DEF HasEvent, HasCommand
<1>0. "failed" \in State \ HasEvent
      BY DEF State
<1>1. ASSUME AskBackend(a) PROVE PipesOwned'
  <2>1. OwnersKept
        BY <1>1 DEF AskBackend, OwnersKept, Goto, TypeOK, PipeName, Owner
  <2> QED BY <2>1, KeptOwned
<1>2. ASSUME CreatePipes(a) PROVE PipesOwned'
  <2>1. ASSUME pipe["Event"] = Closed /\ pipe["Command"] = Closed PROVE PipesOwned'
    <3>1. Owner("Event")' = a /\ Owner("Command")' = a
          BY <1>2, <2>1 DEF CreatePipes, TypeOK, PipeName, Owner
    <3>2. Owner("Event") = None /\ Owner("Command") = None
          BY <2>1 DEF Closed, Owner
    <3>3. pc'[a] \in {"announced", "inject"} /\ \A b \in Adapter \ {a} : pc'[b] = pc[b]
          BY <1>2, <2>1 DEF CreatePipes, Goto, TypeOK
    <3> QED BY <3>1, <3>2, <3>3, SessionAssumption DEF PipesOwned
  <2>2. ASSUME ~(pipe["Event"] = Closed /\ pipe["Command"] = Closed) PROVE PipesOwned'
        BY <1>0, <1>2, <2>2, WithoutServer, GoneOwned DEF CreatePipes
  <2> QED BY <2>1, <2>2
<1>3. ASSUME Inject(a) PROVE PipesOwned'
  <2>1. ASSUME pipe' = [pipe EXCEPT !["Event"].client = Backend, !["Command"].client = Backend],
               Goto(a, "start")
        PROVE  PipesOwned'
    <3>1. pc[a] = "inject"
          BY <1>3 DEF Inject
    <3>2. OwnersKept
          BY <2>1, <3>1 DEF OwnersKept, Goto, TypeOK, PipeName, Owner
    <3> QED BY <3>2, KeptOwned
  <2>2. ASSUME Drop(Without(a)), Goto(a, "failed") PROVE PipesOwned'
        BY <1>0, <2>2, WithoutServer, GoneOwned
  <2> QED BY <1>3, <2>1, <2>2 DEF Inject
<1>4. ASSUME Start(a) PROVE PipesOwned'
  <2>1. ASSUME UNCHANGED pipe, Goto(a, "debug") PROVE PipesOwned'
    <3>1. pc[a] = "start"
          BY <1>4 DEF Start
    <3>2. OwnersKept
          BY <2>1, <3>1 DEF OwnersKept, Goto, TypeOK, Owner
    <3> QED BY <3>2, KeptOwned
  <2>2. ASSUME Drop(Without(a)), Goto(a, "failed") PROVE PipesOwned'
        BY <1>0, <2>2, WithoutServer, GoneOwned
  <2> QED BY <1>4, <2>1, <2>2 DEF Start
<1>5. ASSUME Announced(a) PROVE PipesOwned'
  <2>1. ASSUME Drop([pipe EXCEPT !["Attach"].client = None]), Goto(a, "debug")
        PROVE  PipesOwned'
    <3>1. pc[a] = "announced"
          BY <1>5 DEF Announced
    <3>2. OwnersKept
          BY <2>1, <3>1 DEF OwnersKept, Drop, Goto, TypeOK, PipeName, Owner
    <3> QED BY <3>2, KeptOwned
  <2>2. ASSUME Drop(Without(a)), Goto(a, "failed") PROVE PipesOwned'
        BY <1>0, <2>2, WithoutServer, GoneOwned
  <2> QED BY <1>5, <2>1, <2>2 DEF Announced
<1> QED BY <1>1, <1>2, <1>3, <1>4, <1>5 DEF Come

LEMMA SessionOwned ==
    ASSUME TypeOK, PipesOwned, NEW a \in Adapter, Stay(a) \/ User(a) \/ Crash(a)
    PROVE  PipesOwned'
<1> USE DEF HasEvent, HasCommand
<1>0. "over" \in State \ HasEvent
      BY DEF State
<1>1. ASSUME Update(a) \/ Continue(a) \/ Leave(a) \/ Launch(a) \/ Attach(a) PROVE PipesOwned'
  <2>1. OwnersKept
        BY <1>1 DEF Update, Continue, Leave, Launch, Attach, OwnersKept, Goto, TypeOK, pipes, Owner
  <2> QED BY <2>1, KeptOwned
<1>2. ASSUME Kill(a) PROVE PipesOwned'
  <2>1. \A n \in {"Event", "Command"} :
            pipe'[n].server = IF pipe[n].server = a THEN None ELSE pipe[n].server
        BY <1>2, SessionAssumption DEF Kill, Closed, PipesOwned, Owner, PipeName
  <2> QED BY <1>0, <1>2, <2>1, GoneOwned DEF Kill
<1>3. ASSUME CloseCommand(a) PROVE PipesOwned'
  <2>1. /\ pc[a] = "leaving" /\ pc'[a] = "parting" /\ \A b \in Adapter \ {a} : pc'[b] = pc[b]
        /\ Owner("Event")' = Owner("Event") /\ Owner("Command")' = None
        BY <1>3 DEF CloseCommand, Close, Drop, Goto, TypeOK, PipeName, Owner
  <2> QED BY <2>1, SessionAssumption DEF PipesOwned
<1>4. ASSUME CloseEvent(a) PROVE PipesOwned'
  <2>1. /\ pc[a] = "parting" /\ pc'[a] = "over" /\ \A b \in Adapter \ {a} : pc'[b] = pc[b]
        /\ Owner("Event")' = None /\ Owner("Command")' = Owner("Command")
        BY <1>4 DEF CloseEvent, Close, Drop, Goto, TypeOK, PipeName, Owner
  <2> QED BY <2>1, SessionAssumption DEF PipesOwned
<1>5. ASSUME Crash(a) PROVE PipesOwned'
      BY <1>0, <1>5, WithoutServer, GoneOwned DEF Crash
<1> QED BY <1>1, <1>2, <1>3, <1>4, <1>5 DEF Stay, User, Disconnected, Stop

LEMMA OwnedOneSession ==
    ASSUME TypeOK, PipesOwned
    PROVE  OneSession
<1>1. Owner("Event") \in Adapter \cup {None} /\ Owner("Command") \in Adapter \cup {None}
      BY DEF TypeOK, PipesOwned, Owner, PipeName
<1> QED BY <1>1 DEF PipesOwned, OneSession, Owner, HasEvent, HasCommand

\* One adapter debugs the process at a time, and has both pipes (launcher.cpp 332,
\* 338, 393, 400, 406), however many try, crash, leave or kill, and in whatever
\* order they do.
THEOREM OneSessionAtATime == Spec => []OneSession
<1>1. Init => PipesOwned
      BY SessionAssumption
      DEF Init, PipesOwned, Owner, PipeName, Closed, HasEvent, HasCommand
<1>2. ASSUME TypeOK, PipesOwned, Next PROVE PipesOwned'
      BY <1>2, ComeOwned, SessionOwned, OthersOwned DEF Next
<1>3. ASSUME PipesOwned, UNCHANGED vars PROVE PipesOwned'
      BY <1>3 DEF PipesOwned, Owner, vars, pipes
<1>4. TypeOK /\ PipesOwned => OneSession
      BY OwnedOneSession
<1> QED BY <1>1, <1>2, <1>3, <1>4, TypeCorrect, PTL DEF Spec

-----------------------------------------------------------------------------
(* The numbers of the scripts.  f are the files of an adapter, s the scripts *)
(* of the backend and e the events under way between them.                   *)

Agreement(f, s, e) ==
    /\ Len(f) <= Len(s)
    /\ \A i \in 1 .. Len(f) : f[i] = s[i]
    /\ \A i \in Len(f) + 1 .. Len(s) : \E j \in DOMAIN e : e[j] = s[i]
    /\ \A j \in DOMAIN e : e[j] \in Script => \E i \in Len(f) + 1 .. Len(s) : e[j] = s[i]
    /\ \A j, k \in DOMAIN e, i, l \in DOMAIN s : j < k /\ e[j] = s[i] /\ e[k] = s[l] => i < l

LEMMA AgreementIs ==
    ASSUME NEW a
    PROVE  /\ Agree(a) <=> Agreement(files[a], scripts, events)
           /\ Agree(a)' <=> Agreement(files'[a], scripts', events')
BY DEF Agree, Agreement, UnderWay

LEMMA Tailed ==
    ASSUME NEW S, NEW e \in Seq(S), e # <<>>
    PROVE  /\ Head(e) = e[1] /\ 1 \in DOMAIN e /\ DOMAIN e = 1 .. Len(e) /\ Len(e) \in Nat
           /\ Tail(e) \in Seq(S) /\ DOMAIN Tail(e) = 1 .. Len(e) - 1
           /\ \A j \in DOMAIN Tail(e) : j + 1 \in DOMAIN e /\ Tail(e)[j] = e[j + 1]
           /\ \A j \in DOMAIN e : j # 1 => j - 1 \in DOMAIN Tail(e) /\ Tail(e)[j - 1] = e[j]
<1>1. /\ Head(e) = e[1] /\ 1 \in DOMAIN e /\ DOMAIN e = 1 .. Len(e) /\ Len(e) \in Nat
      /\ Tail(e) \in Seq(S) /\ Len(Tail(e)) = Len(e) - 1
      /\ \A j \in 1 .. Len(Tail(e)) : Tail(e)[j] = e[j + 1]
      BY HeadTailProperties
<1>2. PICK t \in Seq(S) : t = Tail(e)
      BY <1>1
<1>3. DOMAIN t = 1 .. Len(e) - 1
      BY <1>1, <1>2
<1>4. ASSUME NEW j \in DOMAIN t PROVE j + 1 \in DOMAIN e /\ t[j] = e[j + 1]
      BY <1>1, <1>2, <1>3
<1>5. ASSUME NEW j \in DOMAIN e, j # 1 PROVE j - 1 \in DOMAIN t /\ t[j - 1] = e[j]
  <2>1. j \in Nat /\ j - 1 \in 1 .. Len(e) - 1 /\ (j - 1) + 1 = j
        BY <1>1, <1>5
  <2> QED BY <1>3, <1>4, <2>1
<1> QED BY <1>1, <1>2, <1>3, <1>4, <1>5

LEMMA Extended ==
    ASSUME NEW S, NEW q \in Seq(S), NEW x \in S
    PROVE  /\ Append(q, x) \in Seq(S) /\ Len(Append(q, x)) = Len(q) + 1 /\ Len(q) \in Nat
           /\ DOMAIN q = 1 .. Len(q) /\ DOMAIN Append(q, x) = 1 .. Len(q) + 1
           /\ Append(q, x)[Len(q) + 1] = x
           /\ \A i \in 1 .. Len(q) : Append(q, x)[i] = q[i]
           /\ \A i \in DOMAIN Append(q, x) : i \in DOMAIN q \/ i = Len(q) + 1
OBVIOUS

\* The next script to come is the one after the files.
LEMMA NextScript ==
    ASSUME NEW f \in Seq(Script), NEW s \in Seq(Script), IsInjective(s),
           NEW e \in Seq(Event), e # <<>>, Head(e) \in Script, Agreement(f, s, e)
    PROVE  Len(f) + 1 \in 1 .. Len(s) /\ Head(e) = s[Len(f) + 1]
<1>1. /\ Head(e) = e[1] /\ 1 \in DOMAIN e /\ DOMAIN e = 1 .. Len(e)
      /\ Len(f) \in Nat /\ Len(s) \in Nat /\ DOMAIN s = 1 .. Len(s)
      BY Tailed
<1>2. PICK i \in Len(f) + 1 .. Len(s) : e[1] = s[i]
      BY <1>1 DEF Agreement
<1>3. i \in DOMAIN s /\ Len(f) + 1 \in DOMAIN s /\ Len(f) + 1 \in Len(f) + 1 .. Len(s)
      BY <1>1, <1>2
<1>4. PICK j \in DOMAIN e : e[j] = s[Len(f) + 1]
      BY <1>3 DEF Agreement
<1>5. CASE j = 1
      BY <1>1, <1>2, <1>3, <1>4, <1>5 DEF IsInjective
<1>6. CASE j # 1
  <2>1. 1 < j
        BY <1>1, <1>4, <1>6
  <2>2. i < Len(f) + 1
        BY <1>1, <1>2, <1>3, <1>4, <2>1 DEF Agreement
  <2> QED BY <1>1, <1>2, <2>2
<1> QED BY <1>5, <1>6

LEMMA Taken ==
    ASSUME NEW f \in Seq(Script), NEW s \in Seq(Script), IsInjective(s),
           NEW e \in Seq(Event), e # <<>>, Head(e) \in Script, Agreement(f, s, e)
    PROVE  Agreement(Append(f, Head(e)), s, Tail(e))
<1>1. PICK n \in Nat, m \in Nat : n = Len(f) /\ m = Len(s)
      OBVIOUS
<1>2. n + 1 \in 1 .. m /\ Head(e) = s[n + 1] /\ DOMAIN s = 1 .. m /\ n + 1 \in DOMAIN s
      BY <1>1, NextScript
<1>3. /\ Head(e) = e[1] /\ 1 \in DOMAIN e /\ DOMAIN e = 1 .. Len(e) /\ Len(e) \in Nat
      /\ \A j \in DOMAIN Tail(e) : j + 1 \in DOMAIN e /\ Tail(e)[j] = e[j + 1] /\ j \in Nat /\ 1 < j + 1
      /\ \A j \in DOMAIN e : j # 1 => j - 1 \in DOMAIN Tail(e) /\ Tail(e)[j - 1] = e[j]
      BY Tailed
<1>4. PICK g : g = Append(f, Head(e)) /\ g \in Seq(Script)
      BY Extended
<1>5. Len(g) = n + 1 /\ g[n + 1] = s[n + 1] /\ \A i \in 1 .. n : g[i] = f[i]
      BY <1>1, <1>2, <1>4, Extended
<1>6. Len(g) <= m /\ \A i \in 1 .. Len(g) : g[i] = s[i]
  <2>1. ASSUME NEW i \in 1 .. Len(g) PROVE g[i] = s[i]
    <3>1. i \in 1 .. n \/ i = n + 1
          BY <1>5
    <3> QED BY <1>1, <1>5, <3>1 DEF Agreement
  <2>2. Len(g) <= m
        BY <1>1, <1>2, <1>5
  <2> QED BY <2>1, <2>2
<1>7. ASSUME NEW i \in (n + 1) + 1 .. m PROVE \E j \in DOMAIN Tail(e) : Tail(e)[j] = s[i]
  <2>1. i \in DOMAIN s /\ i # n + 1 /\ i \in n + 1 .. m
        BY <1>2
  <2>2. PICK j \in DOMAIN e : e[j] = s[i]
        BY <1>1, <2>1 DEF Agreement
  <2>3. j # 1
        BY <1>2, <1>3, <2>1, <2>2 DEF IsInjective
  <2> QED BY <1>3, <2>2, <2>3
<1>8. ASSUME NEW j \in DOMAIN Tail(e), Tail(e)[j] \in Script
      PROVE  \E i \in (n + 1) + 1 .. m : Tail(e)[j] = s[i]
  <2>1. j + 1 \in DOMAIN e /\ Tail(e)[j] = e[j + 1] /\ 1 < j + 1
        BY <1>3
  <2>2. PICK i \in n + 1 .. m : e[j + 1] = s[i]
        BY <1>1, <1>8, <2>1 DEF Agreement
  <2>3. i \in DOMAIN s
        BY <1>2, <2>2
  <2>4. n + 1 < i
    <3>1. 1 < j + 1 /\ 1 \in DOMAIN e /\ e[1] = s[n + 1] /\ n + 1 \in DOMAIN s
          BY <1>2, <1>3
    <3> QED BY <2>1, <2>2, <2>3, <3>1 DEF Agreement
  <2> QED BY <2>1, <2>2, <2>4
<1>9. ASSUME NEW j \in DOMAIN Tail(e), NEW k \in DOMAIN Tail(e), NEW i \in DOMAIN s, NEW l \in DOMAIN s,
             j < k, Tail(e)[j] = s[i], Tail(e)[k] = s[l]
      PROVE  i < l
  <2>1. /\ j + 1 \in DOMAIN e /\ Tail(e)[j] = e[j + 1] /\ j \in Nat
        /\ k + 1 \in DOMAIN e /\ Tail(e)[k] = e[k + 1] /\ k \in Nat
        BY <1>3
  <2>2. j + 1 < k + 1
        BY <1>9, <2>1
  <2> QED BY <1>9, <2>1, <2>2 DEF Agreement
<1> QED BY <1>1, <1>4, <1>5, <1>6, <1>7, <1>8, <1>9 DEF Agreement

LEMMA Skipped ==
    ASSUME NEW f \in Seq(Script), NEW s \in Seq(Script),
           NEW e \in Seq(Event), e # <<>>, Head(e) \notin Script, Agreement(f, s, e)
    PROVE  Agreement(f, s, Tail(e))
<1>1. PICK n \in Nat, m \in Nat : n = Len(f) /\ m = Len(s)
      OBVIOUS
<1>3. /\ Head(e) = e[1] /\ 1 \in DOMAIN e /\ DOMAIN e = 1 .. Len(e) /\ Len(e) \in Nat
      /\ \A j \in DOMAIN Tail(e) : j + 1 \in DOMAIN e /\ Tail(e)[j] = e[j + 1] /\ j \in Nat
      /\ \A j \in DOMAIN e : j # 1 => j - 1 \in DOMAIN Tail(e) /\ Tail(e)[j - 1] = e[j]
      BY Tailed
<1>7. ASSUME NEW i \in n + 1 .. m PROVE \E j \in DOMAIN Tail(e) : Tail(e)[j] = s[i]
  <2>1. s[i] \in Script
        BY <1>1
  <2>2. PICK j \in DOMAIN e : e[j] = s[i]
        BY <1>1 DEF Agreement
  <2> QED BY <1>3, <2>1, <2>2
<1>8. ASSUME NEW j \in DOMAIN Tail(e), Tail(e)[j] \in Script
      PROVE  \E i \in n + 1 .. m : Tail(e)[j] = s[i]
      BY <1>1, <1>3, <1>8 DEF Agreement
<1>9. ASSUME NEW j \in DOMAIN Tail(e), NEW k \in DOMAIN Tail(e), NEW i \in DOMAIN s, NEW l \in DOMAIN s,
             j < k, Tail(e)[j] = s[i], Tail(e)[k] = s[l]
      PROVE  i < l
  <2>1. /\ j + 1 \in DOMAIN e /\ Tail(e)[j] = e[j + 1] /\ j \in Nat
        /\ k + 1 \in DOMAIN e /\ Tail(e)[k] = e[k + 1] /\ k \in Nat
        BY <1>3
  <2>2. j + 1 < k + 1
        BY <1>9, <2>1
  <2> QED BY <1>9, <2>1, <2>2 DEF Agreement
<1> QED BY <1>1, <1>7, <1>8, <1>9 DEF Agreement

\* A new script is registered and announced.
LEMMA Registered ==
    ASSUME NEW f \in Seq(Script), NEW s \in Seq(Script), NEW x \in Script, x \notin Range(s),
           NEW e \in Seq(Event), Agreement(f, s, e)
    PROVE  Agreement(f, Append(s, x), Append(e, x))
<1>0. x \in Event
      BY DEF Event
<1>1. PICK n \in Nat, m \in Nat, h \in Nat : n = Len(f) /\ m = Len(s) /\ h = Len(e)
      OBVIOUS
<1>2. PICK t, d : /\ t = Append(s, x) /\ t \in Seq(Script)
                  /\ d = Append(e, x) /\ d \in Seq(Event)
      BY <1>0, Extended
<1>3. /\ Len(t) = m + 1 /\ DOMAIN t = 1 .. m + 1 /\ t[m + 1] = x /\ DOMAIN s = 1 .. m
      /\ \A i \in 1 .. m : t[i] = s[i]
      /\ Len(d) = h + 1 /\ DOMAIN d = 1 .. h + 1 /\ d[h + 1] = x /\ DOMAIN e = 1 .. h
      /\ \A j \in 1 .. h : d[j] = e[j]
      BY <1>0, <1>1, <1>2, Extended
<1>4. n <= m /\ \A i \in 1 .. n : f[i] = t[i]
      BY <1>1, <1>3 DEF Agreement
\* No event under way names the new script.
<1>5. ASSUME NEW j \in 1 .. h PROVE d[j] # x
  <2>1. CASE d[j] \in Script
    <3>1. PICK i \in n + 1 .. m : e[j] = s[i]
          BY <1>1, <1>3, <2>1 DEF Agreement
    <3>2. i \in DOMAIN s
          BY <1>3, <3>1
    <3>3. s[i] \in Range(s)
          BY <3>2 DEF Range
    <3> QED BY <1>3, <3>1, <3>3
  <2>2. CASE d[j] \notin Script
        BY <2>2
  <2> QED BY <2>1, <2>2
<1>6. ASSUME NEW i \in n + 1 .. m + 1 PROVE \E j \in DOMAIN d : d[j] = t[i]
  <2>1. CASE i = m + 1
    <3>1. h + 1 \in DOMAIN d
          BY <1>3
    <3> QED BY <1>3, <2>1, <3>1
  <2>2. CASE i # m + 1
    <3>1. i \in n + 1 .. m /\ i \in 1 .. m
          BY <2>2
    <3>2. PICK j \in 1 .. h : e[j] = s[i]
          BY <1>1, <1>3, <3>1 DEF Agreement
    <3>3. j \in DOMAIN d
          BY <1>3
    <3> QED BY <1>3, <3>1, <3>2, <3>3
  <2> QED BY <2>1, <2>2
<1>7. ASSUME NEW j \in DOMAIN d, d[j] \in Script PROVE \E i \in n + 1 .. m + 1 : d[j] = t[i]
  <2>1. CASE j = h + 1
    <3>1. m + 1 \in n + 1 .. m + 1
          BY <1>4
    <3> QED BY <1>3, <2>1, <3>1
  <2>2. CASE j # h + 1
    <3>1. j \in 1 .. h
          BY <1>3, <2>2
    <3>2. PICK i \in n + 1 .. m : e[j] = s[i]
          BY <1>1, <1>3, <1>7, <3>1 DEF Agreement
    <3>3. i \in 1 .. m /\ i \in n + 1 .. m + 1
          OBVIOUS
    <3> QED BY <1>3, <3>1, <3>2, <3>3
  <2> QED BY <2>1, <2>2
<1>8. ASSUME NEW j \in DOMAIN d, NEW k \in DOMAIN d, NEW i \in DOMAIN t, NEW l \in DOMAIN t,
             j < k, d[j] = t[i], d[k] = t[l]
      PROVE  i < l
  <2>1. j \in 1 .. h /\ d[j] # x /\ d[j] = e[j]
        BY <1>3, <1>5, <1>8
  <2>2. i \in 1 .. m /\ t[i] = s[i]
    <3>1. i # m + 1 /\ i \in 1 .. m + 1
          BY <1>3, <1>8, <2>1
    <3>2. i \in 1 .. m
          BY <3>1
    <3> QED BY <1>3, <3>2
  <2>3. CASE l = m + 1
        BY <2>2, <2>3
  <2>4. CASE l # m + 1
    <3>1. l \in 1 .. m /\ t[l] = s[l]
          BY <1>3, <2>4
    <3>2. CASE k = h + 1
      <4>1. s[l] \in Range(s)
            BY <1>3, <3>1 DEF Range
      <4> QED BY <1>3, <1>8, <3>1, <3>2, <4>1
    <3>3. CASE k # h + 1
      <4>1. k \in 1 .. h /\ d[k] = e[k]
            BY <1>3, <3>3
      <4>2. /\ e[j] = s[i] /\ e[k] = s[l] /\ j \in DOMAIN e /\ k \in DOMAIN e
            /\ i \in DOMAIN s /\ l \in DOMAIN s
            BY <1>3, <1>8, <2>1, <2>2, <3>1, <4>1
      <4> QED BY <1>8, <4>2 DEF Agreement
    <3> QED BY <3>2, <3>3
  <2> QED BY <2>3, <2>4
<1>9. Len(f) <= Len(t)
      BY <1>1, <1>3, <1>4
<1>10. Agreement(f, t, d)
       BY <1>1, <1>3, <1>4, <1>6, <1>7, <1>8, <1>9 DEF Agreement
<1> QED BY <1>2, <1>10

LEMMA Stopped ==
    ASSUME NEW f \in Seq(Script), NEW s \in Seq(Script), NEW x \in Event \ Script,
           NEW e \in Seq(Event), Agreement(f, s, e)
    PROVE  Agreement(f, s, Append(e, x))
<1>1. PICK n \in Nat, m \in Nat, h \in Nat : n = Len(f) /\ m = Len(s) /\ h = Len(e)
      OBVIOUS
<1>2. PICK d : d = Append(e, x) /\ d \in Seq(Event)
      BY Extended
<1>3. /\ DOMAIN s = 1 .. m /\ \A i \in DOMAIN s : s[i] # x
      /\ Len(d) = h + 1 /\ DOMAIN d = 1 .. h + 1 /\ d[h + 1] = x /\ DOMAIN e = 1 .. h
      /\ \A j \in 1 .. h : d[j] = e[j]
      BY <1>1, <1>2, Extended
<1>6. ASSUME NEW i \in n + 1 .. m PROVE \E j \in DOMAIN d : d[j] = s[i]
  <2>1. PICK j \in 1 .. h : e[j] = s[i]
        BY <1>1, <1>3 DEF Agreement
  <2>2. j \in DOMAIN d
        BY <1>3
  <2> QED BY <1>3, <2>1, <2>2
<1>7. ASSUME NEW j \in DOMAIN d, d[j] \in Script PROVE \E i \in n + 1 .. m : d[j] = s[i]
  <2>1. j \in 1 .. h
        BY <1>3, <1>7
  <2> QED BY <1>1, <1>3, <1>7, <2>1 DEF Agreement
<1>8. ASSUME NEW j \in DOMAIN d, NEW k \in DOMAIN d, NEW i \in DOMAIN s, NEW l \in DOMAIN s,
             j < k, d[j] = s[i], d[k] = s[l]
      PROVE  i < l
  <2>1. k \in 1 .. h /\ j \in 1 .. h
        BY <1>3, <1>8
  <2> QED BY <1>3, <1>8, <2>1 DEF Agreement
<1> QED BY <1>1, <1>2, <1>6, <1>7, <1>8 DEF Agreement

LEMMA AllKnown ==
    ASSUME NEW s \in Seq(Script), NEW e \in Seq(Event), \A j \in DOMAIN e : e[j] \notin Script
    PROVE  Agreement(s, s, e)
<1>1. Len(s) \in Nat /\ DOMAIN s = 1 .. Len(s) /\ \A i \in DOMAIN s : s[i] \in Script
      OBVIOUS
<1> QED BY <1>1 DEF Agreement

-----------------------------------------------------------------------------
(* Both sides number the scripts alike.  The invariant follows a session from  *)
(* its two beginnings: the DLL is injected and knows no script, or a backend   *)
(* that was left is asked to come back and tells the scripts it knows while    *)
(* none is registered.                                                         *)

Asker == pipe["Attach"].client

\* A backend that is not there knows nothing.
Fresh == ~injected => attacher = "none" /\ commandThread = "none" /\ scripts = <<>>
Waits == attacher \in {"await", "asked"} => commandThread = "none"

\* The event pipe of an adapter that debugs has both its ends.
Connected ==
    /\ pipe["Event"].client \in {Backend, None}
    /\ \A a \in Adapter :
        (pc[a] \in {"start", "debug"} \/ (pc[a] = "announced" /\ attacher \in {"announce", "flush"}))
            => Reads /\ pipe["Event"].client = Backend

\* Who has asked a backend to come back, and how far that is.
Asked ==
    /\ Asker # Backend
    /\ hello => Asker # None
    /\ \A a \in Adapter :
        /\ Asker = a <=> pc[a] \in {"remake", "announced"}
        /\ Asker = a => attacher \in {"asked", "announce", "flush"}
        /\ pc[a] = "remake" => attacher = "asked" /\ ~hello

\* What the backend has written of itself is still true when it is read.
Told == info # <<>> => attacher = "flush" /\ Asker # None /\ info = <<scripts>>

\* No script is under way to an adapter that waits for what the backend knows.
Quiet ==
    /\ \A a \in Adapter : pc[a] = "announced" => \A j \in DOMAIN events : events[j] \notin Script
    /\ pipe["Event"] = Closed => events = <<>>

Before == {"idle", "launch", "make", "inject", "start", "ask", "remake", "announced"}
Agreed ==
    \A a \in Adapter :
        /\ pc[a] \in Before => files[a] = <<>>
        /\ pc[a] = "start" => events # <<>> /\ Head(events) = "initialize"
        /\ pc[a] \in {"start", "debug"} => Agree(a)

FilesInv == Fresh /\ Waits /\ Connected /\ Asked /\ Told /\ Quiet /\ Agreed
Base     == TypeOK /\ PipesOwned /\ FilesInv

LEMMA Events ==
    ASSUME TypeOK
    PROVE  /\ events \in Seq(Event) /\ scripts \in Seq(Script) /\ IsInjective(scripts)
           /\ \A a \in Adapter : files[a] \in Seq(Script)
           /\ "initialize" \in Event \ Script /\ "break" \in Event \ Script
BY SessionAssumption DEF TypeOK, Event

\* One adapter at most is past the creation of its pipes.
LEMMA OneOwner ==
    ASSUME PipesOwned, NEW a \in Adapter, NEW b \in Adapter, pc[a] \in HasEvent, pc[b] \in HasEvent
    PROVE  a = b
BY DEF PipesOwned

\* Closing ends of pipes loses nothing of what is under way on a pipe that keeps one.
LEMMA Dropped ==
    ASSUME TypeOK, NEW p, Drop(p)
    PROVE  /\ pipe' = p
           /\ events' = events \/ events' = <<>>
           /\ p["Event"] = Closed => events' = <<>>
           /\ p["Event"].server # None \/ p["Event"].client # None => events' = events
           /\ info' # <<>> => info' = info /\ p["Attach"].client # None
           /\ hello' => hello /\ p["Attach"].client # None
<1>1. Closed.server = None /\ Closed.client = None
      BY DEF Closed
<1>2. p["Event"].server # None \/ p["Event"].client # None => p["Event"] # Closed
      BY <1>1
<1>3. pipe' = p /\ events' = IF p["Event"] = Closed THEN <<>> ELSE events
      BY DEF Drop, Contents
<1>4. info' = (IF p["Attach"].client = None THEN <<>> ELSE info) /\ (hello' => hello /\ p["Attach"].client # None)
      BY DEF Drop
<1> QED BY <1>2, <1>3, <1>4

LEMMA AgreeStays ==
    ASSUME NEW a \in Adapter, Agree(a), files'[a] = files[a], scripts' = scripts, events' = events
    PROVE  Agree(a)'
BY AgreementIs

LEMMA PipeParts ==
    ASSUME TypeOK
    PROVE  \A n \in PipeName : /\ n \in DOMAIN pipe
                               /\ pipe[n] = [server |-> pipe[n].server, client |-> pipe[n].client]
BY DEF TypeOK

\* An adapter gives up, at whatever point.
LEMMA FailsFiles ==
    ASSUME Base, NEW a \in Adapter, NEW state \in {"failed", "over"}, Goto(a, state),
           Drop(Without(a)), UNCHANGED <<backend, files>>
    PROVE  FilesInv'
<1>0. TypeOK /\ PipesOwned /\ Fresh /\ Waits /\ Connected /\ Asked /\ Told /\ Quiet /\ Agreed
      BY DEF Base, FilesInv
<1>1. /\ injected' = injected /\ attacher' = attacher /\ commandThread' = commandThread
      /\ scripts' = scripts /\ files' = files
      BY DEF backend
<1>2. pc'[a] = state /\ \A b \in Adapter \ {a} : pc'[b] = pc[b]
      BY <1>0 DEF Goto, TypeOK
<1>3. /\ pipe'["Event"].server = IF pipe["Event"].server = a THEN None ELSE pipe["Event"].server
      /\ pipe'["Event"].client = IF pipe["Event"].client = a THEN None ELSE pipe["Event"].client
      /\ Asker' = IF Asker = a THEN None ELSE Asker
      BY <1>0, Dropped DEF Without, PipeName, Asker
<1>4. /\ events' = events \/ events' = <<>>
      /\ pipe'["Event"] = Closed => events' = <<>>
      /\ pipe'["Event"].server # None => events' = events
      /\ info' # <<>> => info' = info /\ Asker' # None
      /\ hello' => hello /\ Asker' # None
      BY <1>0, Dropped DEF Asker
<1>5. Fresh' /\ Waits'
      BY <1>0, <1>1 DEF Fresh, Waits
<1>6. Connected'
      BY <1>0, <1>1, <1>2, <1>3, SessionAssumption DEF Connected, Reads
<1>7. Asked'
      BY <1>0, <1>1, <1>2, <1>3, <1>4, SessionAssumption DEF Asked
<1>8. Told'
      BY <1>0, <1>1, <1>4 DEF Told
<1>9. Quiet'
      BY <1>0, <1>2, <1>4 DEF Quiet
<1>10. Agreed'
  <2>1. ASSUME NEW b \in Adapter \ {a}, pc[b] \in {"start", "debug"}
        PROVE  events' = events
    <3>1. pipe["Event"].server = b
          BY <1>0, <2>1 DEF PipesOwned, Owner, HasEvent
    <3> QED BY <1>3, <1>4, <3>1, SessionAssumption
  <2>2. ASSUME NEW b \in Adapter
        PROVE  /\ pc'[b] \in Before => files'[b] = <<>>
               /\ pc'[b] = "start" => events' # <<>> /\ Head(events') = "initialize"
               /\ pc'[b] \in {"start", "debug"} => Agree(b)'
    <3>1. CASE b = a
          BY <1>2, <3>1 DEF Before
    <3>2. CASE b # a
          BY <1>0, <1>1, <1>2, <2>1, <3>2, AgreeStays DEF Agreed
    <3> QED BY <3>1, <3>2
  <2> QED BY <2>2 DEF Agreed
<1> QED BY <1>5, <1>6, <1>7, <1>8, <1>9, <1>10 DEF FilesInv

\* A step of an adapter on its own: no pipe and nothing under way to it changes.
LEMMA GoesFiles ==
    ASSUME Base, NEW a \in Adapter, NEW state \in State, Goto(a, state),
           UNCHANGED <<backend, pipe, hello, events, info, files>>,
           state \in Before \ {"remake", "announced"} => pc[a] \in Before,
           state # "start" /\ state # "debug",
           pc[a] \notin {"remake", "announced"} /\ state \notin {"remake", "announced"}
    PROVE  FilesInv'
<1>0. TypeOK /\ PipesOwned /\ Fresh /\ Waits /\ Connected /\ Asked /\ Told /\ Quiet /\ Agreed
      BY DEF Base, FilesInv
<1>1. pc'[a] = state /\ \A b \in Adapter \ {a} : pc'[b] = pc[b]
      BY <1>0 DEF Goto, TypeOK
<1>2. /\ injected' = injected /\ attacher' = attacher /\ commandThread' = commandThread
      /\ scripts' = scripts /\ files' = files
      BY DEF backend
<1>3. Fresh' /\ Waits' /\ Connected' /\ Asked' /\ Told' /\ Quiet'
      BY <1>0, <1>1, <1>2 DEF Fresh, Waits, Connected, Reads, Asked, Asker, Told, Quiet
<1>4. Agreed'
      BY <1>0, <1>1, <1>2, AgreeStays DEF Agreed
<1> QED BY <1>3, <1>4 DEF FilesInv

LEMMA AskFiles ==
    ASSUME Base, NEW a \in Adapter, AskBackend(a)
    PROVE  FilesInv'
<1>0. TypeOK /\ PipesOwned /\ Fresh /\ Waits /\ Connected /\ Asked /\ Told /\ Quiet /\ Agreed
      BY DEF Base, FilesInv
<1>1. CASE attacher = "await" /\ Alive
  <2>1. /\ pc[a] = "ask" /\ pipe' = [pipe EXCEPT !["Attach"].client = a] /\ attacher' = "asked"
        /\ Goto(a, "remake")
        /\ UNCHANGED <<injected, commandThread, scripts, hello, events, info, files>>
        BY <1>1 DEF AskBackend
  <2>2. /\ pc'[a] = "remake" /\ (\A b \in Adapter \ {a} : pc'[b] = pc[b])
        /\ Asker' = a /\ pipe'["Event"] = pipe["Event"]
        BY <1>0, <2>1 DEF Goto, TypeOK, PipeName, Asker
  <2>3. /\ \A b \in Adapter : pc[b] \notin {"remake", "announced"}
        /\ Asker = None /\ ~hello /\ info = <<>> /\ commandThread = "none" /\ injected
    <3>1. Asker \in Adapter \cup {Backend, None}
          BY <1>0 DEF TypeOK, PipeName, Asker
    <3> QED BY <1>0, <1>1, <3>1 DEF Asked, Told, Waits, Fresh
  <2>4. Fresh' /\ Waits' /\ Told'
        BY <2>1, <2>3 DEF Fresh, Waits, Told
  <2>5. Connected' /\ Quiet'
        BY <1>0, <2>1, <2>2, <2>3 DEF Connected, Reads, Quiet
  <2>6. Asked'
        BY <2>1, <2>2, <2>3, SessionAssumption DEF Asked
  <2>7. Agreed'
        BY <1>0, <2>1, <2>2, AgreeStays DEF Agreed, Before
  <2> QED BY <2>4, <2>5, <2>6, <2>7 DEF FilesInv
<1>2. CASE ~(attacher = "await" /\ Alive)
  <2>1. /\ pc[a] = "ask" /\ Goto(a, "failed")
        /\ UNCHANGED <<backend, pipe, hello, events, info, files>>
        BY <1>2 DEF AskBackend, backend
  <2> QED BY <2>1, GoesFiles DEF State, Before
<1> QED BY <1>1, <1>2

LEMMA CreateFiles ==
    ASSUME Base, NEW a \in Adapter, CreatePipes(a)
    PROVE  FilesInv'
<1>0. TypeOK /\ PipesOwned /\ Fresh /\ Waits /\ Connected /\ Asked /\ Told /\ Quiet /\ Agreed
      BY DEF Base, FilesInv
<1>1. CASE pipe["Event"] = Closed /\ pipe["Command"] = Closed
  <2>1. /\ pc[a] \in {"launch", "make", "remake"}
        /\ pipe' = [pipe EXCEPT !["Event"].server = a, !["Command"].server = a]
        /\ Goto(a, IF pc[a] = "remake" THEN "announced" ELSE "inject")
        /\ hello' = (hello \/ pc[a] = "remake")
        /\ UNCHANGED <<injected, attacher, commandThread, scripts, events, info, files>>
        BY <1>1 DEF CreatePipes, backend
  <2>2. /\ pc'[a] = (IF pc[a] = "remake" THEN "announced" ELSE "inject")
        /\ (\A b \in Adapter \ {a} : pc'[b] = pc[b])
        /\ Asker' = Asker /\ pipe'["Event"].server = a /\ pipe'["Event"].client = pipe["Event"].client
        BY <1>0, <2>1 DEF Goto, TypeOK, PipeName, Asker
  <2>3. /\ events = <<>> /\ \A b \in Adapter : pc[b] \notin HasEvent
    <3>1. pipe["Event"].server = None
          BY <1>1 DEF Closed
    <3> QED BY <1>0, <1>1, <3>1, SessionAssumption DEF Quiet, PipesOwned, Owner
  <2>4. Fresh' /\ Waits' /\ Told'
        BY <1>0, <2>1, <2>2 DEF Fresh, Waits, Told
  <2>5. Connected'
    <3>1. pc'[a] = "announced" => attacher = "asked"
          BY <1>0, <2>2 DEF Asked
    <3> QED BY <1>0, <2>1, <2>2, <2>3, <3>1 DEF Connected, Reads, HasEvent
  <2>6. Quiet'
        BY <2>1, <2>3 DEF Quiet
  <2>7. Asked'
    <3>1. pc[a] = "remake" => Asker = a
          BY <1>0 DEF Asked
    <3>2. \A b \in Adapter \ {a} : pc[b] = "remake" => pc[a] # "remake"
          BY <1>0 DEF Asked
    <3> QED BY <1>0, <2>1, <2>2, <3>1, <3>2, SessionAssumption DEF Asked
  <2>8. Agreed'
        BY <1>0, <2>1, <2>2, <2>3, AgreeStays DEF Agreed, Before, HasEvent
  <2> QED BY <2>4, <2>5, <2>6, <2>7, <2>8 DEF FilesInv
<1>2. CASE ~(pipe["Event"] = Closed /\ pipe["Command"] = Closed)
      BY <1>2, FailsFiles DEF CreatePipes
<1> QED BY <1>1, <1>2

\* The DLL knows no script when it begins.
LEMMA InjectFiles ==
    ASSUME Base, NEW a \in Adapter, Inject(a)
    PROVE  FilesInv'
<1>0. TypeOK /\ PipesOwned /\ Fresh /\ Waits /\ Connected /\ Asked /\ Told /\ Quiet /\ Agreed
      BY DEF Base, FilesInv
<1>1. CASE Drop(Without(a)) /\ Goto(a, "failed") /\ UNCHANGED <<injected, commandThread>>
      BY <1>1, FailsFiles DEF Inject, backend
<1>2. CASE /\ Alive /\ ~injected
           /\ injected' = TRUE /\ commandThread' = "read"
           /\ pipe' = [pipe EXCEPT !["Event"].client = Backend, !["Command"].client = Backend]
           /\ events' = <<"initialize">>
           /\ Goto(a, "start")
           /\ UNCHANGED <<hello, commands, info>>
  <2>1. /\ pc[a] = "inject" /\ UNCHANGED <<attacher, scripts, files>>
        BY DEF Inject
  <2>2. /\ pc'[a] = "start" /\ (\A b \in Adapter \ {a} : pc'[b] = pc[b])
        /\ Asker' = Asker /\ pipe'["Event"].server = a /\ pipe'["Event"].client = Backend
    <3>1. pipe["Event"].server = a
          BY <1>0, <2>1 DEF PipesOwned, Owner, HasEvent
    <3> QED BY <1>0, <1>2, <3>1 DEF Goto, TypeOK, PipeName, Asker
  <2>3. /\ \A b \in Adapter \ {a} : pc[b] \notin HasEvent
        /\ attacher = "none" /\ scripts = <<>> /\ files[a] = <<>>
        BY <1>0, <1>2, <2>1, OneOwner DEF Fresh, HasEvent, Agreed, Before
  <2>4. Fresh' /\ Waits' /\ Told'
        BY <1>0, <1>2, <2>1, <2>2, <2>3 DEF Fresh, Waits, Told
  <2>5. Connected' /\ Asked'
        BY <1>0, <1>2, <2>1, <2>2, <2>3 DEF Connected, Reads, Asked, HasEvent
  <2>6. Quiet'
    <3>1. pipe'["Event"] # Closed
          BY <2>2, SessionAssumption DEF Closed
    <3> QED BY <2>2, <2>3, <3>1 DEF Quiet, HasEvent
  <2>7. /\ events' # <<>> /\ Head(events') = "initialize" /\ Agree(a)'
    <3>0. PICK e : e = <<"initialize">>
          OBVIOUS
    <3>1. e \in Seq(Event) /\ \A j \in DOMAIN e : e[j] \notin Script
      <4>1. e \in Seq(Event) /\ DOMAIN e = {1} /\ e[1] = "initialize"
            BY <3>0 DEF Event
      <4> QED BY <4>1, SessionAssumption
    <3>2. Agreement(<<>>, <<>>, e)
          BY <3>1, AllKnown, EmptyInjective
    <3>3. events' # <<>> /\ Head(events') = "initialize"
          BY <1>2
    <3> QED BY <1>2, <2>1, <2>3, <3>0, <3>2, <3>3, AgreementIs
  <2>8. Agreed'
        BY <1>0, <2>1, <2>2, <2>3, <2>7, AgreeStays DEF Agreed, HasEvent
  <2> QED BY <2>4, <2>5, <2>6, <2>7, <2>8 DEF FilesInv
<1> QED BY <1>1, <1>2 DEF Inject

LEMMA StartFiles ==
    ASSUME Base, NEW a \in Adapter, Start(a)
    PROVE  FilesInv'
<1>0. TypeOK /\ PipesOwned /\ Fresh /\ Waits /\ Connected /\ Asked /\ Told /\ Quiet /\ Agreed
      BY DEF Base, FilesInv
<1>1. CASE ~(events # <<>> /\ Alive)
      BY <1>1, FailsFiles DEF Start
<1>2. CASE events # <<>> /\ Alive
  <2>1. /\ pc[a] = "start" /\ events' = Tail(events) /\ Goto(a, "debug")
        /\ UNCHANGED <<pipe, hello, info, files>>
        /\ UNCHANGED <<injected, attacher, commandThread, scripts>>
        BY <1>2 DEF Start, backend
  <2>2. /\ pc'[a] = "debug" /\ (\A b \in Adapter \ {a} : pc'[b] = pc[b])
        /\ pipe["Event"].server = a /\ Asker' = Asker
        BY <1>0, <2>1 DEF Goto, TypeOK, PipesOwned, Owner, HasEvent, Asker
  <2>3. /\ \A b \in Adapter \ {a} : pc[b] \notin HasEvent
        /\ Head(events) = "initialize" /\ Agree(a)
        BY <1>0, <2>1, OneOwner DEF HasEvent, Agreed
  <2>4. Fresh' /\ Waits' /\ Told'
        BY <1>0, <2>1, <2>2 DEF Fresh, Waits, Told
  <2>5. Connected' /\ Asked'
        BY <1>0, <2>1, <2>2, <2>3 DEF Connected, Reads, Asked, HasEvent
  <2>6. Quiet'
    <3>1. pipe["Event"] # Closed
          BY <2>2, SessionAssumption DEF Closed
    <3> QED BY <2>1, <2>2, <2>3, <3>1 DEF Quiet, HasEvent
  <2>7. Agree(a)'
    <3>1. Agreement(files[a], scripts, Tail(events))
      <4>1. Head(events) \notin Script
            BY <2>3, SessionAssumption
      <4> QED BY <1>0, <1>2, <2>3, <4>1, Events, Skipped, AgreementIs
    <3> QED BY <2>1, <3>1, AgreementIs
  <2>8. Agreed'
        BY <1>0, <2>1, <2>2, <2>3, <2>7, AgreeStays DEF Agreed, HasEvent, Before
  <2> QED BY <2>4, <2>5, <2>6, <2>7, <2>8 DEF FilesInv
<1> QED BY <1>1, <1>2

\* What the adapter reads is what the backend still knows.
LEMMA AnnouncedFiles ==
    ASSUME Base, NEW a \in Adapter, Announced(a)
    PROVE  FilesInv'
<1>0. TypeOK /\ PipesOwned /\ Fresh /\ Waits /\ Connected /\ Asked /\ Told /\ Quiet /\ Agreed
      BY DEF Base, FilesInv
<1>1. CASE info = <<>>
      BY <1>1, FailsFiles DEF Announced
<1>2. CASE info # <<>>
  <2>1. /\ pc[a] = "announced" /\ files' = [files EXCEPT ![a] = Head(info)]
        /\ Drop([pipe EXCEPT !["Attach"].client = None]) /\ Goto(a, "debug")
        /\ UNCHANGED <<injected, attacher, commandThread, scripts>>
        BY <1>2 DEF Announced, backend
  <2>2. /\ pc'[a] = "debug" /\ (\A b \in Adapter \ {a} : pc'[b] = pc[b])
        /\ Asker = a /\ pipe["Event"].server = a
        BY <1>0, <2>1 DEF Goto, TypeOK, PipesOwned, Owner, HasEvent, Asked
  <2>3. /\ Asker' = None /\ pipe'["Event"] = pipe["Event"]
        /\ events' = events /\ info' = <<>> /\ ~hello'
    <3>1. PICK p : p = [pipe EXCEPT !["Attach"].client = None]
          OBVIOUS
    <3>2. p["Attach"].client = None /\ p["Event"] = pipe["Event"]
          BY <1>0, <3>1 DEF TypeOK, PipeName
    <3> QED BY <1>0, <2>1, <2>2, <3>1, <3>2, Dropped, SessionAssumption DEF Asker
  <2>4. /\ \A b \in Adapter \ {a} : pc[b] \notin HasEvent /\ pc[b] # "remake"
        /\ attacher = "flush" /\ info = <<scripts>>
    <3>1. Asker # None
          BY <2>2, SessionAssumption
    <3> QED BY <1>0, <1>2, <2>1, <2>2, OneOwner DEF HasEvent, Told, Asked
  <2>5. files'[a] = scripts /\ \A b \in Adapter \ {a} : files'[b] = files[b]
        BY <1>0, <2>1, <2>4 DEF TypeOK
  <2>6. Fresh' /\ Waits' /\ Told'
        BY <1>0, <2>1, <2>3 DEF Fresh, Waits, Told
  <2>7. Connected'
        BY <1>0, <2>1, <2>2, <2>3, <2>4 DEF Connected, Reads, HasEvent
  <2>8. Asked'
        BY <1>0, <2>1, <2>2, <2>3, <2>4, SessionAssumption DEF Asked, HasEvent
  <2>9. Quiet'
        BY <1>0, <2>2, <2>3, <2>4 DEF Quiet, HasEvent
  <2>10. Agree(a)'
        BY <1>0, <2>1, <2>3, <2>5, Events, AllKnown, AgreementIs DEF Quiet
  <2>11. Agreed'
        BY <1>0, <2>2, <2>4, <2>5, <2>10 DEF Agreed, HasEvent, Before
  <2> QED BY <2>6, <2>7, <2>8, <2>9, <2>11 DEF FilesInv
<1> QED BY <1>1, <1>2

LEMMA UpdateFiles ==
    ASSUME Base, NEW a \in Adapter, Update(a)
    PROVE  FilesInv'
<1>0. TypeOK /\ PipesOwned /\ Fresh /\ Waits /\ Connected /\ Asked /\ Told /\ Quiet /\ Agreed
      BY DEF Base, FilesInv
<1>1. /\ pc[a] = "debug" /\ events # <<>> /\ events' = Tail(events)
      /\ UNCHANGED <<injected, attacher, commandThread, scripts, pipe, hello, info, pc>>
      /\ files' = IF Head(events) \in Script
                  THEN [files EXCEPT ![a] = Append(@, Head(events))] ELSE files
      BY DEF Update, backend
<1>2. \A b \in Adapter \ {a} : pc[b] \notin HasEvent
      BY <1>0, <1>1, OneOwner DEF HasEvent
<1>3. Fresh' /\ Waits' /\ Told' /\ Connected' /\ Asked'
      BY <1>0, <1>1 DEF Fresh, Waits, Told, Connected, Reads, Asked, Asker
<1>4. Quiet'
  <2>1. pipe["Event"] # Closed
    <3>1. pipe["Event"].server = a
          BY <1>0, <1>1 DEF PipesOwned, Owner, HasEvent
    <3> QED BY <3>1, SessionAssumption DEF Closed
  <2> QED BY <1>1, <1>2, <2>1 DEF Quiet, HasEvent
<1>5. Agree(a)'
  <2>1. Agreement(files[a], scripts, events)
        BY <1>0, <1>1, AgreementIs DEF Agreed
  <2>2. CASE Head(events) \in Script
    <3>1. files'[a] = Append(files[a], Head(events))
          BY <1>0, <1>1, <2>2 DEF TypeOK
    <3>2. Agreement(Append(files[a], Head(events)), scripts, Tail(events))
          BY <1>0, <1>1, <2>1, <2>2, Events, Taken
    <3> QED BY <1>1, <3>1, <3>2, AgreementIs
  <2>3. CASE Head(events) \notin Script
    <3>1. Agreement(files[a], scripts, Tail(events))
          BY <1>0, <1>1, <2>1, <2>3, Events, Skipped
    <3> QED BY <1>1, <2>3, <3>1, AgreementIs
  <2> QED BY <2>2, <2>3
<1>6. Agreed'
  <2>1. \A b \in Adapter \ {a} : files'[b] = files[b]
        BY <1>0, <1>1 DEF TypeOK
  <2> QED BY <1>0, <1>1, <1>2, <1>5, <2>1 DEF Agreed, HasEvent, Before
<1> QED BY <1>3, <1>4, <1>6 DEF FilesInv

\* An adapter that leaves closes the command pipe and then the event pipe.
LEMMA CloseFiles ==
    ASSUME Base, NEW a \in Adapter, CloseCommand(a) \/ CloseEvent(a)
    PROVE  FilesInv'
<1>0. TypeOK /\ PipesOwned /\ Fresh /\ Waits /\ Connected /\ Asked /\ Told /\ Quiet /\ Agreed
      BY DEF Base, FilesInv
<1>1. PICK n \in {"Event", "Command"}, state \in {"parting", "over"} :
          /\ pc[a] \in {"leaving", "parting"} /\ Goto(a, state)
          /\ Drop([pipe EXCEPT ![n].server = None])
      BY DEF CloseCommand, CloseEvent, Close
<1>2. UNCHANGED <<injected, attacher, commandThread, scripts, files>>
      BY DEF CloseCommand, CloseEvent, backend
<1>3. /\ pc'[a] = state /\ (\A b \in Adapter \ {a} : pc'[b] = pc[b])
      /\ \A b \in Adapter \ {a} : pc[b] \notin HasEvent
      BY <1>0, <1>1, OneOwner DEF Goto, TypeOK, HasEvent
<1>4. /\ Asker' = Asker /\ pipe'["Event"].client = pipe["Event"].client
      /\ events' = events \/ events' = <<>>
      /\ pipe'["Event"] = Closed => events' = <<>>
      /\ info' # <<>> => info' = info
      /\ hello' => hello
  <2>1. PICK p : p = [pipe EXCEPT ![n].server = None]
        OBVIOUS
  <2>2. p["Attach"].client = Asker /\ p["Event"].client = pipe["Event"].client
        BY <1>0, <2>1 DEF TypeOK, PipeName, Asker
  <2> QED BY <1>0, <1>1, <2>1, <2>2, Dropped DEF Asker
<1>5. Fresh' /\ Waits' /\ Told'
      BY <1>0, <1>2, <1>4 DEF Fresh, Waits, Told
<1>6. Connected' /\ Asked'
      BY <1>0, <1>1, <1>2, <1>3, <1>4 DEF Connected, Reads, Asked, HasEvent
<1>7. Quiet'
      BY <1>3, <1>4 DEF Quiet, HasEvent
<1>8. Agreed'
      BY <1>0, <1>2, <1>3 DEF Agreed, HasEvent, Before
<1> QED BY <1>5, <1>6, <1>7, <1>8 DEF FilesInv

LEMMA UserFiles ==
    ASSUME Base, NEW a \in Adapter, Launch(a) \/ Attach(a) \/ Continue(a) \/ Leave(a)
    PROVE  FilesInv'
<1>0. TypeOK
      BY DEF Base
<1>1. CASE Launch(a)
      BY <1>1, GoesFiles DEF Launch, pipes, State, Before
<1>2. CASE Attach(a)
  <2>1. PICK state \in {"failed", "ask", "make"} : Goto(a, state)
        BY <1>2 DEF Attach
  <2> QED BY <1>2, <2>1, GoesFiles DEF Attach, pipes, State, Before
<1>3. CASE Leave(a)
      BY <1>3, GoesFiles DEF Leave, State, Before
<1>4. CASE Continue(a)
  <2>1. /\ UNCHANGED <<injected, attacher, commandThread, scripts, pipe, hello, info, pc, files, events>>
        BY <1>4 DEF Continue, backend
  <2>2. Fresh' /\ Waits' /\ Told' /\ Connected' /\ Asked' /\ Quiet'
        BY <2>1 DEF Base, FilesInv, Fresh, Waits, Told, Connected, Reads, Asked, Asker, Quiet
  <2>3. Agreed'
        BY <2>1, AgreeStays DEF Base, FilesInv, Agreed
  <2> QED BY <2>2, <2>3 DEF FilesInv
<1> QED BY <1>1, <1>2, <1>3, <1>4

LEMMA CommandFiles ==
    ASSUME Base, CmdDetach \/ CmdLoadDone \/ CmdContinue
    PROVE  FilesInv'
<1>1. /\ UNCHANGED <<injected, attacher, scripts, pipe, hello, info, pc, files, events>>
      /\ Reads /\ Reads' /\ commandThread # "none"
      BY DEF CmdDetach, CmdLoadDone, CmdContinue, Executed, Reads
<1>2. Fresh' /\ Waits' /\ Told' /\ Connected' /\ Asked' /\ Quiet'
      BY <1>1 DEF Base, FilesInv, Fresh, Waits, Told, Connected, Reads, Asked, Asker, Quiet
<1>3. Agreed'
      BY <1>1, AgreeStays DEF Base, FilesInv, Agreed
<1> QED BY <1>2, <1>3 DEF FilesInv

\* The backend closes its pipes only when nobody debugs, nor waits to.
LEMMA CleanUpFiles ==
    ASSUME Base, CleanUp
    PROVE  FilesInv'
<1>0. TypeOK /\ PipesOwned /\ Fresh /\ Waits /\ Connected /\ Asked /\ Told /\ Quiet /\ Agreed
      BY DEF Base, FilesInv
<1>1. /\ commandThread # "none" /\ pipe["Command"].server = None
      /\ UNCHANGED <<injected, pc, files>>
      /\ \/ commandThread' = "none" /\ attacher' = "await" /\ scripts' = scripts
         \/ commandThread' = "back" /\ attacher' = attacher /\ scripts' = scripts
         \/ commandThread' = "none" /\ attacher' = attacher /\ scripts' = <<>>
      BY DEF CleanUp, Reads
<1>2. \A a \in Adapter : pc[a] \notin HasCommand
      BY <1>0, <1>1, SessionAssumption DEF PipesOwned, Owner
<1>3. injected /\ attacher \notin {"await", "asked"}
      BY <1>0, <1>1 DEF Fresh, Waits
<1>4. (\A a \in Adapter : pc[a] # "remake") /\ Asker = None
  <2>1. Asker \in Adapter \cup {Backend, None}
        BY <1>0 DEF TypeOK, PipeName, Asker
  <2> QED BY <1>0, <1>2, <1>3, <2>1 DEF Asked, HasCommand, HasEvent
<1>5. PICK p \in {Unplugged, [Unplugged EXCEPT !["Attach"].server = Backend]} : Drop(p)
      BY DEF CleanUp
<1>6. p["Event"].client \in {Backend, None} /\ p["Attach"].client = None
  <2>1. DOMAIN Unplugged = PipeName
        BY DEF Unplugged
  <2>2. Unplugged["Event"].client = None /\ Unplugged["Attach"].client = None
        BY <1>0, <1>4 DEF Unplugged, PipeName, TypeOK, Connected, Reads, Asker
  <2>3. /\ p["Event"] = Unplugged["Event"] /\ p["Attach"].client = Unplugged["Attach"].client
    <3>1. CASE p = Unplugged
          BY <3>1
    <3>2. CASE p = [Unplugged EXCEPT !["Attach"].server = Backend]
      <4>1. Unplugged["Attach"] = [server |-> pipe["Attach"].server,
                                   client |-> IF pipe["Attach"].client = Backend THEN None
                                              ELSE pipe["Attach"].client]
            BY <1>0 DEF Unplugged, PipeName, TypeOK
      <4> QED BY <2>1, <3>2, <4>1 DEF PipeName
    <3> QED BY <3>1, <3>2
  <2> QED BY <2>2, <2>3
<1>7. /\ Asker' = None /\ pipe'["Event"].client \in {Backend, None} /\ info' = <<>> /\ ~hello'
      /\ events' = events \/ events' = <<>>
      /\ pipe'["Event"] = Closed => events' = <<>>
      BY <1>0, <1>5, <1>6, Dropped DEF Asker
<1>8. Fresh' /\ Waits' /\ Told'
      BY <1>1, <1>3, <1>7 DEF Fresh, Waits, Told
<1>9. Connected' /\ Asked' /\ Quiet'
      BY <1>0, <1>1, <1>2, <1>4, <1>7 DEF Connected, Reads, Asked, Quiet, HasCommand, HasEvent
<1>10. Agreed'
       BY <1>0, <1>1, <1>2 DEF Agreed, Before, HasCommand, HasEvent
<1> QED BY <1>8, <1>9, <1>10 DEF FilesInv

\* The backend comes back: for the adapter that has asked, or for nobody.
LEMMA ComeBackFiles ==
    ASSUME Base, ComeBack
    PROVE  FilesInv'
<1>0. TypeOK /\ PipesOwned /\ Fresh /\ Waits /\ Connected /\ Asked /\ Told /\ Quiet /\ Agreed
      BY DEF Base, FilesInv
<1>1. /\ \/ /\ attacher = "asked" /\ attacher' = "announce" /\ hello' = FALSE
            /\ hello \/ pipe["Attach"].client = None
         \/ commandThread = "back" /\ attacher' = attacher /\ hello' = hello
      /\ commandThread' = "read"
      /\ pipe' = [n \in PipeName |->
                     IF n # "Attach" /\ Listening(n) THEN [pipe[n] EXCEPT !.client = Backend]
                     ELSE pipe[n]]
      /\ UNCHANGED <<injected, scripts, events, info, pc, files>>
      BY DEF ComeBack
<1>2. /\ Asker' = Asker /\ pipe'["Event"].server = pipe["Event"].server
      /\ pipe'["Event"].client = IF Listening("Event") THEN Backend ELSE pipe["Event"].client
      /\ ~Listening("Event") => pipe'["Event"] = pipe["Event"]
      BY <1>0, <1>1 DEF PipeName, TypeOK, Asker
<1>3. /\ injected /\ ~Reads
      /\ attacher = "asked" => info = <<>> /\ hello' = FALSE /\ attacher' = "announce"
      /\ attacher # "asked" => /\ attacher \notin {"none", "await"} => commandThread = "back"
                              /\ attacher' = attacher /\ hello' = hello
      /\ attacher' \notin {"await", "asked"}
      BY <1>0, <1>1 DEF Fresh, Waits, Told, Reads
<1>4. \A a \in Adapter : pc[a] # "remake"
      BY <1>0, <1>1, <1>3, SessionAssumption DEF Asked, Asker, Waits
<1>5. Fresh' /\ Waits' /\ Told'
      BY <1>0, <1>1, <1>2, <1>3 DEF Fresh, Waits, Told
<1>6. Connected'
  <2>1. ASSUME NEW a \in Adapter, pc[a] = "announced"
        PROVE  pipe'["Event"].client = Backend
    <3>1. pipe["Event"].server = a
          BY <1>0, <2>1 DEF PipesOwned, Owner, HasEvent
    <3> QED BY <1>0, <1>2, <2>1, <3>1, SessionAssumption DEF Listening, Connected
  <2>2. \A a \in Adapter : pc[a] \notin {"start", "debug"}
        BY <1>0, <1>3 DEF Connected
  <2>3. Reads' /\ pipe'["Event"].client \in {Backend, None}
        BY <1>0, <1>1, <1>2 DEF Reads, Connected
  <2> QED BY <1>1, <2>1, <2>2, <2>3 DEF Connected
<1>7. Asked'
      BY <1>0, <1>1, <1>2, <1>3, <1>4 DEF Asked
<1>8. Quiet'
  <2>1. Listening("Event") => pipe'["Event"] # Closed
        BY <1>2, SessionAssumption DEF Closed
  <2> QED BY <1>0, <1>1, <1>2, <2>1 DEF Quiet
<1>9. Agreed'
      BY <1>0, <1>1, AgreeStays DEF Agreed
<1> QED BY <1>5, <1>6, <1>7, <1>8, <1>9 DEF FilesInv

LEMMA AnnounceFiles ==
    ASSUME Base, Announce
    PROVE  FilesInv'
<1>0. TypeOK /\ PipesOwned /\ Fresh /\ Waits /\ Connected /\ Asked /\ Told /\ Quiet /\ Agreed
      BY DEF Base, FilesInv
<1>1. /\ attacher = "announce" /\ attacher' = "flush"
      /\ info' = Written("Attach", info, scripts)
      /\ UNCHANGED <<injected, commandThread, scripts, pipe, hello, events, pc, files>>
      BY DEF Announce
<1>2. info = <<>>
      BY <1>0, <1>1 DEF Told
<1>3. info' # <<>> => info' = <<scripts>> /\ Asker # None
  <2>1. CASE None \in Range(pipe["Attach"])
        BY <1>1, <1>2, <2>1 DEF Written
  <2>2. CASE None \notin Range(pipe["Attach"])
    <3>1. info' = <<scripts>>
          BY <1>1, <1>2, <2>2 DEF Written
    <3>2. "client" \in DOMAIN pipe["Attach"]
          BY <1>0 DEF TypeOK, PipeName
    <3>3. Asker \in Range(pipe["Attach"])
          BY <3>2 DEF Range, Asker
    <3> QED BY <2>2, <3>1, <3>3
  <2> QED BY <2>1, <2>2
<1>4. Fresh' /\ Waits' /\ Told' /\ Connected' /\ Asked' /\ Quiet'
      BY <1>0, <1>1, <1>3 DEF Fresh, Waits, Told, Connected, Reads, Asked, Asker, Quiet
<1>5. Agreed'
      BY <1>0, <1>1, AgreeStays DEF Agreed
<1> QED BY <1>4, <1>5 DEF FilesInv

LEMMA WithdrawFiles ==
    ASSUME Base, Withdraw
    PROVE  FilesInv'
<1>0. TypeOK /\ PipesOwned /\ Fresh /\ Waits /\ Connected /\ Asked /\ Told /\ Quiet /\ Agreed
      BY DEF Base, FilesInv
<1>1. /\ attacher = "flush" /\ Asker = None /\ attacher' = "none"
      /\ Drop([pipe EXCEPT !["Attach"].server = None])
      /\ UNCHANGED <<injected, commandThread, scripts, pc, files>>
      BY DEF Withdraw, Asker
<1>2. /\ Asker' = None /\ pipe'["Event"] = pipe["Event"] /\ info' = <<>> /\ ~hello'
      /\ events' = events \/ events' = <<>>
      /\ events' = events \/ pipe["Event"] = Closed
      /\ pipe'["Event"] = Closed => events' = <<>>
  <2>1. PICK p : p = [pipe EXCEPT !["Attach"].server = None]
        OBVIOUS
  <2>2. p["Attach"].client = None /\ p["Event"] = pipe["Event"]
        BY <1>0, <1>1, <2>1 DEF TypeOK, PipeName, Asker
  <2>3. events' = events \/ pipe["Event"] = Closed
        BY <1>1, <2>1, <2>2 DEF Drop, Contents
  <2> QED BY <1>0, <1>1, <2>1, <2>2, <2>3, Dropped DEF Asker
<1>3. events' = events
      BY <1>0, <1>2 DEF Quiet
<1>4. \A a \in Adapter : pc[a] \notin {"remake", "announced"}
      BY <1>0, <1>1, SessionAssumption DEF Asked
<1>5. Fresh' /\ Waits' /\ Told'
      BY <1>0, <1>1, <1>2 DEF Fresh, Waits, Told
<1>6. Connected' /\ Asked' /\ Quiet'
      BY <1>0, <1>1, <1>2, <1>4 DEF Connected, Reads, Asked, Quiet
<1>7. Agreed'
      BY <1>0, <1>1, <1>3, AgreeStays DEF Agreed
<1> QED BY <1>5, <1>6, <1>7 DEF FilesInv

\* What the backend sends is under way to who debugs, and to nobody otherwise.
LEMMA SentFiles ==
    ASSUME TypeOK, PipesOwned, Connected, NEW m, SendEvent(m)
    PROVE  /\ events' = events \/ events' = Append(events, m)
           /\ pipe["Event"] = Closed => events' = events
           /\ \A b \in Adapter : pc[b] \in {"start", "debug"} => events' = Append(events, m)
<1>1. events' = IF None \in Range(pipe["Event"]) THEN events ELSE Append(events, m)
      BY DEF SendEvent, Written
<1>2. /\ DOMAIN pipe["Event"] = {"server", "client"}
      /\ Range(pipe["Event"]) = {pipe["Event"].server, pipe["Event"].client}
  <2>1. "Event" \in PipeName
        BY DEF PipeName
  <2>2. PICK q \in [server : Adapter \cup {Backend, None}, client : Adapter \cup {Backend, None}] :
            q = pipe["Event"]
        BY <2>1 DEF TypeOK
  <2>3. DOMAIN q = {"server", "client"}
        BY <2>2
  <2>4. Range(q) = {q.server, q.client}
        BY <2>3 DEF Range
  <2> QED BY <2>2, <2>3, <2>4
<1>3. pipe["Event"] = Closed => None \in Range(pipe["Event"])
      BY <1>2 DEF Closed
<1>4. ASSUME NEW b \in Adapter, pc[b] \in {"start", "debug"} PROVE None \notin Range(pipe["Event"])
  <2>1. pipe["Event"].server = b /\ pipe["Event"].client = Backend
        BY <1>4 DEF PipesOwned, Owner, HasEvent, Connected, Reads
  <2> QED BY <1>2, <2>1, SessionAssumption
<1> QED BY <1>1, <1>3, <1>4

\* A script that begins while nobody is told what the backend knows.
LEMMA LoadFiles ==
    ASSUME Base, ~LoadsAnytime, NEW s \in Script, Load(s)
    PROVE  FilesInv'
<1>0. TypeOK /\ PipesOwned /\ Fresh /\ Waits /\ Connected /\ Asked /\ Told /\ Quiet /\ Agreed
      BY DEF Base, FilesInv
<1>1. /\ injected /\ attacher = "none" /\ s \notin Range(scripts)
      /\ scripts' = Append(scripts, s) /\ SendEvent(s)
      /\ UNCHANGED <<injected, attacher, commandThread, pipe, hello, info, pc, files>>
      BY DEF Load
<1>2. info = <<>> /\ \A a \in Adapter : pc[a] # "announced"
      BY <1>0, <1>1 DEF Told, Asked
<1>3. Fresh' /\ Waits' /\ Told' /\ Connected' /\ Asked'
      BY <1>0, <1>1, <1>2 DEF Fresh, Waits, Told, Connected, Reads, Asked, Asker
<1>4. Quiet'
      BY <1>0, <1>1, <1>2, SentFiles DEF Quiet
<1>5. ASSUME NEW a \in Adapter, pc[a] \in {"start", "debug"} PROVE Agree(a)'
  <2>1. events' = Append(events, s)
        BY <1>0, <1>1, <1>5, SentFiles
  <2>2. Agreement(files[a], scripts, events)
        BY <1>0, <1>5, AgreementIs DEF Agreed
  <2>3. Agreement(files[a], Append(scripts, s), Append(events, s))
        BY <1>0, <1>1, <2>2, Events, Registered
  <2> QED BY <1>1, <2>1, <2>3, AgreementIs
<1>6. ASSUME NEW a \in Adapter, pc[a] = "start" PROVE events' # <<>> /\ Head(events') = "initialize"
  <2>1. events' = Append(events, s) /\ events # <<>> /\ Head(events) = "initialize"
        BY <1>0, <1>1, <1>6, SentFiles DEF Agreed
  <2>2. events \in Seq(Event) /\ s \in Event
        BY <1>0, Events DEF Event
  <2> QED BY <2>1, <2>2
<1>7. Agreed'
      BY <1>0, <1>1, <1>5, <1>6 DEF Agreed
<1> QED BY <1>3, <1>4, <1>7 DEF FilesInv

LEMMA BreakFiles ==
    ASSUME Base, Break
    PROVE  FilesInv'
<1>0. TypeOK /\ PipesOwned /\ Fresh /\ Waits /\ Connected /\ Asked /\ Told /\ Quiet /\ Agreed
      BY DEF Base, FilesInv
<1>1. /\ SendEvent("break")
      /\ UNCHANGED <<injected, attacher, commandThread, scripts, pipe, hello, info, pc, files>>
      BY DEF Break
<1>2. Fresh' /\ Waits' /\ Told' /\ Connected' /\ Asked'
      BY <1>0, <1>1 DEF Fresh, Waits, Told, Connected, Reads, Asked, Asker
<1>3. "break" \in Event \ Script /\ events \in Seq(Event)
      BY <1>0, Events
<1>4. Quiet'
  <2>1. ASSUME NEW j \in DOMAIN Append(events, "break"), \A k \in DOMAIN events : events[k] \notin Script
        PROVE  Append(events, "break")[j] \notin Script
        BY <1>3, <2>1, Extended
  <2> QED BY <1>0, <1>1, <2>1, SentFiles DEF Quiet
<1>5. ASSUME NEW a \in Adapter, pc[a] \in {"start", "debug"} PROVE Agree(a)'
  <2>1. events' = Append(events, "break")
        BY <1>0, <1>1, <1>5, SentFiles
  <2>2. Agreement(files[a], scripts, events)
        BY <1>0, <1>5, AgreementIs DEF Agreed
  <2>3. Agreement(files[a], scripts, Append(events, "break"))
        BY <1>0, <1>3, <2>2, Events, Stopped
  <2> QED BY <1>1, <2>1, <2>3, AgreementIs
<1>6. ASSUME NEW a \in Adapter, pc[a] = "start" PROVE events' # <<>> /\ Head(events') = "initialize"
  <2>1. events' = Append(events, "break") /\ events # <<>> /\ Head(events) = "initialize"
        BY <1>0, <1>1, <1>6, SentFiles DEF Agreed
  <2> QED BY <1>3, <2>1
<1>7. Agreed'
      BY <1>0, <1>1, <1>5, <1>6 DEF Agreed
<1> QED BY <1>2, <1>4, <1>7 DEF FilesInv

\* A process that ends is not there again.
LEMMA Ends ==
    ASSUME Next, process = "dead" \/ Exit \/ \E a \in Adapter : Stop(a) \/ Disconnected(a)
    PROVE  process' = "dead"
<1>1. CASE Exit
      BY <1>1 DEF Exit
<1>2. CASE \E a \in Adapter : Stop(a) \/ Disconnected(a)
      BY <1>2 DEF Stop, Disconnected, Kill
<1>3. CASE process = "dead"
      BY <1>3
      DEF Next, Come, Stay, User, Crash, Thread, Program, Break, Exit, Alive,
          AskBackend, CreatePipes, Inject, Start, Announced, Update, Disconnected, Kill,
          CloseCommand, CloseEvent, Launch, Attach, Continue, Stop, Leave,
          CmdDetach, CmdLoadDone, CmdContinue, Executed, CleanUp, ComeBack, Announce, Withdraw, Load
<1> QED BY <1>1, <1>2, <1>3

LEMMA FilesStep ==
    ASSUME Base, ~LoadsAnytime, Next, process' # "dead"
    PROVE  FilesInv'
<1>1. ASSUME NEW a \in Adapter, Come(a) PROVE FilesInv'
      BY <1>1, AskFiles, CreateFiles, InjectFiles, StartFiles, AnnouncedFiles DEF Come
<1>2. ASSUME NEW a \in Adapter, Stay(a) \/ User(a) PROVE FilesInv'
      BY <1>2, Ends, UpdateFiles, CloseFiles, UserFiles DEF Stay, User
<1>3. ASSUME NEW a \in Adapter, Crash(a) PROVE FilesInv'
      BY <1>3, FailsFiles DEF Crash
<1>4. ASSUME Thread PROVE FilesInv'
      BY <1>4, CommandFiles, CleanUpFiles, ComeBackFiles, AnnounceFiles, WithdrawFiles DEF Thread
<1>5. ASSUME Program \/ Break \/ Exit PROVE FilesInv'
      BY <1>5, Ends, LoadFiles, BreakFiles DEF Program
<1> QED BY <1>1, <1>2, <1>3, <1>4, <1>5 DEF Next

\* While the process is there, an adapter that debugs it knows its first scripts,
\* and the others are under way to it, each once and in their order, so that a
\* number means the same script on both sides (DebugBackend.cpp 3496-3501,
\* request.lua 93-101): through crashes of adapters, detaches and attaches, for
\* any number of scripts and adapters, provided that no script begins while the
\* backend tells what it knows.  The code does not exclude that, and then it is
\* not so.
THEOREM FilesAlwaysAgree == ASSUME ~LoadsAnytime PROVE Spec => []FilesAgree
<1> DEFINE Inv == process # "dead" => FilesInv
<1>1. Init => Inv /\ PipesOwned
  <2> SUFFICES ASSUME Init PROVE FilesInv /\ PipesOwned
      OBVIOUS
  <2>1. \A n \in PipeName : pipe[n].server = None /\ pipe[n].client = None
        BY DEF Init, Closed
  <2>2. "Event" \in PipeName /\ "Attach" \in PipeName /\ "Command" \in PipeName
        BY DEF PipeName
  <2>3. /\ ~injected /\ attacher = "none" /\ commandThread = "none" /\ scripts = <<>>
        /\ ~hello /\ events = <<>> /\ info = <<>>
        /\ \A a \in Adapter : pc[a] = "idle" /\ files[a] = <<>>
        BY DEF Init
  <2>4. Fresh /\ Waits /\ Connected /\ Told
        BY <2>1, <2>2, <2>3 DEF Fresh, Waits, Connected, Reads, Told
  <2>5. Asked
        BY <2>1, <2>2, <2>3, SessionAssumption DEF Asked, Asker
  <2>6. Quiet /\ Agreed
        BY <2>3 DEF Quiet, Agreed
  <2>7. PipesOwned
        BY <2>1, <2>2, <2>3, SessionAssumption DEF PipesOwned, Owner, HasEvent, HasCommand
  <2> QED BY <2>4, <2>5, <2>6, <2>7 DEF FilesInv
<1>2. ASSUME TypeOK, PipesOwned, Inv, Next PROVE Inv' /\ PipesOwned'
  <2>1. PipesOwned'
        BY <1>2, ComeOwned, SessionOwned, OthersOwned DEF Next
  <2>2. process = "dead" => process' = "dead"
        BY <1>2, Ends
  <2>3. Inv'
        BY <1>2, <2>2, FilesStep DEF Base
  <2> QED BY <2>1, <2>3
<1>3. ASSUME Inv, PipesOwned, UNCHANGED vars PROVE Inv' /\ PipesOwned'
  <2>1. PipesOwned'
        BY <1>3 DEF PipesOwned, Owner, vars, pipes
  <2>2. /\ UNCHANGED <<process, injected, attacher, commandThread, scripts>>
        /\ UNCHANGED <<pipe, hello, events, info, pc, files>>
        BY <1>3 DEF vars, pipes, backend
  <2>3. ASSUME FilesInv PROVE FilesInv'
    <3>1. Fresh' /\ Waits' /\ Told' /\ Connected' /\ Asked' /\ Quiet'
          BY <2>2, <2>3 DEF FilesInv, Fresh, Waits, Told, Connected, Reads, Asked, Asker, Quiet
    <3>2. Agreed'
          BY <2>2, <2>3, AgreeStays DEF FilesInv, Agreed
    <3> QED BY <3>1, <3>2 DEF FilesInv
  <2> QED BY <1>3, <2>1, <2>2, <2>3
<1>4. Inv => FilesAgree
      BY DEF FilesInv, Agreed, FilesAgree, Alive
<1> QED BY <1>1, <1>2, <1>3, <1>4, TypeCorrect, PTL DEF Spec

=============================================================================
