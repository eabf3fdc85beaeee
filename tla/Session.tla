------------------------------- MODULE Session -------------------------------
(***************************************************************************)
(* The life of a debugging session: an adapter launches a process or       *)
(* attaches to it, injects the DLL or, when it is there, asks the backend  *)
(* in it to come back (launcher.cpp, Main.cpp, DebugBackend.cpp            *)
(* Initialize, WaitForAttach), and ends the session by killing the process *)
(* or by leaving it to run on and be attached again.  There is an adapter  *)
(* process per session; several may try at a time, and the debugged        *)
(* process may end at any time.                                            *)
(*                                                                         *)
(* The two sides meet on named pipes of which there is one per process:    *)
(* Event and Command, created by the adapter, and Attach, created by a     *)
(* backend that was left.  The scripts the adapter knows by their numbers  *)
(* stand for all that must be announced again.                             *)
(***************************************************************************)
EXTENDS Naturals, Sequences, FiniteSets, Functions

CONSTANTS Adapter,      \* adapter processes
          Script,       \* scripts the program executes
          Backend,      \* the DLL's end of a pipe
          None,
          MayCrash,     \* whether an adapter may end without a word
          LoadsAnytime  \* whether a script may begin while the scripts are announced

ASSUME SessionAssumption ==
    /\ Backend \notin Adapter /\ None \notin Adapter \cup {Backend} /\ Backend # None
    /\ Adapter \cap {"absent", "running", "dead"} = {}
    /\ Script \cap {"initialize", "break"} = {}
    /\ MayCrash \in BOOLEAN /\ LoadsAnytime \in BOOLEAN

VARIABLES
    process,    \* "absent", "running", "dead", or the adapter that has created it and
                \* has not resumed it yet
    injected,   \* the DLL is in the process
    detached,   \* m_detachEvent
    commandThread, \* "none", "read", "left": it reads after a Detach that leaves, or
                   \* "back": it could not make the Attach pipe
    attacher,   \* who has it, in WaitForAttach: "none", "await", "asked", "announce", "flush"
    scripts,    \* m_scripts
    loadEvent,  \* m_loadEvent
    waiting,    \* the script thread: "no", or what it waits for: "load" or "continue"
    pipe,       \* per name: who has the server's end and the client's
    hello,      \* a request is under way on the Attach pipe
    events, commands, info, \* and the other things under way on the pipes
    pc, files   \* per adapter: what it is doing, the scripts it knows

backend == <<injected, detached, commandThread, attacher, scripts, loadEvent, waiting>>
pipes   == <<pipe, hello, events, commands, info>>
vars    == <<process, backend, pipes, pc, files>>

PipeName == {"Event", "Command", "Attach"}
Closed   == [server |-> None, client |-> None]
Alive    == process \notin {"absent", "dead"}

\* "make": it is to create its pipes and inject, "remake": to create them for a
\* backend that it has asked to come back; "announced": it waits for what the
\* backend knows; "leaving" and "parting": it has asked to be detached, and has
\* closed its command pipe.
State == {"idle", "launch", "make", "inject", "start", "ask", "remake", "announced",
          "debug", "leaving", "parting", "over", "failed"}

Init ==
    /\ process \in {"absent", "running"}
    /\ injected = FALSE /\ detached = FALSE
    /\ commandThread = "none" /\ attacher = "none"
    /\ scripts = <<>> /\ loadEvent = FALSE /\ waiting = "no"
    /\ pipe = [n \in PipeName |-> Closed]
    /\ hello = FALSE /\ events = <<>> /\ commands = <<>> /\ info = <<>>
    /\ pc = [a \in Adapter |-> "idle"] /\ files = [a \in Adapter |-> <<>>]

TypeOK ==
    /\ process \in Adapter \cup {"absent", "running", "dead"}
    /\ injected \in BOOLEAN /\ detached \in BOOLEAN /\ loadEvent \in BOOLEAN
    /\ hello \in BOOLEAN
    /\ commandThread \in {"none", "read", "left", "back"}
    /\ attacher \in {"none", "await", "asked", "announce", "flush"}
    /\ scripts \in Seq(Script) /\ IsInjective(scripts)
    /\ waiting \in {"no", "load", "continue"}
    /\ pipe \in [PipeName -> [server : Adapter \cup {Backend, None},
                              client : Adapter \cup {Backend, None}]]
    /\ events \in Seq(Script \cup {"initialize", "break"})
    /\ commands \in Seq({"loadDone", "continue", "detach"})
    /\ info \in Seq(Seq(Script))
    /\ pc \in [Adapter -> State]
    /\ files \in [Adapter -> Seq(Script)]

-----------------------------------------------------------------------------
(* Named pipes.                                                            *)

\* Who holds an end of a pipe drops it, and what was under way on the pipes whose
\* two ends are closed is gone.
Without(x) == [n \in PipeName |->
                  [server |-> IF pipe[n].server = x THEN None ELSE pipe[n].server,
                   client |-> IF pipe[n].client = x THEN None ELSE pipe[n].client]]
Contents(p, n, q) == IF p[n] = Closed THEN <<>> ELSE q
Drop(p) == /\ pipe' = p
           /\ events' = Contents(p, "Event", events)
           /\ commands' = Contents(p, "Command", commands)
           /\ info' = IF p["Attach"].client = None THEN <<>> ELSE info
           /\ hello' = (hello /\ p["Attach"].client # None)

\* A write to a pipe that has not both its ends is lost.
Written(n, q, m) == IF None \in Range(pipe[n]) THEN q ELSE Append(q, m)
SendEvent(m)   == events' = Written("Event", events, m)
SendCommand(m) == commands' = Written("Command", commands, m)

\* A pipe is there once, and connects once.
Listening(n) == /\ pipe[n].server # None /\ pipe[n].client = None
                /\ pc[pipe[n].server] \in {"inject", "announced"}

Goto(a, state) == pc' = [pc EXCEPT ![a] = state]

-----------------------------------------------------------------------------
(* The adapter comes: launchProcess, attachProcess.                        *)

\* A process is created and stopped at its entry point.
Launch(a) ==
    /\ pc[a] = "idle" /\ process = "absent"
    /\ process' = a
    /\ Goto(a, "launch")
    /\ UNCHANGED <<backend, pipes, files>>

\* attachProcess looks for the DLL, and then takes it that nothing changes.
Attach(a) ==
    /\ pc[a] = "idle" /\ process # "absent"
    /\ Goto(a, IF ~Alive THEN "failed" ELSE IF injected THEN "ask" ELSE "make")
    /\ UNCHANGED <<process, backend, pipes, files>>

\* The Attach pipe is there and free only in a process that was left.
AskBackend(a) ==
    /\ pc[a] = "ask"
    /\ IF attacher = "await" /\ Alive
       THEN /\ pipe' = [pipe EXCEPT !["Attach"].client = a]
            /\ attacher' = "asked"
            /\ Goto(a, "remake")
       ELSE UNCHANGED <<pipe, attacher>> /\ Goto(a, "failed")
    /\ UNCHANGED <<process, injected, detached, commandThread, scripts, loadEvent, waiting,
                   hello, events, commands, info, files>>

\* Both pipes are created, which fails if they are there; a backend that was
\* asked is told to connect.
\* Mutant: the pipes may have several instances.
CreatePipesShared(a) ==
    /\ pc[a] \in {"launch", "make", "remake"}
    /\ pipe' = [pipe EXCEPT !["Event"].server = a, !["Command"].server = a]
    /\ Goto(a, IF pc[a] = "remake" THEN "announced" ELSE "inject")
    /\ hello' = (hello \/ pc[a] = "remake")
    /\ UNCHANGED <<process, backend, info, events, commands, files>>
CreatePipes(a) ==
    /\ pc[a] \in {"launch", "make", "remake"}
    /\ IF pipe["Event"] = Closed /\ pipe["Command"] = Closed
       THEN /\ pipe' = [pipe EXCEPT !["Event"].server = a, !["Command"].server = a]
            /\ Goto(a, IF pc[a] = "remake" THEN "announced" ELSE "inject")
            /\ hello' = (hello \/ pc[a] = "remake")
            /\ UNCHANGED <<events, commands, info>>
       ELSE Drop(Without(a)) /\ Goto(a, "failed")
    /\ UNCHANGED <<process, backend, files>>

\* The DLL is loaded: DllMain connects both pipes, starts the command thread and
\* says where to continue.  If it was loaded since the adapter looked, nothing
\* happens: the adapter waits for a connection, and fails when that says something
\* else.  Injecting into a process that ended fails.
Inject(a) ==
    /\ pc[a] = "inject"
    /\ \/ /\ Alive /\ ~injected
          /\ injected' = TRUE /\ commandThread' = "read"
          /\ pipe' = [pipe EXCEPT !["Event"].client = Backend, !["Command"].client = Backend]
          /\ events' = <<"initialize">>
          /\ Goto(a, "start")
          /\ UNCHANGED <<hello, commands, info>>
       \/ /\ ~Alive \/ events # <<>>
          /\ Drop(Without(a)) /\ Goto(a, "failed")
          /\ UNCHANGED <<injected, commandThread>>
    /\ UNCHANGED <<process, detached, attacher, scripts, loadEvent, waiting, files>>

\* The API is hooked on a thread of the process (FinishInitialize), and who has
\* launched the process resumes it (worker.init).
Start(a) ==
    /\ pc[a] = "start"
    /\ IF events # <<>> /\ Alive
       THEN /\ events' = Tail(events)
            /\ process' = (IF process = a THEN "running" ELSE process) /\ Goto(a, "debug")
            /\ UNCHANGED <<pipe, hello, commands, info>>
       ELSE /\ Drop(Without(a)) /\ Goto(a, "failed")
            /\ UNCHANGED process
    /\ UNCHANGED <<backend, files>>

\* What the backend knows is read from the Attach pipe, which is then closed.  (If
\* the process ends here, the code goes on with counts that were never read.)
\* Mutant: the scripts are not added to the files.
AnnouncedOnly(a) ==
    /\ pc[a] = "announced"
    /\ info # <<>>
    /\ Drop([pipe EXCEPT !["Attach"].client = None]) /\ Goto(a, "debug")
    /\ UNCHANGED <<process, backend, files>>
Announced(a) ==
    /\ pc[a] = "announced"
    /\ IF info # <<>>
       THEN /\ files' = [files EXCEPT ![a] = Head(info)]
            /\ Drop([pipe EXCEPT !["Attach"].client = None])
            /\ Goto(a, "debug")
       ELSE /\ pipe["Attach"].server = None
            /\ Drop(Without(a)) /\ Goto(a, "failed")
            /\ UNCHANGED files
    /\ UNCHANGED <<process, backend>>

-----------------------------------------------------------------------------
(* The adapter during a session, and the end of it.                        *)

\* worker.update: a script is added to the files and acknowledged.
Update(a) ==
    /\ pc[a] = "debug" /\ events # <<>>
    /\ events' = Tail(events)
    /\ IF Head(events) \in Script
       THEN /\ files' = [files EXCEPT ![a] = Append(@, Head(events))]
            /\ SendCommand("loadDone")
       ELSE UNCHANGED <<files, commands>>
    /\ UNCHANGED <<process, backend, pipe, hello, info, pc>>

\* The user continues.
Continue(a) ==
    /\ pc[a] = "debug" /\ waiting = "continue" /\ "continue" \notin Range(commands)
    /\ SendCommand("continue")
    /\ UNCHANGED <<process, backend, pipe, hello, events, info, pc, files>>

\* disconnect with terminateDebuggee, or terminate: Detach, and the process is
\* terminated, before or after it has read that.
Kill(a) ==
    /\ process' = "dead"
    /\ pipe' = [n \in PipeName |-> IF pipe[n].server \in {a, Backend} THEN Closed ELSE pipe[n]]
    /\ hello' = FALSE /\ events' = <<>> /\ commands' = <<>> /\ info' = <<>>
    /\ Goto(a, "over")
    /\ UNCHANGED <<backend, files>>
Stop(a) ==
    /\ pc[a] = "debug"
    /\ Kill(a)

\* The event pipe is broken, 'Debug session disconnected': the same.
Disconnected(a) ==
    /\ pc[a] = "debug" /\ events = <<>> /\ pipe["Event"].client = None
    /\ Kill(a)

\* disconnect: Detach, and the process is left.  The adapter ends; its pipes are
\* closed when its Lua state is, the first of them when all commands are read.
Leave(a) ==
    /\ pc[a] = "debug"
    /\ SendCommand("detach")
    /\ Goto(a, "leaving")
    /\ UNCHANGED <<process, backend, pipe, hello, events, info, files>>
Close(n) == Drop([pipe EXCEPT ![n].server = None])
CloseCommand(a) ==
    /\ pc[a] = "leaving" /\ (commands = <<>> \/ pipe["Command"].client = None)
    /\ Close("Command") /\ Goto(a, "parting")
    /\ UNCHANGED <<process, backend, files>>
CloseEvent(a) ==
    /\ pc[a] = "parting"
    /\ Close("Event") /\ Goto(a, "over")
    /\ UNCHANGED <<process, backend, files>>

\* The adapter ends without a word.
Crash(a) ==
    /\ MayCrash /\ pc[a] \notin {"idle", "over", "failed"}
    /\ Drop(Without(a)) /\ Goto(a, "over")
    /\ UNCHANGED <<process, backend, files>>

Come(a) == \/ AskBackend(a) \/ CreatePipes(a) \/ Inject(a) \/ Start(a) \/ Announced(a)
Stay(a) == \/ Update(a) \/ Disconnected(a) \/ CloseCommand(a) \/ CloseEvent(a)
User(a) == \/ Launch(a) \/ Attach(a) \/ Continue(a) \/ Stop(a) \/ Leave(a)

-----------------------------------------------------------------------------
(* The command thread and the thread that waits for an attach, which was the *)
(* command thread of the session before.                                     *)

Reads == commandThread \in {"read", "left"}
Executed(c) == /\ Alive /\ Reads
               /\ commands # <<>> /\ Head(commands) = c
               /\ commands' = Tail(commands)

\* Detach(continueRunning): all waits end, and the thread reads on.
\* Mutant: the event is not signalled.
CmdDetachSilent ==
    /\ Executed("detach")
    /\ commandThread' = "left"
    /\ UNCHANGED <<process, injected, detached, attacher, scripts, loadEvent, waiting,
                   pipe, hello, events, info, pc, files>>
CmdDetach ==
    /\ Executed("detach")
    /\ detached' = TRUE /\ waiting' = "no"
    /\ commandThread' = "left"
    /\ UNCHANGED <<process, injected, attacher, scripts, loadEvent, pipe, hello, events, info,
                   pc, files>>

CmdLoadDone ==
    /\ Executed("loadDone")
    /\ loadEvent' = (waiting # "load")
    /\ waiting' = IF waiting = "load" THEN "no" ELSE waiting
    /\ UNCHANGED <<process, injected, detached, commandThread, attacher, scripts, pipe, hello,
                   events, info, pc, files>>

CmdContinue ==
    /\ Executed("continue")
    /\ waiting' = IF waiting = "continue" THEN "no" ELSE waiting
    /\ UNCHANGED <<process, injected, detached, commandThread, attacher, scripts, loadEvent,
                   pipe, hello, events, info, pc, files>>

\* The adapter has closed the command pipe.  The pipes are closed; a backend that
\* was left waits for an attach, one that was not forgets everything.  The Attach
\* pipe cannot be made while the thread of the attach before has not closed it.
Unplugged == [n \in PipeName |-> [pipe[n] EXCEPT !.client = IF @ = Backend THEN None ELSE @]]
CleanUp ==
    /\ Alive /\ Reads
    /\ commands = <<>> /\ pipe["Command"].server = None
    /\ CASE commandThread = "left" /\ attacher = "none" ->
              /\ Drop([Unplugged EXCEPT !["Attach"].server = Backend])
              /\ attacher' = "await" /\ commandThread' = "none"
              /\ UNCHANGED scripts
         [] commandThread = "left" /\ attacher # "none" ->
              /\ Drop(Unplugged)
              /\ commandThread' = "back"
              /\ UNCHANGED <<scripts, attacher>>
         [] OTHER ->
              /\ Drop(Unplugged)
              /\ scripts' = <<>> /\ commandThread' = "none"
              /\ UNCHANGED attacher
    /\ UNCHANGED <<process, injected, detached, loadEvent, waiting, pc, files>>

\* WaitForAttach: somebody has asked, or has gone after connecting, or there is no
\* Attach pipe; neither that nor whether the pipes connect is looked at.  The states
\* are hooked, the events reset, and a new command thread is started.
ComeBack ==
    /\ Alive
    /\ \/ /\ attacher = "asked" /\ (hello \/ pipe["Attach"].client = None)
          /\ attacher' = "announce" /\ hello' = FALSE
       \/ /\ commandThread = "back"
          /\ UNCHANGED <<attacher, hello>>
    /\ pipe' = [n \in PipeName |->
                   IF n # "Attach" /\ Listening(n) THEN [pipe[n] EXCEPT !.client = Backend]
                   ELSE pipe[n]]
    /\ detached' = FALSE /\ loadEvent' = FALSE
    /\ commandThread' = "read"
    /\ UNCHANGED <<process, injected, scripts, waiting, events, commands, info, pc, files>>

\* What the backend knows is written, without a lock.  The channel is closed when
\* the other side has read it.
Announce ==
    /\ Alive /\ attacher = "announce"
    /\ attacher' = "flush"
    /\ info' = Written("Attach", info, scripts)
    /\ UNCHANGED <<process, injected, detached, commandThread, scripts, loadEvent, waiting,
                   pipe, hello, events, commands, pc, files>>
Withdraw ==
    /\ Alive /\ attacher = "flush" /\ pipe["Attach"].client = None
    /\ attacher' = "none"
    /\ Drop([pipe EXCEPT !["Attach"].server = None])
    /\ UNCHANGED <<process, injected, detached, commandThread, scripts, loadEvent, waiting,
                   pc, files>>

Thread == CmdDetach \/ CmdLoadDone \/ CmdContinue \/ CleanUp \/ ComeBack \/ Announce \/ Withdraw

-----------------------------------------------------------------------------
(* The program.                                                            *)

\* A script the backend does not know begins: it is registered and its thread
\* waits.  While detached nothing is registered.
\* Mutant: it is not looked up.
LoadAgain(s) ==
    /\ process = "running" /\ injected /\ ~detached /\ waiting = "no"
    /\ Len(scripts) <= Cardinality(Script)
    /\ LoadsAnytime \/ attacher = "none"
    /\ scripts' = Append(scripts, s)
    /\ SendEvent(s)
    /\ IF loadEvent THEN loadEvent' = FALSE /\ UNCHANGED waiting
       ELSE waiting' = "load" /\ UNCHANGED loadEvent
    /\ UNCHANGED <<process, injected, detached, commandThread, attacher, pipe, hello, commands,
                   info, pc, files>>
Load(s) ==
    /\ process = "running" /\ injected /\ ~detached /\ waiting = "no"
    /\ s \notin Range(scripts)
    /\ LoadsAnytime \/ attacher = "none"
    /\ scripts' = Append(scripts, s)
    /\ SendEvent(s)
    /\ IF loadEvent THEN loadEvent' = FALSE /\ UNCHANGED waiting
       ELSE waiting' = "load" /\ UNCHANGED loadEvent
    /\ UNCHANGED <<process, injected, detached, commandThread, attacher, pipe, hello, commands, info,
                   pc, files>>

\* A breakpoint or a step.
Break ==
    /\ process = "running" /\ injected /\ ~detached /\ waiting = "no" /\ scripts # <<>>
    /\ "break" \notin Range(events)
    /\ SendEvent("break")
    /\ waiting' = "continue"
    /\ UNCHANGED <<process, injected, detached, commandThread, attacher, scripts, loadEvent,
                   pipe, hello, commands, info, pc, files>>

Exit ==
    /\ process = "running"
    /\ process' = "dead"
    /\ Drop([Unplugged EXCEPT !["Attach"].server = None])
    /\ UNCHANGED <<backend, pc, files>>

Program == \E s \in Script : Load(s)

Next == \/ \E a \in Adapter : Come(a) \/ Stay(a) \/ User(a) \/ Crash(a)
        \/ Thread \/ Program \/ Break \/ Exit

Spec == Init /\ [][Next]_vars

\* The adapters' programs and the threads of the backend run; the user need not do
\* anything, the program need not load or stop or end, adapters need not crash.
FairSpec == /\ Spec /\ WF_vars(Thread)
            /\ \A a \in Adapter : WF_vars(Come(a)) /\ WF_vars(Stay(a))

-----------------------------------------------------------------------------
(* Properties.                                                             *)

\* A process is debugged by one adapter at a time, which has both pipes: whoever
\* else comes meanwhile fails (launcher.cpp 332, 338, 393, 400, 406;
\* DebugBackend.cpp 227, 234, 1469-1477).
OneSession ==
    /\ \A a, b \in Adapter : pc[a] = "debug" /\ pc[b] = "debug" => a = b
    /\ pipe["Event"].server # None /\ pipe["Command"].server # None
           => pipe["Event"].server = pipe["Command"].server
    /\ \A a \in Adapter : pc[a] = "debug" => pipe["Event"].server = a

\* The files of the adapter are the first scripts of the backend, and the others
\* are under way, each of them once and in their order: both sides speak of a
\* script by its number, in the first session and after an attach
\* (DebugBackend.cpp 3496-3501, request.lua 93-101, files.lua 36-69).
UnderWay(i, j) == events[j] = scripts[i]
Agree(a) ==
    /\ Len(files[a]) <= Len(scripts)
    /\ \A i \in 1 .. Len(files[a]) : files[a][i] = scripts[i]
    /\ \A i \in Len(files[a]) + 1 .. Len(scripts) : \E j \in DOMAIN events : UnderWay(i, j)
    /\ \A j \in DOMAIN events : events[j] \in Script =>
          \E i \in Len(files[a]) + 1 .. Len(scripts) : UnderWay(i, j)
    /\ \A j, k \in DOMAIN events, i, l \in DOMAIN scripts :
          j < k /\ UnderWay(i, j) /\ UnderWay(l, k) => i < l
FilesAgree == \A a \in Adapter : pc[a] = "debug" /\ Alive => Agree(a)

\* A process that was left runs on, in whichever wait its thread was, and waits
\* for an attach, unless it ends, or the thread of the attach before has not closed
\* its pipe yet (DebugBackend.cpp 1038-1046, 1176-1183, 3469).
LeftAttachable ==
    \A a \in Adapter :
        pc[a] = "leaving" ~>
            process = "dead" \/ (attacher = "await" /\ waiting = "no") \/ commandThread = "back"

\* The same without the last exception, which the code does not keep.
AlwaysAttachable ==
    \A a \in Adapter :
        pc[a] = "leaving" ~> process = "dead" \/ (attacher = "await" /\ waiting = "no")

\* A process whose adapter is gone is not held by it.  (DebugBackend.cpp 243-244
\* "Create the detach event used to signal when the debugger has been detached
\* from our process.")
GoneIsDetached ==
    (\A a \in Adapter : pc[a] \in {"over", "failed"}) /\ process = "running" ~>
        process = "dead" \/ waiting = "no"
=============================================================================
