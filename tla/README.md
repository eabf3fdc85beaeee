# A TLA+ model of vecoda

vecoda debugs Lua programs on Windows from VS Code. A debugged process gets a DLL
injected (`src/LuaInject`) that intercepts the Lua API, hooks every `lua_State` and runs
the debug *backend*. The debug *adapter* (`src/script`, in Lua, hosted by
`luadebug.exe`) speaks the debug adapter protocol with the editor on one side and a
binary protocol over two pipes with the backend on the other. The *launcher*
(`src/launcher`, a C++ module of the adapter) starts or attaches to the process and
wraps the pipes.

The hard part of such a program is not what it computes but who waits for whom: every
thread of the debugged program may call into the backend, stop there for a user who
answers minutes later, and be evaluated in by another thread meanwhile. The project
models the parts that wait for each other and the tables that must agree on both sides
of the pipes.

## 1. Inventory

| component | source | state it keeps | operations |
|---|---|---|---|
| Debug backend | `LuaInject/DebugBackend.cpp`, `.h`, `Protocol.h` | `m_stateToVm`, `m_scripts`, `m_nameToScript`, `m_criticalSection`, `m_breakLock`, `m_loadEvent`, `m_detachEvent`, a `VirtualMachine` per state with its `break_event`, mode, call count | attach, close and detach of states; the Lua hook; load of a script; error handler; the command thread with nine commands; evaluation, tables, cleanup |
| Hook modes and stepping | `DebugBackend.cpp` (`HookCallback`, `UpdateHookMode`), `LuaDll.cpp` | hook mask, mode, `callCount`, `breakpointInStack`, `haveActiveBreakpoints` | call, return and line events, step into/over/out, pause, toggles |
| Adapter worker | `script/worker.lua`, `vm.lua` | threads, stacks, debug data | one handler per event of the backend, one command per request |
| Breakpoints of the adapter | `script/breakpoint.lua`, `files.lua` | files, breakpoints by line, kept breakpoints, pending evaluations | `setBreakpoints`, load of a file, verification, conditions, hit conditions, log messages |
| Variables and evaluation | `script/variables.lua`, `DebugBackend.cpp` 1868-2300 | references and what is known of them, requests under way; tables of locals and upvalues during an evaluation | scopes, variables, evaluate, the reset at a stop; `CreateEnvironment`, `SetLocals`, `SetUpValues` |
| Request dispatch | `script/request.lua`, `message.lua`, `event.lua` | none to speak of | one handler per request of the editor |
| Launcher, channel | `launcher/Channel.cpp` | the overlapped read in progress | blocking and polled reads, writes |
| Launcher, sessions | `launcher/launcher.cpp` | handles, remembered processes | launch, attach, attach again, resume, stop |
| Lua API intercepts | `LuaDll.cpp` | per-thread switch, the table of APIs | some 150 forwarded functions; create, load and close reach the backend |
| Table cache | `DebugBackend.cpp` 1723-1866 | cached references | `CacheTable`, `ClearCache` |

How they interact. The backend writes events (`CreateVM`, `LoadScript`, `Break`,
`Exception`, `LoadError`, `SetBreakpoint`, `EvaluateRet`, `Message`, `DestroyVM`) to the
event pipe; the adapter reads one event per round and handles it to the end. The adapter
writes commands (`Continue`, the steps, `Break`, `ToggleBreakpoint`, `Evaluate`,
`ExpandTable`, `LoadDone`, `Detach`) to the command pipe; the backend's command thread
executes them one at a time, some of them by running Lua in a state whose own thread is
stopped. Inside the process the threads share two critical sections and Win32 events,
some auto-reset. Inside the adapter everything runs on one thread, by callbacks that
remember what they were about to do (a pending evaluation, a condition being checked).

What is hard, and what correctness means for it:

* **Locks and waits** (backend). A hook leaves the critical section to wait and takes it
  again; an error takes the second lock while it holds the first, or waits for the user
  under it. *Locks belong to the thread inside them; one thread at a time is stopped in
  an exception; every wait ends; every stop costs exactly one resume.*
* **Two threads in one Lua state** (backend, worker). *The command thread evaluates only
  in a state whose thread is stopped.*
* **Detach and close** in any of these states. *All waits end, nothing unknown is
  hooked, no hook meets a state that was dropped.*
* **Toggles instead of sets** (breakpoints). A lost or doubled toggle inverts the rest of
  the session. *The tables of adapter and backend agree up to the toggles under way; what
  the user set is what the files have, before, during and after their load.*
* **Speed** (hook modes). Line events are asked for only where they seem to be needed.
  *No line with a breakpoint runs without a stop; a step stops at the next line of its
  function, and not inside what it calls.*
* **Callbacks in the adapter** (breakpoints, variables). An answer arrives when what it
  was asked for has been replaced. *Each stop is decided once, by the checks of the
  breakpoint that was hit; what is shown for a variable is that variable; every request is
  answered.*
* **Evaluation** (backend). Locals and upvalues are copied out by name and back by index.
  *A chunk does what it would do in the place where the function has stopped, and nothing
  else.*
* **Bytes on a pipe** (channel, worker). Several threads write an event field by field; the
  adapter polls the first field through a helper thread. *Events are handled whole and in
  order, none is lost, the end of the process is noticed, and closing does not wait.*
* **Sessions** (launcher, backend). Adapters come, fail, crash, leave and come back; the
  process ends at any time. *One adapter has the process at a time; both sides number the
  scripts alike, also after an attach; a process that was left runs on.*

## 2. Modules

| module | models | implements | theorems in |
|---|---|---|---|
| `Backend` | locks, waits, hooks as entries and exits, errors, command thread, the worker's handling of events, the user | `Stops` | `Backend_proofs` |
| `Stops` | what a stop is: told, shown or passed over, resumed, released, left | | |
| `Hooks` | hook masks, call counting, breakpoint ranges over call stacks | | `Hooks_proofs` |
| `Breakpoints` | adapter tables, toggles, script registry, checks of a hit breakpoint | | `Breakpoints_proofs` |
| `Variables` | references, scopes, the cache of tables, frame ids, requests and answers over stops | | `Variables_proofs` |
| `Evaluation` | an expression or statement evaluated in a frame | `Frame` | `Evaluation_proofs` |
| `Frame` | what it means to run a chunk where a function has stopped | | |
| `Wire` | events as fields on a pipe, several writers, the polled read, disconnecting and closing | `EventStream` | `Wire_proofs` |
| `EventStream` | what the channel promises: whole events in order | | |
| `Session` | launch, attach, leave, attach again, kill, crash, over three named pipes | | `Session_proofs` |
| `Counting` | lemmas on the number of entries of a sequence that satisfy a condition | | itself |
| `MCBackend`, `MCHooks`, `MCBreakpoints`, `MCVariables`, `MCEvaluation` | instances for TLC: symmetry, programs, files, requests, stacks, frames | | |

They look at the same program from different sides, each leaving out what the others have.
`Backend` has every thread and every lock, but one line per script, a hook that is on
or off, and an event that is written and read in one piece; `Wire` is why that last is
right, and where it is not. `Hooks` has stacks and lines, and of the interleavings those
that matter to it: a hook runs in the critical section, except for the wait for a new
script, but a pause takes no lock.
`Breakpoints` has one state, but the two tables, the request ids and the callbacks.
`Variables` has the answers to what `Backend` calls `Evaluate`; `Evaluation` is what
happens inside one. `Session` has the process and the adapters from outside, with one
thread and one virtual machine, but every order in which they come and go.

### Backend

One `lua_State` is run by one script thread. `pc` says where each thread is in the
source: `hookIn` asks for the critical section, `hook` is inside it, `hookLoad` waits for
`m_loadEvent`, `hookBack` asks again; `brkSend`, `brkWait`, `brkClear` are
`BreakFromScript`; `load`, `loadWait`, `errCs`, `errLock`, `errWait` are `PostLoadScript`;
`excSend`, `excBreak`, `excWait` are `ErrorHandler`; the command thread reads, executes,
evaluates and cleans up. An action is one stretch between two points where a thread can
be held up: taking a lock, waiting for an event, leaving a lock. Win32 events are
Booleans that a wait resets when they are auto-reset; `WaitForContinue` and `WaitForLoad`
also end by the detach event. Pipes are sequences; a write to a pipe the adapter has
closed is dropped, as a failed write is in the code. The adapter's worker and its user
are the actions of `Front` and `User`.

Abstractions: a script has one line that may have a breakpoint; the call depth of a step
is left open (`atDepth`), `Hooks` has it; evaluating is a step that may raise an error;
`Evaluate` and `ExpandTable` are one command, since both run Lua in the stopped state; an
event is written in one step; a call of a C function is like a call into a script the
backend knows; the registration of a script in the middle of a stack walk
(`StackHasBreakpoint`) belongs to the call event; two names of one script are left to
`Breakpoints`; `NameVM` is never sent; the build is the release build, so assertions do
nothing. Left out: coroutines as states of their own and the thread end callback, the
LuaJIT work-around, the commands the adapter never sends (`IgnoreException`,
`DeleteAllBreakpoints`), a freed `lua_State` whose address is used again.

`Stops` is what backend, pipes and adapter promise together about a stop. `StopStage` maps
the state of `Backend` to it: a thread outside a break wait is `running`; in one, the stop
is `told` while its break event is in the pipe or the adapter is asking about it, `shown`
when it is in the adapter's books, `resumed` when a resume is in the pipe or being executed,
`released` when the break event is set. `evaluating` is the state the command thread runs
Lua in. `linked` ends with a disconnect, with an adapter that has lost its way after an
error event, and with a command thread that stops in an error handler itself (the run
`backend_selfwait`): from then on nothing is promised.

### Hooks

`Fun` is the program: functions with the script, the range (`linedefined`,
`lastlinedefined`) and the lines of their body. A state's `stack` has the functions being
executed and how many tail calls led to each. The interpreter's steps (`Call`,
`TailCall`, `Return`, `Throw`, `Line`) call the hook if the mask has the event, which
does what `HookCallback` does; `Resume`, `BreakMode` with `BreakHook`, `SetBreakpoint`,
`ClearBreakpoint` and `Evaluate` are the commands. `DebugBackend::Break` writes the mode and
the hook without the lock (1266-1270), so a pause is two steps, and a hook that changes the
mask is three: `UpdateHookMode` (in a call or a return) chooses the mask and compares it with
the one that is set, `CheckMode` looks at the mode once more (925-929), `SetHook` sets what
was chosen (930). Other hooks and the other commands take the lock and wait meanwhile
(`Waits`, `Command`). `kept` and `lost` are history variables: which frames a step
over or out was given in, and whether a call was counted whose return never comes (an
error, or a tail call from Lua 5.2 on); so is `missed`: the full hook of a pause came between
`CheckMode` and `SetHook` of a hook that had chosen less. Setting a mask is one store here;
the return events of one return (one more for each tail call of Lua 5.1) are one step.
Scripts are known before they run; a detach is in
`Backend`; `AttachState` may find a state in the middle of a function; `CloseState`
resets the fields of a virtual machine that is deleted.

### Breakpoints

The backend's half has `m_nameToScript` (`index`) and `m_scripts`; lines count from zero
there and from one in the adapter. `RegisterScript` recognises a name, or a script of the
same title and source under another name, or makes a script and waits for `LoadDone`. The
adapter's half has the files by index, the file of a path (`latest`, `path2file`), the
breakpoints kept for a path that is not loaded (`pending`), the id counter, and the one
evaluation under way (`ask`, with the breakpoint object `at` that its callback has
captured). A request toggles its new lines in its own order (`Added`, `Ascending`), then the
old ones it has not (`Removed`), in the order `pairs` happens to have. A hit breakpoint goes through `CheckCondition`, `CheckHitCondition` and
`CheckStatLog`, each of which asks the backend or falls through. `wish` and `verified`
are what the user knows; `answers` and `fresh` are history variables.

Abstractions: a chunk name stands for its path, title and source; a condition for what it
may answer, so the hit count is an open answer: true, false (or a failure), or none, the
success without a value of an expression that calls a function without results, for which
no callback runs (`Decides`); log messages ask any number of times; a breakpoint whose condition does not compile is `bad`. One state runs; the
user's evaluations, other states and exceptions are in `Backend`. Every chunk is a file
that exists: sources kept in memory take no breakpoints by path.

### Variables

An object is what the user looks at: a scope of a frame or a table of the state; a value is
abstracted to the non-empty tables in it. `ScopesRequest`, `VariablesRequest`,
`EvaluateRequest` and `ContinueRequest` are handlers of `request.lua` with the functions of
`variables.lua` they call; `FrontBreak`, `FrontEvaluateRet`, `FrontExpandRet` are the
worker's handlers with the callbacks of `variables.lua`; `CmdExpand`, `CmdEvaluate`,
`CmdContinue` are commands of the backend and `Clear` is `ClearCache`, run by the stopped
thread when it goes on. A reference is a fresh id above 2^16 for a scope, or below it the
number the backend has given a table. `FrameId`, `ThreadOf`, `LevelOf` are the shift and the
mask of `worker.lua:78` and `variables.lua`, over a stack in which the frames of C functions
are left out and native frames found in their place are put in (`FrameIndex`).

`tree` (the references the editor holds) and `asked` / `answer` (what each request was
about, what was shown) are the editor. Abstractions: a request and its handling are one
step, since they are queued in order; XML, types and names of values are left out; the
tables in a frame do not change during a stop. A scope of a level that is not there is
answered as failed; the code links a null element there, which no request of the run or
under the hypotheses of the theorems comes to.

### Evaluation and Frame

A frame is the list of its locals' names, outermost first, and of its upvalues'. `Begin` is
`CreateEnvironment`: both lists are copied into tables by name, a nil that is declared as a
sentinel. `IndexChained` and `NewIndexChained` are the two metamethods, and `End` is
`SetLocals` and `SetUpValues`, which run whether the chunk succeeds or not. What the chunk
does is open: it reads and assigns names and calls functions that assign to a global or to a
local they have captured. `Frame` has the same frame without tables: a name is the innermost
local, else the upvalue, else the global. The refinement mapping takes a variable to what
the table says while a chunk runs; `Begin` and `End` are then steps that change nothing.

It holds where no two locals have one name and no function in reach assigns to a local,
which is what `EvaluationImplementsFrame` assumes; both are needed (`evaluation_shadow`).
Left out: errors in compiling (nothing happens), the stack of Lua values, coroutines.

### Wire and EventStream

A piece is one message of the pipe: the `at`-th field of the `ev`-th event, of which `size`
bytes are left. `Layout` is what the backend writes for each kind of event, `Plan` what
`worker.lua` reads, `LockedFrom` the first field that is written inside the critical
section. The script threads and the command thread `Begin` an event and `Continue` it field
by field; the helper thread of a polled read (`HelperReads`, `HelperFails`, `HelperFlags`,
`HelperStores`) is `ContinueNReadUInt32`, with its flag set before its result; the adapter
polls (`PollStarts`, `PollEnds`), reads the other fields (`ReadField`, `ReadFails`), and
stops (`UserStop`, `Destroy`, `Destroyed`). The pipe is in message mode: a read that is
shorter than the message fails and leaves the rest of it (`Cut`); a read that is longer
succeeds at once and fails if it had to wait. An adapter that takes one thing for another is
`"astray"`; what it does from then on is left out. `m_result` is not initialised by the
constructor, so it is TRUE or FALSE at first.

The code does not keep events apart. `torn` is a history variable that becomes TRUE at the
two steps by which an event is torn: a field is written between two fields of another
thread's event, one of the two events being of a kind that is written outside the lock,
wholly or in part (`Loose`: exceptions, messages, answers; the step is in `Tears`); and a
poll finds the flag set before `m_result` was ever assigned, and FALSE in it (`Dropped`).
What is promised of the order of events, by `Implements`, `InStep` and `EventsArrive`, is
promised until then, and `wire_answer`, `wire_exception` and `wire_uninit` show that each
exception is needed. When the process ends its threads are left out, and what is in the
pipe goes when the adapter closes it.

Abstractions: the contents of a field; one stack frame per break; commands, which one thread
writes and one reads, each by a blocking call.

### Session

`process` (while it is created and not resumed, the adapter that is to resume it), the state of
the DLL in it (`injected`, `detached`, `commandThread`, `attacher`)
and per adapter a `pc`: `launch`, `make`, `inject`, `start` are `launchProcess` and
`attachProcess` for a process without the DLL, `ask`, `remake`, `announced` for one with it,
`leaving` and `parting` a disconnect that leaves the process. `Kill` is `stopProcess` and
what `worker.lua` does when the event pipe breaks; `Crash` is an adapter that ends without a
word. In the process, `CmdDetach`, `CleanUp`, `ComeBack`, `Announce`, `Withdraw` are the
command thread's `Detach`, its end, and `WaitForAttach`. A named pipe has one server and one
client at a time; closing an end drops what nobody is left to read. Two threads can be in
`WaitForAttach`: `attacher` is the one that has the Attach pipe, which it closes when the
adapter has read it, and a command thread that comes there before that cannot create the pipe
and falls through (`commandThread` is `"back"`).

Abstractions: scripts stand for all that is announced; there is one script thread and one
virtual machine; injecting is one step; the work at the entry point and on a suspended thread
is left out, as is the TCP variant.

### Counting

`Cardinality({i \in DOMAIN q : P(i)})` over a sequence is how `Backend` counts commands and
events. The lemmas say what appending to and taking from a sequence does to such a count;
they are stated with a set of entries instead of a condition, because a theorem with an
operator as parameter cannot be used by the provers installed.


## 3. Runs

| run | instance | distinct states | what it shows |
|---|---|---|---|
| `backend_all` | 2 VMs, 1 script, every occasion | 841,758 | eight safety properties of locks, stops, evaluation, breakpoints, hooks; each stop keeps the protocol of `Stops` |
| `backend_live` | 1 VM, 2 scripts, fair | 120,548 | every wait ends: loads, stops, all of them by a detach |
| `hooks_all` | 2 VMs, chunk and function | 482,437 | line events where needed, breakpoints and steps stop, calls are stepped over, also around a pause between any two steps of a hook |
| `breakpoints_all` | 3 chunk names of 2 files, 4 requests | 2,017,668 | tables, wishes, verification, first line, decisions on a stop, and which answer leaves it undecided |
| `wire_all` | 2 script threads, 3 events (load errors, toggles, answers), pipe of 2 messages, fair | 170,905 | until an event is torn, fields and polls add up to `EventStream` and events arrive; an ended process is noticed; closing ends |
| `variables_all` | 2 VMs, one stopped at a time, 2 stops, 3 requests, fair | 109,214 | what is shown is what was asked, numbers of tables agree, requests are answered |
| `evaluation_all` | 2 locals (one internal), 2 upvalues (one hidden), 3 values | 65,610 | an evaluation is what the chunk does in the frame (`Frame`) |
| `session_all` | 3 adapters that may crash, 2 scripts, fair | 121,163 | one adapter at a time, scripts numbered alike, a process that was left runs on and can be attached, unless the attach before has not closed its pipe |
| `backend_lostload` | 2 VMs, 2 scripts | violation | two loads share an auto-reset event, one thread waits for ever |
| `wire_width` | pointers of 8 bytes | violation | the pointer of the break after an error is read as 4 bytes, the rest is taken for the next field |
| `evaluation_shadow` | two locals `x` | violation | an evaluation that only reads gives the outer one the value of the inner |
| `session_crash` | 2 adapters, one crashes | violation | the script thread waits for ever for an adapter that is gone, and nobody can attach |

The violated properties state what a comment or the change log says; each is quoted above
its property and in the findings. More configurations are kept beside the runs, of the
same modules with one assumption dropped; TLC finds the property violated in each except
`wire_loose`, which passes:

| configuration | property | what happens |
|---|---|---|
| `backend_monopoly` | `CsNotMonopolized` | a load error waits under the critical section for a thread that waits for the user |
| `backend_selfwait` | `CommandThreadNeverWaits` | an error in an evaluation makes the command thread wait for itself |
| `hooks_oneline` | `BreakpointStops` | a breakpoint in a function on one line: one end of the range counts from zero, the other from one |
| `hooks_reopen` | `BreakpointStops` | the last state is closed and another opened, which does not know that breakpoints are set |
| `hooks_tail` | `EveryStepStops` | tail calls of Lua 5.2: the call count of a step over never comes back |
| `hooks_pause` | `PauseStops` | a pause between the last look at the mode (926) and the setting of the mask (930): the full hook is overwritten and the next line does not stop |
| `breakpoints_alias` | `WishKept` | `@x.lua` and `@./x.lua` become two scripts and the breakpoints are lost |
| `breakpoints_novalue` | `EveryStopDecided` | a condition or log expression succeeds without a value: the state stays stopped, unseen, with nothing under way |
| `breakpoints_wrap` | `StopAccounted` | ids repeat: an evaluation whose answer is not recognised leaves the script stopped, unseen |
| `variables_frames` | `ShownIsAsked` | a C function in the stack that no native frame stands for: the frames beyond it are shown one level off |
| `variables_threads` | `ShownIsAsked` | two states stopped: both number their tables from one, so a reference of one is taken for the other's |
| `wire_exception` | `NeverAstray` | an event of another thread comes between an exception and its break |
| `wire_answer` | `NeverAstray` | an answer is written without a lock while another state runs and writes an event |
| `wire_uninit` | `NeverAstray` | `m_result` is FALSE before it is assigned: the first event is dropped, its second field is taken for an id |
| `wire_loose` | none: `Implements` and `InStep` hold | all of load errors, exceptions, messages, toggles and answers at a time (6,708,638 states) |
| `session_back` | `AlwaysAttachable` | an adapter attaches and leaves at once, the next `WaitForAttach` cannot create the pipe, and the backend comes back for nobody |
| `session_race` | `FilesAgree` | a script begins while the backend announces what it knows: it is announced twice |
| `session_failed` | `GoneIsDetached` | an adapter asks the backend to come back and then fails to make its pipes: the backend comes back for nobody |

### Bounds

* `Backend`: `MaxPending` = 1 lets Lua code and the user start something new only while
  the event (or command) pipe is shorter; what is started then runs to its end, so the
  pipes grow beyond it. One more in the pipe changes the distance between cause and
  effect, not their order. Two VMs are the least at which threads meet; a third adds only
  another thread of the same kind, and the theorems below cover any number. One script
  suffices for two VMs to race for it. `Occurs` and `Steps` choose what an instance has.
* `Hooks`: a stack of three frames has a caller, a callee and a function between them, so
  that a breakpoint can be below, in or above a step; the second state has one frame,
  enough to have its hook set by the other's breakpoint. `MaxTail` = 1 and `MaxCount` = 3
  cut chains of tail calls and the count they leave behind. `MaxBusy` = 1 lets one state
  execute functions at a time: states share only the breakpoints and the flags that say
  there are any, so one that runs and one that is idle meet every change of them.
* `Breakpoints`: `MaxId` = 3 allows one request of two breakpoints and another of one, in
  both orders, before and after the load; `MaxEval` = 2 allows the two evaluations of the
  longest check; `MaxPipe` = 2 lets the user act again while toggles of the last request
  are under way. `Period` is 2^16 in the code: 8 is more than an instance asks for, 2
  makes the ids repeat.
* `Wire`: `MaxEvents` = 3 has an error (with its break) of one thread, and two events of
  others, before, during and after it. A pipe of `Buffer` = 2 messages makes writers wait
  inside an event. Two `Helper` threads: the next poll can begin while the last helper has
  not stored its result. `wire_all` has a kind of event that is
  written under the lock by a script thread (with the pair of an error and its break) and by
  the command thread, and one that is written without; the other kinds differ in their
  fields, and `wire_loose` has them.
* `Variables`: `MaxStops` = 2 is a stop, a resume, and another with answers of the first
  under way; `MaxRequests` = 3 opens a scope, a table in it and one more; a table that
  contains itself gives one object two parents. `FrameLimit` = 4 is 2^5 in the code: the
  stack has three frames, which fit. The theorems have none of these bounds.
* `Evaluation`: a local that hides an upvalue, an upvalue alone, a global, and an internal
  variable; nil and two other values. The theorem has no bounds.
* `Session`: three adapters are one that is left, one that attaches again and one that
  comes in between; each comes once. Two scripts have an order. `LoadsAnytime = FALSE` keeps
  a script from beginning while the backend announces what it knows (`session_race`).

Deadlock is not checked: every program ends (a state that is closed or crashed, a process
that has exited, a session that is over), and the bounds stop the models.

### Fairness

* `Backend`: strong fairness for every script thread inside the backend (`Proceed`,
  `Report`) and for the command thread: the operating system runs every thread that can run
  and hands a critical section to every thread that keeps asking, though others take it in
  between. Weak fairness for the adapter, which polls in a loop. None for what the program
  does (calling Lua, loading, closing) or for the user: a stop need not be answered, so
  `ResumeTakesEffect` begins at the resume command.
* `Wire`: weak fairness for a thread that has begun an event, for helper threads and for
  the adapter's loop. No thread need begin an event; the process need not end.
* `Variables`: weak fairness for the backend and for the adapter. A state need not stop, a
  user need not ask or continue.
* `Session`: weak fairness for the adapters' programs and the backend's threads. Nobody need
  come, leave or crash, and the program need not load, stop or end.

## 4. Proofs

Proved by TLAPS from nothing but the named assumptions on the constants, for every number
of virtual machines, scripts and adapters and every bound, under the hypotheses each theorem
states. Every safety invariant that a passing run checks is a theorem.

* `Backend_proofs`: `TypeCorrect` (`Spec => []TypeOK`), conjunct by conjunct, because each
  disturbs other actions: `WorkOK`, `PcOK`, `CmdOK`, `BackendOK`, `SignalsOK`, `PipesOK`,
  `AdapterOK`, and `BusyOK`, which ties the work of a thread to its location. On top of it
  `LocksOwned`: a critical section has the owner that `pc` says is inside it, and none
  otherwise. It is inductive with `TypeOK`. `OneStop` follows from it: two threads in
  an exception would both own the break lock; being a consequence, it has no run of its own.
  About stops, one inductive invariant, `StopInv`, gives `OneResumePerStop`,
  `EvaluationsAreStopped`, `ResumesFindTheirVm`, `NoScriptCrashes` and `HookedAreKnown`.
  None of these is inductive, and they lean on each other. That a resume finds its virtual
  machine rests on its thread being stopped; that the thread is still stopped rests on
  there being one resume for the stop (`OnePermit`), which must count the break events
  not yet handled, the resumes under way, the one being executed and the event already set;
  that an evaluation is safe rests on the resume of the same stop being *behind* it in the
  command pipe (`EvaluateSafe`). `ResumeBound` says that a state has at most one of all
  these, `StatesKnown` and `HookedInside` which states are registered and hooked at each
  location, and `DetachLast` that nothing follows a detach in the pipe, since after it the
  rest says nothing. The counts over sequences are those of `Counting`.
  `SidesAgree` says that the breakpoints of the backend are those of the
  adapter up to the toggles under way. It needs `ToldOnce`: a script is announced to the
  adapter at most once, so that the breakpoints that were kept for it are toggled once. A
  count of toggles changes its parity with each toggle sent and each executed.
  Last comes `BackendFollowsStops`, that `Backend` implements `Stops`. The stage of a stop is
  where its permission is, read in a fixed order of places; `StagesAre` shows from `OnePermit`
  that the order does not matter, because each stage is exactly one place. With that
  (`StagesFit`, before and after the step) every action moves at most one stop by one stage:
  `ScriptFollows` (stop and go on), `FrontFollows` (show, pass over), `UserFollows` (resume),
  `CommandFollows` (release, enter and leave an evaluation), `ErrorFollows` (nothing).
  `LinkLost` is why `Stops` has no way back from an adapter that left or lost its way.
* `Breakpoints_proofs`: every safety property of `breakpoints_all`, for any chunks and any
  requests. `Base` is the invariant all of them rest on: types (`Typed`), every id in use has
  been given (`Numbered`), what is under way is about files the adapter has, of which there
  are as many as scripts but for the loads under way (`InFiles`), one message is under way
  for a state that loads (`LoadOnce`) and at most one for a state that has stopped
  (`StopBound`). `TypeCorrect` is a part of it. Then, each with its own invariant:
  `ConditionsDecide` (`Staged`: the check that is being made is one of the breakpoint that
  was hit, and those before it held); `StopsAccounted` (`Exact`: a stopped state has exactly
  one message to decide on it, and a question or answer under way has the id the adapter
  waits for; `Stuck`: once a check was answered without a value, the state is stopped and has
  none); `BreakpointsAgree` (`AgreeInv`: line `b + 1` is in the
  adapter's table if the script has `b`, but for an odd number of toggles under way; what a
  request sends is one toggle for each line that is in one table and not in the other,
  `TogglesCount`); `LoadedWithBreakpoints` (`FreshInv`: behind every
  toggle of a file that has had no request since its load, an acknowledgement is under way); `RequestsKept`
  (`WishInv`: a load under way is for a path that has no file); `VerifiedCorrectly`, from all
  these and two more: an object is verified, or a toggle of its line is under way, or the
  event that will verify it (`VerifiedInv` - that the last toggle of the line sets the
  breakpoint, and does not clear it, is `AgreeInv`), and nothing that could verify a rejected
  breakpoint is left anywhere (`BadInv`).
  Three hypotheses are needed. `OneScriptPerPath`: two names of one path have one title and
  one source; without it breakpoints are lost (`breakpoints_alias`). `IdsTellApart`: fewer
  evaluations than ids; the code has 2^16 (`breakpoints_wrap`). `OnceEach`: no request has a
  line twice among the breakpoints that compile; the code toggles such a line twice, and
  the table and the script part (section 5). `breakpoints_all` has requests and chunks that
  meet all three.
* `Hooks_proofs`: `TypeCorrect`; then `FullHook` and `BreakpointsHit`, that a state outside
  of its hook gets
  line events while a function with a breakpoint is on its stack or it steps, and that no
  line with a breakpoint can run without a stop. `FullHook` and `StepsStop` say nothing of a
  step by a pause that is between its two stores, nor of one whose full hook came between
  lines 926 and 930 of a hook that had chosen another mask (`InForce`): that one the code
  loses (`hooks_pause`). Wherever else a pause falls, they hold, because a hook that has not
  yet looked at the mode again will see it (`EndHook` is what the mask of a state in its hook
  will be). `FullWhereNeeded` speaks of the lines of
  a body and is not inductive; the invariant `HooksInv` speaks of what the code looks at,
  the range of a function: a state in free run has a full hook, or nothing on its stack
  that the range test takes for a function with a breakpoint (`AllGuarded`); and where no
  state is left no breakpoint is (`NoneLeft`). Two hypotheses are needed and are those the
  violated instances break: `RangesCover`, every line of a body is inside the range the code
  tests (`hooks_oneline`), and no state is opened after the last was closed
  (`hooks_reopen`).
  `StepsStop` and `NothingElseStops`, that a step stops where it is due and nowhere else,
  need no hypothesis. Their invariant `StepInv` has two parts. `FullStep`: a state that
  steps has its full hook, or will have it at the end of its hook (a pause apart, as above). `Counted`, for a step over or out: the call count is at most the
  returns that are due from the frames above those the step was given in, unless one was
  lost, and at least those less the tail calls of the lowest such frame. A frame owes one
  return, and one for each tail call that led to it. The sum over the frames is a witness, a
  function with the partial sums (`Counts`, `Weighs`), since a recursive definition could
  not be reasoned about.
* `Evaluation_proofs`: `TypeCorrect`, and `EvaluationImplementsFrame`, the refinement of
  `Frame`: each step of an evaluation is a step of `Frame` or none. The invariant is what the
  tables hold while a chunk runs: a name that is declared is there, and no other. It assumes
  that the names of the locals are distinct (`LocalsDistinct`) and that no function assigns
  to a captured local. That a name in a list has a last
  position there comes from the well-foundedness of the order on the naturals.
* `Session_proofs`: `TypeCorrect`, and `OneSessionAtATime` from `PipesOwned`: who has the
  server's ends of the two pipes is the adapter whose `pc` says so, and an adapter gets past
  the creation of its pipes only when both were free. `FilesAlwaysAgree`, that both sides
  number the scripts alike, assumes `~LoadsAnytime` (`session_race` shows that it must). Its
  invariant `FilesInv` follows one attach: before the adapter is connected nothing is in the
  pipe and no file is known (`Fresh`, `Waits`, `Connected`), the adapter that asks a backend
  to come back is the one that will be told (`Asked`, `Told`), no script begins meanwhile
  (`Quiet`), and from the first event on, what the adapter has, followed by the scripts in
  the pipe, is what the backend has (`Agreed`). It is about a process that lives: a dead one
  leaves events that nobody completes.
* `Wire_proofs`: `TypeCorrect`, with no hypothesis, and `ChannelImplementsStream`, that `Wire`
  implements `EventStream` under the mapping of its instance there. The invariant is
  `Chain`: the last field the adapter took, the messages in the pipe and the last field
  written make one run of consecutive fields, which the writers extend at one end and the
  helper thread and the adapter shorten at the other; it needs that one thread at a time is
  in the middle of an event, and holds the lock from `LockedFrom` on (`Exclusive`), and where
  the result of a polled read is. All of this is claimed while `torn` is FALSE. So both this
  theorem and `InStepAlways` are about any kinds of events and any threads, and exclude by
  their statements what happens after a field was written in the middle of another event, one
  of the two outside the lock, or after the first id was dropped. They assume `Readable`:
  pointers are of 4 bytes, or nothing raises an error (`wire_width`).

* `Variables_proofs`: `TypeCorrect`, and `ShownAsAsked` and `NumbersAlwaysAgree` from one
  invariant, `StandInv`, which says what a reference means wherever it is. `Stands(r, o)`: the
  adapter knows `r` by the state and scope of `o`, and if `o` is a table the backend's cache has
  it under the number `r`. That holds of what the editor holds (`TreeStands`), of what the
  adapter knows to be inside it (`VariablesStand`), of answers (`EventsStand`) and of requests
  under way (`CommandsStand`), the last two only while their stop is still shown: an answer
  that comes later is about what was asked, and nobody looks at its numbers again. Why nothing
  of one stop meets the next is the order of the pipes (`InOrder`): one state is stopped, the
  report of a stop and a resume are the last entries of their pipes, nothing else is under way
  to a state whose report is, and what is in front of a resume is for the same stop. A cache
  only grows during a stop (`Grows`), so a number keeps its table. That `Number` finds the one
  position of a table, and `CacheAll` adds what is missing and nothing twice, are lemmas on the
  model's operators (`CacheAllIs`, `ChildrenAre`).
  Three hypotheses. `FewTables`: a state has fewer than 2^16 tables, or their numbers run into
  the fresh ids; types need no other. `FramesFit`: the level comes back from the frame
  id, that is, every C function in the stack has one native frame in its place
  (`variables_frames`) and the stack is not deeper than an id can tell. `~Together`: one state
  is stopped at a time (`variables_threads`).

Checked by TLC only: the liveness properties, which the provers have no rules for.

## 5. What the code does that no run shows

* `SendExceptionEvent` writes without a lock and the break event follows under another, so
  an event of a third thread can come between the two, which `worker.lua:173-179` reads as
  a pair. In `Backend` the adapter is then `"lost"`; its properties assume it is not.
* `Break` takes no lock (`DebugBackend.cpp:1266-1270`): a pause that falls between lines 926
  and 930 of a hook on its way to another mask has its full hook overwritten, and the state
  runs on in `StepInto` until a call or return it still has events for (`hooks_pause`).
* A wait for a load can be ended by the `LoadDone` of another state's load.
* `AttachState` reads the detach event before it takes the lock: a state attached in
  between stays hooked after a detach. A `Break` command for a state that was closed uses
  a null pointer.
* A request that names a new line twice toggles it twice (`breakpoint.lua:87`). Any change
  to the breakpoints of a file resets their hit counts. Scripts without source and with
  the same title are one script.
* An expression that yields no value is a success with an empty result
  (`DebugBackend.cpp:2213`, `2300`). `worker.lua:24-26` makes "can not get result" of it,
  `toboolean` (`breakpoint.lua:206`, called at 247) takes that for a tree, and the error ends in
  the `pcall` of `message.lua:63`: no callback runs, neither `Continue` nor `stopped` is sent,
  and the entry in `m_penddingRequests` stays (`breakpoints_novalue`). A result that is no XML
  ends the same way (`worker.lua:30`).
* `files.lua:18` tests `not x ~= y`, which always holds, so a working directory that ends
  in a backslash gets a second one and its files never match the editor's paths.
* `worker.lua:172` passes the module instead of the state, `request.lua` calls a `restart`
  that `files.lua` does not have, `worker.lua:187-196` emits `evaluateRet` twice.
* `ExpandTable` leaves what it pushed on the stack of the state (`DebugBackend.cpp:1754`), and
  its error text is replaced by the empty document (1774), so the adapter is told of success.
* After an attach to a process that was left, every source is `<binary>` or `<unavailable>`
  (`request.lua:94-100`): the text of scripts loaded from memory is gone.
* `WaitForAttach` does not look at whether it could create its pipe (`DebugBackend.cpp:3469`),
  which fails while the thread of the attach before flushes it (`LuaInject/Channel.cpp:95-100`): the waits
  fall through, the detach event is reset and the process runs as if attached, to nobody
  (`session_back`). Nor does it look at whether its two pipes connect (3475-3477);
  the adapter does not look at whether it read the counts it goes by (`launcher.cpp:439-460`),
  and leaves the attach pipe open when it cannot create the others (395-408).
* An adapter that injects while another just has waits for a connection that nobody makes
  (`launcher.cpp:351`) until the DLL of the other says something.
* `m_result` of the adapter's channel is read before it was ever assigned when the first poll
  falls between flag and result of the helper thread (`Channel.cpp:286-287`): with FALSE there
  the first event is dropped and its fields are taken for events (`wire_uninit`).
* Exceptions, messages and answers are written without the lock under which the other events
  are (`DebugBackend.cpp:1454-1459`, 651-655, 1122-1128, 1155-1162): written while another
  thread writes an event, they mix with its fields (`wire_answer`, `wire_exception`).
* `ExpandTable` of a scope in a level the stack does not have links a null element into its
  document (`DebugBackend.cpp:1768`, 2310-2312).
* A value that was shown is shown again from `variables.lua:172` although an evaluation has
  changed the variable meanwhile.

## 6. Plan

Left, in this order:

1. **Several virtual machines in `Session`**, with the commands a session leaves behind.
2. **Values**: what `GetValueAsText` and `parseVariable` make of a value, as operators over
   small values, with cycles and depth.

### Not modelled

The VS Code extension (starts the adapter, picks a process). `bee.lua`, Lua, fmt, JSON and
XML libraries: third-party code, more than four fifths of the lines of the repository, so that the
lines this project stands for are a small share of all lines however much of vecoda itself
it models. `Hook.cpp` and `DebugHelp.cpp` (machine code patching and symbols, without state
a model would tell apart). The TCP channel (blocking sockets behind the interface of the
pipe) and the remote launcher. The 150 forwarded API functions, which have no state. The
display of values.
