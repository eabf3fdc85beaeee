-------------------------------- MODULE Wire --------------------------------
(***************************************************************************)
(* The event channel between the debugged process and the adapter, as it   *)
(* is: a pipe in message mode on which threads of the process write each   *)
(* field of an event by a call of its own, most of them inside             *)
(* m_criticalSection, some not, and from which the adapter polls the event *)
(* id through a helper thread (launcher/Channel.cpp) before it reads the   *)
(* other fields one by one (worker.lua).                                   *)
(*                                                                         *)
(* A piece is one message of the pipe: the at-th field of the ev-th event, *)
(* of which size bytes are left.  What is in a field is left out: an event *)
(* has the layout of its kind, with one stack frame and texts that are not *)
(* empty, except the source of a script.                                   *)
(***************************************************************************)
EXTENDS Naturals, Sequences, FiniteSets

CONSTANTS VM,         \* script threads, one per lua_State
          Cmd,        \* the command thread
          Helper,     \* threads the adapter may start for its polled reads
          None,       \* no thread
          Width,      \* bytes of a pointer in the debugged process: 4 or 8
          Kinds,      \* the kinds of event in this instance
          Buffer,     \* messages the pipe has room for (2048 bytes in the code)
          MaxEvents   \* bound on the events sent

Thread == VM \cup {Cmd}

\* Fields: a word of 32 bits, a pointer, the bytes of a text.
Word  == 4
Bytes == 1
Text  == <<Word, Bytes>>
BreakLayout == <<Word, Width, Word, Word, Word, Word>> \o Text

\* The messages of an event (DebugBackend.cpp 311-313, 368-370, 421-427,
\* 598-604, 651-655, 1122-1128, 1155-1162, 1320-1325, 1421-1459).  An error
\* comes with the break event that follows it.
Layout == [
    CreateVM       |-> <<Word, Width>>,
    DestroyVM      |-> <<Word, Width>>,
    LoadScript     |-> <<Word, Width>> \o Text \o <<Word, Word>>,
    Break          |-> BreakLayout,
    SetBreakpoint  |-> <<Word, Width, Word, Word, Word>>,
    LoadError      |-> <<Word, Width>> \o Text \o BreakLayout,
    Exception      |-> <<Word, Width>> \o Text \o BreakLayout,
    Message        |-> <<Word, Width, Word>> \o Text,
    EvaluateRet    |-> <<Word, Width, Word, Word, Word>> \o Text,
    ExpandTableRet |-> <<Word, Width, Word, Word, Word>> \o Text \o <<Word>>]

Kind    == DOMAIN Layout
Errors  == {"LoadError", "Exception"}
Answers == {"EvaluateRet", "ExpandTableRet"}
Stops   == Errors \cup {"Break"}
\* Mutant: the command thread is stopped by the errors of what it evaluates.
KindsOfAny(t) == Kind
KindsOf(t) == IF t = Cmd THEN {"SetBreakpoint", "Message"} \cup Answers
              ELSE Stops \cup {"CreateVM", "DestroyVM", "LoadScript", "Message"}

\* What the adapter reads (worker.lua 67-96, 134-197): the pointer of the break
\* event that follows an error is read as a word (178).
Plan(k) == IF k \in Errors THEN [Layout[k] EXCEPT ![6] = Word] ELSE Layout[k]

\* Mutant: a toggle is confirmed after the critical section is left.
LockedFromLate(k) == CASE k = "Exception"                                    -> 5
                       [] k \in Answers \cup {"Message", "SetBreakpoint"} -> 0
                       [] OTHER                                              -> 1

\* The first field that is written inside m_criticalSection; 0 is none.
LockedFrom(k) == CASE k = "Exception"                -> 5
                   [] k \in Answers \cup {"Message"} -> 0
                   [] OTHER                          -> 1

\* The kinds that are written outside it, wholly or in part (DebugBackend.cpp
\* 651-655, 1122-1128, 1155-1162, 1454-1459).
Loose == {"Exception", "Message"} \cup Answers

ASSUME WireAssumption ==
    /\ Cmd \notin VM /\ None \notin Thread
    /\ Width \in {4, 8}
    /\ Kinds \subseteq Kind
    /\ Buffer \in Nat \ {0} /\ MaxEvents \in Nat

VARIABLES
    cs,          \* owner of m_criticalSection, or None
    writing,     \* per thread: the event it is writing, the last field written
    halted,      \* script threads that wait for the user
    open,        \* the process still has its end of the pipe
    pipe,        \* messages written and not yet read
    reading,     \* m_reading: a polled read is under way
    nreadFinish, \* m_nreadFinish: it has ended
    value,       \* m_value
    result,      \* m_result, which the constructor does not assign
    helper,      \* per helper thread: where it is and what its read returned
    front,       \* the adapter's end of the channel
    cur,         \* the event the adapter is reading, 0 between events
    got,         \* the fields of it that have been read
    sent, handled,
    stored,      \* history: m_result has been assigned
    torn         \* history: an event has been torn, in one of the two ways in
                 \* which the code lets it happen (Tears, Dropped)

backend == <<cs, writing, halted, open>>
poll    == <<reading, nreadFinish, value, result, helper, stored>>
adapter == <<front, cur, got>>
vars    == <<backend, pipe, poll, adapter, sent, handled, torn>>

Idle     == [ev |-> 0, at |-> 0]
Piece    == [ev : Nat, at : Nat, size : Nat]
\* m_value = 0xffffffff: the pipe is closed.  m_value is 0 at first.
Closed   == [ev |-> 0, at |-> 0, size |-> 0]
NoThread == [pc |-> "none", ok |-> FALSE]
\* The adapter has closed its end.
Gone     == front \in {"closing", "closed"}

Init ==
    /\ cs = None
    /\ writing = [t \in Thread |-> Idle]
    /\ halted = {} /\ open = TRUE
    /\ pipe = <<>>
    /\ reading = FALSE /\ nreadFinish = FALSE
    /\ value = Closed /\ result \in BOOLEAN
    /\ helper = [h \in Helper |-> NoThread]
    /\ front = "up" /\ cur = 0 /\ got = 0
    /\ sent = <<>> /\ handled = <<>>
    /\ stored = FALSE /\ torn = FALSE

TypeOK ==
    /\ cs \in Thread \cup {None}
    /\ writing \in [Thread -> [ev : Nat, at : Nat]]
    /\ halted \subseteq VM /\ open \in BOOLEAN
    /\ pipe \in Seq(Piece)
    /\ reading \in BOOLEAN /\ nreadFinish \in BOOLEAN
    /\ value \in Piece /\ result \in BOOLEAN
    /\ helper \in [Helper -> [pc : {"none", "read", "flag", "store"}, ok : BOOLEAN]]
    /\ front \in {"up", "astray", "stopped", "closing", "closed"}
    /\ cur \in Nat /\ got \in Nat
    /\ sent \in Seq(Kinds)
    /\ handled \in Seq(Kinds \cup {None})
    /\ stored \in BOOLEAN /\ torn \in BOOLEAN

-----------------------------------------------------------------------------
(* The threads of the process.                                             *)

\* Thread t writes field i of event e, which has kind k.  m_criticalSection is
\* taken for the first field inside it and left with the last field.  A write
\* waits for room in the pipe, and fails at once when the adapter has closed it.
WriteField(t, e, k, i) ==
    LET last == i = Len(Layout[k]) IN
    /\ i = LockedFrom(k) => cs = None
    /\ Gone \/ Len(pipe) < Buffer
    /\ cs' = CASE last /\ LockedFrom(k) # 0 -> None
               [] i = LockedFrom(k)         -> t
               [] OTHER                     -> cs
    /\ writing' = [writing EXCEPT ![t] = IF last THEN Idle ELSE [ev |-> e, at |-> i]]
    /\ pipe' = IF Gone THEN pipe
               ELSE Append(pipe, [ev |-> e, at |-> i, size |-> Layout[k][i]])
    /\ halted' = IF last /\ k \in Stops THEN halted \cup {t} ELSE halted

\* A field of an event of kind k, written by t, falls between two fields of the
\* event of another thread, and one of the two is not written under the lock.
Tears(t, k) == \E u \in Thread \ {t} :
    writing[u] # Idle /\ {k, sent[writing[u].ev]} \cap Loose # {}

\* A script thread runs until it is stopped; the command thread answers for a
\* state that is stopped.
Begin(t, k) ==
    /\ open /\ writing[t] = Idle /\ t \notin halted
    /\ Len(sent) < MaxEvents
    /\ k \in Kinds \cap KindsOf(t)
    /\ k \in Answers => halted # {}
    /\ sent' = Append(sent, k)
    /\ WriteField(t, Len(sent) + 1, k, 1)
    /\ torn' = (torn \/ Tears(t, k))
    /\ UNCHANGED <<open, poll, adapter, handled>>

Continue(t) ==
    /\ open /\ writing[t] # Idle
    /\ WriteField(t, writing[t].ev, sent[writing[t].ev], writing[t].at + 1)
    /\ torn' = (torn \/ Tears(t, sent[writing[t].ev]))
    /\ UNCHANGED <<open, poll, adapter, sent, handled>>

\* The command thread executes a resume command.
Resume(v) ==
    /\ open /\ v \in halted /\ writing[Cmd] = Idle
    /\ halted' = halted \ {v}
    /\ UNCHANGED <<cs, writing, open, pipe, poll, adapter, sent, handled, torn>>

\* The process ends, or the command thread closes its channels after a detach:
\* at any point, also between two fields.  What is in the pipe can be read; of
\* the threads of the process nothing is left to say.
Close ==
    /\ open
    /\ open' = FALSE
    /\ cs' = None /\ halted' = {} /\ writing' = [t \in Thread |-> Idle]
    /\ UNCHANGED <<pipe, poll, adapter, sent, handled, torn>>

-----------------------------------------------------------------------------
(* The helper thread: Channel::ContinueNReadUInt32.                        *)

\* A read of n bytes from a longer message fails (ERROR_MORE_DATA) and leaves
\* the rest of the message in the pipe.
Cut(n) == LET p == Head(pipe) IN
    IF p.size > n THEN <<[p EXCEPT !.size = @ - n]>> \o Tail(pipe) ELSE Tail(pipe)

HelperReads(h) ==
    /\ helper[h].pc = "read" /\ ~Gone /\ pipe # <<>>
    /\ LET p == Head(pipe) IN
       /\ pipe' = Cut(Word)
       /\ value' = IF p.size > Word THEN Closed ELSE p
       \* A shorter message is an error only if the read had to wait.
       /\ \E ok \in BOOLEAN :
            /\ p.size = Word => ok
            /\ p.size > Word => ~ok
            /\ helper' = [helper EXCEPT ![h] = [pc |-> "flag", ok |-> ok]]
    /\ UNCHANGED <<backend, reading, nreadFinish, result, stored, adapter, sent, handled, torn>>

\* Mutant: the pipe is closed with the read still waiting for its event.
HelperFailsDeaf(h) ==
    /\ helper[h].pc = "read"
    /\ ~open /\ pipe = <<>>
    /\ value' = Closed
    /\ helper' = [helper EXCEPT ![h] = [pc |-> "flag", ok |-> FALSE]]
    /\ UNCHANGED <<backend, pipe, reading, nreadFinish, result, stored, adapter, sent, handled, torn>>

\* Mutant: m_value is left as it was.
HelperFailsMute(h) ==
    /\ helper[h].pc = "read"
    /\ Gone \/ (~open /\ pipe = <<>>)
    /\ helper' = [helper EXCEPT ![h] = [pc |-> "flag", ok |-> FALSE]]
    /\ UNCHANGED <<backend, pipe, reading, nreadFinish, value, result, stored, adapter, sent, handled, torn>>

\* The pipe is broken and empty, or this end is closed.
HelperFails(h) ==
    /\ helper[h].pc = "read"
    /\ Gone \/ (~open /\ pipe = <<>>)
    /\ value' = Closed
    /\ helper' = [helper EXCEPT ![h] = [pc |-> "flag", ok |-> FALSE]]
    /\ UNCHANGED <<backend, pipe, reading, nreadFinish, result, stored, adapter, sent, handled, torn>>

\* m_nreadFinish = true; m_result = result: two steps, the flag first.
HelperFlags(h) ==
    /\ helper[h].pc = "flag"
    /\ nreadFinish' = TRUE
    /\ helper' = [helper EXCEPT ![h].pc = "store"]
    /\ UNCHANGED <<backend, pipe, reading, value, result, stored, adapter, sent, handled, torn>>

HelperStores(h) ==
    /\ helper[h].pc = "store"
    /\ result' = helper[h].ok /\ stored' = TRUE
    /\ helper' = [helper EXCEPT ![h] = NoThread]
    /\ UNCHANGED <<backend, pipe, reading, nreadFinish, value, adapter, sent, handled, torn>>

-----------------------------------------------------------------------------
(* The adapter: worker.update, once per round of its loop.                 *)

Polls == front = "up" /\ cur = 0

\* The poll finds no read under way and starts one.
PollStarts ==
    /\ Polls /\ ~nreadFinish /\ ~reading
    /\ \E h \in Helper :
         /\ helper[h].pc = "none"
         /\ helper' = [helper EXCEPT ![h].pc = "read"]
    /\ reading' = TRUE
    /\ UNCHANGED <<backend, pipe, nreadFinish, value, result, stored, adapter, sent, handled, torn>>

\* The flag is set and m_result was never assigned: the id that has been read is
\* taken for none, and the next field of its event for an id.
Dropped == ~stored /\ ~result /\ value # Closed

\* Mutant: m_reading is not reset.
PollEndsReading ==
    /\ Polls /\ nreadFinish
    /\ nreadFinish' = FALSE
    /\ IF result /\ value # Closed
       THEN cur' = value.ev /\ got' = 1 /\ UNCHANGED front
       ELSE /\ front' = IF ~result /\ value = Closed THEN "stopped" ELSE front
            /\ UNCHANGED <<cur, got>>
    /\ torn' = (torn \/ Dropped)
    /\ UNCHANGED <<backend, pipe, reading, value, result, helper, stored, sent, handled>>

\* The poll finds the read ended and takes m_value, with m_result as it is at
\* this moment.  An id of 0xffffffff has no fields to be read and the round ends
\* with an error.  Something that is not an id, taken for one, leads astray: the
\* adapter handles an event that was never sent, and what it does from then on
\* is left out.
PollEnds ==
    /\ Polls /\ nreadFinish
    /\ nreadFinish' = FALSE /\ reading' = FALSE
    /\ IF result
       THEN CASE value = Closed -> UNCHANGED <<adapter, handled>>
              [] value.at = 1   -> /\ cur' = value.ev /\ got' = 1
                                   /\ UNCHANGED <<front, handled>>
              [] OTHER          -> /\ front' = "astray" /\ handled' = Append(handled, None)
                                   /\ UNCHANGED <<cur, got>>
       ELSE /\ front' = IF value = Closed THEN "stopped" ELSE front
            /\ UNCHANGED <<cur, got, handled>>
    /\ torn' = (torn \/ Dropped)
    /\ UNCHANGED <<backend, pipe, value, result, helper, stored, sent>>

\* The next field of the event is read by a call that waits for it.  The last
\* one completes the event.
ReadField ==
    /\ front = "up" /\ cur # 0 /\ pipe # <<>>
    /\ LET p    == Head(pipe)
           size == Plan(sent[cur])[got + 1]
           good == p.ev = cur /\ p.at = got + 1
           last == got + 1 = Len(Plan(sent[cur]))
       IN
       /\ pipe' = Cut(size)
       /\ front' = IF good THEN front ELSE "astray"
       /\ cur' = IF last THEN 0 ELSE cur
       /\ got' = IF last THEN 0 ELSE got + 1
       /\ handled' = CASE ~good -> Append(handled, None)
                       [] last  -> Append(handled, sent[cur])
                       [] OTHER -> handled
    /\ UNCHANGED <<backend, poll, sent, torn>>

\* The pipe ends in the middle of an event: the reads fail, and the event is
\* given up with an error that message.lua catches.
ReadFails ==
    /\ front = "up" /\ cur # 0 /\ ~open /\ pipe = <<>>
    /\ cur' = 0 /\ got' = 0
    /\ UNCHANGED <<backend, pipe, poll, front, sent, handled, torn>>

\* The user stops the session, between two rounds.
UserStop ==
    /\ Polls
    /\ front' = "stopped"
    /\ UNCHANGED <<backend, pipe, poll, cur, got, sent, handled, torn>>

\* Channel::Destroy: both events and the pipe are closed, with what is in it, then
\* the helper thread whose handle is kept is waited for.
Destroy ==
    /\ front = "stopped"
    /\ front' = "closing" /\ pipe' = <<>>
    /\ UNCHANGED <<backend, poll, cur, got, sent, handled, torn>>

Destroyed ==
    /\ front = "closing"
    /\ reading => \A h \in Helper : helper[h].pc \notin {"read", "flag"}
    /\ front' = "closed"
    /\ UNCHANGED <<backend, pipe, poll, cur, got, sent, handled, torn>>

-----------------------------------------------------------------------------
HelperStep(h) == HelperReads(h) \/ HelperFails(h) \/ HelperFlags(h) \/ HelperStores(h)
Front == PollStarts \/ PollEnds \/ ReadField \/ ReadFails \/ Destroy \/ Destroyed

Next ==
    \/ \E t \in Thread : Continue(t) \/ \E k \in Kind : Begin(t, k)
    \/ \E v \in VM : Resume(v)
    \/ Close
    \/ \E h \in Helper : HelperStep(h)
    \/ Front
    \/ UserStop

Spec == Init /\ [][Next]_vars

\* Threads that have begun an event go on with it, helper threads run, and the
\* adapter polls in a loop.
FairSpec ==
    /\ Spec
    /\ \A t \in Thread : WF_vars(Continue(t))
    /\ \A h \in Helper : WF_vars(HelperStep(h))
    /\ WF_vars(Front)

-----------------------------------------------------------------------------
(* What the channel promises.                                              *)

Stream == INSTANCE EventStream WITH Event <- Kinds

\* The channel is a stream of whole events: the adapter takes every event as it
\* was sent and in the order in which they were begun, however the threads write,
\* the helper threads read and the polls fall, until the first event is torn.
\* The code lets an event be torn in two ways: a field of another event is written
\* in the middle of it and one of the two is written outside m_criticalSection
\* (wire_answer, wire_exception); and the first id is dropped, if m_result happens
\* to be FALSE before it is assigned and the poll falls between the two stores of
\* the first helper thread (wire_uninit).
Implements == Stream!Init /\ [][torn' \/ Stream!Next]_<<sent, handled>>

\* The adapter never takes a field of one event for a field of another, nor a
\* rest of a field for a field, unless an event has been torn.
InStep == front = "astray" => torn

\* The same without the exception: what the code does not keep.
NeverAstray == front # "astray"

\* Every event that is begun is handled, unless the process or the session ends
\* first or an event has been torn: once m_result has been assigned no id is lost
\* between the two stores of a helper thread and the poll, and no poll is given up
\* while the process lives.
EventsArrive ==
    \A n \in 1..MaxEvents :
        (Len(sent) >= n) ~> (Len(handled) >= n \/ ~open \/ front # "up" \/ torn)

\* When the process is gone the adapter notices, also if it happened in the
\* middle of an event or of a poll, and also after an event was torn, unless that
\* has led it astray.
DisconnectNoticed == ~open ~> (front # "up" /\ (front = "astray" => torn))

\* Stopping does not wait for a helper thread that waits for an event.
StopEnds == (front = "stopped") ~> (front = "closed")

=============================================================================
