--------------------------- MODULE Variables_proofs ---------------------------
(***************************************************************************)
(* Theorems about Variables: what is shown is what was asked for, and the  *)
(* two sides mean the same by the number of a table, for any stack, tables *)
(* and number of stops and requests, while one state is stopped at a time. *)
(***************************************************************************)
EXTENDS Variables, FiniteSetTheorems, SequenceTheorems, TLAPS

-----------------------------------------------------------------------------
(* Hypotheses on the constants.                                            *)

\* The numbers of tables stay below the fresh ids.
FewTables == IsFiniteSet(Table) /\ Cardinality(Table) < 2 ^ 16

\* A frame is found again by its id: one native frame stands for each C function
\* below it, and the level has room in the id.
FramesFit == \A l \in LuaLevel : FrameIndex(l) = l /\ l < FrameLimit

-----------------------------------------------------------------------------
(* The invariant.                                                          *)

Number16 == 1 .. Cardinality(Table)
Child    == [ref : Number16, table : Table]
LevelSent == {LevelOf(FrameId(v, l)) : v \in VM, l \in LuaLevel} \cup {0}

ExpandCmd   == [kind : {"expand"}, seq : Nat, vm : VM, level : LevelSent,
                scope : Scope \cup {0}, ref : Nat]
EvaluateCmd == [kind : {"evaluate"}, seq : Nat, vm : VM, level : LevelSent, table : Table]
ContinueCmd == [kind : {"continue"}, vm : VM]
Cmd         == ExpandCmd \cup EvaluateCmd \cup ContinueCmd

BreakEvent    == [kind : {"break"}, vm : VM]
ExpandEvent   == [kind : {"expandRet"}, seq : Nat, vm : VM, ref : Nat,
                  of : Object \cup {Failed}, children : SUBSET Child]
EvaluateEvent == [kind : {"evaluateRet"}, seq : Nat, vm : VM,
                  of : Object \cup {Failed}, children : SUBSET Child]
Evt           == BreakEvent \cup ExpandEvent \cup EvaluateEvent

Known == [vm : VM, level : LevelSent, scope : Scope \cup {0},
          value : Object \cup {Nothing}, children : SUBSET Child]

CacheOK == /\ phase \in [VM -> {"run", "stopped", "clear"}]
           /\ cache \in [VM -> Seq(Table)]
           /\ \A v \in VM : IsInjective(cache[v])
PipesOK == commands \in Seq(Cmd) /\ events \in Seq(Evt)
KnownOK(vs) == /\ DOMAIN vs \subseteq Nat
               /\ \A r \in DOMAIN vs : vs[r] \in Known /\ (vs[r].scope = 0 <=> r < 2 ^ 16)
FrontOK == /\ stackTrace \in SUBSET VM /\ id \in Nat
           /\ KnownOK(variables)
           /\ tree \in SUBSET [ref : Nat, of : Object]
EditorOK == /\ asked \in Seq(Object) /\ answer \in Seq(Object \cup {Nothing, Failed})
            /\ Len(asked) = Len(answer) /\ Len(asked) <= MaxRequests /\ stops <= MaxStops
            /\ stops \in Nat
Typed == CacheOK /\ PipesOK /\ FrontOK /\ EditorOK

\* A state that is stopped: the report of its stop is under way, or it is shown, or
\* its resume is under way.  One at a time; the report and the resume are the last
\* entries of their pipes, and what is before a resume is for the same state.
OneStopped == \A v, w \in VM : phase[v] = "stopped" /\ phase[w] = "stopped" => v = w
ShownStopped == \A v \in stackTrace : phase[v] = "stopped"
CommandsStopped == \A c \in Range(commands) : phase[c.vm] = "stopped"
ContinueLast == \A i \in DOMAIN commands :
                    commands[i].kind = "continue" => i = Len(commands) /\ stackTrace = {}
BreakLast == \A i \in DOMAIN events :
                 events[i].kind = "break" =>
                     /\ i = Len(events) /\ phase[events[i].vm] = "stopped"
                     /\ stackTrace = {} /\ commands = <<>>
InOrder == OneStopped /\ ShownStopped /\ CommandsStopped /\ ContinueLast /\ BreakLast

\* What a reference stands for during a stop: in the adapter, and in the cache.
Stands(r, o) ==
    /\ r \in DOMAIN variables
    /\ variables[r].vm = o.vm /\ variables[r].scope = o.scope
    /\ IF o.scope = 0 THEN r \in DOMAIN cache[o.vm] /\ cache[o.vm][r] = o.table
                      ELSE variables[r].level = o.level
\* Tables of an answer have the numbers of the cache.
Cached(v, children) ==
    \A c \in children : c.ref \in DOMAIN cache[v] /\ cache[v][c.ref] = c.table

TreeStands == \A n \in tree : n.of.vm \in stackTrace /\ Stands(n.ref, n.of)

\* All that is known is of the state that is shown; the next fresh reference is not.
VariableStands(v, r) ==
    /\ variables[r].vm = v /\ r < (id + 1) * 2 ^ 16
    /\ variables[r].value # Nothing => Stands(r, variables[r].value)
    /\ \A c \in variables[r].children : Stands(c.ref, TableOf(v, c.table))
VariablesStand == \A v \in stackTrace : \A r \in DOMAIN variables : VariableStands(v, r)

\* An answer is about what was asked, and while its stop lasts in the terms of both sides.
EventStands(e) ==
    e.kind # "break" =>
        /\ e.seq \in DOMAIN asked /\ e.of = asked[e.seq] /\ e.of.vm = e.vm
        /\ \A v \in stackTrace : /\ e.vm = v /\ Cached(v, e.children)
                                 /\ e.kind = "expandRet" => Stands(e.ref, e.of)
EventsStand == \A e \in Range(events) : EventStands(e)

\* A command finds what it was sent for.
CommandStands(c) ==
    /\ c.kind = "expand" =>
           /\ c.seq \in DOMAIN asked /\ Target(c) = asked[c.seq]
           /\ \A v \in stackTrace : Stands(c.ref, asked[c.seq])
    /\ c.kind = "evaluate" =>
           /\ c.seq \in DOMAIN asked /\ asked[c.seq] = TableOf(c.vm, c.table)
           /\ c.level \in LuaLevel /\ c.table \in InFrame[c.level]
CommandsStand == \A c \in Range(commands) : CommandStands(c)

\* What every stop and every answer leaves true.
StandInv == /\ InOrder /\ TreeStands /\ VariablesStand /\ EventsStand /\ CommandsStand
            /\ ShownIsAsked

USE VariablesAssumption

-----------------------------------------------------------------------------
(* What the helpers of the model give.                                     *)

\* A finite set is listed without repetition.
LEMMA ListedOnce ==
    ASSUME NEW S, IsFiniteSet(S)
    PROVE  /\ SetToSeq(S) \in Seq(S) /\ IsInjective(SetToSeq(S))
           /\ \A x \in S : \E i \in DOMAIN SetToSeq(S) : SetToSeq(S)[i] = x
<1> DEFINE n == Cardinality(S)
<1>1. n \in Nat /\ ExistsBijection(1 .. n, S)
  BY FS_CardinalityType
<1>2. \E f \in [1 .. n -> S] : IsInjective(f)
  BY <1>1 DEF ExistsBijection, Bijection, Injection
<1>3. SetToSeq(S) \in [1 .. n -> S] /\ IsInjective(SetToSeq(S))
  BY <1>2 DEF SetToSeq
<1>4. PICK f : f = SetToSeq(S)
  OBVIOUS
<1>5. f \in Injection(1 .. n, S)
  BY <1>3, <1>4 DEF Injection
<1>6. IsFiniteSet(1 .. n) /\ Cardinality(1 .. n) = n
  BY <1>1, FS_Interval
<1>7. f \in Surjection(1 .. n, S)
  BY <1>5, <1>6, FS_Injection
<1>8. \A x \in S : \E i \in 1 .. n : f[i] = x
  BY <1>7 DEF Surjection
<1>9. f \in Seq(S) /\ DOMAIN f = 1 .. n
  <2>1. PICK m \in Nat : m = n
    BY <1>1
  <2>2. f \in [1 .. m -> S]
    BY <1>3, <1>4, <2>1
  <2>3. f \in Seq(S) /\ DOMAIN f = 1 .. m
    BY <2>2
  <2> QED
    BY <2>1, <2>3
<1> QED
  BY <1>3, <1>4, <1>8, <1>9

\* A state has at most as many numbers as tables.
LEMMA NumbersFew ==
    ASSUME FewTables, NEW c \in Seq(Table), IsInjective(c)
    PROVE  DOMAIN c \subseteq Number16
<1>1. Len(c) \in Nat /\ c \in [1 .. Len(c) -> Table] /\ DOMAIN c = 1 .. Len(c)
  BY LenProperties
<1>2. c \in Injection(1 .. Len(c), Table)
  BY <1>1 DEF Injection
<1>3. Cardinality(1 .. Len(c)) <= Cardinality(Table)
  BY <1>2, FS_Injection DEF FewTables
<1>4. Cardinality(1 .. Len(c)) = Len(c)
  <2>1. PICK n \in Nat : n = Len(c)
    BY <1>1
  <2>2. Cardinality(1 .. n) = n
    BY FS_Interval
  <2> QED
    BY <2>1, <2>2
<1>5. Cardinality(Table) \in Nat
  BY FS_CardinalityType DEF FewTables
<1> QED
  BY <1>1, <1>3, <1>4, <1>5 DEF Number16

\* The tables that are cached already keep their numbers, the others get new ones.
LEMMA CacheAllIs ==
    ASSUME FewTables, NEW c \in Seq(Table), IsInjective(c), NEW ts \in SUBSET Table
    PROVE  /\ CacheAll(c, ts) \in Seq(Table) /\ IsInjective(CacheAll(c, ts))
           /\ \A i \in DOMAIN c : i \in DOMAIN CacheAll(c, ts) /\ CacheAll(c, ts)[i] = c[i]
           /\ \A t \in ts : \E i \in DOMAIN CacheAll(c, ts) : CacheAll(c, ts)[i] = t
<1> DEFINE more == ts \ Range(c)
<1>1. IsFiniteSet(more)
  BY FS_Subset, more \in SUBSET Table DEF FewTables
<1>2. PICK s : s = SetToSeq(more)
  OBVIOUS
<1>3. /\ s \in Seq(more) /\ IsInjective(s)
      /\ \A x \in more : \E i \in DOMAIN s : s[i] = x
  BY <1>1, <1>2, ListedOnce
<1>4. s \in Seq(Table)
  BY <1>3, SeqMonotonic, more \subseteq Table
<1>5. PICK d : d = c \o s
  OBVIOUS
<1>6. /\ d \in Seq(Table) /\ Len(d) = Len(c) + Len(s)
      /\ \A i \in 1 .. Len(c) + Len(s) : d[i] = IF i <= Len(c) THEN c[i] ELSE s[i - Len(c)]
  BY <1>4, <1>5, ConcatProperties
<1>7. /\ Len(c) \in Nat /\ DOMAIN c = 1 .. Len(c) /\ Len(s) \in Nat /\ DOMAIN s = 1 .. Len(s)
      /\ Len(d) \in Nat /\ DOMAIN d = 1 .. Len(d)
  BY <1>4, <1>6, LenProperties
<1>8. \A i \in DOMAIN c : i \in DOMAIN d /\ d[i] = c[i]
  BY <1>6, <1>7
<1>9. \A i \in DOMAIN s : i + Len(c) \in DOMAIN d /\ d[i + Len(c)] = s[i]
  BY <1>6, <1>7
<1>10. \A i \in DOMAIN s : s[i] \in more
  BY <1>3, <1>7, ElementOfSeq
<1>11. \A i \in DOMAIN c, j \in DOMAIN s : c[i] # s[j]
  BY <1>10 DEF Range
<1>a. \A i \in DOMAIN d : i <= Len(c) => i \in DOMAIN c /\ d[i] = c[i]
  BY <1>6, <1>7
<1>b. \A i \in DOMAIN d : ~(i <= Len(c)) => i - Len(c) \in DOMAIN s /\ d[i] = s[i - Len(c)]
  BY <1>6, <1>7
<1>12. IsInjective(d)
  <2> SUFFICES ASSUME NEW i \in DOMAIN d, NEW j \in DOMAIN d, d[i] = d[j]
               PROVE  i = j
    BY DEF IsInjective
  <2>1. CASE i <= Len(c) /\ j <= Len(c)
    BY <2>1, <1>a DEF IsInjective
  <2>2. CASE i <= Len(c) /\ ~(j <= Len(c))
    BY <2>2, <1>a, <1>b, <1>11
  <2>3. CASE ~(i <= Len(c)) /\ j <= Len(c)
    BY <2>3, <1>a, <1>b, <1>11
  <2>4. CASE ~(i <= Len(c)) /\ ~(j <= Len(c))
    <3>1. /\ i - Len(c) \in DOMAIN s /\ j - Len(c) \in DOMAIN s
          /\ s[i - Len(c)] = s[j - Len(c)]
      BY <2>4, <1>b
    <3>2. i - Len(c) = j - Len(c)
      BY <3>1, <1>3 DEF IsInjective
    <3> QED
      BY <3>2, <1>7
  <2> QED
    BY <2>1, <2>2, <2>3, <2>4
<1>13. \A t \in ts : \E i \in DOMAIN d : d[i] = t
  <2> SUFFICES ASSUME NEW t \in ts
               PROVE  \E i \in DOMAIN d : d[i] = t
    OBVIOUS
  <2>1. CASE t \in Range(c)
    BY <2>1, <1>8 DEF Range
  <2>2. CASE t \in more
    <3>1. PICK i \in DOMAIN s : s[i] = t
      BY <2>2, <1>3
    <3> QED
      BY <3>1, <1>9
  <2> QED
    BY <2>1, <2>2
<1>14. CacheAll(c, ts) = d
  BY <1>2, <1>5 DEF CacheAll
<1> QED
  BY <1>6, <1>8, <1>12, <1>13, <1>14

\* The tables of an answer have the numbers of the cache they were taken from.
LEMMA ChildrenAre ==
    ASSUME FewTables, NEW c \in Seq(Table), IsInjective(c), NEW ts \in SUBSET Table,
           \A t \in ts : \E i \in DOMAIN c : c[i] = t
    PROVE  /\ Children(c, ts) \in SUBSET Child
           /\ \A k \in Children(c, ts) : k.ref \in DOMAIN c /\ c[k.ref] = k.table
<1>1. \A t \in ts : Reference(c, t) \in DOMAIN c /\ c[Reference(c, t)] = t
  BY DEF Reference
<1>2. DOMAIN c \subseteq Number16
  BY NumbersFew
<1> QED
  BY <1>1, <1>2 DEF Children, Child

\* References that are created are known as such, the others as before.
LEMMA CreatedIs ==
    ASSUME NEW vs, NEW refs, NEW v, NEW l, NEW s
    PROVE  /\ DOMAIN Created(vs, refs, v, l, s) = refs \cup DOMAIN vs
           /\ \A r \in refs : Created(vs, refs, v, l, s)[r] =
                  [vm |-> v, level |-> l, scope |-> s, value |-> Nothing, children |-> {}]
           /\ \A r \in DOMAIN vs \ refs : Created(vs, refs, v, l, s)[r] = vs[r]
BY DEF Created

\* A frame is found again by its id.
LEMMA FrameFound ==
    ASSUME FramesFit, NEW v \in VM, NEW l \in LuaLevel
    PROVE  ThreadOf(FrameId(v, l)) = v /\ LevelOf(FrameId(v, l)) = l
<1>1. FrameIndex(l) = l /\ l < FrameLimit /\ l \in Nat /\ v \in Nat
  BY DEF FramesFit, LuaLevel, Level
<1>2. \A M \in Nat \ {0}, a \in Nat, b \in Nat :
          b < M => (a * M + b) \div M = a /\ (a * M + b) % M = b
  OBVIOUS
<1>3. (v * FrameLimit + l) \div FrameLimit = v /\ (v * FrameLimit + l) % FrameLimit = l
  BY <1>1, <1>2
<1> QED
  BY <1>1, <1>3 DEF ThreadOf, LevelOf, FrameId

-----------------------------------------------------------------------------
(* Types.                                                                  *)

LEMMA ObjectIs ==
    ASSUME NEW o \in Object
    PROVE  /\ o.vm \in VM /\ Inside(o) \in SUBSET Table
           /\ o.scope = 0 => o.table \in Table /\ o = TableOf(o.vm, o.table)
           /\ o.scope # 0 => /\ o.scope \in Scope /\ o.level \in Level
                             /\ o = ScopeOf(o.vm, o.level, o.scope)
<1>1. CASE \E v \in VM, l \in Level, s \in Scope : o = ScopeOf(v, l, s)
  BY <1>1 DEF ScopeOf, Inside, Scope
<1>2. CASE \E v \in VM, t \in Table : o = TableOf(v, t)
  BY <1>2 DEF TableOf, Inside
<1> QED
  BY <1>1, <1>2 DEF Object

LEMMA FailedIsNone ==
    /\ Failed \notin Object /\ Nothing \notin Object /\ Failed # Nothing
    /\ Failed.vm \notin VM /\ Nothing.vm \notin VM
<1>1. Nothing.vm = 0 /\ Nothing.scope = 0
  BY DEF Nothing, TableOf
<1>2. Failed.vm = 0 /\ Failed.scope = 1
  BY DEF Failed, Nothing, TableOf
<1>3. \A o \in Object : o.vm \in VM
  BY ObjectIs
<1> QED
  BY <1>1, <1>2, <1>3

LEMMA ObjectTable ==
    ASSUME NEW v \in VM, NEW t \in Table
    PROVE  TableOf(v, t) \in Object /\ TableOf(v, t).vm = v
           /\ TableOf(v, t).scope = 0 /\ TableOf(v, t).table = t
<1>1. TableOf(v, t) \in Object
  BY DEF Object
<1> QED
  BY <1>1 DEF TableOf

LEMMA ObjectScope ==
    ASSUME NEW v \in VM, NEW l \in Level, NEW s \in Scope
    PROVE  ScopeOf(v, l, s) \in Object /\ ScopeOf(v, l, s).vm = v
           /\ ScopeOf(v, l, s).scope = s /\ ScopeOf(v, l, s).level = l
<1>1. ScopeOf(v, l, s) \in Object
  BY DEF Object
<1> QED
  BY <1>1 DEF ScopeOf

LEMMA CmdKinds ==
    ASSUME NEW c \in Cmd
    PROVE  /\ c.vm \in VM
           /\ c.kind = "expand" => c \in ExpandCmd
           /\ c.kind = "evaluate" => c \in EvaluateCmd
           /\ c.kind = "continue" => c \in ContinueCmd
BY DEF Cmd, ExpandCmd, EvaluateCmd, ContinueCmd

LEMMA EvtKinds ==
    ASSUME NEW e \in Evt
    PROVE  /\ e.vm \in VM
           /\ e.kind = "break" => e \in BreakEvent
           /\ e.kind = "expandRet" => e \in ExpandEvent
           /\ e.kind = "evaluateRet" => e \in EvaluateEvent
BY DEF Evt, BreakEvent, ExpandEvent, EvaluateEvent

LEMMA Taken ==
    ASSUME NEW S, NEW q \in Seq(S), q # <<>>
    PROVE  Head(q) \in S /\ Tail(q) \in Seq(S)
BY HeadTailProperties

LEMMA Put ==
    ASSUME NEW S, NEW q \in Seq(S), NEW x \in S
    PROVE  Append(q, x) \in Seq(S)
BY AppendProperties

LEMMA CreatedOK ==
    ASSUME NEW vs, KnownOK(vs), NEW refs \in SUBSET Nat, NEW v \in VM, NEW l \in LevelSent,
           NEW s \in Scope \cup {0}, \A r \in refs : s = 0 <=> r < 2 ^ 16
    PROVE  KnownOK(Created(vs, refs, v, l, s))
<1> DEFINE new == [vm |-> v, level |-> l, scope |-> s, value |-> Nothing, children |-> {}]
<1>1. new \in Known /\ new.scope = s
  BY DEF Known
<1>2. PICK ws : ws = Created(vs, refs, v, l, s)
  OBVIOUS
<1>4. /\ DOMAIN Created(vs, refs, v, l, s) = refs \cup DOMAIN vs
      /\ \A r \in refs : Created(vs, refs, v, l, s)[r] = new
      /\ \A r \in DOMAIN vs \ refs : Created(vs, refs, v, l, s)[r] = vs[r]
  BY DEF Created
<1>3. /\ DOMAIN ws = refs \cup DOMAIN vs
      /\ \A r \in refs : ws[r] = new
      /\ \A r \in DOMAIN vs \ refs : ws[r] = vs[r]
  BY <1>2, <1>4
<1> HIDE DEF new
<1> QED
  BY <1>1, <1>2, <1>3 DEF KnownOK

LEMMA ChildRefs ==
    ASSUME FewTables, NEW children \in SUBSET Child, NEW refs, refs = {c.ref : c \in children}
    PROVE  refs \in SUBSET Nat /\ \A r \in refs : r < 2 ^ 16
<1>1. Cardinality(Table) \in Nat /\ Cardinality(Table) < 2 ^ 16
  BY FS_CardinalityType DEF FewTables
<1> QED
  BY <1>1 DEF Child, Number16

LEMMA LearnedOK ==
    ASSUME FrontOK, FewTables, NEW o \in Object \cup {Nothing, Failed}, NEW children \in SUBSET Child
    PROVE  Learned(o, children) \in SUBSET [ref : Nat, of : Object]
<1>1. Cardinality(Table) \in Nat
  BY FS_CardinalityType DEF FewTables
<1>2. \A c \in children : c.ref \in Nat /\ c.table \in Table
  BY <1>1 DEF Child, Number16
<1>3. o.vm \in stackTrace => \A c \in children : TableOf(o.vm, c.table) \in Object
  BY <1>2, ObjectTable DEF FrontOK
<1> QED
  BY <1>2, <1>3 DEF Learned, FrontOK

LEMMA AskOK ==
    ASSUME EditorOK, NEW o \in Object, NEW shown \in Object \cup {Nothing, Failed}, Ask(o, shown),
           UNCHANGED stops
    PROVE  EditorOK'
<1>1. asked' \in Seq(Object) /\ Len(asked') = Len(asked) + 1
  BY AppendProperties DEF EditorOK, Ask
<1>2. answer' \in Seq(Object \cup {Nothing, Failed}) /\ Len(answer') = Len(answer) + 1
  BY AppendProperties DEF EditorOK, Ask
<1>3. Len(asked) \in Nat /\ Len(answer) \in Nat
  BY LenProperties DEF EditorOK
<1> QED
  BY <1>1, <1>2, <1>3 DEF EditorOK, Ask

LEMMA AnswerOK ==
    ASSUME EditorOK, NEW i, NEW shown \in Object \cup {Nothing, Failed},
           answer' = [answer EXCEPT ![i] = shown], UNCHANGED <<asked, stops>>
    PROVE  EditorOK'
<1> DEFINE S == Object \cup {Nothing, Failed}
<1>1. answer \in Seq(S)
  BY DEF EditorOK
<1>2. answer' \in Seq(S) /\ Len(answer') = Len(answer)
  <2>1. CASE i \in 1 .. Len(answer)
    BY <1>1, <2>1, ExceptSeq
  <2>2. CASE i \notin 1 .. Len(answer)
    <3>1. answer \in [1 .. Len(answer) -> S]
      BY <1>1, LenProperties
    <3>2. answer' = answer
      BY <2>2, <3>1
    <3> QED
      BY <3>2, <1>1
  <2> QED
    BY <2>1, <2>2
<1> QED
  BY <1>2 DEF EditorOK

LEMMA TargetOK ==
    ASSUME CacheOK, NEW c \in ExpandCmd
    PROVE  Target(c) \in Object \cup {Failed}
<1>1. c.vm \in VM /\ c.scope \in Scope \cup {0}
  BY DEF ExpandCmd
<1>2. c.ref \in DOMAIN cache[c.vm] => cache[c.vm][c.ref] \in Table
  <2>1. cache[c.vm] \in Seq(Table)
    BY <1>1 DEF CacheOK
  <2> QED
    BY <2>1
<1>3. c.scope # 0 /\ c.level \in Level => ScopeOf(c.vm, c.level, c.scope) \in Object
  BY <1>1, ObjectScope
<1>4. c.ref \in DOMAIN cache[c.vm] => TableOf(c.vm, cache[c.vm][c.ref]) \in Object
  BY <1>1, <1>2, ObjectTable
<1> QED
  BY <1>3, <1>4 DEF Target

LEMMA SameCache == ASSUME CacheOK, UNCHANGED <<phase, cache>> PROVE CacheOK'
BY DEF CacheOK
LEMMA SamePipes == ASSUME PipesOK, UNCHANGED <<commands, events>> PROVE PipesOK'
BY DEF PipesOK
LEMMA SameFront == ASSUME FrontOK, UNCHANGED <<stackTrace, variables, id, tree>> PROVE FrontOK'
BY DEF FrontOK
LEMMA SameEditor == ASSUME EditorOK, UNCHANGED <<asked, answer, stops>> PROVE EditorOK'
BY DEF EditorOK

LEMMA InitTyped == Init => Typed
<1> SUFFICES ASSUME Init PROVE Typed
  OBVIOUS
<1>1. CacheOK
  <2>1. \A v \in VM : cache[v] \in Seq(Table) /\ DOMAIN cache[v] = {}
    BY EmptySeq DEF Init
  <2> QED
    BY <2>1, EmptySeq DEF Init, CacheOK, IsInjective
<1>2. PipesOK
  BY EmptySeq DEF Init, PipesOK
<1>3. FrontOK
  BY DEF Init, FrontOK, KnownOK
<1>4. EditorOK
  BY EmptySeq DEF Init, EditorOK
<1> QED
  BY <1>1, <1>2, <1>3, <1>4 DEF Typed

\* A step caches tables of a state.
Caching(v, ts, cached) ==
    /\ cached = CacheAll(cache[v], ts)
    /\ cache' = [cache EXCEPT ![v] = cached] /\ UNCHANGED phase

LEMMA CacheStep ==
    ASSUME FewTables, CacheOK, NEW v \in VM, NEW ts \in SUBSET Table, NEW cached,
           Caching(v, ts, cached)
    PROVE  /\ CacheOK' /\ Children(cached, ts) \in SUBSET Child
           /\ \A i \in DOMAIN cache[v] : i \in DOMAIN cached /\ cached[i] = cache[v][i]
           /\ \A k \in Children(cached, ts) : k.ref \in DOMAIN cached /\ cached[k.ref] = k.table
           /\ cache'[v] = cached
           /\ \A w \in VM : w # v => cache'[w] = cache[w]
<1>1. PICK c \in Seq(Table) : c = cache[v] /\ IsInjective(c)
  BY DEF CacheOK
<1>2. /\ CacheAll(c, ts) \in Seq(Table) /\ IsInjective(CacheAll(c, ts))
      /\ \A i \in DOMAIN c : i \in DOMAIN CacheAll(c, ts) /\ CacheAll(c, ts)[i] = c[i]
      /\ \A t \in ts : \E i \in DOMAIN CacheAll(c, ts) : CacheAll(c, ts)[i] = t
  BY <1>1, CacheAllIs
<1>3. /\ cached \in Seq(Table) /\ IsInjective(cached)
      /\ \A i \in DOMAIN cache[v] : i \in DOMAIN cached /\ cached[i] = cache[v][i]
      /\ \A t \in ts : \E i \in DOMAIN cached : cached[i] = t
  BY <1>1, <1>2 DEF Caching
<1>4. /\ cache'[v] = cached
      /\ \A w \in VM : w # v => cache'[w] = cache[w]
  BY DEF CacheOK, Caching
<1>5. CacheOK'
  BY <1>3 DEF CacheOK, Caching
<1>6. PICK d \in Seq(Table) : d = cached
  BY <1>3
<1>7. IsInjective(d) /\ \A t \in ts : \E i \in DOMAIN d : d[i] = t
  BY <1>3, <1>6
<1>8. /\ Children(d, ts) \in SUBSET Child
      /\ \A k \in Children(d, ts) : k.ref \in DOMAIN d /\ d[k.ref] = k.table
  BY <1>7, ChildrenAre
<1>9. /\ Children(cached, ts) \in SUBSET Child
      /\ \A k \in Children(cached, ts) : k.ref \in DOMAIN cached /\ cached[k.ref] = k.table
  BY <1>6, <1>8
<1> QED
  BY <1>3, <1>4, <1>5, <1>9

LEMMA TypedStop == ASSUME Typed, NEW v \in VM, Stop(v) PROVE Typed'
<1> USE DEF Typed
<1>1. CacheOK'
  BY DEF Stop, CacheOK
<1>2. PipesOK'
  <2>1. [kind |-> "break", vm |-> v] \in Evt
    BY DEF Evt, BreakEvent
  <2> QED
    BY <2>1, Put DEF Stop, PipesOK
<1>3. FrontOK'
  BY SameFront DEF Stop, adapter, editor
<1>4. EditorOK'
  BY DEF Stop, editor, EditorOK
<1> QED
  BY <1>1, <1>2, <1>3, <1>4

LEMMA TypedClear == ASSUME Typed, NEW v \in VM, Clear(v) PROVE Typed'
<1> USE DEF Typed
<1>1. CacheOK'
  <2>1. <<>> \in Seq(Table) /\ DOMAIN << >> = {}
    BY EmptySeq
  <2> QED
    BY <2>1 DEF Clear, CacheOK, IsInjective
<1>2. PipesOK' /\ FrontOK' /\ EditorOK'
  BY SamePipes, SameFront, SameEditor DEF Clear, adapter, editor
<1> QED
  BY <1>1, <1>2

LEMMA TypedCmdContinue == ASSUME Typed, CmdContinue PROVE Typed'
<1> USE DEF Typed
<1>1. Command \in Cmd /\ Tail(commands) \in Seq(Cmd)
  BY Taken DEF CmdContinue, Executed, Command, PipesOK
<1>2. CacheOK'
  BY DEF CmdContinue, CacheOK
<1>3. PipesOK'
  BY <1>1 DEF CmdContinue, Executed, PipesOK
<1>4. FrontOK' /\ EditorOK'
  BY SameFront, SameEditor DEF CmdContinue, adapter, editor
<1> QED
  BY <1>2, <1>3, <1>4

LEMMA TypedCmdExpand == ASSUME FewTables, Typed, CmdExpand PROVE Typed'
<1> USE DEF Typed
<1>1. Command \in ExpandCmd /\ Tail(commands) \in Seq(Cmd)
  BY Taken, CmdKinds DEF CmdExpand, Executed, Command, PipesOK
<1>2. PICK c : c = Command
  OBVIOUS
<1>3. PICK target : target = Target(c)
  OBVIOUS
<1>4. PICK ts : ts = IF target = Failed THEN {} ELSE Inside(target)
  OBVIOUS
<1>5. PICK cached : cached = CacheAll(cache[c.vm], ts)
  OBVIOUS
<1>6. c \in ExpandCmd /\ c.vm \in VM /\ c.seq \in Nat /\ c.ref \in Nat
  BY <1>1, <1>2 DEF ExpandCmd
<1>7. target \in Object \cup {Failed} /\ ts \in SUBSET Table
  BY <1>3, <1>4, <1>6, TargetOK, ObjectIs
<1>8. /\ cache' = [cache EXCEPT ![c.vm] = cached]
      /\ events' = Append(events,
             [kind |-> "expandRet", seq |-> c.seq, vm |-> c.vm, ref |-> c.ref,
              of |-> target, children |-> Children(cached, ts)])
      /\ UNCHANGED phase /\ commands' = Tail(commands)
  BY <1>2, <1>3, <1>4, <1>5 DEF CmdExpand, Executed
<1>9. CacheOK' /\ Children(cached, ts) \in SUBSET Child
  <2>1. Caching(c.vm, ts, cached)
    BY <1>5, <1>8 DEF Caching
  <2> QED
    BY <1>6, <1>7, <2>1, CacheStep
<1>10. PipesOK'
  <2>1. [kind |-> "expandRet", seq |-> c.seq, vm |-> c.vm, ref |-> c.ref,
         of |-> target, children |-> Children(cached, ts)] \in Evt
    BY <1>6, <1>7, <1>9 DEF Evt, ExpandEvent
  <2> QED
    BY <1>1, <1>8, <2>1, Put DEF PipesOK
<1>11. FrontOK' /\ EditorOK'
  BY SameFront, SameEditor DEF CmdExpand, adapter, editor
<1> QED
  BY <1>9, <1>10, <1>11

LEMMA TypedCmdEvaluate == ASSUME FewTables, Typed, CmdEvaluate PROVE Typed'
<1> USE DEF Typed
<1>1. Command \in EvaluateCmd /\ Tail(commands) \in Seq(Cmd)
  BY Taken, CmdKinds DEF CmdEvaluate, Executed, Command, PipesOK
<1>2. PICK c : c = Command
  OBVIOUS
<1>3. PICK ts : ts = IF c.level \in LuaLevel /\ c.table \in InFrame[c.level] THEN {c.table} ELSE {}
  OBVIOUS
<1>4. PICK of : of = IF c.level \in LuaLevel /\ c.table \in InFrame[c.level]
                     THEN TableOf(c.vm, c.table) ELSE Failed
  OBVIOUS
<1>5. PICK cached : cached = CacheAll(cache[c.vm], ts)
  OBVIOUS
<1>6. c.vm \in VM /\ c.seq \in Nat /\ c.table \in Table
  BY <1>1, <1>2 DEF EvaluateCmd
<1>7. of \in Object \cup {Failed} /\ ts \in SUBSET Table
  BY <1>3, <1>4, <1>6, ObjectTable
<1>8. /\ cache' = [cache EXCEPT ![c.vm] = cached]
      /\ events' = Append(events,
             [kind |-> "evaluateRet", seq |-> c.seq, vm |-> c.vm,
              of |-> of, children |-> Children(cached, ts)])
      /\ UNCHANGED phase /\ commands' = Tail(commands)
  BY <1>2, <1>3, <1>4, <1>5 DEF CmdEvaluate, Executed
<1>9. CacheOK' /\ Children(cached, ts) \in SUBSET Child
  <2>1. Caching(c.vm, ts, cached)
    BY <1>5, <1>8 DEF Caching
  <2> QED
    BY <1>6, <1>7, <2>1, CacheStep
<1>10. PipesOK'
  <2>1. [kind |-> "evaluateRet", seq |-> c.seq, vm |-> c.vm,
         of |-> of, children |-> Children(cached, ts)] \in Evt
    BY <1>6, <1>7, <1>9 DEF Evt, EvaluateEvent
  <2> QED
    BY <1>1, <1>8, <2>1, Put DEF PipesOK
<1>11. FrontOK' /\ EditorOK'
  BY SameFront, SameEditor DEF CmdEvaluate, adapter, editor
<1> QED
  BY <1>9, <1>10, <1>11

LEMMA TypedFrontBreak == ASSUME Typed, FrontBreak PROVE Typed'
<1> USE DEF Typed
<1>1. Event \in Evt /\ Tail(events) \in Seq(Evt)
  BY Taken DEF FrontBreak, Handled, Event, PipesOK
<1>2. PipesOK'
  BY <1>1 DEF FrontBreak, Handled, PipesOK
<1>3. FrontOK'
  <2>1. PICK e \in Evt : e = Event
    BY <1>1
  <2>2. /\ stackTrace' = stackTrace \cup {e.vm} /\ variables' = <<>> /\ id' = 0
        /\ UNCHANGED tree
    BY <2>1 DEF FrontBreak, editor
  <2>3. e.vm \in VM
    BY EvtKinds
  <2>4. DOMAIN variables' = {}
    BY <2>2, EmptySeq
  <2> QED
    BY <2>2, <2>3, <2>4 DEF FrontOK, KnownOK
<1>4. CacheOK' /\ EditorOK'
  BY SameCache, SameEditor DEF FrontBreak, backend, editor
<1> QED
  BY <1>2, <1>3, <1>4

LEMMA TypedFrontEvaluateRet == ASSUME FewTables, Typed, FrontEvaluateRet PROVE Typed'
<1> USE DEF Typed
<1>1. Event \in EvaluateEvent /\ Tail(events) \in Seq(Evt)
  BY Taken, EvtKinds DEF FrontEvaluateRet, Handled, Event, PipesOK
<1>2. PICK e : e = Event
  OBVIOUS
<1>3. e.vm \in VM /\ e.of \in Object \cup {Failed} /\ e.children \in SUBSET Child
  BY <1>1, <1>2 DEF EvaluateEvent
<1>4. PICK refs : refs = {c.ref : c \in e.children}
  OBVIOUS
<1>5. /\ events' = Tail(events) /\ variables' = Created(variables, refs, e.vm, 0, 0)
      /\ answer' = [answer EXCEPT ![e.seq] = e.of] /\ tree' = Learned(e.of, e.children)
      /\ UNCHANGED <<phase, cache, commands, stackTrace, id, asked, stops>>
  BY <1>2, <1>4 DEF FrontEvaluateRet, Handled, backend
<1>6. PipesOK'
  BY <1>1, <1>5 DEF PipesOK
<1>7. refs \in SUBSET Nat /\ \A r \in refs : r < 2 ^ 16
  <2>1. PICK children \in SUBSET Child : children = e.children
    BY <1>3
  <2>2. refs = {c.ref : c \in children}
    BY <1>4, <2>1
  <2> QED
    BY <2>2, ChildRefs
<1>8. KnownOK(variables)'
  <2>1. 0 \in LevelSent /\ 0 \in Scope \cup {0}
    BY DEF LevelSent
  <2>2. KnownOK(variables)
    BY DEF FrontOK
  <2>3. \A r \in refs : 0 = 0 <=> r < 2 ^ 16
    BY <1>7
  <2>4. KnownOK(Created(variables, refs, e.vm, 0, 0))
    BY <2>1, <2>2, <2>3, <1>3, <1>7, CreatedOK
  <2> QED
    BY <2>4, <1>5 DEF KnownOK
<1>9. Learned(e.of, e.children) \in SUBSET [ref : Nat, of : Object]
  BY <1>3, LearnedOK
<1>10. FrontOK'
  BY <1>5, <1>8, <1>9 DEF FrontOK
<1>11. EditorOK'
  BY <1>3, <1>5, AnswerOK
<1>12. CacheOK'
  BY <1>5, SameCache
<1> QED
  BY <1>6, <1>10, <1>11, <1>12

LEMMA TypedFrontExpandRet == ASSUME FewTables, Typed, FrontExpandRet PROVE Typed'
<1> USE DEF Typed
<1>1. Event \in ExpandEvent /\ Tail(events) \in Seq(Evt)
  BY Taken, EvtKinds DEF FrontExpandRet, Handled, Event, PipesOK
<1>2. PICK e : e = Event
  OBVIOUS
<1>3. /\ e.vm \in VM /\ e.of \in Object \cup {Failed} /\ e.children \in SUBSET Child
      /\ e.ref \in Nat
  BY <1>1, <1>2 DEF ExpandEvent
<1>4. PICK refs : refs = {c.ref : c \in e.children}
  OBVIOUS
<1>5. PICK known : known = Created(variables, refs, e.vm, 0, 0)
  OBVIOUS
<1>6. /\ events' = Tail(events)
      /\ UNCHANGED <<phase, cache, commands, stackTrace, id, asked, stops>>
  BY DEF FrontExpandRet, Handled, backend
<1>7. PipesOK'
  BY <1>1, <1>6 DEF PipesOK
<1>8. CacheOK'
  BY <1>6, SameCache
<1>9. CASE e.ref \notin DOMAIN variables
  <2>1. UNCHANGED <<variables, answer, tree>>
    BY <1>2, <1>9 DEF FrontExpandRet
  <2> QED
    BY <2>1, <1>6, <1>7, <1>8, SameFront, SameEditor
<1>10. CASE e.ref \in DOMAIN variables
  <2>1. /\ answer' = [answer EXCEPT ![e.seq] = e.of] /\ tree' = Learned(e.of, e.children)
        /\ variables' = IF e.of = Failed \/ e.ref \in refs THEN known
                        ELSE [known EXCEPT ![e.ref].value = e.of, ![e.ref].children = e.children]
    BY <1>2, <1>4, <1>5, <1>10 DEF FrontExpandRet
  <2>2. KnownOK(known)
    <3>1. 0 \in LevelSent /\ 0 \in Scope \cup {0}
      BY DEF LevelSent
    <3>2. KnownOK(variables)
      BY DEF FrontOK
    <3>3. refs \in SUBSET Nat /\ \A r \in refs : r < 2 ^ 16
      <4>1. PICK children \in SUBSET Child : children = e.children
        BY <1>3
      <4>2. refs = {c.ref : c \in children}
        BY <1>4, <4>1
      <4> QED
        BY <4>2, ChildRefs
    <3>4. \A r \in refs : 0 = 0 <=> r < 2 ^ 16
      BY <3>3
    <3> QED
      BY <3>1, <3>2, <3>3, <3>4, <1>3, <1>5, CreatedOK
  <2>3. KnownOK(variables)'
    <3>1. CASE e.of = Failed \/ e.ref \in refs
      BY <3>1, <2>1, <2>2 DEF KnownOK
    <3>2. CASE ~(e.of = Failed \/ e.ref \in refs)
      <4>1. variables' = [known EXCEPT ![e.ref].value = e.of, ![e.ref].children = e.children]
        BY <3>2, <2>1
      <4>2. DOMAIN variables' = DOMAIN known
        BY <4>1
      <4>3. \A r \in DOMAIN known : r # e.ref => variables'[r] = known[r]
        BY <4>1
      <4>4. e.ref \in DOMAIN known =>
               variables'[e.ref] = [known[e.ref] EXCEPT !.value = e.of, !.children = e.children]
        BY <4>1
      <4>5. \A k \in Known : /\ [k EXCEPT !.value = e.of, !.children = e.children] \in Known
                             /\ [k EXCEPT !.value = e.of, !.children = e.children].scope = k.scope
        BY <3>2, <1>3 DEF Known
      <4>6. ASSUME NEW r \in DOMAIN known
            PROVE  variables'[r] \in Known /\ (variables'[r].scope = 0 <=> r < 2 ^ 16)
        <5>1. known[r] \in Known /\ (known[r].scope = 0 <=> r < 2 ^ 16)
          BY <2>2 DEF KnownOK
        <5>2. CASE r = e.ref
          BY <4>4, <4>5, <5>1, <5>2
        <5>3. CASE r # e.ref
          BY <4>3, <5>1, <5>3
        <5> QED
          BY <5>2, <5>3
      <4> QED
        BY <2>2, <4>2, <4>6 DEF KnownOK
    <3> QED
      BY <3>1, <3>2
  <2>4. Learned(e.of, e.children) \in SUBSET [ref : Nat, of : Object]
    BY <1>3, LearnedOK
  <2>5. FrontOK'
    BY <1>6, <2>1, <2>3, <2>4 DEF FrontOK
  <2>6. EditorOK'
    BY <1>3, <1>6, <2>1, AnswerOK
  <2> QED
    BY <2>5, <2>6, <1>7, <1>8
<1> QED
  BY <1>9, <1>10

\* The fresh references of a frame.
Fresh(s) == (id + s) * 2 ^ 16
LEMMA FreshIs ==
    ASSUME FrontOK, NEW s \in Scope
    PROVE  Fresh(s) \in Nat /\ ~(Fresh(s) < 2 ^ 16) /\ s # 0
BY DEF FrontOK, Fresh, Scope

\* scopes, for a state that is shown.
Scoped(frame) == Created(Created(variables, {Fresh(1)}, ThreadOf(frame), LevelOf(frame), 1),
                         {Fresh(2)}, ThreadOf(frame), LevelOf(frame), 2)
LEMMA ScopesStep ==
    ASSUME NEW v \in VM, NEW l \in Level, ScopesRequest(v, l), ThreadOf(FrameId(v, l)) \in stackTrace
    PROVE  /\ variables' = Scoped(FrameId(v, l)) /\ id' = id + 2
           /\ tree' = tree \cup {[ref |-> Fresh(s), of |-> ScopeOf(v, l, s)] : s \in Scope}
BY DEF ScopesRequest, Scoped, Fresh

LEMMA TypedScopesRequest ==
    ASSUME Typed, NEW v \in VM, NEW l \in Level, ScopesRequest(v, l)
    PROVE  Typed'
<1> USE DEF Typed
<1>1. CacheOK' /\ PipesOK' /\ EditorOK'
  BY SameCache, SamePipes, SameEditor DEF ScopesRequest, backend
<1>2. PICK frame : frame = FrameId(v, l)
  OBVIOUS
<1>3. CASE ThreadOf(frame) \in stackTrace
  <2>1. /\ variables' = Scoped(frame) /\ id' = id + 2
        /\ tree' = tree \cup {[ref |-> Fresh(s), of |-> ScopeOf(v, l, s)] : s \in Scope}
        /\ UNCHANGED stackTrace /\ l \in LuaLevel
    BY <1>2, <1>3, ScopesStep DEF ScopesRequest
  <2>2. ThreadOf(frame) \in VM /\ LevelOf(frame) \in LevelSent
    BY <1>2, <1>3, <2>1 DEF LevelSent, FrontOK
  <2>3. \A s \in Scope : Fresh(s) \in Nat /\ ~(Fresh(s) < 2 ^ 16) /\ s # 0
    BY FreshIs
  <2>4. 1 \in Scope /\ 2 \in Scope
    BY DEF Scope
  <2>5. KnownOK(Created(variables, {Fresh(1)}, ThreadOf(frame), LevelOf(frame), 1))
    <3>1. KnownOK(variables) /\ {Fresh(1)} \in SUBSET Nat /\ 1 \in Scope \cup {0}
      BY <2>3, <2>4 DEF FrontOK
    <3>2. \A r \in {Fresh(1)} : 1 = 0 <=> r < 2 ^ 16
      BY <2>3, <2>4
    <3> QED
      BY <3>1, <3>2, <2>2, CreatedOK
  <2>6. KnownOK(Scoped(frame))
    <3>1. {Fresh(2)} \in SUBSET Nat /\ 2 \in Scope \cup {0}
      BY <2>3, <2>4
    <3>2. \A r \in {Fresh(2)} : 2 = 0 <=> r < 2 ^ 16
      BY <2>3, <2>4
    <3> QED
      BY <3>1, <3>2, <2>2, <2>5, CreatedOK DEF Scoped
  <2>7. \A s \in Scope : [ref |-> Fresh(s), of |-> ScopeOf(v, l, s)] \in [ref : Nat, of : Object]
    BY <2>3, ObjectScope
  <2>8. FrontOK'
    BY <2>1, <2>6, <2>7 DEF FrontOK, KnownOK
  <2> QED
    BY <1>1, <2>8
<1>4. CASE ThreadOf(frame) \notin stackTrace
  <2>1. UNCHANGED <<stackTrace, variables, id, tree>>
    BY <1>2, <1>4 DEF ScopesRequest
  <2> QED
    BY <1>1, <2>1, SameFront
<1> QED
  BY <1>3, <1>4

LEMMA TypedVariablesRequest == ASSUME FewTables, Typed, VariablesRequest PROVE Typed'
<1> USE DEF Typed
<1>1. PICK n \in tree :
        IF n.ref \notin DOMAIN variables
        THEN /\ Ask(n.of, Nothing)
             /\ UNCHANGED <<backend, commands, events, adapter, tree, stops>>
        ELSE LET var == variables[n.ref] IN
             IF var.value # Nothing
             THEN /\ Ask(n.of, var.value)
                  /\ tree' = Learned(var.value, var.children)
                  /\ UNCHANGED <<backend, commands, events, adapter, stops>>
             ELSE /\ Ask(n.of, Nothing)
                  /\ commands' = IF var.vm \notin stackTrace THEN commands
                                 ELSE Append(commands,
                                     [kind |-> "expand", seq |-> Number, vm |-> var.vm,
                                      level |-> var.level, scope |-> var.scope, ref |-> n.ref])
                  /\ UNCHANGED <<backend, events, adapter, tree, stops>>
  BY DEF VariablesRequest
<1>2. n.ref \in Nat /\ n.of \in Object
  BY DEF FrontOK
<1>3. CASE n.ref \notin DOMAIN variables
  <2>1. Ask(n.of, Nothing) /\ UNCHANGED <<backend, commands, events, adapter, tree, stops>>
    BY <1>1, <1>3
  <2>2. EditorOK'
    BY <1>2, <2>1, AskOK
  <2> QED
    BY <2>1, <2>2, SameCache, SamePipes, SameFront DEF backend, adapter
<1>4. CASE n.ref \in DOMAIN variables
  <2>1. PICK var : var = variables[n.ref]
    OBVIOUS
  <2>2. var \in Known
    BY <1>4, <2>1 DEF FrontOK, KnownOK
  <2>3. /\ var.vm \in VM /\ var.level \in LevelSent /\ var.scope \in Scope \cup {0}
        /\ var.value \in Object \cup {Nothing} /\ var.children \in SUBSET Child
    BY <2>2 DEF Known
  <2>4. CASE var.value # Nothing
    <3>1. /\ Ask(n.of, var.value) /\ tree' = Learned(var.value, var.children)
          /\ UNCHANGED <<backend, commands, events, adapter, stops>>
      BY <1>1, <1>4, <2>1, <2>4
    <3>2. EditorOK'
      BY <1>2, <2>3, <3>1, AskOK
    <3>3. Learned(var.value, var.children) \in SUBSET [ref : Nat, of : Object]
      BY <2>3, LearnedOK
    <3>4. FrontOK'
      BY <3>1, <3>3 DEF FrontOK, KnownOK, adapter
    <3> QED
      BY <3>1, <3>2, <3>4, SameCache, SamePipes DEF backend
  <2>5. CASE var.value = Nothing
    <3>1. /\ Ask(n.of, Nothing)
          /\ commands' = IF var.vm \notin stackTrace THEN commands
                         ELSE Append(commands,
                             [kind |-> "expand", seq |-> Number, vm |-> var.vm,
                              level |-> var.level, scope |-> var.scope, ref |-> n.ref])
          /\ UNCHANGED <<backend, events, adapter, tree, stops>>
      BY <1>1, <1>4, <2>1, <2>5
    <3>2. EditorOK'
      BY <1>2, <3>1, AskOK
    <3>3. Number \in Nat
      BY LenProperties DEF Number, EditorOK
    <3>4. [kind |-> "expand", seq |-> Number, vm |-> var.vm, level |-> var.level,
           scope |-> var.scope, ref |-> n.ref] \in Cmd
      BY <1>2, <2>3, <3>3 DEF Cmd, ExpandCmd
    <3>5. PipesOK'
      BY <3>1, <3>4, Put DEF PipesOK
    <3> QED
      BY <3>1, <3>2, <3>5, SameCache, SameFront DEF backend, adapter
  <2> QED
    BY <2>4, <2>5
<1> QED
  BY <1>3, <1>4

LEMMA TypedEvaluateRequest ==
    ASSUME Typed, NEW v \in VM, NEW l \in Level, NEW t \in Table, EvaluateRequest(v, l, t)
    PROVE  Typed'
<1> USE DEF Typed
<1>1. CacheOK' /\ FrontOK'
  BY SameCache, SameFront DEF EvaluateRequest, backend, adapter
<1>2. EditorOK'
  BY AskOK, ObjectTable DEF EvaluateRequest
<1>3. PICK frame : frame = FrameId(v, l)
  OBVIOUS
<1>4. CASE ThreadOf(frame) \notin stackTrace
  BY <1>1, <1>2, <1>3, <1>4, SamePipes DEF EvaluateRequest
<1>5. CASE ThreadOf(frame) \in stackTrace
  <2>1. /\ commands' = Append(commands,
               [kind |-> "evaluate", seq |-> Number, vm |-> ThreadOf(frame),
                level |-> LevelOf(frame), table |-> t])
        /\ UNCHANGED events /\ l \in LuaLevel
    BY <1>3, <1>5 DEF EvaluateRequest
  <2>2. ThreadOf(frame) \in VM /\ LevelOf(frame) \in LevelSent
    BY <1>3, <1>5, <2>1 DEF LevelSent, FrontOK
  <2>3. Number \in Nat
    BY LenProperties DEF Number, EditorOK
  <2>4. [kind |-> "evaluate", seq |-> Number, vm |-> ThreadOf(frame),
         level |-> LevelOf(frame), table |-> t] \in Cmd
    BY <2>2, <2>3 DEF Cmd, EvaluateCmd
  <2>5. PipesOK'
    BY <2>1, <2>4, Put DEF PipesOK
  <2> QED
    BY <1>1, <1>2, <2>5
<1> QED
  BY <1>4, <1>5

LEMMA TypedContinueRequest == ASSUME Typed, NEW v \in VM, ContinueRequest(v) PROVE Typed'
<1> USE DEF Typed
<1>1. [kind |-> "continue", vm |-> v] \in Cmd
  BY DEF Cmd, ContinueCmd
<1>2. PipesOK'
  BY <1>1, Put DEF ContinueRequest, PipesOK
<1>3. FrontOK'
  BY DEF ContinueRequest, FrontOK, KnownOK
<1>4. CacheOK' /\ EditorOK'
  BY SameCache, SameEditor DEF ContinueRequest, backend
<1> QED
  BY <1>2, <1>3, <1>4

LEMMA TypedNext == ASSUME FewTables, Typed, [Next]_vars PROVE Typed'
<1>1. CASE Backend
  BY <1>1, TypedClear, TypedCmdContinue, TypedCmdExpand, TypedCmdEvaluate DEF Backend
<1>2. CASE Adapter
  BY <1>2, TypedFrontBreak, TypedFrontEvaluateRet, TypedFrontExpandRet DEF Adapter
<1>3. CASE User
  BY <1>3, TypedScopesRequest, TypedEvaluateRequest, TypedContinueRequest DEF User
<1>4. CASE VariablesRequest
  BY <1>4, TypedVariablesRequest
<1>5. CASE \E v \in VM : Stop(v)
  BY <1>5, TypedStop
<1>6. CASE UNCHANGED vars
  BY <1>6, SameCache, SamePipes, SameFront, SameEditor DEF vars, backend, adapter, editor, Typed
<1> QED
  BY <1>1, <1>2, <1>3, <1>4, <1>5, <1>6 DEF Next

LEMMA TypedImplies == ASSUME Typed PROVE TypeOK
<1> USE DEF Typed
<1>1. \A v \in VM : cache[v] \in Seq(Table) /\ IsInjective(cache[v])
  BY DEF CacheOK
<1>2. \A r \in DOMAIN variables :
        /\ variables[r].vm \in VM /\ variables[r].scope \in Scope \cup {0}
        /\ variables[r].value \in Object \cup {Nothing}
        /\ variables[r].scope = 0 <=> r < 2 ^ 16
  BY DEF FrontOK, KnownOK, Known
<1>3. \A n \in tree : n.of \in Object
  BY DEF FrontOK
<1> QED
  BY <1>1, <1>2, <1>3 DEF TypeOK, CacheOK, FrontOK, EditorOK

\* The tables, references, pipes and requests have the values they can have, and no
\* table has two numbers, while a state has fewer tables than there are numbers below
\* the fresh ids (variables.lua 15-18, DebugBackend.cpp 1789-1866).
THEOREM TypeCorrect == FewTables /\ Spec => []TypeOK
<1>1. SUFFICES ASSUME FewTables PROVE Spec => []TypeOK
  OBVIOUS
<1>2. Init => Typed
  BY InitTyped
<1>3. Typed /\ [Next]_vars => Typed'
  BY <1>1, TypedNext
<1>4. Typed => TypeOK
  BY TypedImplies
<1> QED
  BY <1>2, <1>3, <1>4, PTL DEF Spec

-----------------------------------------------------------------------------
(* Pipes.                                                                  *)

LEMMA RangeTaken ==
    ASSUME NEW S, NEW q \in Seq(S), q # <<>>
    PROVE  /\ Head(q) \in Range(q) /\ Range(Tail(q)) \subseteq Range(q) /\ Range(q) \subseteq S
           /\ 1 \in DOMAIN q /\ Head(q) = q[1] /\ Len(q) \in Nat /\ Len(Tail(q)) = Len(q) - 1
           /\ DOMAIN q = 1 .. Len(q)
           /\ \A i \in DOMAIN Tail(q) : i \in Nat /\ i + 1 \in DOMAIN q /\ Tail(q)[i] = q[i + 1]
<1>1. /\ Len(q) \in Nat /\ Len(q) # 0 /\ DOMAIN q = 1 .. Len(q) /\ q \in [1 .. Len(q) -> S]
  BY LenProperties, EmptySeq
<1>2. PICK t : t = Tail(q)
  OBVIOUS
<1>3. /\ t \in Seq(S) /\ Len(t) = Len(q) - 1
      /\ \A i \in 1 .. Len(t) : t[i] = q[i + 1]
  BY <1>2, HeadTailProperties
<1>4. DOMAIN t = 1 .. Len(t)
  BY <1>3, LenProperties
<1>5. \A i \in DOMAIN t : i \in Nat /\ i + 1 \in DOMAIN q /\ t[i] = q[i + 1]
  BY <1>1, <1>3, <1>4
<1>6. Range(t) \subseteq Range(q)
  BY <1>5 DEF Range
<1>7. 1 \in DOMAIN q /\ Head(q) = q[1]
  BY <1>1
<1>8. Range(q) \subseteq S
  BY <1>1 DEF Range
<1>9. Head(q) \in Range(q)
  BY <1>7 DEF Range
<1> QED
  BY <1>1, <1>2, <1>3, <1>5, <1>6, <1>7, <1>8, <1>9

LEMMA RangePut ==
    ASSUME NEW S, NEW q \in Seq(S), NEW x \in S
    PROVE  /\ Range(Append(q, x)) = Range(q) \cup {x}
           /\ Len(q) \in Nat /\ DOMAIN q = 1 .. Len(q) /\ Len(Append(q, x)) = Len(q) + 1
           /\ \A i \in DOMAIN Append(q, x) : \/ i \in DOMAIN q /\ Append(q, x)[i] = q[i]
                                             \/ i = Len(q) + 1 /\ Append(q, x)[i] = x
<1>1. PICK r : r = Append(q, x)
  OBVIOUS
<1>2. /\ r \in Seq(S) /\ Len(r) = Len(q) + 1 /\ r[Len(q) + 1] = x
      /\ \A i \in 1 .. Len(q) : r[i] = q[i]
  BY <1>1, AppendProperties
<1>3. Len(q) \in Nat /\ DOMAIN q = 1 .. Len(q) /\ DOMAIN r = 1 .. Len(r)
  BY <1>2, LenProperties
<1>4. \A i \in DOMAIN r : \/ i \in DOMAIN q /\ r[i] = q[i]
                          \/ i = Len(q) + 1 /\ r[i] = x
  BY <1>2, <1>3
<1>5. DOMAIN q \subseteq DOMAIN r /\ Len(q) + 1 \in DOMAIN r
  BY <1>2, <1>3
<1>6. \A i \in DOMAIN q : r[i] = q[i]
  BY <1>2, <1>3
<1>7. Range(r) = Range(q) \cup {x}
  BY <1>2, <1>4, <1>5, <1>6 DEF Range
<1> QED
  BY <1>1, <1>2, <1>3, <1>4, <1>7

\* The order of what follows a take from the commands, and an answer.
LEMMA TakenCommand ==
    ASSUME Typed, commands # <<>>, commands' = Tail(commands), UNCHANGED <<phase, stackTrace>>,
           CommandsStopped, ContinueLast
    PROVE  /\ Range(commands') \subseteq Range(commands)
           /\ CommandsStopped' /\ ContinueLast'
<1>1. /\ Range(commands') \subseteq Range(commands)
      /\ Len(commands) \in Nat /\ Len(commands') = Len(commands) - 1
      /\ \A i \in DOMAIN commands' : /\ i \in Nat /\ i + 1 \in DOMAIN commands
                                     /\ commands'[i] = commands[i + 1]
  BY RangeTaken DEF Typed, PipesOK
<1>2. CommandsStopped'
  BY <1>1 DEF CommandsStopped
<1>3. ContinueLast'
  BY <1>1 DEF ContinueLast
<1> QED
  BY <1>1, <1>2, <1>3

LEMMA NoBreakWhileCommands ==
    ASSUME Typed, BreakLast, commands # <<>> \/ stackTrace # {}, NEW i \in DOMAIN events
    PROVE  events[i].kind # "break"
BY DEF BreakLast

LEMMA AnsweredOrder ==
    ASSUME Typed, commands # <<>>, BreakLast, NEW e \in Evt, e.kind # "break",
           events' = Append(events, e)
    PROVE  BreakLast' /\ Range(events') = Range(events) \cup {e}
<1>1. /\ Range(events') = Range(events) \cup {e}
      /\ \A i \in DOMAIN events' : \/ i \in DOMAIN events /\ events'[i] = events[i]
                                   \/ i = Len(events) + 1 /\ events'[i] = e
  BY RangePut DEF Typed, PipesOK
<1>2. \A i \in DOMAIN events : events[i].kind # "break"
  BY NoBreakWhileCommands
<1>3. \A i \in DOMAIN events' : events'[i].kind # "break"
  BY <1>1, <1>2
<1> QED
  BY <1>1, <1>3 DEF BreakLast

LEMMA TakenEvent ==
    ASSUME Typed, events # <<>>, events' = Tail(events), BreakLast,
           UNCHANGED <<phase, stackTrace, commands>>
    PROVE  BreakLast' /\ Range(events') \subseteq Range(events)
<1>1. /\ Range(events') \subseteq Range(events)
      /\ Len(events) \in Nat /\ Len(events') = Len(events) - 1
      /\ \A i \in DOMAIN events' : /\ i \in Nat /\ i + 1 \in DOMAIN events
                                   /\ events'[i] = events[i + 1]
  BY RangeTaken DEF Typed, PipesOK
<1>2. BreakLast'
  BY <1>1 DEF BreakLast
<1> QED
  BY <1>1, <1>2

\* No state is stopped: nothing is shown, asked or reported.
LEMMA NoneStopped ==
    ASSUME Typed, InOrder, TreeStands, \A w \in VM : phase[w] # "stopped"
    PROVE  /\ stackTrace = {} /\ tree = {} /\ commands = <<>>
           /\ \A i \in DOMAIN events : events[i].kind # "break"
<1>1. stackTrace = {}
  BY DEF InOrder, ShownStopped, Typed, FrontOK
<1>2. tree = {}
  BY <1>1 DEF TreeStands
<1>3. commands = <<>>
  <2> SUFFICES ASSUME commands # <<>> PROVE FALSE
    OBVIOUS
  <2>1. commands[1] \in Range(commands) /\ commands[1] \in Cmd
    BY RangeTaken DEF Typed, PipesOK
  <2>2. commands[1].vm \in VM
    BY <2>1, CmdKinds
  <2> QED
    BY <2>1, <2>2 DEF InOrder, CommandsStopped
<1>4. \A i \in DOMAIN events : events[i].kind # "break"
  <2> SUFFICES ASSUME NEW i \in DOMAIN events, events[i].kind = "break" PROVE FALSE
    OBVIOUS
  <2>1. events[i] \in Evt
    BY ElementOfSeq, LenProperties DEF Typed, PipesOK
  <2>2. events[i].vm \in VM
    BY <2>1, EvtKinds
  <2> QED
    BY <2>2 DEF InOrder, BreakLast
<1> QED
  BY <1>1, <1>2, <1>3, <1>4

LEMMA OnlyShown ==
    ASSUME Typed, InOrder, NEW v \in stackTrace, NEW w \in VM, phase[w] = "stopped"
    PROVE  v = w
BY DEF InOrder, OneStopped, ShownStopped, Typed, FrontOK

-----------------------------------------------------------------------------
(* What is stable while a stop lasts.                                      *)

\* The cache of a stopped state only grows; a reference goes on to stand for what it does.
Grows == \A w \in VM : phase[w] = "stopped" =>
             \A i \in DOMAIN cache[w] : i \in DOMAIN cache'[w] /\ cache'[w][i] = cache[w][i]
Keeps == \A o \in Object : \A r \in Nat :
             o.vm \in stackTrace /\ Stands(r, o) => Stands(r, o)'
Asks  == \A i \in DOMAIN asked : i \in DOMAIN asked' /\ asked'[i] = asked[i]

LEMMA GrowsKeeps ==
    ASSUME Typed, InOrder, Grows, UNCHANGED variables
    PROVE  Keeps
<1> SUFFICES ASSUME NEW o \in Object, NEW r \in Nat, o.vm \in stackTrace, Stands(r, o)
             PROVE  Stands(r, o)'
  BY DEF Keeps
<1>1. phase[o.vm] = "stopped" /\ o.vm \in VM
  BY ObjectIs DEF InOrder, ShownStopped
<1>2. \A i \in DOMAIN cache[o.vm] : i \in DOMAIN cache'[o.vm] /\ cache'[o.vm][i] = cache[o.vm][i]
  BY <1>1 DEF Grows
<1> QED
  BY <1>2 DEF Stands

LEMMA CachedStays ==
    ASSUME Typed, InOrder, Grows, NEW v \in stackTrace, NEW children, Cached(v, children)
    PROVE  Cached(v, children)'
<1>1. \A i \in DOMAIN cache[v] : i \in DOMAIN cache'[v] /\ cache'[v][i] = cache[v][i]
  BY DEF Grows, InOrder, ShownStopped, Typed, FrontOK
<1> QED
  BY <1>1 DEF Cached

LEMMA EventStays ==
    ASSUME Typed, InOrder, Grows, Keeps, Asks, UNCHANGED stackTrace,
           NEW e \in Evt, EventStands(e)
    PROVE  EventStands(e)'
<1> SUFFICES ASSUME e.kind # "break" PROVE EventStands(e)'
  BY DEF EventStands
<1>1. e.seq \in DOMAIN asked /\ e.of = asked[e.seq] /\ e.of.vm = e.vm
  BY DEF EventStands
<1>2. e.seq \in DOMAIN asked' /\ e.of = asked'[e.seq]
  BY <1>1 DEF Asks
<1>3. e.of \in Object
  BY <1>1, LenProperties, ElementOfSeq DEF Typed, EditorOK
<1>4. ASSUME NEW v \in stackTrace
      PROVE  /\ e.vm = v /\ Cached(v, e.children)'
             /\ e.kind = "expandRet" => Stands(e.ref, e.of)'
  <2>1. e.vm = v /\ Cached(v, e.children)
    BY DEF EventStands
  <2>2. Cached(v, e.children)'
    BY <2>1, CachedStays
  <2>3. ASSUME e.kind = "expandRet" PROVE Stands(e.ref, e.of)'
    <3>1. Stands(e.ref, e.of) /\ e.of.vm \in stackTrace
      BY <1>1, <2>1, <2>3 DEF EventStands
    <3>2. e.ref \in Nat
      BY <2>3, EvtKinds DEF ExpandEvent
    <3> QED
      BY <1>3, <3>1, <3>2 DEF Keeps
  <2> QED
    BY <2>1, <2>2, <2>3
<1> QED
  BY <1>1, <1>2, <1>4 DEF EventStands

LEMMA CommandStays ==
    ASSUME Typed, InOrder, Grows, Keeps, Asks, UNCHANGED stackTrace,
           NEW c \in Cmd, phase[c.vm] = "stopped", CommandStands(c)
    PROVE  CommandStands(c)'
<1>1. ASSUME c.kind = "expand"
      PROVE  /\ c.seq \in DOMAIN asked' /\ Target(c)' = asked'[c.seq]
             /\ \A v \in stackTrace : Stands(c.ref, asked[c.seq])'
  <2>1. c.seq \in DOMAIN asked /\ Target(c) = asked[c.seq]
    BY <1>1 DEF CommandStands
  <2>2. c.seq \in DOMAIN asked' /\ asked'[c.seq] = asked[c.seq]
    BY <2>1 DEF Asks
  <2>3. asked[c.seq] \in Object
    BY <2>1, LenProperties, ElementOfSeq DEF Typed, EditorOK
  <2>4. c.vm \in VM
    BY CmdKinds
  <2>5. Target(c)' = Target(c)
    <3>1. Target(c) # Failed
      BY <2>1, <2>3, FailedIsNone
    <3>2. \A i \in DOMAIN cache[c.vm] : i \in DOMAIN cache'[c.vm] /\ cache'[c.vm][i] = cache[c.vm][i]
      BY <2>4 DEF Grows
    <3> QED
      BY <3>1, <3>2 DEF Target
  <2>6. ASSUME NEW v \in stackTrace PROVE Stands(c.ref, asked[c.seq])'
    <3>1. Stands(c.ref, asked[c.seq])
      BY <1>1 DEF CommandStands
    <3>2. asked[c.seq].vm = c.vm
      <4>1. Target(c) # Failed
        BY <2>1, <2>3, FailedIsNone
      <4>2. Target(c).vm = c.vm
        BY <4>1 DEF Target, ScopeOf, TableOf
      <4> QED
        BY <4>2, <2>1
    <3>3. v = c.vm
      BY <2>4, OnlyShown
    <3>4. c.ref \in Nat
      BY <1>1, CmdKinds DEF ExpandCmd
    <3>5. PICK o \in Object : o = asked[c.seq]
      BY <2>3
    <3>6. Stands(c.ref, o)'
      BY <3>1, <3>2, <3>3, <3>4, <3>5 DEF Keeps
    <3> QED
      BY <3>5, <3>6, <2>2 DEF Stands
  <2> QED
    BY <2>1, <2>2, <2>5, <2>6
<1>2. ASSUME c.kind = "evaluate"
      PROVE  /\ c.seq \in DOMAIN asked' /\ asked'[c.seq] = TableOf(c.vm, c.table)
             /\ c.level \in LuaLevel /\ c.table \in InFrame[c.level]
  BY <1>2 DEF CommandStands, Asks
<1> QED
  BY <1>1, <1>2 DEF CommandStands

-----------------------------------------------------------------------------
(* Stops, and the commands of the backend.                                 *)

LEMMA InitStands == Init => StandInv
<1> SUFFICES ASSUME Init PROVE StandInv
  OBVIOUS
<1>1. /\ Range(commands) = {} /\ Range(events) = {} /\ DOMAIN commands = {}
      /\ DOMAIN events = {} /\ DOMAIN asked = {}
  BY EmptySeq DEF Init, Range
<1>2. InOrder
  BY <1>1 DEF Init, InOrder, OneStopped, ShownStopped, CommandsStopped, ContinueLast, BreakLast
<1> QED
  BY <1>1, <1>2 DEF Init, StandInv, TreeStands, VariablesStand, EventsStand, CommandsStand,
                    ShownIsAsked

LEMMA RangeEmpty == Range(<< >>) = {} /\ DOMAIN << >> = {}
BY EmptySeq DEF Range

LEMMA StandStop ==
    ASSUME ~Together, Typed, StandInv, NEW v \in VM, Stop(v)
    PROVE  StandInv'
<1> DEFINE e == [kind |-> "break", vm |-> v]
<1>1. /\ \A w \in VM : phase[w] # "stopped"
      /\ phase' = [phase EXCEPT ![v] = "stopped"] /\ events' = Append(events, e)
      /\ UNCHANGED <<cache, commands, stackTrace, variables, id, tree, asked, answer>>
  BY DEF Stop, adapter, editor
<1>2. /\ stackTrace = {} /\ tree = {} /\ commands = <<>>
      /\ \A i \in DOMAIN events : events[i].kind # "break"
  BY <1>1, NoneStopped DEF StandInv
<1>3. e \in Evt
  BY DEF Evt, BreakEvent
<1>4. /\ Range(events') = Range(events) \cup {e}
      /\ Len(events) \in Nat /\ Len(events') = Len(events) + 1
      /\ \A i \in DOMAIN events' : \/ i \in DOMAIN events /\ events'[i] = events[i]
                                   \/ i = Len(events) + 1 /\ events'[i] = e
  BY <1>1, <1>3, RangePut DEF Typed, PipesOK
<1>5. /\ phase'[v] = "stopped"
      /\ \A w \in VM : phase'[w] = "stopped" => w = v
  BY <1>1 DEF Typed, CacheOK
<1>6. InOrder'
  <2>1. OneStopped' /\ ShownStopped'
    BY <1>1, <1>2, <1>5 DEF OneStopped, ShownStopped
  <2>2. CommandsStopped' /\ ContinueLast'
    BY <1>1, <1>2, RangeEmpty DEF CommandsStopped, ContinueLast
  <2>3. BreakLast'
    BY <1>1, <1>2, <1>4, <1>5 DEF BreakLast
  <2> QED
    BY <2>1, <2>2, <2>3 DEF InOrder
<1>7. TreeStands' /\ VariablesStand' /\ CommandsStand'
  BY <1>1, <1>2, RangeEmpty DEF TreeStands, VariablesStand, CommandsStand
<1>8. EventsStand'
  <2>1. \A d \in Range(events) : EventStands(d)'
    BY <1>1, <1>2 DEF StandInv, EventsStand, EventStands
  <2>2. EventStands(e)'
    BY DEF EventStands
  <2> QED
    BY <1>4, <2>1, <2>2 DEF EventsStand
<1>9. ShownIsAsked'
  BY <1>1 DEF StandInv, ShownIsAsked
<1> QED
  BY <1>6, <1>7, <1>8, <1>9 DEF StandInv

\* What a step leaves as it was that neither shows nor resumes a state.
LEMMA Kept ==
    ASSUME Typed, StandInv, Grows, Keeps, Asks, UNCHANGED stackTrace
    PROVE  /\ \A n \in tree : n.of.vm \in stackTrace /\ Stands(n.ref, n.of)'
           /\ \A e \in Range(events) : EventStands(e)'
           /\ \A c \in Range(commands) : CommandStands(c)'
           /\ \A v \in stackTrace : \A r \in DOMAIN variables :
                  /\ \A o \in Object : variables[r].value = o => Stands(r, o)'
                  /\ \A c \in variables[r].children : Stands(c.ref, TableOf(v, c.table))'
<1>1. ASSUME NEW n \in tree PROVE n.of.vm \in stackTrace /\ Stands(n.ref, n.of)'
  <2>1. n.of \in Object /\ n.ref \in Nat
    BY DEF Typed, FrontOK
  <2> QED
    BY <2>1 DEF StandInv, TreeStands, Keeps
<1>2. ASSUME NEW e \in Range(events) PROVE EventStands(e)'
  <2>1. e \in Evt
    BY LenProperties DEF Typed, PipesOK, Range
  <2> QED
    BY <2>1, EventStays DEF StandInv, EventsStand
<1>3. ASSUME NEW c \in Range(commands) PROVE CommandStands(c)'
  <2>1. c \in Cmd
    BY LenProperties DEF Typed, PipesOK, Range
  <2> QED
    BY <2>1, CommandStays DEF StandInv, CommandsStand, InOrder, CommandsStopped
<1>4. ASSUME NEW v \in stackTrace, NEW r \in DOMAIN variables
      PROVE  /\ \A o \in Object : variables[r].value = o => Stands(r, o)'
             /\ \A c \in variables[r].children : Stands(c.ref, TableOf(v, c.table))'
  <2>1. PICK var : var = variables[r]
    OBVIOUS
  <2>2. var \in Known /\ r \in Nat /\ v \in VM
    BY <2>1 DEF Typed, FrontOK, KnownOK
  <2>3. /\ var.vm = v
        /\ var.value # Nothing => Stands(r, var.value)
        /\ \A c \in var.children : Stands(c.ref, TableOf(v, c.table))
    BY <2>1 DEF StandInv, VariablesStand, VariableStands
  <2>4. ASSUME NEW o \in Object, var.value = o PROVE Stands(r, o)'
    <3>1. Stands(r, o)
      BY <2>3, <2>4, FailedIsNone
    <3>2. o.vm = v
      BY <2>1, <2>3, <3>1 DEF Stands
    <3> QED
      BY <2>2, <3>1, <3>2 DEF Keeps
  <2>5. ASSUME NEW c \in var.children PROVE Stands(c.ref, TableOf(v, c.table))'
    <3>1. Stands(c.ref, TableOf(v, c.table))
      BY <2>3
    <3>2. c \in Child
      BY <2>2 DEF Known
    <3>3. c.ref \in Nat
      BY <2>1, <2>2, <3>1 DEF Stands, Typed, FrontOK, KnownOK
    <3>4. TableOf(v, c.table) \in Object /\ TableOf(v, c.table).vm = v
      BY <2>2, <3>2, ObjectTable DEF Child
    <3> QED
      BY <3>1, <3>3, <3>4 DEF Keeps
  <2> QED
    BY <2>1, <2>4, <2>5
<1> QED
  BY <1>1, <1>2, <1>3, <1>4

\* Steps of the backend that change neither what is shown nor what is known.
LEMMA BackendKeeps ==
    ASSUME Typed, StandInv, Grows,
           UNCHANGED <<stackTrace, variables, id, tree, asked, answer>>
    PROVE  /\ TreeStands' /\ VariablesStand' /\ ShownIsAsked'
           /\ \A e \in Range(events) : EventStands(e)'
           /\ \A c \in Range(commands) : CommandStands(c)'
<1>1. Keeps /\ Asks
  BY GrowsKeeps DEF StandInv, Asks
<1>2. /\ \A n \in tree : n.of.vm \in stackTrace /\ Stands(n.ref, n.of)'
      /\ \A e \in Range(events) : EventStands(e)'
      /\ \A c \in Range(commands) : CommandStands(c)'
      /\ \A v \in stackTrace : \A r \in DOMAIN variables :
             /\ \A o \in Object : variables[r].value = o => Stands(r, o)'
             /\ \A c \in variables[r].children : Stands(c.ref, TableOf(v, c.table))'
  BY <1>1, Kept
<1>3. TreeStands'
  BY <1>2 DEF TreeStands
<1>4. VariablesStand'
  <2> SUFFICES ASSUME NEW v \in stackTrace, NEW r \in DOMAIN variables
               PROVE  VariableStands(v, r)'
    BY DEF VariablesStand
  <2>1. variables[r].vm = v /\ r < (id + 1) * 2 ^ 16
    BY DEF StandInv, VariablesStand, VariableStands
  <2>2. variables[r].value \in Object \cup {Nothing}
    BY DEF Typed, FrontOK, KnownOK, Known
  <2>3. (variables[r].value # Nothing => Stands(r, variables[r].value))'
    <3>1. PICK o : o = variables[r].value
      OBVIOUS
    <3>2. o # Nothing => Stands(r, o)'
      BY <1>2, <2>2, <3>1
    <3>3. variables'[r].value = o
      BY <3>1
    <3> QED
      BY <3>2, <3>3 DEF Stands
  <2>4. \A c \in variables[r].children : Stands(c.ref, TableOf(v, c.table))'
    BY <1>2
  <2> QED
    BY <2>1, <2>3, <2>4 DEF VariableStands
<1>5. ShownIsAsked'
  BY DEF StandInv, ShownIsAsked
<1> QED
  BY <1>2, <1>3, <1>4, <1>5

LEMMA StandClear == ASSUME Typed, StandInv, NEW v \in VM, Clear(v) PROVE StandInv'
<1>1. /\ phase[v] = "clear" /\ phase' = [phase EXCEPT ![v] = "run"]
      /\ cache' = [cache EXCEPT ![v] = <<>>]
      /\ UNCHANGED <<commands, events, stackTrace, variables, id, tree, asked, answer>>
  BY DEF Clear, adapter, editor
<1>2. \A w \in VM : /\ phase[w] = "stopped" => phase'[w] = "stopped" /\ cache'[w] = cache[w]
                    /\ phase'[w] = "stopped" => phase[w] = "stopped"
  BY <1>1 DEF Typed, CacheOK
<1>3. Grows
  BY <1>2 DEF Grows
<1>4. InOrder'
  <2>1. OneStopped' /\ ShownStopped'
    BY <1>1, <1>2 DEF StandInv, InOrder, OneStopped, ShownStopped, Typed, FrontOK
  <2>2. \A c \in Range(commands) : c.vm \in VM
    BY CmdKinds, LenProperties DEF Typed, PipesOK, Range
  <2>3. CommandsStopped' /\ ContinueLast'
    BY <1>1, <1>2, <2>2 DEF StandInv, InOrder, CommandsStopped, ContinueLast
  <2>4. \A i \in DOMAIN events : events[i].vm \in VM
    BY EvtKinds, LenProperties DEF Typed, PipesOK
  <2>5. BreakLast'
    BY <1>1, <1>2, <2>4 DEF StandInv, InOrder, BreakLast
  <2> QED
    BY <2>1, <2>3, <2>5 DEF InOrder
<1>5. /\ TreeStands' /\ VariablesStand' /\ ShownIsAsked'
      /\ \A e \in Range(events) : EventStands(e)'
      /\ \A c \in Range(commands) : CommandStands(c)'
  BY <1>1, <1>3, BackendKeeps
<1>6. EventsStand' /\ CommandsStand'
  BY <1>1, <1>5 DEF EventsStand, CommandsStand
<1> QED
  BY <1>4, <1>5, <1>6 DEF StandInv

LEMMA StandCmdContinue == ASSUME Typed, StandInv, CmdContinue PROVE StandInv'
<1>1. PICK c : c = Command
  OBVIOUS
<1>2. /\ commands # <<>> /\ c = Head(commands) /\ c.kind = "continue"
      /\ commands' = Tail(commands)
      /\ phase' = [phase EXCEPT ![c.vm] = IF phase[c.vm] = "stopped" THEN "clear" ELSE @]
      /\ UNCHANGED <<cache, events, stackTrace, variables, id, tree, asked, answer>>
  BY <1>1 DEF CmdContinue, Executed, Command, adapter, editor
<1>3. /\ c \in Cmd /\ c \in Range(commands) /\ 1 \in DOMAIN commands /\ c = commands[1]
      /\ commands' \in Seq(Cmd) /\ Len(commands') = Len(commands) - 1
  BY <1>2, RangeTaken, Taken DEF Typed, PipesOK
<1>4. c.vm \in VM /\ phase[c.vm] = "stopped"
  BY <1>3, CmdKinds DEF StandInv, InOrder, CommandsStopped
<1>5. 1 = Len(commands) /\ stackTrace = {}
  BY <1>2, <1>3 DEF StandInv, InOrder, ContinueLast
<1>6. commands' = <<>>
  <2>1. PICK q \in Seq(Cmd) : q = commands'
    BY <1>3
  <2>2. Len(q) = 0
    <3>1. PICK n : n = Len(commands)
      OBVIOUS
    <3>2. n = 1
      BY <1>5, <3>1
    <3>3. Len(q) = n - 1
      BY <1>3, <2>1, <3>1
    <3> QED
      BY <3>2, <3>3
  <2>3. q = <<>>
    BY <2>2, EmptySeq
  <2> QED
    BY <2>1, <2>3
<1>7. \A w \in VM : phase'[w] # "stopped"
  BY <1>2, <1>4 DEF Typed, CacheOK, StandInv, InOrder, OneStopped
<1>8. tree = {}
  BY <1>5 DEF StandInv, TreeStands
<1>9. InOrder'
  <2>1. \A i \in DOMAIN events : events[i].kind # "break"
    BY <1>2, NoBreakWhileCommands DEF StandInv, InOrder
  <2>2. OneStopped' /\ ShownStopped' /\ BreakLast'
    BY <1>2, <1>5, <1>7, <2>1 DEF OneStopped, ShownStopped, BreakLast
  <2>3. CommandsStopped' /\ ContinueLast'
    BY <1>6, RangeEmpty DEF CommandsStopped, ContinueLast
  <2> QED
    BY <2>2, <2>3 DEF InOrder
<1>10. TreeStands' /\ VariablesStand' /\ CommandsStand'
  BY <1>2, <1>5, <1>6, <1>8, RangeEmpty DEF TreeStands, VariablesStand, CommandsStand
<1>11. EventsStand'
  BY <1>2, <1>5 DEF StandInv, EventsStand, EventStands
<1>12. ShownIsAsked'
  BY <1>2 DEF StandInv, ShownIsAsked
<1> QED
  BY <1>9, <1>10, <1>11, <1>12 DEF StandInv

\* An answer is given for a command: what is left to show of both.
Answering(v, ts, cached, e) ==
    /\ Caching(v, ts, cached) /\ phase[v] = "stopped"
    /\ commands # <<>> /\ commands' = Tail(commands) /\ events' = Append(events, e)
    /\ e.kind # "break" /\ e.vm = v /\ e.children = Children(cached, ts)
    /\ e.seq \in DOMAIN asked /\ e.of = asked[e.seq] /\ e.of.vm = v
    /\ e.kind = "expandRet" => \A w \in stackTrace : Stands(e.ref, e.of)
    /\ UNCHANGED <<stackTrace, variables, id, tree, asked, answer>>

LEMMA StandAnswered ==
    ASSUME FewTables, Typed, StandInv, NEW v \in VM, NEW ts \in SUBSET Table, NEW cached,
           NEW e \in Evt, Answering(v, ts, cached, e)
    PROVE  StandInv'
<1>1. /\ \A i \in DOMAIN cache[v] : i \in DOMAIN cached /\ cached[i] = cache[v][i]
      /\ \A k \in Children(cached, ts) : k.ref \in DOMAIN cached /\ cached[k.ref] = k.table
      /\ cache'[v] = cached
      /\ \A w \in VM : w # v => cache'[w] = cache[w]
  <2>1. CacheOK /\ Caching(v, ts, cached)
    BY DEF Typed, Answering
  <2>2. /\ CacheOK' /\ Children(cached, ts) \in SUBSET Child
        /\ \A i \in DOMAIN cache[v] : i \in DOMAIN cached /\ cached[i] = cache[v][i]
        /\ \A k \in Children(cached, ts) : k.ref \in DOMAIN cached /\ cached[k.ref] = k.table
        /\ cache'[v] = cached
        /\ \A w \in VM : w # v => cache'[w] = cache[w]
    BY <2>1, CacheStep
  <2> QED
    BY <2>2
<1>2. /\ phase[v] = "stopped" /\ UNCHANGED phase
      /\ commands # <<>> /\ commands' = Tail(commands) /\ events' = Append(events, e)
      /\ e.kind # "break" /\ e.vm = v /\ e.children = Children(cached, ts)
      /\ e.seq \in DOMAIN asked /\ e.of = asked[e.seq] /\ e.of.vm = v
      /\ UNCHANGED <<stackTrace, variables, id, tree, asked, answer>>
  BY DEF Answering, Caching
<1>3. e.kind = "expandRet" => \A w \in stackTrace : Stands(e.ref, e.of)
  BY DEF Answering
<1>4. Grows
  BY <1>1, <1>2 DEF Grows
<1>5. /\ TreeStands' /\ VariablesStand' /\ ShownIsAsked'
      /\ \A d \in Range(events) : EventStands(d)'
      /\ \A c \in Range(commands) : CommandStands(c)'
  BY <1>2, <1>4, BackendKeeps
<1>6. /\ Range(commands') \subseteq Range(commands) /\ CommandsStopped' /\ ContinueLast'
  BY <1>2, TakenCommand DEF StandInv, InOrder
<1>7. BreakLast' /\ Range(events') = Range(events) \cup {e}
  BY <1>2, AnsweredOrder DEF StandInv, InOrder
<1>8. OneStopped' /\ ShownStopped'
  BY <1>2 DEF StandInv, InOrder, OneStopped, ShownStopped
<1>9. CommandsStand'
  BY <1>5, <1>6 DEF CommandsStand
<1>10. EventStands(e)'
  <2>1. Cached(v, e.children)'
    BY <1>1, <1>2 DEF Cached
  <2>2. ASSUME NEW w \in stackTrace
        PROVE  /\ v = w /\ Cached(w, e.children)'
               /\ e.kind = "expandRet" => Stands(e.ref, e.of)'
    <3>1. v = w
      BY <1>2, OnlyShown DEF StandInv
    <3>2. Cached(w, e.children)'
      BY <1>2, <2>1, <3>1
    <3>3. ASSUME e.kind = "expandRet" PROVE Stands(e.ref, e.of)'
      <4>1. Keeps
        BY <1>2, <1>4, GrowsKeeps DEF StandInv
      <4>2. e.ref \in Nat /\ e.of \in Object
        BY <1>2, <3>3, EvtKinds, LenProperties, ElementOfSeq DEF ExpandEvent, Typed, EditorOK
      <4> QED
        BY <1>2, <1>3, <3>1, <3>3, <4>1, <4>2 DEF Keeps
    <3> QED
      BY <3>1, <3>2, <3>3
  <2> QED
    BY <1>2, <2>2 DEF EventStands
<1>11. EventsStand'
  BY <1>5, <1>7, <1>10 DEF EventsStand
<1> QED
  BY <1>5, <1>6, <1>7, <1>8, <1>9, <1>11 DEF StandInv, InOrder

LEMMA StandCmdExpand == ASSUME FewTables, Typed, StandInv, CmdExpand PROVE StandInv'
<1>1. PICK c : c = Command
  OBVIOUS
<1>2. PICK target : target = Target(c)
  OBVIOUS
<1>3. PICK ts : ts = IF target = Failed THEN {} ELSE Inside(target)
  OBVIOUS
<1>4. PICK cached : cached = CacheAll(cache[c.vm], ts)
  OBVIOUS
<1>5. PICK e : e = [kind |-> "expandRet", seq |-> c.seq, vm |-> c.vm, ref |-> c.ref,
                    of |-> target, children |-> Children(cached, ts)]
  OBVIOUS
<1>6. /\ commands # <<>> /\ c = Head(commands) /\ c.kind = "expand"
      /\ commands' = Tail(commands)
      /\ cache' = [cache EXCEPT ![c.vm] = cached] /\ events' = Append(events, e)
      /\ UNCHANGED <<phase, stackTrace, variables, id, tree, asked, answer>>
  BY <1>1, <1>2, <1>3, <1>4, <1>5 DEF CmdExpand, Executed, Command, adapter, editor
<1>7. c \in Cmd /\ c \in Range(commands)
  BY <1>6, RangeTaken DEF Typed, PipesOK
<1>8. /\ c.vm \in VM /\ phase[c.vm] = "stopped"
      /\ c.seq \in Nat /\ c.ref \in Nat /\ c \in ExpandCmd
  BY <1>6, <1>7, CmdKinds DEF StandInv, InOrder, CommandsStopped, ExpandCmd
<1>9. /\ c.seq \in DOMAIN asked /\ target = asked[c.seq]
      /\ \A v \in stackTrace : Stands(c.ref, target)
  BY <1>2, <1>6, <1>7 DEF StandInv, CommandsStand, CommandStands
<1>10. target \in Object
  BY <1>9, LenProperties, ElementOfSeq DEF Typed, EditorOK
<1>11. target.vm = c.vm
  BY <1>2, <1>10, FailedIsNone DEF Target, ScopeOf, TableOf
<1>12. ts \in SUBSET Table
  BY <1>3, <1>10, ObjectIs
<1>13. Caching(c.vm, ts, cached) /\ Children(cached, ts) \in SUBSET Child
  <2>1. Caching(c.vm, ts, cached)
    BY <1>4, <1>6 DEF Caching
  <2> QED
    BY <1>8, <1>12, <2>1, CacheStep DEF Typed
<1>14. e \in Evt
  BY <1>5, <1>8, <1>10, <1>13 DEF Evt, ExpandEvent
<1>15. /\ e.kind # "break" /\ e.vm = c.vm /\ e.children = Children(cached, ts)
       /\ e.seq = c.seq /\ e.of = target /\ e.ref = c.ref
  BY <1>5
<1>16. Answering(c.vm, ts, cached, e)
  BY <1>6, <1>8, <1>9, <1>11, <1>13, <1>15 DEF Answering
<1> QED
  BY <1>8, <1>12, <1>14, <1>16, StandAnswered

LEMMA StandCmdEvaluate == ASSUME FewTables, Typed, StandInv, CmdEvaluate PROVE StandInv'
<1>1. PICK c : c = Command
  OBVIOUS
<1>2. c \in Cmd /\ c \in Range(commands) /\ c.kind = "evaluate" /\ commands # <<>>
  BY <1>1, RangeTaken DEF CmdEvaluate, Executed, Command, Typed, PipesOK
<1>3. /\ c.vm \in VM /\ phase[c.vm] = "stopped" /\ c.seq \in Nat /\ c.table \in Table
  BY <1>2, CmdKinds DEF StandInv, InOrder, CommandsStopped, EvaluateCmd
<1>4. /\ c.seq \in DOMAIN asked /\ asked[c.seq] = TableOf(c.vm, c.table)
      /\ c.level \in LuaLevel /\ c.table \in InFrame[c.level]
  BY <1>2 DEF StandInv, CommandsStand, CommandStands
<1>5. PICK of : of = TableOf(c.vm, c.table)
  OBVIOUS
<1>6. PICK ts : ts = {c.table}
  OBVIOUS
<1>7. PICK cached : cached = CacheAll(cache[c.vm], ts)
  OBVIOUS
<1>8. PICK e : e = [kind |-> "evaluateRet", seq |-> c.seq, vm |-> c.vm,
                    of |-> of, children |-> Children(cached, ts)]
  OBVIOUS
<1>9. /\ commands' = Tail(commands)
      /\ cache' = [cache EXCEPT ![c.vm] = cached] /\ events' = Append(events, e)
      /\ UNCHANGED <<phase, stackTrace, variables, id, tree, asked, answer>>
  BY <1>1, <1>4, <1>5, <1>6, <1>7, <1>8 DEF CmdEvaluate, Executed, adapter, editor
<1>10. ts \in SUBSET Table /\ of \in Object /\ of.vm = c.vm
  BY <1>3, <1>5, <1>6, ObjectTable
<1>11. Caching(c.vm, ts, cached) /\ Children(cached, ts) \in SUBSET Child
  <2>1. Caching(c.vm, ts, cached)
    BY <1>7, <1>9 DEF Caching
  <2> QED
    BY <1>3, <1>10, <2>1, CacheStep DEF Typed
<1>12. e \in Evt
  BY <1>3, <1>8, <1>10, <1>11 DEF Evt, EvaluateEvent
<1>13. /\ e.kind = "evaluateRet" /\ e.vm = c.vm /\ e.children = Children(cached, ts)
       /\ e.seq = c.seq /\ e.of = of
  BY <1>8
<1>14. Answering(c.vm, ts, cached, e)
  BY <1>2, <1>3, <1>4, <1>5, <1>9, <1>10, <1>11, <1>13 DEF Answering
<1> QED
  BY <1>3, <1>10, <1>12, <1>14, StandAnswered

-----------------------------------------------------------------------------
(* The events in the adapter.                                              *)

LEMMA StandFrontBreak == ASSUME Typed, StandInv, FrontBreak PROVE StandInv'
<1>1. PICK e : e = Event
  OBVIOUS
<1>2. /\ events # <<>> /\ e = Head(events) /\ e.kind = "break" /\ events' = Tail(events)
      /\ stackTrace' = stackTrace \cup {e.vm} /\ variables' = <<>> /\ id' = 0
      /\ UNCHANGED <<phase, cache, commands, tree, asked, answer>>
  BY <1>1 DEF FrontBreak, Handled, Event, backend, editor
<1>3. /\ e \in Evt /\ 1 \in DOMAIN events /\ e = events[1]
      /\ events' \in Seq(Evt) /\ Len(events') = Len(events) - 1
  BY <1>2, RangeTaken, Taken DEF Typed, PipesOK
<1>4. /\ 1 = Len(events) /\ phase[e.vm] = "stopped" /\ stackTrace = {} /\ commands = <<>>
  BY <1>2, <1>3 DEF StandInv, InOrder, BreakLast
<1>5. events' = <<>>
  <2>1. PICK q \in Seq(Evt) : q = events'
    BY <1>3
  <2>2. Len(q) = 0
    <3>1. PICK n : n = Len(events)
      OBVIOUS
    <3>2. n = 1
      BY <1>4, <3>1
    <3>3. Len(q) = n - 1
      BY <1>3, <2>1, <3>1
    <3> QED
      BY <3>2, <3>3
  <2>3. q = <<>>
    BY <2>2, EmptySeq
  <2> QED
    BY <2>1, <2>3
<1>6. stackTrace' = {e.vm} /\ tree = {}
  BY <1>2, <1>4 DEF StandInv, TreeStands
<1>7. InOrder'
  <2>1. OneStopped' /\ ShownStopped'
    BY <1>2, <1>4, <1>6 DEF StandInv, InOrder, OneStopped, ShownStopped
  <2>2. CommandsStopped' /\ ContinueLast' /\ BreakLast'
    BY <1>2, <1>4, <1>5, RangeEmpty DEF CommandsStopped, ContinueLast, BreakLast
  <2> QED
    BY <2>1, <2>2 DEF InOrder
<1>8. TreeStands' /\ VariablesStand' /\ EventsStand' /\ CommandsStand'
  <2>1. tree' = {} /\ variables' = <<>> /\ events' = <<>> /\ commands' = <<>>
    BY <1>2, <1>4, <1>5, <1>6
  <2> QED
    BY <2>1, RangeEmpty DEF TreeStands, VariablesStand, EventsStand, CommandsStand
<1>9. ShownIsAsked'
  BY <1>2 DEF StandInv, ShownIsAsked
<1> QED
  BY <1>7, <1>8, <1>9 DEF StandInv

\* An answer e is handled: the references of its children are new, and the
\* variable it is about has got its value.
Blank(v) == [vm |-> v, level |-> 0, scope |-> 0, value |-> Nothing, children |-> {}]
Handling(e, refs) ==
    /\ DOMAIN variables' = refs \cup DOMAIN variables
    /\ \A r \in refs : variables'[r] = Blank(e.vm)
    /\ \A r \in DOMAIN variables \ refs :
           \/ variables'[r] = variables[r]
           \/ /\ e.kind = "expandRet" /\ r = e.ref
              /\ variables'[r] = [variables[r] EXCEPT !.value = e.of, !.children = e.children]

LEMMA AskedObject == ASSUME Typed, NEW i \in DOMAIN asked PROVE asked[i] \in Object
BY LenProperties, ElementOfSeq DEF Typed, EditorOK

LEMMA AnswerStands ==
    ASSUME Typed, ShownIsAsked, NEW i, answer' = [answer EXCEPT ![i] = asked[i]], UNCHANGED asked
    PROVE  ShownIsAsked'
<1>1. answer \in Seq(Object \cup {Nothing, Failed}) /\ asked \in Seq(Object) /\ Len(answer) = Len(asked)
  BY DEF Typed, EditorOK
<1>2. DOMAIN answer = 1 .. Len(answer) /\ DOMAIN asked = 1 .. Len(asked)
  BY <1>1, LenProperties
<1>3. \A k \in DOMAIN asked : answer'[k] = IF k = i THEN asked[i] ELSE answer[k]
  BY <1>1, <1>2
<1> QED
  BY <1>3 DEF ShownIsAsked

LEMMA BelowFresh ==
    ASSUME NEW n \in Nat, NEW r \in Nat, r < 2 ^ 16
    PROVE  r < (n + 1) * 2 ^ 16
<1>1. 2 ^ 16 = 65536
  OBVIOUS
<1> QED
  BY <1>1

LEMMA StandHandled ==
    ASSUME FewTables, Typed, StandInv, events # <<>>, events' = Tail(events),
           NEW e \in Evt, e = Head(events), e.kind # "break", e.children \in SUBSET Child,
           NEW refs, refs = {c.ref : c \in e.children}, Handling(e, refs),
           answer' = [answer EXCEPT ![e.seq] = e.of], tree' = Learned(e.of, e.children),
           UNCHANGED <<phase, cache, commands, stackTrace, id, asked>>
    PROVE  StandInv'
<1>1. e \in Range(events)
  BY RangeTaken DEF Typed, PipesOK
<1>2. /\ e.seq \in DOMAIN asked /\ e.of = asked[e.seq] /\ e.of.vm = e.vm
      /\ \A v \in stackTrace : /\ e.vm = v /\ Cached(v, e.children)
                               /\ e.kind = "expandRet" => Stands(e.ref, e.of)
  BY <1>1 DEF StandInv, EventsStand, EventStands
<1>3. e.of \in Object /\ e.vm \in VM
  BY <1>2, EvtKinds, AskedObject
<1>4. refs \in SUBSET Nat /\ \A r \in refs : r < 2 ^ 16
  <2>1. PICK children \in SUBSET Child : children = e.children
    OBVIOUS
  <2>2. refs = {c.ref : c \in children}
    BY <2>1
  <2> QED
    BY <2>2, ChildRefs
<1>5. \A r \in refs : /\ variables'[r].vm = e.vm /\ variables'[r].scope = 0
                      /\ variables'[r].value = Nothing /\ variables'[r].children = {}
  <2>1. /\ Blank(e.vm).vm = e.vm /\ Blank(e.vm).scope = 0
        /\ Blank(e.vm).value = Nothing /\ Blank(e.vm).children = {}
    BY DEF Blank
  <2>2. \A r \in refs : variables'[r] = Blank(e.vm)
    BY DEF Handling
  <2> QED
    BY <2>1, <2>2
<1>6. \A r \in DOMAIN variables \ refs :
          /\ variables'[r].vm = variables[r].vm /\ variables'[r].scope = variables[r].scope
          /\ variables'[r].level = variables[r].level
          /\ \/ /\ variables'[r].value = variables[r].value
                /\ variables'[r].children = variables[r].children
             \/ /\ e.kind = "expandRet" /\ r = e.ref
                /\ variables'[r].value = e.of /\ variables'[r].children = e.children
  <2> SUFFICES ASSUME NEW r \in DOMAIN variables \ refs
               PROVE  /\ variables'[r].vm = variables[r].vm /\ variables'[r].scope = variables[r].scope
                      /\ variables'[r].level = variables[r].level
                      /\ \/ /\ variables'[r].value = variables[r].value
                            /\ variables'[r].children = variables[r].children
                         \/ /\ e.kind = "expandRet" /\ r = e.ref
                            /\ variables'[r].value = e.of /\ variables'[r].children = e.children
    OBVIOUS
  <2>1. PICK k \in Known : k = variables[r]
    BY DEF Typed, FrontOK, KnownOK
  <2>2. \/ variables'[r] = k
        \/ /\ e.kind = "expandRet" /\ r = e.ref
           /\ variables'[r] = [k EXCEPT !.value = e.of, !.children = e.children]
    BY <2>1 DEF Handling
  <2>3. PICK m : m = [k EXCEPT !.value = e.of, !.children = e.children]
    OBVIOUS
  <2>4. /\ m.vm = k.vm /\ m.scope = k.scope /\ m.level = k.level
        /\ m.value = e.of /\ m.children = e.children
    BY <2>3 DEF Known
  <2> QED
    BY <2>1, <2>2, <2>3, <2>4
<1>7. Grows /\ Asks
  BY DEF Grows, Asks
<1>8. Keeps
  <2> SUFFICES ASSUME NEW o \in Object, NEW r \in Nat, o.vm \in stackTrace, Stands(r, o)
               PROVE  Stands(r, o)'
    BY DEF Keeps
  <2>1. o.vm = e.vm /\ r \in DOMAIN variables
    BY <1>2 DEF Stands
  <2>2. CASE r \in refs
    <3>1. o.scope = 0
      BY <1>4, <2>1, <2>2 DEF Stands, Typed, FrontOK, KnownOK
    <3> QED
      BY <1>5, <2>1, <2>2, <3>1 DEF Stands, Handling
  <2>3. CASE r \notin refs
    BY <1>6, <2>1, <2>3 DEF Stands, Handling
  <2> QED
    BY <2>2, <2>3
<1>9. /\ \A n \in tree : n.of.vm \in stackTrace /\ Stands(n.ref, n.of)'
      /\ \A d \in Range(events) : EventStands(d)'
      /\ \A c \in Range(commands) : CommandStands(c)'
      /\ \A v \in stackTrace : \A r \in DOMAIN variables :
             /\ \A o \in Object : variables[r].value = o => Stands(r, o)'
             /\ \A c \in variables[r].children : Stands(c.ref, TableOf(v, c.table))'
  BY <1>7, <1>8, Kept
<1>10. \A v \in stackTrace : \A c \in e.children : Stands(c.ref, TableOf(v, c.table))'
  <2> SUFFICES ASSUME NEW v \in stackTrace, NEW c \in e.children
               PROVE  Stands(c.ref, TableOf(v, c.table))'
    OBVIOUS
  <2>1. e.vm = v /\ c.ref \in DOMAIN cache[v] /\ cache[v][c.ref] = c.table
    BY <1>2 DEF Cached
  <2>2. c.ref \in refs /\ c.table \in Table
    BY DEF Child
  <2>3. /\ TableOf(v, c.table).vm = v /\ TableOf(v, c.table).scope = 0
        /\ TableOf(v, c.table).table = c.table
    BY DEF TableOf
  <2> QED
    BY <1>5, <2>1, <2>2, <2>3 DEF Stands, Handling
<1>11. InOrder'
  <2>1. BreakLast'
    BY TakenEvent DEF StandInv, InOrder
  <2>2. OneStopped' /\ ShownStopped' /\ CommandsStopped' /\ ContinueLast'
    BY DEF StandInv, InOrder, OneStopped, ShownStopped, CommandsStopped, ContinueLast
  <2> QED
    BY <2>1, <2>2 DEF InOrder
<1>12. TreeStands'
  <2> SUFFICES ASSUME NEW n \in tree' PROVE n.of.vm \in stackTrace /\ Stands(n.ref, n.of)'
    BY DEF TreeStands
  <2>1. CASE n \in tree
    BY <1>9, <2>1
  <2>2. CASE n \notin tree
    <3>1. PICK c \in e.children : /\ e.of.vm \in stackTrace
                                  /\ n = [ref |-> c.ref, of |-> TableOf(e.of.vm, c.table)]
      BY <2>2 DEF Learned
    <3>2. TableOf(e.of.vm, c.table).vm = e.of.vm
      BY DEF TableOf
    <3>3. n.ref = c.ref /\ n.of = TableOf(e.of.vm, c.table)
      BY <3>1
    <3> QED
      BY <1>10, <3>1, <3>2, <3>3
  <2> QED
    BY <2>1, <2>2
<1>13. VariablesStand'
  <2> SUFFICES ASSUME NEW v \in stackTrace, NEW r \in DOMAIN variables'
               PROVE  VariableStands(v, r)'
    BY DEF VariablesStand
  <2>1. e.vm = v
    BY <1>2
  <2>2. PICK value : value = variables'[r].value
    OBVIOUS
  <2>3. PICK children : children = variables'[r].children
    OBVIOUS
  <2>4. /\ variables'[r].vm = v
        /\ r < (id + 1) * 2 ^ 16
        /\ value # Nothing => Stands(r, value)'
        /\ \A c \in children : Stands(c.ref, TableOf(v, c.table))'
    <3>1. CASE r \in refs
      <4>1. id \in Nat /\ r \in Nat /\ r < 2 ^ 16
        BY <1>4, <3>1 DEF Typed, FrontOK
      <4>2. r < (id + 1) * 2 ^ 16
        BY <4>1, BelowFresh
      <4> QED
        BY <1>5, <2>1, <2>2, <2>3, <3>1, <4>2
    <3>2. CASE r \notin refs
      <4>1. r \in DOMAIN variables
        BY <3>2 DEF Handling
      <4>2. variables[r].vm = v /\ r < (id + 1) * 2 ^ 16
        BY <4>1 DEF StandInv, VariablesStand, VariableStands
      <4>3. variables[r].value \in Object \cup {Nothing}
        BY <4>1 DEF Typed, FrontOK, KnownOK, Known
      <4>4. CASE value = variables[r].value /\ children = variables[r].children
        BY <1>6, <1>9, <3>2, <4>1, <4>2, <4>3, <4>4
      <4>5. CASE e.kind = "expandRet" /\ r = e.ref /\ value = e.of /\ children = e.children
        <5>1. Stands(r, e.of)
          BY <1>2, <4>5
        <5>2. r \in Nat /\ e.of.vm \in stackTrace
          BY <1>2, <2>1, <4>1 DEF Typed, FrontOK, KnownOK
        <5>3. Stands(r, value)'
          BY <1>3, <1>8, <4>5, <5>1, <5>2 DEF Keeps
        <5> QED
          BY <1>6, <1>10, <3>2, <4>1, <4>2, <4>5, <5>3
      <4> QED
        BY <1>6, <2>2, <2>3, <3>2, <4>1, <4>4, <4>5
    <3> QED
      BY <3>1, <3>2
  <2>5. (variables[r].value # Nothing => Stands(r, variables[r].value))'
    BY <2>2, <2>4 DEF Stands
  <2>6. (\A c \in variables[r].children : Stands(c.ref, TableOf(v, c.table)))'
    BY <2>3, <2>4
  <2> QED
    BY <2>4, <2>5, <2>6 DEF VariableStands
<1>14. EventsStand'
  BY <1>9, TakenEvent DEF EventsStand, StandInv, InOrder
<1>15. CommandsStand'
  BY <1>9 DEF CommandsStand
<1>16. ShownIsAsked'
  BY <1>2, AnswerStands DEF StandInv
<1> QED
  BY <1>11, <1>12, <1>13, <1>14, <1>15, <1>16 DEF StandInv

LEMMA StandFrontEvaluateRet ==
    ASSUME FewTables, Typed, StandInv, FrontEvaluateRet PROVE StandInv'
<1>1. PICK e : e = Event
  OBVIOUS
<1>2. PICK refs : refs = {c.ref : c \in e.children}
  OBVIOUS
<1>3. /\ events # <<>> /\ e = Head(events) /\ e.kind = "evaluateRet" /\ events' = Tail(events)
      /\ variables' = Created(variables, refs, e.vm, 0, 0)
      /\ answer' = [answer EXCEPT ![e.seq] = e.of] /\ tree' = Learned(e.of, e.children)
      /\ UNCHANGED <<phase, cache, commands, stackTrace, id, asked>>
  BY <1>1, <1>2 DEF FrontEvaluateRet, Handled, Event, backend
<1>4. e \in Evt /\ e.children \in SUBSET Child
  BY <1>3, Taken, EvtKinds DEF Typed, PipesOK, EvaluateEvent
<1>5. Handling(e, refs)
  BY <1>3 DEF Created, Blank, Handling
<1> QED
  BY <1>2, <1>3, <1>4, <1>5, StandHandled

LEMMA StandFrontExpandRet ==
    ASSUME FewTables, Typed, StandInv, FrontExpandRet PROVE StandInv'
<1>1. PICK e : e = Event
  OBVIOUS
<1>2. PICK refs : refs = {c.ref : c \in e.children}
  OBVIOUS
<1>3. PICK known : known = Created(variables, refs, e.vm, 0, 0)
  OBVIOUS
<1>4. /\ events # <<>> /\ e = Head(events) /\ e.kind = "expandRet" /\ events' = Tail(events)
      /\ UNCHANGED <<phase, cache, commands, stackTrace, id, asked>>
  BY <1>1 DEF FrontExpandRet, Handled, Event, backend
<1>5. e \in Evt /\ e.children \in SUBSET Child /\ e \in Range(events)
  BY <1>4, Taken, EvtKinds, RangeTaken DEF Typed, PipesOK, ExpandEvent
<1>6. CASE e.ref \notin DOMAIN variables
  <2>1. UNCHANGED <<variables, answer, tree>>
    BY <1>1, <1>6 DEF FrontExpandRet
  <2>2. Grows
    BY <1>4 DEF Grows
  <2>3. /\ TreeStands' /\ VariablesStand' /\ ShownIsAsked'
        /\ \A d \in Range(events) : EventStands(d)'
        /\ \A c \in Range(commands) : CommandStands(c)'
    BY <1>4, <2>1, <2>2, BackendKeeps
  <2>4. BreakLast' /\ Range(events') \subseteq Range(events)
    BY <1>4, TakenEvent DEF StandInv, InOrder
  <2>5. OneStopped' /\ ShownStopped' /\ CommandsStopped' /\ ContinueLast'
    BY <1>4 DEF StandInv, InOrder, OneStopped, ShownStopped, CommandsStopped, ContinueLast
  <2>6. EventsStand' /\ CommandsStand'
    BY <1>4, <2>3, <2>4 DEF EventsStand, CommandsStand
  <2> QED
    BY <2>3, <2>4, <2>5, <2>6 DEF StandInv, InOrder
<1>7. CASE e.ref \in DOMAIN variables
  <2>1. /\ answer' = [answer EXCEPT ![e.seq] = e.of] /\ tree' = Learned(e.of, e.children)
        /\ variables' = IF e.of = Failed \/ e.ref \in refs THEN known
                        ELSE [known EXCEPT ![e.ref].value = e.of, ![e.ref].children = e.children]
    BY <1>1, <1>2, <1>3, <1>7 DEF FrontExpandRet
  <2>2. /\ DOMAIN known = refs \cup DOMAIN variables
        /\ \A r \in refs : known[r] = Blank(e.vm)
        /\ \A r \in DOMAIN variables \ refs : known[r] = variables[r]
    BY <1>3 DEF Created, Blank
  <2>3. CASE e.of = Failed \/ e.ref \in refs
    <3>1. variables' = known
      BY <2>1, <2>3
    <3>2. Handling(e, refs)
      BY <2>2, <3>1 DEF Handling
    <3> QED
      BY <1>2, <1>4, <1>5, <2>1, <3>2, StandHandled
  <2>4. CASE ~(e.of = Failed \/ e.ref \in refs)
    <3>1. variables' = [known EXCEPT ![e.ref].value = e.of, ![e.ref].children = e.children]
      BY <2>1, <2>4
    <3>2. /\ DOMAIN variables' = refs \cup DOMAIN variables
          /\ \A r \in DOMAIN known : r # e.ref => variables'[r] = known[r]
          /\ variables'[e.ref] = [known[e.ref] EXCEPT !.value = e.of, !.children = e.children]
      BY <1>7, <2>2, <3>1
    <3>3. /\ \A r \in refs : variables'[r] = Blank(e.vm)
          /\ \A r \in DOMAIN variables \ refs :
                 \/ variables'[r] = variables[r]
                 \/ /\ e.kind = "expandRet" /\ r = e.ref
                    /\ variables'[r] = [variables[r] EXCEPT !.value = e.of, !.children = e.children]
      BY <1>4, <2>2, <2>4, <3>2
    <3>4. Handling(e, refs)
      BY <3>2, <3>3 DEF Handling
    <3> QED
      BY <1>2, <1>4, <1>5, <2>1, <3>4, StandHandled
  <2> QED
    BY <2>3, <2>4
<1> QED
  BY <1>6, <1>7

-----------------------------------------------------------------------------
(* The requests of the editor.                                             *)

\* While a state is shown it is the only one, and neither a resume nor a report of a
\* stop is under way.
LEMMA Shown ==
    ASSUME Typed, StandInv, NEW v \in stackTrace
    PROVE  /\ v \in VM /\ phase[v] = "stopped" /\ stackTrace = {v}
           /\ \A i \in DOMAIN commands : commands[i].kind # "continue"
           /\ \A i \in DOMAIN events : events[i].kind # "break"
<1>1. v \in VM /\ phase[v] = "stopped"
  BY DEF Typed, FrontOK, StandInv, InOrder, ShownStopped
<1>2. \A w \in stackTrace : w = v
  BY <1>1 DEF Typed, FrontOK, StandInv, InOrder, ShownStopped, OneStopped
<1>3. \A i \in DOMAIN commands : commands[i].kind # "continue"
  BY DEF StandInv, InOrder, ContinueLast
<1>4. \A i \in DOMAIN events : events[i].kind # "break"
  BY DEF StandInv, InOrder, BreakLast
<1> QED
  BY <1>1, <1>2, <1>3, <1>4

\* A command is sent to the state that is shown.
LEMMA SentOrder ==
    ASSUME Typed, StandInv, NEW v \in stackTrace, NEW c \in Cmd, c.vm = v,
           commands' = Append(commands, c), UNCHANGED <<phase, events>>,
           (c.kind # "continue" /\ UNCHANGED stackTrace) \/ stackTrace' = {}
    PROVE  InOrder' /\ Range(commands') = Range(commands) \cup {c}
<1>1. /\ v \in VM /\ phase[v] = "stopped" /\ stackTrace = {v}
      /\ \A i \in DOMAIN commands : commands[i].kind # "continue"
      /\ \A i \in DOMAIN events : events[i].kind # "break"
  BY Shown
<1>2. /\ Range(commands') = Range(commands) \cup {c}
      /\ Len(commands') = Len(commands) + 1
      /\ \A i \in DOMAIN commands' : \/ i \in DOMAIN commands /\ commands'[i] = commands[i]
                                     \/ i = Len(commands) + 1 /\ commands'[i] = c
  BY RangePut DEF Typed, PipesOK
<1>3. OneStopped' /\ ShownStopped'
  BY DEF StandInv, InOrder, OneStopped, ShownStopped
<1>4. CommandsStopped'
  BY <1>1, <1>2 DEF StandInv, InOrder, CommandsStopped
<1>5. ContinueLast'
  BY <1>1, <1>2 DEF ContinueLast
<1>6. BreakLast'
  BY <1>1 DEF BreakLast
<1> QED
  BY <1>2, <1>3, <1>4, <1>5, <1>6 DEF InOrder

LEMMA AskStands ==
    ASSUME Typed, ShownIsAsked, NEW o \in Object, NEW shown \in {Nothing, o}, Ask(o, shown)
    PROVE  /\ ShownIsAsked' /\ Asks
           /\ Number \in Nat /\ Number \in DOMAIN asked' /\ asked'[Number] = o
<1>1. /\ asked \in Seq(Object) /\ answer \in Seq(Object \cup {Nothing, Failed})
      /\ Len(asked) = Len(answer)
  BY DEF Typed, EditorOK
<1>2. Len(asked) \in Nat /\ DOMAIN asked = 1 .. Len(asked) /\ DOMAIN answer = 1 .. Len(answer)
  BY <1>1, LenProperties
<1>3. /\ asked' \in Seq(Object) /\ Len(asked') = Len(asked) + 1
      /\ \A i \in 1 .. Len(asked) : asked'[i] = asked[i]
      /\ asked'[Len(asked) + 1] = o
  BY <1>1, AppendProperties DEF Ask
<1>4. DOMAIN asked' = 1 .. Len(asked) + 1
  BY <1>3, LenProperties
<1>5. /\ \A i \in 1 .. Len(answer) : answer'[i] = answer[i]
      /\ answer'[Len(answer) + 1] = shown
  BY <1>1, AppendProperties DEF Ask
<1>6. Asks
  BY <1>2, <1>3, <1>4 DEF Asks
<1>7. Number \in Nat /\ Number \in DOMAIN asked' /\ asked'[Number] = o
  BY <1>2, <1>3, <1>4 DEF Number
<1>8. ShownIsAsked'
  <2> SUFFICES ASSUME NEW i \in DOMAIN asked' PROVE answer'[i] \in {Nothing, asked'[i]}
    BY DEF ShownIsAsked
  <2>1. CASE i \in DOMAIN asked
    BY <1>1, <1>2, <1>3, <1>5, <2>1 DEF ShownIsAsked
  <2>2. CASE i = Len(asked) + 1
    BY <1>1, <1>3, <1>5, <2>2
  <2> QED
    BY <1>2, <1>4, <2>1, <2>2
<1> QED
  BY <1>6, <1>7, <1>8

\* A request that changes neither the cache nor what is known.
LEMMA RequestKeeps ==
    ASSUME Typed, StandInv, Asks, UNCHANGED <<phase, cache, stackTrace, variables, id>>
    PROVE  /\ \A n \in tree : n.of.vm \in stackTrace /\ Stands(n.ref, n.of)'
           /\ VariablesStand'
           /\ \A e \in Range(events) : EventStands(e)'
           /\ \A c \in Range(commands) : CommandStands(c)'
<1>1. Grows
  BY DEF Grows
<1>2. Keeps
  BY <1>1, GrowsKeeps DEF StandInv
<1>3. VariablesStand'
  BY DEF StandInv, VariablesStand, VariableStands, Stands
<1> QED
  BY <1>1, <1>2, <1>3, Kept

\* Fresh references, for a state that is shown, are not among those known.
LEMMA FreshNew ==
    ASSUME Typed, StandInv, NEW v \in stackTrace, NEW s \in Scope
    PROVE  Fresh(s) \notin DOMAIN variables /\ Fresh(s) < (id + 3) * 2 ^ 16 /\ Fresh(1) # Fresh(2)
<1>1. id \in Nat /\ 2 ^ 16 = 65536 /\ s \in 1 .. 2
  BY DEF Typed, FrontOK, Scope
<1>2. \A r \in DOMAIN variables : r \in Nat /\ r < (id + 1) * 2 ^ 16
  BY DEF Typed, FrontOK, KnownOK, StandInv, VariablesStand, VariableStands
<1>3. PICK n \in Nat : n = id
  BY <1>1
<1>4. /\ ~((n + s) * 65536 < (n + 1) * 65536) /\ (n + s) * 65536 < (n + 3) * 65536
      /\ (n + 1) * 65536 # (n + 2) * 65536
  BY <1>1
<1>5. ~(Fresh(s) < (id + 1) * 2 ^ 16)
  BY <1>1, <1>3, <1>4 DEF Fresh
<1>6. Fresh(s) \notin DOMAIN variables
  BY <1>2, <1>5
<1>7. Fresh(s) < (id + 3) * 2 ^ 16 /\ Fresh(1) # Fresh(2)
  BY <1>1, <1>3, <1>4 DEF Fresh
<1> QED
  BY <1>6, <1>7

LEMMA StandScopesRequest ==
    ASSUME FramesFit, Typed, StandInv, NEW v \in VM, NEW l \in Level, ScopesRequest(v, l)
    PROVE  StandInv'
<1>1. /\ v \in stackTrace /\ l \in LuaLevel
      /\ UNCHANGED <<phase, cache, commands, events, stackTrace, asked, answer>>
  BY DEF ScopesRequest, backend
<1>2. PICK frame : frame = FrameId(v, l)
  OBVIOUS
<1>3. ThreadOf(frame) = v /\ LevelOf(frame) = l
  BY <1>1, <1>2, FrameFound
<1>4. /\ variables' = Scoped(frame) /\ id' = id + 2
      /\ tree' = tree \cup {[ref |-> Fresh(s), of |-> ScopeOf(v, l, s)] : s \in Scope}
  BY <1>1, <1>2, <1>3, ScopesStep
<1>5. PICK new : new = [s \in Scope |-> [vm |-> v, level |-> l, scope |-> s,
                                         value |-> Nothing, children |-> {}]]
  OBVIOUS
<1>6. \A s \in Scope : /\ new[s].vm = v /\ new[s].level = l /\ new[s].scope = s
                       /\ new[s].value = Nothing /\ new[s].children = {}
  BY <1>5
<1>7. 1 \in Scope /\ 2 \in Scope /\ \A s \in Scope : s = 1 \/ s = 2
  BY DEF Scope
<1>8. /\ Fresh(1) \notin DOMAIN variables /\ Fresh(2) \notin DOMAIN variables
      /\ Fresh(1) # Fresh(2)
      /\ \A s \in Scope : Fresh(s) < (id + 3) * 2 ^ 16
  BY <1>1, <1>7, FreshNew
<1>9. /\ DOMAIN variables' = {Fresh(1), Fresh(2)} \cup DOMAIN variables
      /\ variables'[Fresh(1)] = new[1] /\ variables'[Fresh(2)] = new[2]
      /\ \A r \in DOMAIN variables : variables'[r] = variables[r]
  BY <1>3, <1>4, <1>5, <1>7, <1>8 DEF Scoped, Created
<1>10. Grows /\ Asks
  BY <1>1 DEF Grows, Asks
<1>11. Keeps
  BY <1>1, <1>9 DEF Keeps, Stands
<1>12. /\ \A n \in tree : n.of.vm \in stackTrace /\ Stands(n.ref, n.of)'
       /\ \A e \in Range(events) : EventStands(e)'
       /\ \A c \in Range(commands) : CommandStands(c)'
       /\ \A w \in stackTrace : \A r \in DOMAIN variables :
             /\ \A o \in Object : variables[r].value = o => Stands(r, o)'
             /\ \A c \in variables[r].children : Stands(c.ref, TableOf(w, c.table))'
  BY <1>1, <1>10, <1>11, Kept
<1>13. InOrder'
  BY <1>1 DEF StandInv, InOrder, OneStopped, ShownStopped, CommandsStopped, ContinueLast, BreakLast
<1>14. TreeStands'
  <2> SUFFICES ASSUME NEW n \in tree' PROVE n.of.vm \in stackTrace /\ Stands(n.ref, n.of)'
    BY <1>1 DEF TreeStands
  <2>1. CASE n \in tree
    BY <1>12, <2>1
  <2>2. CASE n \notin tree
    <3>1. PICK s \in Scope : n = [ref |-> Fresh(s), of |-> ScopeOf(v, l, s)]
      BY <1>4, <2>2
    <3>2. n.ref = Fresh(s) /\ n.of = ScopeOf(v, l, s)
      BY <3>1
    <3>3. n.of.vm = v /\ n.of.scope = s /\ n.of.level = l /\ s # 0
      BY <3>2 DEF ScopeOf, Scope
    <3>4. n.ref \in DOMAIN variables' /\ variables'[n.ref] = new[s]
      BY <1>7, <1>9, <3>2
    <3> QED
      BY <1>1, <1>6, <3>3, <3>4 DEF Stands
  <2> QED
    BY <2>1, <2>2
<1>15. VariablesStand'
  <2> SUFFICES ASSUME NEW w \in stackTrace, NEW r \in DOMAIN variables'
               PROVE  VariableStands(w, r)'
    BY <1>1 DEF VariablesStand
  <2>1. w = v
    BY <1>1, Shown
  <2>2. id \in Nat /\ 2 ^ 16 = 65536
    BY DEF Typed, FrontOK
  <2>3. CASE r \in DOMAIN variables
    <3>1. variables[r].vm = w /\ r < (id + 1) * 2 ^ 16
      BY <2>3 DEF StandInv, VariablesStand, VariableStands
    <3>2. r \in Nat /\ variables[r].value \in Object \cup {Nothing}
      BY <2>3 DEF Typed, FrontOK, KnownOK, Known
    <3>3. \A n \in Nat, k \in Nat : k < (n + 1) * 65536 => k < ((n + 2) + 1) * 65536
      OBVIOUS
    <3>4. r < (id' + 1) * 2 ^ 16
      BY <1>4, <2>2, <3>1, <3>2, <3>3
    <3>5. (variables[r].value # Nothing => Stands(r, variables[r].value))'
      <4>1. PICK o : o = variables[r].value
        OBVIOUS
      <4>2. o # Nothing => Stands(r, o)'
        BY <1>12, <2>3, <3>2, <4>1
      <4>3. variables'[r].value = o
        BY <1>9, <2>3, <4>1
      <4> QED
        BY <4>2, <4>3 DEF Stands
    <3>6. (\A c \in variables[r].children : Stands(c.ref, TableOf(w, c.table)))'
      BY <1>9, <1>12, <2>3
    <3>7. variables'[r].vm = w
      BY <1>9, <2>3, <3>1
    <3> QED
      BY <3>4, <3>5, <3>6, <3>7 DEF VariableStands
  <2>4. ASSUME NEW s \in Scope, r = Fresh(s) PROVE VariableStands(w, r)'
    <3>1. variables'[r] = new[s]
      BY <1>7, <1>9, <2>4
    <3>2. r < (id' + 1) * 2 ^ 16
      <4>1. r < (id + 3) * 2 ^ 16
        BY <1>8, <2>4
      <4>2. id' + 1 = id + 3
        BY <1>4, <2>2
      <4> QED
        BY <4>1, <4>2
    <3>3. variables'[r].vm = w /\ variables'[r].value = Nothing /\ variables'[r].children = {}
      BY <1>6, <2>1, <3>1
    <3> QED
      BY <3>2, <3>3 DEF VariableStands
  <2> QED
    BY <1>7, <1>9, <2>3, <2>4
<1>16. EventsStand' /\ CommandsStand'
  BY <1>1, <1>12 DEF EventsStand, CommandsStand
<1>17. ShownIsAsked'
  BY <1>1 DEF StandInv, ShownIsAsked
<1> QED
  BY <1>13, <1>14, <1>15, <1>16, <1>17 DEF StandInv

LEMMA StandVariablesRequest ==
    ASSUME FewTables, Typed, StandInv, VariablesRequest PROVE StandInv'
<1>1. PICK n \in tree :
        IF n.ref \notin DOMAIN variables
        THEN /\ Ask(n.of, Nothing)
             /\ UNCHANGED <<backend, commands, events, adapter, tree, stops>>
        ELSE LET var == variables[n.ref] IN
             IF var.value # Nothing
             THEN /\ Ask(n.of, var.value)
                  /\ tree' = Learned(var.value, var.children)
                  /\ UNCHANGED <<backend, commands, events, adapter, stops>>
             ELSE /\ Ask(n.of, Nothing)
                  /\ commands' = IF var.vm \notin stackTrace THEN commands
                                 ELSE Append(commands,
                                     [kind |-> "expand", seq |-> Number, vm |-> var.vm,
                                      level |-> var.level, scope |-> var.scope, ref |-> n.ref])
                  /\ UNCHANGED <<backend, events, adapter, tree, stops>>
  BY DEF VariablesRequest
<1>2. PICK o : o = n.of
  OBVIOUS
<1>3. o \in Object /\ o.vm \in stackTrace /\ Stands(n.ref, o) /\ n.ref \in Nat
  BY <1>2 DEF Typed, FrontOK, StandInv, TreeStands
<1>4. PICK var : var = variables[n.ref]
  OBVIOUS
<1>5. /\ n.ref \in DOMAIN variables /\ var.vm = o.vm /\ var.scope = o.scope
      /\ IF o.scope = 0 THEN n.ref \in DOMAIN cache[o.vm] /\ cache[o.vm][n.ref] = o.table
                        ELSE var.level = o.level
  BY <1>3, <1>4 DEF Stands
<1>6. var \in Known /\ var.value \in Object \cup {Nothing}
  BY <1>4, <1>5 DEF Typed, FrontOK, KnownOK, Known
<1>7. UNCHANGED <<phase, cache, events, stackTrace, variables, id>>
  BY <1>1 DEF backend, adapter
<1>8. InOrder' /\ TreeStands' /\ EventsStand' /\ CommandsStand' /\ ShownIsAsked' /\ Asks
  <2>1. CASE var.value # Nothing
    <3>1. /\ Ask(o, var.value) /\ tree' = Learned(var.value, var.children)
          /\ UNCHANGED commands
      BY <1>1, <1>2, <1>4, <1>5, <2>1
    <3>2. var.value = o
      <4>1. PICK p \in Object : p = var.value
        BY <1>6, <2>1
      <4>2. Stands(n.ref, p)
        BY <1>3, <1>4, <1>5, <2>1, <4>1 DEF StandInv, VariablesStand, VariableStands
      <4>3. p.vm = o.vm /\ p.scope = o.scope
        BY <1>4, <1>5, <4>2 DEF Stands
      <4>4. CASE o.scope = 0
        <5>1. p.table = o.table
          BY <1>5, <4>2, <4>3, <4>4 DEF Stands
        <5> QED
          BY <1>3, <4>1, <4>3, <4>4, <5>1, ObjectIs
      <4>5. CASE o.scope # 0
        <5>1. p.level = o.level
          BY <1>4, <1>5, <4>2, <4>3, <4>5 DEF Stands
        <5> QED
          BY <1>3, <4>1, <4>3, <4>5, <5>1, ObjectIs
      <4> QED
        BY <4>4, <4>5
    <3>3. ShownIsAsked' /\ Asks
      BY <1>3, <3>1, <3>2, AskStands DEF StandInv
    <3>4. /\ \A m \in tree : m.of.vm \in stackTrace /\ Stands(m.ref, m.of)'
          /\ \A e \in Range(events) : EventStands(e)'
          /\ \A c \in Range(commands) : CommandStands(c)'
      BY <1>7, <3>3, RequestKeeps
    <3>5. TreeStands'
      <4> SUFFICES ASSUME NEW m \in tree' PROVE m.of.vm \in stackTrace /\ Stands(m.ref, m.of)'
        BY <1>7 DEF TreeStands
      <4>1. CASE m \in tree
        BY <3>4, <4>1
      <4>2. CASE m \notin tree
        <5>1. PICK c \in var.children : m = [ref |-> c.ref, of |-> TableOf(o.vm, c.table)]
          BY <3>1, <3>2, <4>2 DEF Learned
        <5>2. m.ref = c.ref /\ m.of = TableOf(o.vm, c.table) /\ m.of.vm = o.vm
          BY <5>1 DEF TableOf
        <5>3. Stands(c.ref, TableOf(o.vm, c.table))
          BY <1>3, <1>4, <1>5 DEF StandInv, VariablesStand, VariableStands
        <5>4. Stands(c.ref, TableOf(o.vm, c.table))'
          BY <1>7, <5>3 DEF Stands
        <5> QED
          BY <1>3, <5>2, <5>4
      <4> QED
        BY <4>1, <4>2
    <3>6. EventsStand' /\ CommandsStand'
      BY <1>7, <3>1, <3>4 DEF EventsStand, CommandsStand
    <3>7. InOrder'
      BY <1>7, <3>1 DEF StandInv, InOrder, OneStopped, ShownStopped, CommandsStopped,
                        ContinueLast, BreakLast
    <3> QED
      BY <3>3, <3>5, <3>6, <3>7
  <2>2. CASE var.value = Nothing
    <3>1. PICK c : c = [kind |-> "expand", seq |-> Number, vm |-> var.vm,
                        level |-> var.level, scope |-> var.scope, ref |-> n.ref]
      OBVIOUS
    <3>2. Ask(o, Nothing) /\ commands' = Append(commands, c) /\ UNCHANGED tree
      BY <1>1, <1>2, <1>3, <1>4, <1>5, <2>2, <3>1
    <3>3. /\ ShownIsAsked' /\ Asks
          /\ Number \in Nat /\ Number \in DOMAIN asked' /\ asked'[Number] = o
      BY <1>3, <3>2, AskStands DEF StandInv
    <3>4. /\ \A m \in tree : m.of.vm \in stackTrace /\ Stands(m.ref, m.of)'
          /\ \A e \in Range(events) : EventStands(e)'
          /\ \A d \in Range(commands) : CommandStands(d)'
      BY <1>7, <3>3, RequestKeeps
    <3>5. /\ c.kind = "expand" /\ c.seq = Number /\ c.vm = o.vm /\ c.level = var.level
          /\ c.scope = o.scope /\ c.ref = n.ref
      BY <1>5, <3>1
    <3>6. c \in Cmd
      <4>1. /\ var.vm \in VM /\ var.level \in LevelSent /\ var.scope \in Scope \cup {0}
        BY <1>6 DEF Known
      <4> QED
        BY <1>3, <3>1, <3>3, <4>1 DEF Cmd, ExpandCmd
    <3>7. InOrder' /\ Range(commands') = Range(commands) \cup {c}
      BY <1>3, <1>7, <3>2, <3>5, <3>6, SentOrder
    <3>8. Target(c) = o
      <4>1. CASE o.scope = 0
        BY <1>3, <1>5, <3>5, <4>1, ObjectIs DEF Target
      <4>2. CASE o.scope # 0
        BY <1>3, <1>5, <3>5, <4>2, ObjectIs DEF Target
      <4> QED
        BY <4>1, <4>2
    <3>9. CommandStands(c)'
      <4>1. Target(c)' = o
        BY <1>7, <3>8 DEF Target
      <4>2. Stands(c.ref, asked[c.seq])'
        BY <1>3, <1>7, <3>3, <3>5 DEF Stands
      <4> QED
        BY <3>3, <3>5, <4>1, <4>2 DEF CommandStands
    <3>10. CommandsStand'
      BY <3>4, <3>7, <3>9 DEF CommandsStand
    <3>11. EventsStand' /\ TreeStands'
      BY <1>7, <3>2, <3>4 DEF EventsStand, TreeStands
    <3> QED
      BY <3>3, <3>7, <3>10, <3>11
  <2> QED
    BY <2>1, <2>2
<1>9. VariablesStand'
  BY <1>7, <1>8, RequestKeeps
<1> QED
  BY <1>8, <1>9 DEF StandInv

LEMMA StandEvaluateRequest ==
    ASSUME FramesFit, Typed, StandInv, NEW v \in VM, NEW l \in Level, NEW t \in Table,
           EvaluateRequest(v, l, t)
    PROVE  StandInv'
<1>1. PICK frame : frame = FrameId(v, l)
  OBVIOUS
<1>2. /\ v \in stackTrace /\ l \in LuaLevel /\ t \in InFrame[l]
      /\ Ask(TableOf(v, t), Nothing)
      /\ UNCHANGED <<phase, cache, events, stackTrace, variables, id, tree>>
  BY DEF EvaluateRequest, backend, adapter
<1>3. ThreadOf(frame) = v /\ LevelOf(frame) = l
  BY <1>1, <1>2, FrameFound
<1>4. PICK c : c = [kind |-> "evaluate", seq |-> Number, vm |-> v, level |-> l, table |-> t]
  OBVIOUS
<1>5. commands' = Append(commands, c)
  BY <1>1, <1>2, <1>3, <1>4 DEF EvaluateRequest
<1>6. PICK o \in Object : o = TableOf(v, t)
  BY ObjectTable
<1>7. /\ ShownIsAsked' /\ Asks
      /\ Number \in Nat /\ Number \in DOMAIN asked' /\ asked'[Number] = o
  BY <1>2, <1>6, AskStands DEF StandInv
<1>8. /\ \A n \in tree : n.of.vm \in stackTrace /\ Stands(n.ref, n.of)'
      /\ VariablesStand'
      /\ \A e \in Range(events) : EventStands(e)'
      /\ \A d \in Range(commands) : CommandStands(d)'
  BY <1>2, <1>7, RequestKeeps
<1>9. /\ c.kind = "evaluate" /\ c.seq = Number /\ c.vm = v /\ c.level = l /\ c.table = t
  BY <1>4
<1>10. c \in Cmd
  <2>1. l \in LevelSent
    BY <1>1, <1>2, <1>3 DEF LevelSent
  <2> QED
    BY <1>4, <1>7, <2>1 DEF Cmd, EvaluateCmd
<1>11. InOrder' /\ Range(commands') = Range(commands) \cup {c}
  BY <1>2, <1>5, <1>9, <1>10, SentOrder
<1>12. CommandStands(c)'
  BY <1>2, <1>6, <1>7, <1>9 DEF CommandStands
<1>13. CommandsStand'
  BY <1>8, <1>11, <1>12 DEF CommandsStand
<1>14. EventsStand' /\ TreeStands'
  BY <1>2, <1>8 DEF EventsStand, TreeStands
<1> QED
  BY <1>7, <1>8, <1>11, <1>13, <1>14 DEF StandInv

LEMMA StandContinueRequest ==
    ASSUME Typed, StandInv, NEW v \in VM, ContinueRequest(v) PROVE StandInv'
<1>1. PICK c : c = [kind |-> "continue", vm |-> v]
  OBVIOUS
<1>2. /\ v \in stackTrace /\ commands' = Append(commands, c)
      /\ stackTrace' = stackTrace \ {v} /\ tree' = {n \in tree : n.of.vm # v}
      /\ UNCHANGED <<phase, cache, events, variables, id, asked, answer>>
  BY <1>1 DEF ContinueRequest, backend
<1>3. stackTrace = {v} /\ stackTrace' = {}
  BY <1>2, Shown
<1>4. tree' = {}
  BY <1>2, <1>3 DEF StandInv, TreeStands
<1>5. c \in Cmd /\ c.vm = v /\ c.kind = "continue"
  BY <1>1 DEF Cmd, ContinueCmd
<1>6. InOrder' /\ Range(commands') = Range(commands) \cup {c}
  BY <1>2, <1>3, <1>5, SentOrder
<1>7. TreeStands' /\ VariablesStand' /\ ShownIsAsked'
  BY <1>2, <1>3, <1>4 DEF TreeStands, VariablesStand, StandInv, ShownIsAsked
<1>8. EventsStand'
  BY <1>2, <1>3 DEF StandInv, EventsStand, EventStands
<1>9. CommandsStand'
  <2>1. \A d \in Range(commands) : CommandStands(d)'
    BY <1>2, <1>3 DEF StandInv, CommandsStand, CommandStands, Target
  <2>2. CommandStands(c)'
    BY <1>5 DEF CommandStands
  <2> QED
    BY <1>6, <2>1, <2>2 DEF CommandsStand
<1> QED
  BY <1>6, <1>7, <1>8, <1>9 DEF StandInv

-----------------------------------------------------------------------------
(* Together.                                                               *)

Hypotheses == FewTables /\ FramesFit /\ ~Together

LEMMA StandNext == ASSUME Hypotheses, Typed, StandInv, [Next]_vars PROVE StandInv'
<1> USE DEF Hypotheses
<1>1. CASE Backend
  BY <1>1, StandClear, StandCmdContinue, StandCmdExpand, StandCmdEvaluate DEF Backend
<1>2. CASE Adapter
  BY <1>2, StandFrontBreak, StandFrontEvaluateRet, StandFrontExpandRet DEF Adapter
<1>3. CASE User
  BY <1>3, StandScopesRequest, StandEvaluateRequest, StandContinueRequest DEF User
<1>4. CASE VariablesRequest
  BY <1>4, StandVariablesRequest
<1>5. CASE \E v \in VM : Stop(v)
  BY <1>5, StandStop
<1>6. CASE UNCHANGED vars
  <2>1. UNCHANGED <<phase, cache, commands, events, stackTrace, variables, id, tree, asked, answer>>
    BY <1>6 DEF vars, backend, adapter, editor
  <2>2. InOrder'
    BY <2>1 DEF StandInv, InOrder, OneStopped, ShownStopped, CommandsStopped, ContinueLast,
                BreakLast
  <2>3. Grows
    BY <2>1 DEF Grows
  <2>4. /\ TreeStands' /\ VariablesStand' /\ ShownIsAsked'
        /\ \A e \in Range(events) : EventStands(e)'
        /\ \A c \in Range(commands) : CommandStands(c)'
    BY <2>1, <2>3, BackendKeeps
  <2>5. EventsStand' /\ CommandsStand'
    BY <2>1, <2>4 DEF EventsStand, CommandsStand
  <2> QED
    BY <2>2, <2>4, <2>5 DEF StandInv
<1> QED
  BY <1>1, <1>2, <1>3, <1>4, <1>5, <1>6 DEF Next

LEMMA NumbersFollow == ASSUME StandInv PROVE NumbersAgree
BY DEF StandInv, TreeStands, Stands, NumbersAgree

LEMMA Invariant == Hypotheses /\ Spec => [](Typed /\ StandInv)
<1>1. SUFFICES ASSUME Hypotheses PROVE Spec => [](Typed /\ StandInv)
  OBVIOUS
<1>2. Init => Typed /\ StandInv
  BY InitTyped, InitStands
<1>3. Typed /\ StandInv /\ [Next]_vars => (Typed /\ StandInv)'
  BY <1>1, TypedNext, StandNext DEF Hypotheses
<1> QED
  BY <1>2, <1>3, PTL DEF Spec

\* What is shown for a variable is that variable, whatever was resumed, stopped, numbered
\* again and cached before, while one state is stopped at a time and the ids of frames and
\* of tables are exact (variables.lua 15-18, 145-162, 201-207; DebugBackend.cpp 1789-1866).
THEOREM ShownAsAsked == Hypotheses /\ Spec => []ShownIsAsked
<1>1. StandInv => ShownIsAsked
  BY DEF StandInv
<1> QED
  BY <1>1, Invariant, PTL

\* The number the editor holds for a table is the number of that table in the backend, in
\* every state that is still stopped (variables.lua 15, DebugBackend.cpp 1468).
THEOREM NumbersAlwaysAgree == Hypotheses /\ Spec => []NumbersAgree
<1>1. StandInv => NumbersAgree
  BY NumbersFollow
<1> QED
  BY <1>1, Invariant, PTL

=============================================================================
