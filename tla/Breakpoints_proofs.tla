-------------------------- MODULE Breakpoints_proofs --------------------------
(***************************************************************************)
(* Proofs about Breakpoints, for every set of chunks and requests.         *)
(***************************************************************************)
EXTENDS Breakpoints, Counting, WellFoundedInduction

-----------------------------------------------------------------------------
(* Requests and the objects made of them.                                  *)

Lines == Nat \ {0}
Entry == [line : Lines, checks : SUBSET Check, bad : BOOLEAN, id : Nat \ {0}]
Table == UNION {[S -> Object] : S \in {T \in SUBSET Lines : IsFiniteSet(T)}}

LEMMA TableType ==
    ASSUME NEW t
    PROVE  t \in Table <=> /\ DOMAIN t \in SUBSET Lines /\ IsFiniteSet(DOMAIN t)
                           /\ t \in [DOMAIN t -> Object]
BY DEF Table

\* A set of natural numbers with a member and a bound has a greatest one.
LEMMA GreatestExists ==
    ASSUME NEW T \in SUBSET Nat, NEW n \in Nat, \A i \in T : i <= n, T # {}
    PROVE  \E k \in T : \A j \in T : j <= k
<1> DEFINE less == OpToRel(<, Nat)
           D == {n - i : i \in T}
<1>1. D \in SUBSET Nat /\ D # {}
  <2>1. \A i \in T : i \in Nat /\ n - i \in Nat
        OBVIOUS
  <2> QED BY <2>1
<1>2. \E d \in D : \A e \in D : <<e, d>> \notin less
      BY <1>1, WFMin, NatLessThanWellFounded
<1>3. \A a, b \in Nat : a < b => <<a, b>> \in less
      BY Zenon DEF OpToRel
<1> HIDE DEF less
<1>4. PICK d \in D : \A e \in D : <<e, d>> \notin less
      BY <1>2
<1>5. ASSUME NEW e \in D PROVE ~(e < d)
      BY <1>1, <1>3, <1>4
<1>6. PICK k \in T : d = n - k
      OBVIOUS
<1>7. ASSUME NEW j \in T PROVE j <= k
  <2>1. n - j \in D
        OBVIOUS
  <2>2. ~(n - j < n - k) /\ j \in Nat /\ k \in Nat
        BY <1>5, <1>6, <2>1
  <2> QED BY <2>2
<1> QED BY <1>7

LEMMA LastOnType ==
    ASSUME NEW req \in Seq(Entry), NEW l \in {req[k].line : k \in Good(req)}
    PROVE  LastOn(req, l) \in Good(req) /\ req[LastOn(req, l)].line = l
<1> DEFINE T == {k \in Good(req) : req[k].line = l}
<1>1. T \in SUBSET Nat /\ (\A i \in T : i <= Len(req)) /\ T # {} /\ Len(req) \in Nat
      BY LenProperties DEF Good
<1>2. \E k \in T : \A j \in T : j <= k
      BY <1>1, GreatestExists
<1> QED BY <1>2 DEF LastOn

\* The objects are those of the good entries, and every line of one has an object.
LEMMA ObjectsType ==
    ASSUME NEW req \in Seq(Entry)
    PROVE  /\ Objects(req) \in Table
           /\ DOMAIN Objects(req) = {req[k].line : k \in Good(req)}
           /\ \A l \in DOMAIN Objects(req) : \E k \in Good(req) :
                 req[k].line = l /\ Objects(req)[l].id = req[k].id
<1> DEFINE D == {req[k].line : k \in Good(req)}
           g == [k \in Good(req) |-> req[k].line]
<1>1. DOMAIN req = 1 .. Len(req) /\ Len(req) \in Nat /\ \A k \in DOMAIN req : req[k] \in Entry
      BY LenProperties
<1>2. IsFiniteSet(Good(req))
  <2>1. IsFiniteSet(1 .. Len(req)) /\ Good(req) \in SUBSET (1 .. Len(req))
        BY <1>1, FS_Interval DEF Good
  <2> QED BY <2>1, FS_Subset
<1>3. D \in SUBSET Lines
      BY <1>1 DEF Good, Entry
<1>4. IsFiniteSet(D)
  <2>1. g \in Surjection(Good(req), D)
        BY DEF Surjection
  <2> QED BY <1>2, <2>1, FS_Surjection
<1>5. ASSUME NEW l \in D
      PROVE  /\ [id |-> req[LastOn(req, l)].id, line |-> l,
                 checks |-> req[LastOn(req, l)].checks] \in Object
             /\ LastOn(req, l) \in Good(req) /\ req[LastOn(req, l)].line = l
  <2>1. LastOn(req, l) \in Good(req) /\ req[LastOn(req, l)].line = l
        BY LastOnType
  <2>2. req[LastOn(req, l)] \in Entry
        BY <1>1, <2>1 DEF Good
  <2> QED BY <1>3, <2>1, <2>2 DEF Object, Entry, Lines
<1>6. Objects(req) \in [D -> Object] /\ DOMAIN Objects(req) = D
      BY <1>5 DEF Objects
<1>7. Objects(req) \in Table
      BY <1>3, <1>4, <1>6, TableType
<1>8. ASSUME NEW l \in D
      PROVE  \E k \in Good(req) : req[k].line = l /\ Objects(req)[l].id = req[k].id
  <2>1. Objects(req)[l].id = req[LastOn(req, l)].id
        BY DEF Objects
  <2> QED BY <1>5, <2>1
<1> QED BY <1>6, <1>7, <1>8

-----------------------------------------------------------------------------
(* The toggles of a request.                                               *)

ToggleSet == [type : {"Toggle"}, file : Nat \ {0}, line : Nat]

\* A sequence made of a finite set has each of its members once.
LEMMA SeqOfSet ==
    ASSUME NEW S, IsFiniteSet(S), NEW q \in SetToSeqs(S)
    PROVE  /\ q \in Seq(S)
           /\ \A x \in S : \E i \in DOMAIN q : q[i] = x
           /\ \A i, j \in DOMAIN q : q[i] = q[j] => i = j
<1> DEFINE n == Cardinality(S)
<1>1. n \in Nat
      BY FS_CardinalityType
<1>2. q \in [1 .. n -> S] /\ \A i, j \in 1 .. n : i # j => q[i] # q[j]
      BY DEF SetToSeqs
<1>3. IsFiniteSet(1 .. n) /\ Cardinality(1 .. n) = n
      BY <1>1, FS_Interval
<1>4. q \in Injection(1 .. n, S)
      BY <1>2 DEF Injection, IsInjective
<1>5. q \in Surjection(1 .. n, S)
      BY <1>3, <1>4, FS_Injection
<1>6. q \in Seq(S) /\ DOMAIN q = 1 .. n
      BY <1>1, <1>2
<1>7. \A x \in S : \E i \in 1 .. n : q[i] = x
      BY <1>5 DEF Surjection
<1> QED BY <1>2, <1>6, <1>7

LEMMA ToggleLinesType ==
    ASSUME NEW f \in Nat \ {0}, NEW q \in Seq(Lines)
    PROVE  /\ ToggleLines(f, q) \in Seq(ToggleSet)
           /\ DOMAIN ToggleLines(f, q) = DOMAIN q
           /\ \A k \in DOMAIN q : ToggleLines(f, q)[k] = Toggle(f, q[k] - 1)
<1>1. DOMAIN q = 1 .. Len(q) /\ Len(q) \in Nat /\ \A k \in 1 .. Len(q) : q[k] \in Lines
      BY LenProperties
<1>2. \A k \in 1 .. Len(q) : Toggle(f, q[k] - 1) \in ToggleSet
      BY <1>1 DEF Toggle, ToggleSet, Lines
<1> QED BY <1>1, <1>2 DEF ToggleLines

\* Lines that differ are toggled once each.
LEMMA ToggleLinesOnce ==
    ASSUME NEW f \in Nat \ {0}, NEW q \in Seq(Lines), NEW g \in Nat \ {0}, NEW b \in Nat,
           \A i, j \in DOMAIN q : q[i] = q[j] => i = j
    PROVE  Count(ToggleLines(f, q), {Toggle(g, b)})
           = IF f = g /\ (\E k \in DOMAIN q : q[k] = b + 1) THEN 1 ELSE 0
<1> DEFINE P == Positions(ToggleLines(f, q), {Toggle(g, b)})
<1>1. DOMAIN ToggleLines(f, q) = DOMAIN q /\ \A k \in DOMAIN q : q[k] \in Lines
      BY ToggleLinesType, LenProperties
<1>2. \A k \in DOMAIN q : k \in P <=> f = g /\ q[k] = b + 1
  <2> SUFFICES ASSUME NEW k \in DOMAIN q PROVE k \in P <=> f = g /\ q[k] = b + 1
      OBVIOUS
  <2>1. ToggleLines(f, q)[k] = Toggle(f, q[k] - 1) /\ q[k] \in Lines
        BY <1>1, ToggleLinesType
  <2>2. Toggle(f, q[k] - 1) = Toggle(g, b) <=> f = g /\ q[k] - 1 = b
        BY DEF Toggle
  <2>3. q[k] - 1 = b <=> q[k] = b + 1
        BY <2>1 DEF Lines
  <2>4. k \in P <=> ToggleLines(f, q)[k] = Toggle(g, b)
        BY <1>1 DEF Positions
  <2> QED BY <2>1, <2>2, <2>3, <2>4
<1>3. CASE f = g /\ \E k \in DOMAIN q : q[k] = b + 1
  <2>1. PICK k \in DOMAIN q : q[k] = b + 1
        BY <1>3
  <2>2. P \subseteq DOMAIN q
        BY <1>1 DEF Positions
  <2>3. P = {k}
        BY <1>2, <1>3, <2>1, <2>2
  <2>4. Cardinality(P) = 1
        BY <2>3, FS_Singleton
  <2> QED BY <1>3, <2>4 DEF Count
<1>4. CASE ~(f = g /\ \E k \in DOMAIN q : q[k] = b + 1)
  <2>1. P \subseteq DOMAIN q
        BY <1>1 DEF Positions
  <2>2. P = {}
        BY <1>2, <1>4, <2>1
  <2> QED BY <1>4, <2>2, FS_EmptySet DEF Count
<1> QED BY <1>3, <1>4

Distinct(req) == \A j, k \in Good(req) : req[j].line = req[k].line => j = k

LEMMA GoodFinite == ASSUME NEW req \in Seq(Entry) PROVE IsFiniteSet(Good(req))
<1>1. DOMAIN req = 1 .. Len(req) /\ Len(req) \in Nat
      BY LenProperties
<1>2. IsFiniteSet(1 .. Len(req))
      BY <1>1, FS_Interval
<1>3. Good(req) \in SUBSET (1 .. Len(req))
      BY <1>1 DEF Good
<1> QED BY <1>2, <1>3, FS_Subset

\* What is sent are the toggles of a, the new lines, and of c, the old ones.
Parted(f, old, req, sent, a, c) ==
    /\ sent = ToggleLines(f, a) \o ToggleLines(f, c)
    /\ \A l \in Lines : (\E i \in DOMAIN a : a[i] = l) <=> l \in DOMAIN Objects(req) /\ l \notin old
    /\ Distinct(req) => \A i, j \in DOMAIN a : a[i] = a[j] => i = j
    /\ \A l \in Lines : (\E i \in DOMAIN c : c[i] = l) <=> l \in old /\ l \notin DOMAIN Objects(req)
    /\ \A i, j \in DOMAIN c : c[i] = c[j] => i = j

LEMMA TogglesParts ==
    ASSUME NEW f \in Nat \ {0}, NEW old \in SUBSET Lines, IsFiniteSet(old),
           NEW req \in Seq(Entry), NEW sent \in Toggles(f, old, req)
    PROVE  \E a \in Seq(Lines) : \E c \in Seq(Lines) : Parted(f, old, req, sent, a, c)
<1> DEFINE N == Added(old, req)
           O == Removed(old, req)
<1>1. \E on \in Ascending(N) : \E off \in SetToSeqs(O) :
         sent = ToggleLines(f, LinesAt(req, on)) \o ToggleLines(f, off)
      BY DEF Toggles
<1>0. PICK on \in Ascending(N) : \E off \in SetToSeqs(O) :
         sent = ToggleLines(f, LinesAt(req, on)) \o ToggleLines(f, off)
      BY <1>1
<1>14. PICK off \in SetToSeqs(O) :
         sent = ToggleLines(f, LinesAt(req, on)) \o ToggleLines(f, off)
      BY <1>0
<1>2. IsFiniteSet(N) /\ IsFiniteSet(O)
  <2>1. N \in SUBSET Good(req) /\ O \in SUBSET old
        BY DEF Added, Removed
  <2> QED BY <2>1, GoodFinite, FS_Subset
<1>3. /\ on \in Seq(N)
      /\ \A x \in N : \E i \in DOMAIN on : on[i] = x
      /\ \A i, j \in DOMAIN on : on[i] = on[j] => i = j
  <2>1. on \in SetToSeqs(N)
        BY DEF Ascending
  <2> QED BY <1>2, <2>1, SeqOfSet
<1>4. /\ off \in Seq(O)
      /\ \A x \in O : \E i \in DOMAIN off : off[i] = x
      /\ \A i, j \in DOMAIN off : off[i] = off[j] => i = j
      BY <1>2, SeqOfSet
<1> DEFINE a == LinesAt(req, on)
<1>5. DOMAIN on = 1 .. Len(on) /\ Len(on) \in Nat /\ \A i \in DOMAIN on : on[i] \in N
      BY <1>3, LenProperties
<1>6. \A k \in Good(req) : req[k] \in Entry /\ req[k].line \in Lines
  <2>1. DOMAIN req = 1 .. Len(req) /\ \A k \in 1 .. Len(req) : req[k] \in Entry
        BY LenProperties
  <2> QED BY <2>1 DEF Good, Entry
<1>7. a \in Seq(Lines) /\ DOMAIN a = DOMAIN on /\ \A i \in DOMAIN on : a[i] = req[on[i]].line
      BY <1>5, <1>6 DEF LinesAt, Added
<1>8. DOMAIN Objects(req) = {req[k].line : k \in Good(req)}
      BY ObjectsType
<1>9. ASSUME NEW l \in Lines
      PROVE  (\E i \in DOMAIN a : a[i] = l) <=> l \in DOMAIN Objects(req) /\ l \notin old
  <2>1. ASSUME NEW i \in DOMAIN a, a[i] = l PROVE l \in DOMAIN Objects(req) /\ l \notin old
        BY <1>5, <1>7, <1>8, <2>1 DEF Added
  <2>2. ASSUME l \in DOMAIN Objects(req), l \notin old PROVE \E i \in DOMAIN a : a[i] = l
    <3>1. PICK k \in Good(req) : req[k].line = l
          BY <1>8, <2>2
    <3>2. PICK i \in DOMAIN on : on[i] = k
          BY <1>3, <2>2, <3>1 DEF Added
    <3> QED BY <1>7, <3>1, <3>2
  <2> QED BY <2>1, <2>2
<1>10. ASSUME Distinct(req), NEW i \in DOMAIN a, NEW j \in DOMAIN a, a[i] = a[j]
       PROVE  i = j
  <2>1. on[i] \in Good(req) /\ on[j] \in Good(req) /\ req[on[i]].line = req[on[j]].line
        BY <1>5, <1>7, <1>10 DEF Added
  <2>2. on[i] = on[j]
        BY <1>10, <2>1 DEF Distinct
  <2> QED BY <1>3, <1>7, <2>2
<1>11. off \in Seq(Lines)
  <2>1. O \subseteq Lines
        BY DEF Removed
  <2> QED BY <1>4, <2>1, SeqMonotonic
<1>12. ASSUME NEW l \in Lines
       PROVE  (\E i \in DOMAIN off : off[i] = l) <=> l \in old /\ l \notin DOMAIN Objects(req)
  <2>1. \A i \in DOMAIN off : off[i] \in O
        BY <1>4, LenProperties
  <2> QED BY <1>4, <2>1 DEF Removed
<1> QED BY <1>14, <1>4, <1>7, <1>9, <1>10, <1>11, <1>12 DEF Parted

\* A request toggles the lines that are in one of the two tables.
Changes(f, g, l, old, req) == f = g /\ ~(l \in DOMAIN Objects(req) <=> l \in old)

LEMMA TogglesCount ==
    ASSUME NEW f \in Nat \ {0}, NEW old \in SUBSET Lines, IsFiniteSet(old),
           NEW req \in Seq(Entry), NEW sent \in Toggles(f, old, req)
    PROVE  /\ sent \in Seq(ToggleSet)
           /\ \A k \in DOMAIN sent : sent[k].file = f
           /\ \A l \in DOMAIN Objects(req) :
                 l \in old \/ \E k \in DOMAIN sent : sent[k] = Toggle(f, l - 1)
           /\ Distinct(req) => \A g \in Nat \ {0} : \A b \in Nat :
                 Count(sent, {Toggle(g, b)}) = IF Changes(f, g, b + 1, old, req) THEN 1 ELSE 0
<1>0. \E a \in Seq(Lines) : \E c \in Seq(Lines) : Parted(f, old, req, sent, a, c)
      BY TogglesParts
<1>10. PICK a \in Seq(Lines) : \E c \in Seq(Lines) : Parted(f, old, req, sent, a, c)
      BY <1>0
<1>11. PICK c \in Seq(Lines) : Parted(f, old, req, sent, a, c)
      BY <1>10
<1>1. /\ sent = ToggleLines(f, a) \o ToggleLines(f, c)
      /\ \A l \in Lines : (\E i \in DOMAIN a : a[i] = l) <=> l \in DOMAIN Objects(req) /\ l \notin old
      /\ Distinct(req) => \A i, j \in DOMAIN a : a[i] = a[j] => i = j
      /\ \A l \in Lines : (\E i \in DOMAIN c : c[i] = l) <=> l \in old /\ l \notin DOMAIN Objects(req)
      /\ \A i, j \in DOMAIN c : c[i] = c[j] => i = j
      BY <1>11 DEF Parted
<1> DEFINE A == ToggleLines(f, a)
           C == ToggleLines(f, c)
<1>2. /\ A \in Seq(ToggleSet) /\ C \in Seq(ToggleSet)
      /\ DOMAIN A = DOMAIN a /\ DOMAIN C = DOMAIN c
      /\ \A k \in DOMAIN a : A[k] = Toggle(f, a[k] - 1)
      /\ \A k \in DOMAIN c : C[k] = Toggle(f, c[k] - 1)
      BY ToggleLinesType
<1> HIDE DEF A, C
<1>3. sent = A \o C
      BY <1>1 DEF A, C
<1>4. /\ sent \in Seq(ToggleSet) /\ Len(sent) = Len(A) + Len(C)
      /\ Len(A) \in Nat /\ Len(C) \in Nat /\ DOMAIN A = 1 .. Len(A) /\ DOMAIN C = 1 .. Len(C)
      /\ DOMAIN sent = 1 .. Len(sent)
      /\ \A i \in 1 .. Len(A) + Len(C) : sent[i] = IF i <= Len(A) THEN A[i] ELSE C[i - Len(A)]
  <2>1. sent \in Seq(ToggleSet) /\ Len(sent) = Len(A) + Len(C)
        BY <1>2, <1>3, ConcatProperties
  <2> QED BY <1>2, <1>3, <2>1, ConcatProperties, LenProperties
<1>5. ASSUME NEW k \in DOMAIN sent PROVE sent[k].file = f
  <2>1. CASE k <= Len(A)
    <3>1. sent[k] = A[k] /\ k \in DOMAIN a
          BY <1>2, <1>4, <2>1
    <3> QED BY <1>2, <3>1 DEF Toggle
  <2>2. CASE ~(k <= Len(A))
    <3>1. sent[k] = C[k - Len(A)] /\ k - Len(A) \in DOMAIN c
          BY <1>2, <1>4, <2>2
    <3> QED BY <1>2, <3>1 DEF Toggle
  <2> QED BY <2>1, <2>2
<1>6. ASSUME NEW l \in DOMAIN Objects(req), l \notin old
      PROVE  \E k \in DOMAIN sent : sent[k] = Toggle(f, l - 1)
  <2>1. l \in Lines
        BY ObjectsType, TableType
  <2>2. PICK i \in DOMAIN a : a[i] = l
        BY <1>1, <1>6, <2>1
  <2>3. i \in DOMAIN sent /\ sent[i] = Toggle(f, l - 1)
        BY <1>2, <1>4, <2>2
  <2> QED BY <2>3
<1>7. ASSUME Distinct(req), NEW g \in Nat \ {0}, NEW b \in Nat
      PROVE  Count(sent, {Toggle(g, b)})
             = IF Changes(f, g, b + 1, old, req) THEN 1 ELSE 0
  <2>1. Count(sent, {Toggle(g, b)}) = Count(A, {Toggle(g, b)}) + Count(C, {Toggle(g, b)})
        BY <1>2, <1>3, CountConcat
  <2>2. Count(A, {Toggle(g, b)})
        = IF f = g /\ (\E k \in DOMAIN a : a[k] = b + 1) THEN 1 ELSE 0
    <3>1. \A i, j \in DOMAIN a : a[i] = a[j] => i = j
          BY <1>1, <1>7
    <3>2. Count(ToggleLines(f, a), {Toggle(g, b)})
          = IF f = g /\ (\E k \in DOMAIN a : a[k] = b + 1) THEN 1 ELSE 0
          BY <3>1, ToggleLinesOnce
    <3> QED BY <3>2 DEF A
  <2>3. Count(C, {Toggle(g, b)})
        = IF f = g /\ (\E k \in DOMAIN c : c[k] = b + 1) THEN 1 ELSE 0
    <3>1. \A i, j \in DOMAIN c : c[i] = c[j] => i = j
          BY <1>1
    <3>2. Count(ToggleLines(f, c), {Toggle(g, b)})
          = IF f = g /\ (\E k \in DOMAIN c : c[k] = b + 1) THEN 1 ELSE 0
          BY <3>1, ToggleLinesOnce
    <3> QED BY <3>2 DEF C
  <2>4. b + 1 \in Lines
        BY DEF Lines
  <2>5. /\ (\E k \in DOMAIN a : a[k] = b + 1) <=> b + 1 \in DOMAIN Objects(req) /\ b + 1 \notin old
        /\ (\E k \in DOMAIN c : c[k] = b + 1) <=> b + 1 \in old /\ b + 1 \notin DOMAIN Objects(req)
        BY <1>1, <2>4
  <2>6. CASE f = g /\ b + 1 \in DOMAIN Objects(req) /\ b + 1 \notin old
        BY <2>1, <2>2, <2>3, <2>5, <2>6 DEF Bit, Changes
  <2>7. CASE f = g /\ b + 1 \in old /\ b + 1 \notin DOMAIN Objects(req)
        BY <2>1, <2>2, <2>3, <2>5, <2>7 DEF Bit, Changes
  <2>8. CASE ~(f = g /\ ~(b + 1 \in DOMAIN Objects(req) <=> b + 1 \in old))
        BY <2>1, <2>2, <2>3, <2>5, <2>8 DEF Bit, Changes
  <2> QED BY <2>6, <2>7, <2>8
<1> QED BY <1>4, <1>5, <1>6, <1>7

-----------------------------------------------------------------------------
(* The pipes.                                                              *)

Done  == Command("LoadDone")
Go    == Command("Continue")
Evals == [type : {"Evaluate"}, seq : Nat]
Cmd   == ToggleSet \cup Evals \cup {Done, Go}

Loads  == [type : {"LoadScript"}, name : Name]
Breaks == [type : {"Break"}, file : Nat \ {0}, line : Lines]
Sets   == [type : {"SetBreakpoint"}, file : Nat \ {0}, line : Nat, set : BOOLEAN]
Rets   == [type : {"EvaluateRet"}, seq : Nat, answer : Answer]
Ev     == Loads \cup Breaks \cup Sets \cup Rets

LEMMA CmdKinds ==
    ASSUME NEW c \in Cmd
    PROVE  /\ c \in ToggleSet <=> c.type = "Toggle"
           /\ c \in Evals <=> c.type = "Evaluate"
           /\ c = Done <=> c.type = "LoadDone"
           /\ c = Go <=> c.type = "Continue"
BY DEF Cmd, ToggleSet, Evals, Done, Go, Command

LEMMA EvKinds ==
    ASSUME NEW e \in Ev
    PROVE  /\ e \in Loads <=> e.type = "LoadScript"
           /\ e \in Breaks <=> e.type = "Break"
           /\ e \in Sets <=> e.type = "SetBreakpoint"
           /\ e \in Rets <=> e.type = "EvaluateRet"
BY DEF Ev, Loads, Breaks, Sets, Rets

LEMMA SetTail ==
    ASSUME NEW T, NEW q \in Seq(T), q # <<>>
    PROVE  /\ Tail(q) \in Seq(T) /\ Head(q) \in T /\ Head(q) \in ToSet(q)
           /\ ToSet(q) = {Head(q)} \cup ToSet(Tail(q))
<1>1. /\ Head(q) \in T /\ Tail(q) \in Seq(T) /\ Len(Tail(q)) = Len(q) - 1
      /\ \A i \in 1 .. Len(Tail(q)) : Tail(q)[i] = q[i + 1]
      BY HeadTailProperties
<1>2. /\ DOMAIN q = 1 .. Len(q) /\ Len(q) \in Nat \ {0} /\ DOMAIN Tail(q) = 1 .. Len(Tail(q))
      /\ Head(q) = q[1]
      BY <1>1, LenProperties, EmptySeq
<1>3. ASSUME NEW i \in DOMAIN q PROVE q[i] = Head(q) \/ q[i] \in ToSet(Tail(q))
  <2>1. CASE i = 1
        BY <1>2, <2>1
  <2>2. CASE i # 1
    <3>1. i - 1 \in 1 .. Len(Tail(q)) /\ Tail(q)[i - 1] = q[i]
          BY <1>1, <1>2, <2>2
    <3> QED BY <1>2, <3>1 DEF ToSet
  <2> QED BY <2>1, <2>2
<1>4. ASSUME NEW i \in DOMAIN Tail(q) PROVE Tail(q)[i] \in ToSet(q)
  <2>1. i + 1 \in DOMAIN q /\ Tail(q)[i] = q[i + 1]
        BY <1>1, <1>2
  <2> QED BY <2>1 DEF ToSet
<1>5. Head(q) \in ToSet(q)
      BY <1>2 DEF ToSet
<1>6. ToSet(q) \subseteq {Head(q)} \cup ToSet(Tail(q))
      BY <1>3 DEF ToSet
<1>7. ToSet(Tail(q)) \subseteq ToSet(q)
      BY <1>4 DEF ToSet
<1> QED BY <1>1, <1>5, <1>6, <1>7

LEMMA SetAppend ==
    ASSUME NEW T, NEW q \in Seq(T), NEW m \in T
    PROVE  Append(q, m) \in Seq(T) /\ ToSet(Append(q, m)) = ToSet(q) \cup {m}
<1>1. /\ Append(q, m) \in Seq(T) /\ Len(Append(q, m)) = Len(q) + 1
      /\ \A i \in 1 .. Len(q) : Append(q, m)[i] = q[i]
      /\ Append(q, m)[Len(q) + 1] = m
      BY AppendProperties
<1>2. /\ DOMAIN q = 1 .. Len(q) /\ Len(q) \in Nat /\ DOMAIN Append(q, m) = 1 .. Len(q) + 1
      BY <1>1, LenProperties
<1>3. ToSet(Append(q, m)) \subseteq ToSet(q) \cup {m}
      BY <1>1, <1>2 DEF ToSet
<1>4. ToSet(q) \cup {m} \subseteq ToSet(Append(q, m))
  <2>1. \A i \in DOMAIN q : i \in DOMAIN Append(q, m) /\ Append(q, m)[i] = q[i]
        BY <1>1, <1>2
  <2>2. Len(q) + 1 \in DOMAIN Append(q, m)
        BY <1>2
  <2> QED BY <1>1, <2>1, <2>2 DEF ToSet
<1> QED BY <1>1, <1>3, <1>4

LEMMA SetConcat ==
    ASSUME NEW T, NEW q \in Seq(T), NEW r \in Seq(T)
    PROVE  q \o r \in Seq(T) /\ ToSet(q \o r) = ToSet(q) \cup ToSet(r)
<1>1. /\ q \o r \in Seq(T) /\ Len(q \o r) = Len(q) + Len(r)
      /\ \A i \in 1 .. Len(q) + Len(r) : (q \o r)[i] = IF i <= Len(q) THEN q[i] ELSE r[i - Len(q)]
      BY ConcatProperties
<1>2. /\ DOMAIN q = 1 .. Len(q) /\ Len(q) \in Nat /\ DOMAIN r = 1 .. Len(r) /\ Len(r) \in Nat
      /\ DOMAIN (q \o r) = 1 .. Len(q) + Len(r)
      BY <1>1, LenProperties
<1>3. ASSUME NEW i \in DOMAIN (q \o r) PROVE (q \o r)[i] \in ToSet(q) \cup ToSet(r)
  <2>1. CASE i <= Len(q)
    <3>1. i \in DOMAIN q /\ (q \o r)[i] = q[i]
          BY <1>1, <1>2, <2>1
    <3> QED BY <3>1 DEF ToSet
  <2>2. CASE ~(i <= Len(q))
    <3>1. i - Len(q) \in DOMAIN r /\ (q \o r)[i] = r[i - Len(q)]
          BY <1>1, <1>2, <2>2
    <3> QED BY <3>1 DEF ToSet
  <2> QED BY <2>1, <2>2
<1>4. ASSUME NEW i \in DOMAIN q PROVE q[i] \in ToSet(q \o r)
  <2>1. i \in DOMAIN (q \o r) /\ (q \o r)[i] = q[i]
        BY <1>1, <1>2
  <2> QED BY <2>1 DEF ToSet
<1>5. ASSUME NEW i \in DOMAIN r PROVE r[i] \in ToSet(q \o r)
  <2>1. /\ Len(q) + i \in DOMAIN (q \o r) /\ ~(Len(q) + i <= Len(q)) /\ (Len(q) + i) - Len(q) = i
        BY <1>2
  <2>2. (q \o r)[Len(q) + i] = r[i]
        BY <1>1, <1>2, <2>1
  <2> QED BY <2>1, <2>2 DEF ToSet
<1>6. ToSet(q \o r) \subseteq ToSet(q) \cup ToSet(r)
      BY <1>3 DEF ToSet
<1>7. ToSet(q) \subseteq ToSet(q \o r) /\ ToSet(r) \subseteq ToSet(q \o r)
      BY <1>4, <1>5 DEF ToSet
<1> QED BY <1>1, <1>6, <1>7

LEMMA SetEmpty == ToSet(<<>>) = {}
BY DEF ToSet

-----------------------------------------------------------------------------
(* How many there are of each kind.                                        *)

Dones(q) == Count(q, {Done})
Gos(q)   == Count(q, {Go})
Asks(q)  == Count(q, Evals)

LoadsIn(q)  == Count(q, Loads)
BreaksIn(q) == Count(q, Breaks)
RetsIn(q)   == Count(q, Rets)

LEMMA CmdCounts ==
    ASSUME NEW q \in Seq(Cmd)
    PROVE  /\ Dones(q) \in Nat /\ Gos(q) \in Nat /\ Asks(q) \in Nat
           /\ Dones(q) = 0 <=> Done \notin ToSet(q)
           /\ Gos(q) = 0 <=> Go \notin ToSet(q)
           /\ Asks(q) = 0 <=> \A c \in ToSet(q) : c \notin Evals
<1>1. /\ Dones(q) \in Nat /\ (Dones(q) = 0 <=> \A i \in DOMAIN q : q[i] \notin {Done})
      BY CountType DEF Dones
<1>2. /\ Gos(q) \in Nat /\ (Gos(q) = 0 <=> \A i \in DOMAIN q : q[i] \notin {Go})
      BY CountType DEF Gos
<1>3. /\ Asks(q) \in Nat /\ (Asks(q) = 0 <=> \A i \in DOMAIN q : q[i] \notin Evals)
      BY CountType DEF Asks
<1> QED BY <1>1, <1>2, <1>3 DEF ToSet

LEMMA EvCounts ==
    ASSUME NEW q \in Seq(Ev)
    PROVE  /\ LoadsIn(q) \in Nat /\ BreaksIn(q) \in Nat /\ RetsIn(q) \in Nat
           /\ LoadsIn(q) = 0 <=> \A e \in ToSet(q) : e \notin Loads
           /\ BreaksIn(q) = 0 <=> \A e \in ToSet(q) : e \notin Breaks
           /\ RetsIn(q) = 0 <=> \A e \in ToSet(q) : e \notin Rets
<1>1. /\ LoadsIn(q) \in Nat /\ (LoadsIn(q) = 0 <=> \A i \in DOMAIN q : q[i] \notin Loads)
      BY CountType DEF LoadsIn
<1>2. /\ BreaksIn(q) \in Nat /\ (BreaksIn(q) = 0 <=> \A i \in DOMAIN q : q[i] \notin Breaks)
      BY CountType DEF BreaksIn
<1>3. /\ RetsIn(q) \in Nat /\ (RetsIn(q) = 0 <=> \A i \in DOMAIN q : q[i] \notin Rets)
      BY CountType DEF RetsIn
<1> QED BY <1>1, <1>2, <1>3 DEF ToSet

LEMMA CmdTail ==
    ASSUME NEW q \in Seq(Cmd), q # <<>>
    PROVE  /\ Tail(q) \in Seq(Cmd) /\ Head(q) \in Cmd
           /\ Dones(q) = Dones(Tail(q)) + Bit(Head(q).type = "LoadDone")
           /\ Gos(q) = Gos(Tail(q)) + Bit(Head(q).type = "Continue")
           /\ Asks(q) = Asks(Tail(q)) + Bit(Head(q).type = "Evaluate")
<1>1. Tail(q) \in Seq(Cmd) /\ Head(q) \in Cmd
      BY SetTail
<1>2. /\ Dones(q) = Dones(Tail(q)) + Bit(Head(q) \in {Done})
      /\ Gos(q) = Gos(Tail(q)) + Bit(Head(q) \in {Go})
      /\ Asks(q) = Asks(Tail(q)) + Bit(Head(q) \in Evals)
      BY CountTail DEF Dones, Gos, Asks
<1> QED BY <1>1, <1>2, CmdKinds DEF Bit

LEMMA CmdAppend ==
    ASSUME NEW q \in Seq(Cmd), NEW c \in Cmd
    PROVE  /\ Append(q, c) \in Seq(Cmd)
           /\ Dones(Append(q, c)) = Dones(q) + Bit(c.type = "LoadDone")
           /\ Gos(Append(q, c)) = Gos(q) + Bit(c.type = "Continue")
           /\ Asks(Append(q, c)) = Asks(q) + Bit(c.type = "Evaluate")
<1>1. Append(q, c) \in Seq(Cmd)
      BY SetAppend
<1>2. /\ Dones(Append(q, c)) = Dones(q) + Bit(c \in {Done})
      /\ Gos(Append(q, c)) = Gos(q) + Bit(c \in {Go})
      /\ Asks(Append(q, c)) = Asks(q) + Bit(c \in Evals)
      BY CountAppend DEF Dones, Gos, Asks
<1> QED BY <1>1, <1>2, CmdKinds DEF Bit

LEMMA CmdConcat ==
    ASSUME NEW q \in Seq(Cmd), NEW r \in Seq(ToggleSet)
    PROVE  /\ r \in Seq(Cmd) /\ q \o r \in Seq(Cmd)
           /\ Dones(q \o r) = Dones(q) /\ Gos(q \o r) = Gos(q) /\ Asks(q \o r) = Asks(q)
<1>1. r \in Seq(Cmd)
  <2>1. ToggleSet \subseteq Cmd
        BY DEF Cmd
  <2> QED BY <2>1, SeqMonotonic
<1>2. \A c \in ToSet(r) : c \in Cmd /\ c.type = "Toggle"
  <2>1. \A i \in DOMAIN r : r[i] \in ToggleSet
        BY LenProperties
  <2> QED BY <2>1 DEF ToSet, Cmd, ToggleSet
<1>3. Dones(r) = 0 /\ Gos(r) = 0 /\ Asks(r) = 0
  <2>1. Done.type = "LoadDone" /\ Go.type = "Continue" /\ \A c \in Evals : c.type = "Evaluate"
        BY DEF Done, Go, Command, Evals
  <2> QED BY <1>1, <1>2, <2>1, CmdCounts
<1>4. /\ Dones(q \o r) = Dones(q) + Dones(r) /\ Gos(q \o r) = Gos(q) + Gos(r)
      /\ Asks(q \o r) = Asks(q) + Asks(r)
      BY <1>1, CountConcat DEF Dones, Gos, Asks
<1> QED BY <1>1, <1>3, <1>4, CmdCounts, SetConcat

LEMMA EvTail ==
    ASSUME NEW q \in Seq(Ev), q # <<>>
    PROVE  /\ Tail(q) \in Seq(Ev) /\ Head(q) \in Ev
           /\ LoadsIn(q) = LoadsIn(Tail(q)) + Bit(Head(q).type = "LoadScript")
           /\ BreaksIn(q) = BreaksIn(Tail(q)) + Bit(Head(q).type = "Break")
           /\ RetsIn(q) = RetsIn(Tail(q)) + Bit(Head(q).type = "EvaluateRet")
<1>1. Tail(q) \in Seq(Ev) /\ Head(q) \in Ev
      BY SetTail
<1>2. /\ LoadsIn(q) = LoadsIn(Tail(q)) + Bit(Head(q) \in Loads)
      /\ BreaksIn(q) = BreaksIn(Tail(q)) + Bit(Head(q) \in Breaks)
      /\ RetsIn(q) = RetsIn(Tail(q)) + Bit(Head(q) \in Rets)
      BY CountTail DEF LoadsIn, BreaksIn, RetsIn
<1> QED BY <1>1, <1>2, EvKinds DEF Bit

LEMMA EvAppend ==
    ASSUME NEW q \in Seq(Ev), NEW e \in Ev
    PROVE  /\ Append(q, e) \in Seq(Ev)
           /\ LoadsIn(Append(q, e)) = LoadsIn(q) + Bit(e.type = "LoadScript")
           /\ BreaksIn(Append(q, e)) = BreaksIn(q) + Bit(e.type = "Break")
           /\ RetsIn(Append(q, e)) = RetsIn(q) + Bit(e.type = "EvaluateRet")
<1>1. Append(q, e) \in Seq(Ev)
      BY SetAppend
<1>2. /\ LoadsIn(Append(q, e)) = LoadsIn(q) + Bit(e \in Loads)
      /\ BreaksIn(Append(q, e)) = BreaksIn(q) + Bit(e \in Breaks)
      /\ RetsIn(Append(q, e)) = RetsIn(q) + Bit(e \in Rets)
      BY CountAppend DEF LoadsIn, BreaksIn, RetsIn
<1> QED BY <1>1, <1>2, EvKinds DEF Bit

-----------------------------------------------------------------------------
(* Types, and what keeps the numbers of files and scripts together.        *)

Script0 == [title : {Chunk[n].title : n \in Name}, source : {Chunk[n].source : n \in Name},
            bps : SUBSET Nat]
File    == [path : Path, bps : Table]

BackendTyped ==
    /\ vm \in {"run", "load", "stop"}
    /\ scripts \in Seq(Script0) /\ index \in [Name -> 0 .. Len(scripts)]
PipesTyped == cmds \in Seq(Cmd) /\ evs \in Seq(Ev)
TablesTyped ==
    /\ files \in Seq(File) /\ latest \in [Path -> 0 .. Len(files)]
    /\ pending \in [Path -> Seq(Entry)] /\ lastId \in Nat
ChecksTyped ==
    /\ evals \in Nat /\ at \in Object /\ shown \in BOOLEAN
    /\ answers \in SUBSET (Check \X Answer)
    /\ ask = NoAsk \/ (ask \in [seq : Nat, stage : Check] /\ ask.seq \in 1 .. evals)
ClientTyped ==
    /\ wish \in [Path -> Seq(Entry)] /\ verified \in SUBSET (1 .. lastId)
    /\ fresh \in SUBSET (1 .. Len(files))

Typed == BackendTyped /\ PipesTyped /\ TablesTyped /\ ChecksTyped /\ ClientTyped

\* Every id has been given.
Numbered ==
    /\ \A f \in 1 .. Len(files) : \A l \in DOMAIN files[f].bps : files[f].bps[l].id \in 1 .. lastId
    /\ \A p \in Path : \A k \in DOMAIN pending[p] : pending[p][k].id \in 1 .. lastId
    /\ \A p \in Path : \A k \in DOMAIN wish[p] : wish[p][k].id \in 1 .. lastId

\* What is under way is about files, and a file is missing only for a load under way.
InFiles ==
    /\ \A c \in ToSet(cmds) : c \in ToggleSet => c.file \in 1 .. Len(files)
    /\ \A e \in ToSet(evs) : e \in Breaks \cup Sets => e.file \in 1 .. Len(files)
    /\ Len(files) + LoadsIn(evs) = Len(scripts)

\* One message is under way for a state that loads, and at most one for one that has
\* stopped and is not shown.
LoadOnce  == LoadsIn(evs) + Dones(cmds) = IF vm = "load" THEN 1 ELSE 0
Decisions == BreaksIn(evs) + RetsIn(evs) + Asks(cmds) + Gos(cmds) + (IF shown THEN 1 ELSE 0)
StopBound == Decisions <= 1 /\ (vm # "stop" => Decisions = 0)

Base == Typed /\ Numbered /\ InFiles /\ LoadOnce /\ StopBound

LEMMA InitBase == Init => Base
<1> SUFFICES ASSUME Init PROVE Base
    OBVIOUS
<1> USE DEF Init
<1>1. <<>> \in Seq(Script0) /\ <<>> \in Seq(Cmd) /\ <<>> \in Seq(Ev) /\ <<>> \in Seq(File)
      /\ <<>> \in Seq(Entry) /\ Len(<<>>) = 0
      BY EmptySeq
<1>2. NoBp \in Object
      BY DEF NoBp, Object
<1>3. Typed
  <2>1. BackendTyped
        BY <1>1 DEF BackendTyped
  <2>2. PipesTyped /\ TablesTyped
        BY <1>1 DEF PipesTyped, TablesTyped
  <2>3. ChecksTyped
        BY <1>2 DEF ChecksTyped
  <2>4. ClientTyped
        BY <1>1 DEF ClientTyped
  <2> QED BY <2>1, <2>2, <2>3, <2>4 DEF Typed
<1>4. Numbered
      BY <1>1 DEF Numbered
<1>5. /\ LoadsIn(evs) = 0 /\ BreaksIn(evs) = 0 /\ RetsIn(evs) = 0
      /\ Dones(cmds) = 0 /\ Asks(cmds) = 0 /\ Gos(cmds) = 0
      BY CountNone DEF LoadsIn, BreaksIn, RetsIn, Dones, Asks, Gos
<1>6. InFiles
      BY <1>1, <1>5, SetEmpty DEF InFiles
<1>7. LoadOnce /\ StopBound
      BY <1>5 DEF LoadOnce, StopBound, Decisions
<1> QED BY <1>3, <1>4, <1>6, <1>7 DEF Base

\* The numbers that the invariants compare.
Numbers(c, e, f, s, b) ==
    /\ LoadsIn(e) \in Nat /\ BreaksIn(e) \in Nat /\ RetsIn(e) \in Nat
    /\ Dones(c) \in Nat /\ Asks(c) \in Nat /\ Gos(c) \in Nat
    /\ Len(f) \in Nat /\ Len(s) \in Nat
    /\ b \in BOOLEAN

LEMMA BaseCounts ==
    /\ Typed => Numbers(cmds, evs, files, scripts, shown)
    /\ Typed' => Numbers(cmds', evs', files', scripts', shown')
<1>1. ASSUME Typed PROVE Numbers(cmds, evs, files, scripts, shown)
  <2>1. shown \in BOOLEAN
        BY <1>1 DEF Typed, ChecksTyped
  <2> QED BY <1>1, <2>1, CmdCounts, EvCounts, LenProperties
          DEF Numbers, Typed, PipesTyped, TablesTyped, BackendTyped
<1>2. ASSUME Typed' PROVE Numbers(cmds', evs', files', scripts', shown')
  <2>1. shown' \in BOOLEAN
        BY <1>2 DEF Typed, ChecksTyped
  <2> QED BY <1>2, <2>1, CmdCounts, EvCounts, LenProperties
          DEF Numbers, Typed, PipesTyped, TablesTyped, BackendTyped
<1> QED BY <1>1, <1>2

\* Nothing is under way for a state that runs.
LEMMA Idle ==
    ASSUME Base, vm = "run"
    PROVE  /\ LoadsIn(evs) = 0 /\ Dones(cmds) = 0 /\ BreaksIn(evs) = 0 /\ RetsIn(evs) = 0
           /\ Asks(cmds) = 0 /\ Gos(cmds) = 0 /\ shown = FALSE
           /\ Len(files) = Len(scripts)
<1>1. Numbers(cmds, evs, files, scripts, shown)
      BY BaseCounts DEF Base
<1>2. LoadsIn(evs) + Dones(cmds) = 0 /\ Decisions <= 0
      BY DEF Base, LoadOnce, StopBound
<1>3. LoadsIn(evs) = 0 /\ Dones(cmds) = 0
      BY <1>1, <1>2 DEF Numbers
<1> QED BY <1>1, <1>2, <1>3 DEF Numbers, Decisions, Base, InFiles

LEMMA ChunkType ==
    ASSUME NEW n \in Name
    PROVE  /\ Chunk[n].path \in Path
           /\ Chunk[n].title \in {Chunk[m].title : m \in Name}
           /\ Chunk[n].source \in {Chunk[m].source : m \in Name}
BY DEF Path

\* A step that changes no script, file, event or command, nor the state.
LEMMA RegisterKnown ==
    ASSUME Base, NEW n \in Name, RegisterScript(n), SameScript(n) # {}
    PROVE  /\ \E i \in 1 .. Len(scripts) : index' = [index EXCEPT ![n] = i]
           /\ UNCHANGED <<vm, scripts, evs, cmds, tables, checks, client>>
<1>1. (CHOOSE i \in SameScript(n) : TRUE) \in SameScript(n)
      OBVIOUS
<1>2. SameScript(n) \subseteq 1 .. Len(scripts)
      BY LenProperties DEF SameScript, Base, Typed, BackendTyped
<1> QED BY <1>1, <1>2 DEF RegisterScript

LEMMA RegisterNew ==
    ASSUME Base, NEW n \in Name, RegisterScript(n), SameScript(n) = {}
    PROVE  /\ vm = "run" /\ vm' = "load"
           /\ index' = [index EXCEPT ![n] = Len(scripts) + 1]
           /\ scripts' = Append(scripts, [title |-> Chunk[n].title,
                                          source |-> Chunk[n].source, bps |-> {}])
           /\ [title |-> Chunk[n].title, source |-> Chunk[n].source, bps |-> {}] \in Script0
           /\ evs' = Append(evs, [type |-> "LoadScript", name |-> n])
           /\ [type |-> "LoadScript", name |-> n] \in Ev
           /\ UNCHANGED <<cmds, tables, checks, client>>
BY ChunkType DEF RegisterScript, Script0, Ev, Loads

LEMMA RegisterBase ==
    ASSUME Base, NEW n \in Name, RegisterScript(n)
    PROVE  Base'
<1>1. CASE SameScript(n) # {}
  <2>1. /\ UNCHANGED <<vm, scripts, evs, cmds, files, latest, pending, lastId, evals, ask, at,
                       shown, answers, wish, verified, fresh>>
        /\ index' \in [Name -> 0 .. Len(scripts)]
        BY <1>1, RegisterKnown DEF tables, checks, client, Base, Typed, BackendTyped
  <2> QED BY <2>1 DEF Base, Typed, BackendTyped, PipesTyped, TablesTyped, ChecksTyped, ClientTyped,
             Numbered, InFiles, LoadOnce, StopBound, Decisions
<1>2. CASE SameScript(n) = {}
  <2> DEFINE s == [title |-> Chunk[n].title, source |-> Chunk[n].source, bps |-> {}]
             e == [type |-> "LoadScript", name |-> n]
  <2>1. /\ vm = "run" /\ vm' = "load"
        /\ index' = [index EXCEPT ![n] = Len(scripts) + 1]
        /\ scripts' = Append(scripts, s) /\ s \in Script0
        /\ evs' = Append(evs, e) /\ e \in Ev
        /\ UNCHANGED <<cmds, files, latest, pending, lastId, evals, ask, at, shown, answers,
                       wish, verified, fresh>>
        BY <1>2, RegisterNew DEF tables, checks, client
  <2>2. e.type = "LoadScript"
        OBVIOUS
  <2> HIDE DEF s, e
  <2>3. scripts' \in Seq(Script0) /\ Len(scripts') = Len(scripts) + 1 /\ Len(scripts) \in Nat
        BY <2>1, AppendProperties, LenProperties DEF Base, Typed, BackendTyped
  <2>4. /\ evs' \in Seq(Ev) /\ LoadsIn(evs') = LoadsIn(evs) + 1
        /\ BreaksIn(evs') = BreaksIn(evs) + 0 /\ RetsIn(evs') = RetsIn(evs) + 0
        /\ ToSet(evs') = ToSet(evs) \cup {e}
        BY <2>1, <2>2, EvAppend, SetAppend DEF Base, Typed, PipesTyped, Bit
  <2>5. index' \in [Name -> 0 .. Len(scripts')]
        BY <2>1, <2>3 DEF Base, Typed, BackendTyped
  <2>6. Typed'
        BY <2>1, <2>3, <2>4, <2>5
        DEF Base, Typed, BackendTyped, PipesTyped, TablesTyped, ChecksTyped, ClientTyped
  <2>7. Numbered'
        BY <2>1 DEF Base, Numbered
  <2>8. InFiles'
    <3>1. e \notin Breaks \cup Sets
          BY <2>1, <2>2, EvKinds
    <3> QED BY <2>1, <2>3, <2>4, <3>1, BaseCounts DEF Numbers, Base, InFiles
  <2>9. LoadOnce' /\ StopBound'
    <3>2. /\ LoadsIn(evs') = 1 /\ Dones(cmds') = 0
          /\ BreaksIn(evs') = 0 /\ RetsIn(evs') = 0 /\ Asks(cmds') = 0 /\ Gos(cmds') = 0
          /\ shown' = FALSE
          BY <2>1, <2>4, Idle
    <3> QED BY <2>1, <3>2 DEF LoadOnce, StopBound, Decisions
  <2> QED BY <2>6, <2>7, <2>8, <2>9 DEF Base
<1> QED BY <1>1, <1>2

LEMMA BreakBase ==
    ASSUME Base, NEW n \in Name, NEW l \in Lines, BreakFromScript(n, l)
    PROVE  Base'
<1> DEFINE e == [type |-> "Break", file |-> index[n], line |-> l]
<1>1. /\ vm = "run" /\ vm' = "stop" /\ evs' = Append(evs, e)
      /\ UNCHANGED <<index, scripts, cmds, files, latest, pending, lastId, evals, ask, at, shown,
                     answers, wish, verified, fresh>>
      BY DEF BreakFromScript, tables, checks, client
<1>2. index[n] \in 1 .. Len(scripts) /\ LoadsIn(evs) = 0 /\ Len(files) = Len(scripts)
  <2>1. index[n] # 0 /\ index[n] \in 0 .. Len(scripts) /\ Len(scripts) \in Nat
        BY BaseCounts DEF Numbers, BreakFromScript, Base, Typed, BackendTyped
  <2>2. LoadsIn(evs) = 0 /\ Len(files) = Len(scripts)
        BY <1>1, Idle
  <2> QED BY <2>1, <2>2
<1>3. e \in Ev /\ e.type = "Break" /\ e.file \in 1 .. Len(files)
      BY <1>2, BaseCounts DEF Numbers, Ev, Breaks, Base
<1> HIDE DEF e
<1>4. /\ evs' \in Seq(Ev) /\ LoadsIn(evs') = LoadsIn(evs) + 0
      /\ BreaksIn(evs') = BreaksIn(evs) + 1 /\ RetsIn(evs') = RetsIn(evs) + 0
      /\ ToSet(evs') = ToSet(evs) \cup {e}
      BY <1>1, <1>3, EvAppend, SetAppend DEF Base, Typed, PipesTyped, Bit
<1>5. Typed'
      BY <1>1, <1>4
      DEF Base, Typed, BackendTyped, PipesTyped, TablesTyped, ChecksTyped, ClientTyped
<1>6. Numbered'
      BY <1>1 DEF Base, Numbered
<1>7. InFiles'
      BY <1>1, <1>3, <1>4, BaseCounts DEF Numbers, Base, InFiles
<1>8. LoadOnce' /\ StopBound'
  <2>2. /\ LoadsIn(evs') = 0 /\ Dones(cmds') = 0
        /\ BreaksIn(evs') = 1 /\ RetsIn(evs') = 0 /\ Asks(cmds') = 0 /\ Gos(cmds') = 0
        /\ shown' = FALSE
        BY <1>1, <1>4, Idle
  <2> QED BY <1>1, <2>2 DEF LoadOnce, StopBound, Decisions
<1> QED BY <1>5, <1>6, <1>7, <1>8 DEF Base

LEMMA ToggleBase == ASSUME Base, ToggleBreakpoint PROVE Base'
<1>0. PICK c : c = Head(cmds)
      OBVIOUS
<1>1. /\ cmds # <<>> /\ c.type = "Toggle" /\ cmds' = Tail(cmds)
      /\ UNCHANGED <<vm, index, files, latest, pending, lastId, evals, ask, at, shown,
                     answers, wish, verified, fresh>>
      BY <1>0 DEF ToggleBreakpoint, Next1, tables, checks, client
<1>2. /\ cmds' \in Seq(Cmd) /\ c \in Cmd /\ c \in ToggleSet /\ ToSet(cmds') \subseteq ToSet(cmds)
      /\ c \in ToSet(cmds)
      BY <1>0, <1>1, SetTail, CmdKinds DEF Base, Typed, PipesTyped
<1>3. /\ Dones(cmds) = Dones(cmds') + 0 /\ Gos(cmds) = Gos(cmds') + 0
      /\ Asks(cmds) = Asks(cmds') + 0
      BY <1>0, <1>1, CmdTail DEF Base, Typed, PipesTyped, Bit
<1>4. c.file \in 1 .. Len(files) /\ c.file \in 1 .. Len(scripts) /\ c.line \in Nat
  <2>1. c.file \in 1 .. Len(files)
        BY <1>2 DEF Base, InFiles
  <2>2. Len(files) <= Len(scripts)
        BY BaseCounts DEF Numbers, Base, InFiles
  <2> QED BY <1>2, <2>1, <2>2, BaseCounts DEF Numbers, Base, ToggleSet
<1>5. PICK s \in Script0 : scripts' = [scripts EXCEPT ![c.file] = s]
  <2>1. scripts[c.file] \in Script0
        BY <1>4, ElementOfSeq DEF Base, Typed, BackendTyped
  <2>2. /\ scripts[c.file].bps \cup {c.line} \in SUBSET Nat
        /\ scripts[c.file].bps \ {c.line} \in SUBSET Nat
        BY <1>4, <2>1 DEF Script0
  <2>3. \A b \in SUBSET Nat : [scripts[c.file] EXCEPT !.bps = b] \in Script0
        BY <2>1 DEF Script0
  <2>4. \E b \in SUBSET Nat :
           scripts' = [scripts EXCEPT ![c.file] = [scripts[c.file] EXCEPT !.bps = b]]
        BY <1>0, <2>2 DEF ToggleBreakpoint
  <2> QED BY <2>3, <2>4
<1>6. scripts' \in Seq(Script0) /\ Len(scripts') = Len(scripts)
      BY <1>4, <1>5, ExceptSeq DEF Base, Typed, BackendTyped
<1>7. PICK e \in Sets : evs' = Append(evs, e) /\ e.file = c.file
  <2>1. \E set \in BOOLEAN : evs' = Append(evs, [type |-> "SetBreakpoint", file |-> c.file,
                                                 line |-> c.line, set |-> set])
        BY <1>0 DEF ToggleBreakpoint
  <2> QED BY <1>2, <2>1 DEF Sets, ToggleSet
<1>8. e \in Ev /\ e.type = "SetBreakpoint"
      BY DEF Sets, Ev
<1>9. /\ evs' \in Seq(Ev) /\ LoadsIn(evs') = LoadsIn(evs) + 0
      /\ BreaksIn(evs') = BreaksIn(evs) + 0 /\ RetsIn(evs') = RetsIn(evs) + 0
      /\ ToSet(evs') = ToSet(evs) \cup {e}
      BY <1>7, <1>8, EvAppend, SetAppend DEF Base, Typed, PipesTyped, Bit
<1>10. Typed'
      BY <1>1, <1>2, <1>6, <1>9
      DEF Base, Typed, BackendTyped, PipesTyped, TablesTyped, ChecksTyped, ClientTyped
<1>11. Numbered'
      BY <1>1 DEF Base, Numbered
<1>12. InFiles'
  <2>1. \A d \in ToSet(cmds') : d \in ToggleSet => d.file \in 1 .. Len(files')
        BY <1>1, <1>2 DEF Base, InFiles
  <2>2. \A d \in ToSet(evs') : d \in Breaks \cup Sets => d.file \in 1 .. Len(files')
        BY <1>1, <1>4, <1>7, <1>9 DEF Base, InFiles
  <2>3. Len(files') + LoadsIn(evs') = Len(scripts')
        BY <1>1, <1>6, <1>9, <1>10, BaseCounts DEF Numbers, Base, InFiles
  <2> QED BY <2>1, <2>2, <2>3 DEF InFiles
<1>13. LoadOnce' /\ StopBound'
      BY <1>1, <1>3, <1>9, <1>10, BaseCounts DEF Numbers, Base, LoadOnce, StopBound, Decisions
<1> QED BY <1>10, <1>11, <1>12, <1>13 DEF Base

\* A command that has nothing to do with breakpoints is taken from the pipe.
LEMMA CmdTaken ==
    ASSUME Base, cmds # <<>>, cmds' = Tail(cmds), Head(cmds).type # "Toggle",
           UNCHANGED <<index, scripts, tables, checks, client>>
    PROVE  /\ cmds' \in Seq(Cmd) /\ Head(cmds) \in Cmd
           /\ ToSet(cmds) = {Head(cmds)} \cup ToSet(cmds')
           /\ vm' \in {"run", "load", "stop"} /\ evs' \in Seq(Ev) => Typed'
           /\ Numbered'
           /\ /\ \A e \in ToSet(evs') : e \in ToSet(evs) \cup Rets
              /\ LoadsIn(evs') = LoadsIn(evs)
              => InFiles'
<1>1. /\ cmds' \in Seq(Cmd) /\ Head(cmds) \in Cmd
      /\ ToSet(cmds) = {Head(cmds)} \cup ToSet(cmds')
      BY SetTail DEF Base, Typed, PipesTyped
<1>2. UNCHANGED <<index, scripts, files, latest, pending, lastId, evals, ask, at, shown,
                  answers, wish, verified, fresh>>
      BY DEF tables, checks, client
<1>3. Numbered'
      BY <1>2 DEF Base, Numbered
<1>4. ASSUME vm' \in {"run", "load", "stop"}, evs' \in Seq(Ev) PROVE Typed'
      BY <1>1, <1>2, <1>4
      DEF Base, Typed, BackendTyped, PipesTyped, TablesTyped, ChecksTyped, ClientTyped
<1>5. ASSUME \A e \in ToSet(evs') : e \in ToSet(evs) \cup Rets, LoadsIn(evs') = LoadsIn(evs)
      PROVE  InFiles'
  <2>1. \A e \in Rets : e \notin Breaks \cup Sets
        BY DEF Rets, Breaks, Sets
  <2> QED BY <1>1, <1>2, <1>5, <2>1 DEF Base, InFiles
<1> QED BY <1>1, <1>3, <1>4, <1>5

LEMMA LoadDoneBase == ASSUME Base, LoadDone PROVE Base'
<1>1. /\ cmds # <<>> /\ Head(cmds).type = "LoadDone" /\ cmds' = Tail(cmds) /\ vm' = "run"
      /\ UNCHANGED <<index, scripts, evs, tables, checks, client>> /\ UNCHANGED shown
      BY DEF LoadDone, Next1, checks
<1>2. Typed' /\ Numbered' /\ InFiles'
      BY <1>1, CmdTaken DEF Base, Typed, PipesTyped
<1>3. /\ Dones(cmds) = Dones(cmds') + 1 /\ Gos(cmds) = Gos(cmds') + 0
      /\ Asks(cmds) = Asks(cmds') + 0
      BY <1>1, CmdTail DEF Base, Typed, PipesTyped, Bit
<1>4. /\ Numbers(cmds, evs, files, scripts, shown)
      /\ Numbers(cmds', evs', files', scripts', shown')
      BY <1>2, BaseCounts DEF Base
<1>5. vm = "load" /\ Dones(cmds') = 0 /\ LoadsIn(evs') = 0
      BY <1>1, <1>3, <1>4 DEF Base, LoadOnce, Numbers
<1>6. /\ BreaksIn(evs') = 0 /\ RetsIn(evs') = 0 /\ Asks(cmds') = 0 /\ Gos(cmds') = 0
      /\ shown' = FALSE
  <2>1. Decisions = 0
        BY <1>5 DEF Base, StopBound
  <2>2. BreaksIn(evs) = 0 /\ RetsIn(evs) = 0 /\ Asks(cmds) = 0 /\ Gos(cmds) = 0 /\ shown = FALSE
    <3>1. Numbers(cmds, evs, files, scripts, shown)
          BY <1>4
    <3> QED BY <2>1, <3>1 DEF Decisions, Numbers
  <2> QED BY <1>1, <1>3, <1>4, <2>2 DEF Numbers
<1>7. Decisions' = 0
      BY <1>6 DEF Decisions
<1>8. LoadOnce' /\ StopBound'
      BY <1>1, <1>5, <1>7 DEF LoadOnce, StopBound
<1> QED BY <1>2, <1>8 DEF Base

LEMMA ContinueBase == ASSUME Base, Continue PROVE Base'
<1>1. /\ cmds # <<>> /\ Head(cmds).type = "Continue" /\ cmds' = Tail(cmds) /\ vm' = "run"
      /\ UNCHANGED <<index, scripts, evs, tables, checks, client>> /\ UNCHANGED shown
      BY DEF Continue, Next1, checks
<1>2. Typed' /\ Numbered' /\ InFiles'
      BY <1>1, CmdTaken DEF Base, Typed, PipesTyped
<1>3. /\ Dones(cmds) = Dones(cmds') + 0 /\ Gos(cmds) = Gos(cmds') + 1
      /\ Asks(cmds) = Asks(cmds') + 0
      BY <1>1, CmdTail DEF Base, Typed, PipesTyped, Bit
<1>4. /\ Numbers(cmds, evs, files, scripts, shown)
      /\ Numbers(cmds', evs', files', scripts', shown')
      BY <1>2, BaseCounts DEF Base
<1>9. BreaksIn(evs) + RetsIn(evs) + Asks(cmds) + Gos(cmds) + (IF shown THEN 1 ELSE 0) <= 1
      BY DEF Base, StopBound, Decisions
<1>10. Gos(cmds) >= 1
       BY <1>3, <1>4 DEF Numbers
<1>11. BreaksIn(evs) = 0 /\ RetsIn(evs) = 0 /\ Asks(cmds) = 0 /\ Gos(cmds) = 1 /\ shown = FALSE
  <2>1. PICK n \in Nat : n = IF shown THEN 1 ELSE 0
        OBVIOUS
  <2>2. \A i, j, k, m, o \in Nat : i + j + k + m + o <= 1 /\ m >= 1
                                => i = 0 /\ j = 0 /\ k = 0 /\ m = 1 /\ o = 0
        OBVIOUS
  <2>3. BreaksIn(evs) + RetsIn(evs) + Asks(cmds) + Gos(cmds) + n <= 1
        BY <1>9, <2>1
  <2>4. BreaksIn(evs) = 0 /\ RetsIn(evs) = 0 /\ Asks(cmds) = 0 /\ Gos(cmds) = 1 /\ n = 0
    <3>1. /\ BreaksIn(evs) \in Nat /\ RetsIn(evs) \in Nat /\ Asks(cmds) \in Nat /\ Gos(cmds) \in Nat
          BY <1>4 DEF Numbers
    <3>2. PICK a \in Nat : a = BreaksIn(evs)
          BY <3>1
    <3>3. PICK c \in Nat : c = RetsIn(evs)
          BY <3>1
    <3>4. PICK d \in Nat : d = Asks(cmds)
          BY <3>1
    <3>5. PICK g \in Nat : g = Gos(cmds)
          BY <3>1
    <3>6. a + c + d + g + n <= 1 /\ g >= 1
          BY <1>10, <2>3, <3>2, <3>3, <3>4, <3>5
    <3>7. a = 0 /\ c = 0 /\ d = 0 /\ g = 1 /\ n = 0
          BY <2>2, <3>6
    <3> QED BY <3>2, <3>3, <3>4, <3>5, <3>7
  <2>5. shown = FALSE
        BY <1>4, <2>1, <2>4 DEF Numbers
  <2> QED BY <2>4, <2>5
<1>12. vm = "stop"
  <2>1. Decisions = 1
        BY <1>11 DEF Decisions
  <2> QED BY <2>1 DEF Base, StopBound
<1>5. /\ vm = "stop" /\ BreaksIn(evs') = 0 /\ RetsIn(evs') = 0 /\ Asks(cmds') = 0
      /\ Gos(cmds') = 0 /\ shown' = FALSE
      BY <1>1, <1>3, <1>4, <1>11, <1>12 DEF Numbers
<1>6. Decisions' = 0
      BY <1>5 DEF Decisions
<1>8. LoadOnce'
      BY <1>1, <1>3, <1>4, <1>5 DEF Base, LoadOnce, Numbers
<1>7. LoadOnce' /\ StopBound'
      BY <1>1, <1>8, <1>6 DEF StopBound
<1> QED BY <1>2, <1>7 DEF Base

LEMMA EvaluateBase == ASSUME Base, Evaluate PROVE Base'
<1>1. /\ cmds # <<>> /\ Head(cmds).type = "Evaluate" /\ cmds' = Tail(cmds)
      /\ UNCHANGED <<index, scripts, tables, checks, client>> /\ UNCHANGED <<vm, shown>>
      BY DEF Evaluate, Next1, checks, backend
<1>2. Head(cmds) \in Evals
      BY <1>1, CmdTail, CmdKinds DEF Base, Typed, PipesTyped
<1>3. PICK e \in Rets : evs' = Append(evs, e)
      BY <1>2 DEF Evaluate, Rets, Evals
<1>4. e \in Ev /\ e.type = "EvaluateRet"
      BY DEF Rets, Ev
<1>5. /\ evs' \in Seq(Ev) /\ LoadsIn(evs') = LoadsIn(evs) + 0
      /\ BreaksIn(evs') = BreaksIn(evs) + 0 /\ RetsIn(evs') = RetsIn(evs) + 1
      /\ ToSet(evs') = ToSet(evs) \cup {e}
      BY <1>3, <1>4, EvAppend, SetAppend DEF Base, Typed, PipesTyped, Bit
<1>6. LoadsIn(evs') = LoadsIn(evs)
      BY <1>5, BaseCounts DEF Base, Numbers
<1>7. Typed' /\ Numbered' /\ InFiles'
      BY <1>1, <1>5, <1>6, CmdTaken DEF Base, Typed, BackendTyped
<1>8. /\ Dones(cmds) = Dones(cmds') + 0 /\ Gos(cmds) = Gos(cmds') + 0
      /\ Asks(cmds) = Asks(cmds') + 1
      BY <1>1, CmdTail DEF Base, Typed, PipesTyped, Bit
<1>9. /\ Numbers(cmds, evs, files, scripts, shown)
      /\ Numbers(cmds', evs', files', scripts', shown')
      BY <1>7, BaseCounts DEF Base
<1>10. /\ LoadsIn(evs') = LoadsIn(evs) /\ Dones(cmds') = Dones(cmds)
       /\ BreaksIn(evs') = BreaksIn(evs) /\ RetsIn(evs') = RetsIn(evs) + 1
       /\ Asks(cmds') = Asks(cmds) - 1 /\ Gos(cmds') = Gos(cmds)
       BY <1>5, <1>8, <1>9 DEF Numbers
<1>11. LoadOnce'
       BY <1>1, <1>10 DEF Base, LoadOnce
<1>12. Decisions' = Decisions
       BY <1>1, <1>9, <1>10 DEF Decisions, Numbers
<1>13. StopBound'
       BY <1>1, <1>12 DEF Base, StopBound
<1> QED BY <1>7, <1>11, <1>13 DEF Base

-----------------------------------------------------------------------------
(* What the adapter decides.                                               *)

Decided(bp) == Stop(bp) \/ Skip(bp) \/ \E s \in Check : Ask(bp, s)

LEMMA LogDecided == ASSUME NEW bp, LogMessage(bp) PROVE Decided(bp)
BY DEF LogMessage, Decided, Check

LEMMA StatLogDecided == ASSUME NEW bp, CheckStatLog(bp) PROVE Decided(bp)
BY LogDecided DEF CheckStatLog, Decided

LEMMA HitDecided == ASSUME NEW bp, CheckHitCondition(bp) PROVE Decided(bp)
<1>1. CASE Ask(bp, "hitCondition")
      BY <1>1 DEF Decided, Check
<1> QED BY <1>1, StatLogDecided DEF CheckHitCondition

LEMMA ConditionDecided == ASSUME NEW bp, CheckCondition(bp) PROVE Decided(bp)
<1>1. CASE Ask(bp, "condition")
      BY <1>1 DEF Decided, Check
<1> QED BY <1>1, HitDecided DEF CheckCondition

\* The object that was hit, if it is still there.
Hit(e) == IF e.line \in DOMAIN files[e.file].bps THEN files[e.file].bps[e.line] ELSE NoBp

LEMMA FileType ==
    ASSUME Base, NEW f \in 1 .. Len(files)
    PROVE  /\ files[f] \in File /\ files[f].bps \in Table
           /\ DOMAIN files[f].bps \in SUBSET Lines /\ IsFiniteSet(DOMAIN files[f].bps)
           /\ \A l \in DOMAIN files[f].bps : files[f].bps[l] \in Object
<1>1. files[f] \in File
      BY ElementOfSeq DEF Base, Typed, TablesTyped
<1>2. files[f].bps \in Table
      BY <1>1 DEF File
<1> QED BY <1>1, <1>2, TableType

LEMMA FrontBreakDecided ==
    ASSUME Base, FrontBreak
    PROVE  /\ evs # <<>> /\ Head(evs).type = "Break" /\ evs' = Tail(evs)
           /\ Head(evs) \in Breaks /\ Head(evs).file \in 1 .. Len(files)
           /\ Hit(Head(evs)) \in Object /\ Decided(Hit(Head(evs)))
           /\ answers' = {} /\ UNCHANGED <<backend, tables, client>>
<1>0. PICK e : e = Head(evs)
      OBVIOUS
<1>1. /\ evs # <<>> /\ e.type = "Break" /\ evs' = Tail(evs) /\ answers' = {}
      /\ UNCHANGED <<backend, tables, client>>
      BY <1>0 DEF FrontBreak, Event
<1>2. e \in Ev /\ e \in ToSet(evs)
      BY <1>0, <1>1, SetTail DEF Base, Typed, PipesTyped
<1>3. e \in Breaks /\ e.file \in 1 .. Len(files)
      BY <1>1, <1>2, EvKinds DEF Base, InFiles
<1>4. NoBp \in Object
      BY DEF NoBp, Object
<1>5. Hit(e) \in Object
      BY <1>3, <1>4, FileType DEF Hit
<1>6. IF e.line \in DOMAIN files[e.file].bps THEN CheckCondition(files[e.file].bps[e.line])
                                             ELSE Stop(NoBp)
      BY <1>0 DEF FrontBreak
<1>7. Decided(Hit(e))
  <2>1. CASE e.line \in DOMAIN files[e.file].bps
    <3>1. PICK bp : bp = files[e.file].bps[e.line]
          OBVIOUS
    <3>2. CheckCondition(bp)
          BY <1>6, <2>1, <3>1
    <3>3. Decided(bp)
          BY <3>2, ConditionDecided
    <3> QED BY <2>1, <3>1, <3>3 DEF Hit
  <2>2. CASE e.line \notin DOMAIN files[e.file].bps
        BY <1>6, <2>2 DEF Hit, Decided
  <2> QED BY <2>1, <2>2
<1> QED BY <1>0, <1>1, <1>3, <1>5, <1>7

LEMMA AnsweredDecided ==
    ASSUME Base, NEW s \in Check, NEW ok \in BOOLEAN, Answered(s, ok)
    PROVE  Decided(at)
<1>0. PICK bp : bp = at
      OBVIOUS
<1>1. CASE s = "condition"
  <2>1. CheckHitCondition(at) \/ Skip(at)
        BY <1>1 DEF Answered
  <2> QED BY <1>0, <2>1, HitDecided DEF Decided
<1>2. CASE s = "hitCondition"
  <2>1. CheckStatLog(at) \/ Skip(at)
        BY <1>2 DEF Answered
  <2> QED BY <1>0, <2>1, StatLogDecided DEF Decided
<1>3. CASE s = "logMessage"
  <2>1. LogMessage(at)
        BY <1>3 DEF Answered
  <2> QED BY <1>0, <2>1, LogDecided
<1> QED BY <1>1, <1>2, <1>3 DEF Check

\* An event that decides on a stop is the only one, and nothing else is under way.
LEMMA Deciding ==
    ASSUME Base, evs # <<>>, Head(evs) \in Breaks \cup Rets
    PROVE  /\ vm = "stop" /\ shown = FALSE
           /\ Tail(evs) \in Seq(Ev) /\ ToSet(Tail(evs)) \subseteq ToSet(evs)
           /\ LoadsIn(Tail(evs)) = LoadsIn(evs)
           /\ BreaksIn(Tail(evs)) = 0 /\ RetsIn(Tail(evs)) = 0
           /\ Asks(cmds) = 0 /\ Gos(cmds) = 0
<1>1. PICK t : t = Tail(evs)
      OBVIOUS
<1>2. t \in Seq(Ev) /\ ToSet(t) \subseteq ToSet(evs) /\ Head(evs) \in Ev
      BY <1>1, SetTail DEF Base, Typed, PipesTyped
<1>3. /\ LoadsIn(evs) = LoadsIn(t) + Bit(Head(evs).type = "LoadScript")
      /\ BreaksIn(evs) = BreaksIn(t) + Bit(Head(evs).type = "Break")
      /\ RetsIn(evs) = RetsIn(t) + Bit(Head(evs).type = "EvaluateRet")
      BY <1>1, EvTail DEF Base, Typed, PipesTyped
<1>4. Head(evs).type \in {"Break", "EvaluateRet"}
      BY DEF Breaks, Rets
<1>5. /\ LoadsIn(t) \in Nat /\ BreaksIn(t) \in Nat /\ RetsIn(t) \in Nat
      BY <1>2, EvCounts
<1>6. /\ LoadsIn(t) = LoadsIn(evs)
      /\ \/ BreaksIn(evs) = BreaksIn(t) + 1 /\ RetsIn(evs) = RetsIn(t)
         \/ BreaksIn(evs) = BreaksIn(t) /\ RetsIn(evs) = RetsIn(t) + 1
      BY <1>3, <1>4, <1>5 DEF Bit
<1>7. Numbers(cmds, evs, files, scripts, shown)
      BY BaseCounts DEF Base
<1>8. Decisions <= 1
      BY DEF Base, StopBound
<1>9. /\ Decisions = 1 /\ BreaksIn(t) = 0 /\ RetsIn(t) = 0 /\ Asks(cmds) = 0 /\ Gos(cmds) = 0
      /\ shown = FALSE
  <2>1. BreaksIn(evs) + RetsIn(evs) = BreaksIn(t) + RetsIn(t) + 1
        BY <1>5, <1>6
  <2>2. BreaksIn(evs) + RetsIn(evs) + Asks(cmds) + Gos(cmds) + (IF shown THEN 1 ELSE 0) <= 1
        BY <1>8 DEF Decisions
  <2>3. /\ BreaksIn(evs) \in Nat /\ RetsIn(evs) \in Nat /\ Asks(cmds) \in Nat /\ Gos(cmds) \in Nat
        /\ shown \in BOOLEAN
        BY <1>7 DEF Numbers
  <2>4. /\ BreaksIn(t) = 0 /\ RetsIn(t) = 0 /\ Asks(cmds) = 0 /\ Gos(cmds) = 0
        /\ shown = FALSE
    <3>1. \A m, n, i, j, a, g \in Nat : \A b \in BOOLEAN :
             m + n = i + j + 1 /\ m + n + a + g + (IF b THEN 1 ELSE 0) <= 1
             => i = 0 /\ j = 0 /\ a = 0 /\ g = 0 /\ b = FALSE
          OBVIOUS
    <3> QED BY <1>5, <2>1, <2>2, <2>3, <3>1
  <2>5. Decisions = 1
        BY <2>1, <2>4 DEF Decisions
  <2> QED BY <2>4, <2>5
<1>10. vm = "stop"
      BY <1>9 DEF Base, StopBound
<1> QED BY <1>1, <1>2, <1>6, <1>9, <1>10

LEMMA DecideBase ==
    ASSUME Base, evs # <<>>, evs' = Tail(evs), Head(evs) \in Breaks \cup Rets,
           NEW bp \in Object, Decided(bp), answers' \in SUBSET (Check \X Answer),
           UNCHANGED <<backend, tables, client>>
    PROVE  Base'
<1>1. /\ vm = "stop" /\ shown = FALSE /\ evs' \in Seq(Ev) /\ ToSet(evs') \subseteq ToSet(evs)
      /\ LoadsIn(evs') = LoadsIn(evs) /\ BreaksIn(evs') = 0 /\ RetsIn(evs') = 0
      /\ Asks(cmds) = 0 /\ Gos(cmds) = 0
      BY Deciding
<1>2. UNCHANGED <<vm, index, scripts, files, latest, pending, lastId, wish, verified, fresh>>
      BY DEF backend, tables, client
<1>3. Numbers(cmds, evs, files, scripts, shown)
      BY BaseCounts DEF Base
<1>4. /\ cmds' \in Seq(Cmd) /\ ToSet(cmds') \cap ToggleSet \subseteq ToSet(cmds)
      /\ ChecksTyped' /\ Dones(cmds') = Dones(cmds)
      /\ Asks(cmds') + Gos(cmds') + (IF shown' THEN 1 ELSE 0) = 1
  <2>1. cmds \in Seq(Cmd) /\ evals \in Nat /\ at' = bp
        BY DEF Base, Typed, PipesTyped, ChecksTyped, Decided, Stop, Skip, Ask
  <2>2. CASE Stop(bp)
    <3>1. cmds' = cmds /\ evals' = evals /\ ask' = NoAsk /\ shown' = TRUE
          BY <2>2 DEF Stop
    <3> QED BY <1>1, <2>1, <3>1 DEF ChecksTyped
  <2>3. CASE Skip(bp)
    <3>1. cmds' = Append(cmds, Go) /\ evals' = evals /\ ask' = NoAsk /\ shown' = FALSE
          BY <1>1, <2>3 DEF Skip, Go
    <3>2. Go \in Cmd /\ Go.type = "Continue" /\ Go \notin ToggleSet
          BY DEF Go, Cmd, Command, ToggleSet
    <3>3. /\ cmds' \in Seq(Cmd) /\ Dones(cmds') = Dones(cmds) + 0
          /\ Gos(cmds') = Gos(cmds) + 1 /\ Asks(cmds') = Asks(cmds) + 0
          /\ ToSet(cmds') = ToSet(cmds) \cup {Go}
          BY <2>1, <3>1, <3>2, CmdAppend, SetAppend DEF Bit
    <3>4. Dones(cmds') = Dones(cmds) /\ Gos(cmds') = 1 /\ Asks(cmds') = 0
          BY <1>1, <1>3, <3>3 DEF Numbers
    <3>5. ChecksTyped'
          BY <2>1, <3>1 DEF ChecksTyped
    <3>6. ToSet(cmds') \cap ToggleSet \subseteq ToSet(cmds)
          BY <3>2, <3>3
    <3>7. Asks(cmds') + Gos(cmds') + (IF shown' THEN 1 ELSE 0) = 1
          BY <3>1, <3>4
    <3> QED BY <3>3, <3>4, <3>5, <3>6, <3>7
  <2>4. ASSUME NEW s \in Check, Ask(bp, s)
        PROVE  /\ cmds' \in Seq(Cmd) /\ ToSet(cmds') \cap ToggleSet \subseteq ToSet(cmds)
               /\ ChecksTyped' /\ Dones(cmds') = Dones(cmds)
               /\ Asks(cmds') + Gos(cmds') + (IF shown' THEN 1 ELSE 0) = 1
    <3> DEFINE c == [type |-> "Evaluate", seq |-> (evals + 1) % Period]
    <3>1. /\ cmds' = Append(cmds, c) /\ evals' = evals + 1 /\ shown' = FALSE
          /\ ask' = [seq |-> evals + 1, stage |-> s]
          BY <1>1, <2>4 DEF Ask
    <3>2. c \in Cmd /\ c.type = "Evaluate" /\ c \notin ToggleSet
      <4>1. (evals + 1) % Period \in Nat
            BY <2>1, BreakpointsAssumption
      <4> QED BY <4>1 DEF Cmd, Evals, ToggleSet
    <3> HIDE DEF c
    <3>3. /\ cmds' \in Seq(Cmd) /\ Dones(cmds') = Dones(cmds) + 0
          /\ Gos(cmds') = Gos(cmds) + 0 /\ Asks(cmds') = Asks(cmds) + 1
          /\ ToSet(cmds') = ToSet(cmds) \cup {c}
          BY <2>1, <3>1, <3>2, CmdAppend, SetAppend DEF Bit
    <3>4. Dones(cmds') = Dones(cmds) /\ Gos(cmds') = 0 /\ Asks(cmds') = 1
          BY <1>1, <1>3, <3>3 DEF Numbers
    <3>5. ask' \in [seq : Nat, stage : Check] /\ ask'.seq \in 1 .. evals'
          BY <2>1, <3>1
    <3>6. ChecksTyped'
          BY <2>1, <3>1, <3>5 DEF ChecksTyped
    <3>7. ToSet(cmds') \cap ToggleSet \subseteq ToSet(cmds)
          BY <3>2, <3>3
    <3>8. Asks(cmds') + Gos(cmds') + (IF shown' THEN 1 ELSE 0) = 1
          BY <3>1, <3>4
    <3> QED BY <3>3, <3>4, <3>6, <3>7, <3>8
  <2> QED BY <2>2, <2>3, <2>4 DEF Decided
<1>5. Typed'
      BY <1>1, <1>2, <1>4 DEF Base, Typed, BackendTyped, PipesTyped, TablesTyped, ClientTyped
<1>6. Numbered'
      BY <1>2 DEF Base, Numbered
<1>7. InFiles'
      BY <1>1, <1>2, <1>4 DEF Base, InFiles
<1>8. LoadOnce'
      BY <1>1, <1>2, <1>4 DEF Base, LoadOnce
<1>9. StopBound'
  <2>1. Numbers(cmds', evs', files', scripts', shown')
        BY <1>5, BaseCounts
  <2>2. Decisions' = 1
        BY <1>1, <1>4, <2>1 DEF Decisions, Numbers
  <2> QED BY <1>1, <1>2, <2>2 DEF StopBound
<1> QED BY <1>5, <1>6, <1>7, <1>8, <1>9 DEF Base

LEMMA FrontBreakBase == ASSUME Base, FrontBreak PROVE Base'
BY FrontBreakDecided, DecideBase

\* An answer is for the check that waits for it and has a value, or decides nothing.
Heard(e) ==
    /\ evs # <<>> /\ e = Head(evs) /\ evs' = Tail(evs) /\ e \in Rets
    /\ UNCHANGED <<backend, tables, client>>
Taken(e) ==
    /\ ask # NoAsk /\ e.seq = ask.seq /\ ask.stage \in Check /\ at \in Object
    /\ e.answer # "none" /\ Answered(ask.stage, e.answer = "true")
    /\ answers' = answers \cup {<<ask.stage, e.answer>>}
Passed(e) ==
    /\ UNCHANGED <<cmds, evals, ask, at, shown>>
    /\ \/ answers' = answers /\ ~(ask # NoAsk /\ e.seq = ask.seq)
       \/ ask.stage \in Check /\ answers' = answers \cup {<<ask.stage, "none">>}

LEMMA FrontEvaluateRetTaken ==
    ASSUME Base, FrontEvaluateRet
    PROVE  \E e \in Rets : Heard(e) /\ (Taken(e) \/ Passed(e))
<1>0. PICK e : e = Head(evs)
      OBVIOUS
<1>1. /\ evs # <<>> /\ e.type = "EvaluateRet" /\ evs' = Tail(evs)
      /\ UNCHANGED <<backend, tables, client>>
      BY <1>0 DEF FrontEvaluateRet, Event
<1>2. e \in Rets
  <2>1. e \in Ev
        BY <1>0, <1>1, SetTail DEF Base, Typed, PipesTyped
  <2> QED BY <1>1, <2>1, EvKinds
<1>3. CASE ask # NoAsk /\ e.seq = ask.seq
  <2>1. /\ IF Decides(e.answer) THEN Answered(ask.stage, e.answer = "true")
           ELSE UNCHANGED <<cmds, evals, ask, at, shown>>
        /\ answers' = answers \cup {<<ask.stage, e.answer>>}
        BY <1>0, <1>3 DEF FrontEvaluateRet
  <2>2. ask.stage \in Check /\ at \in Object
        BY <1>3 DEF Base, Typed, ChecksTyped
  <2>3. Taken(e) \/ Passed(e)
        BY <1>3, <2>1, <2>2 DEF Taken, Passed, Decides
  <2> QED BY <1>0, <1>1, <1>2, <2>3 DEF Heard
<1>4. CASE ~(ask # NoAsk /\ e.seq = ask.seq)
  <2>1. UNCHANGED <<cmds, evals, ask, at, shown, answers>>
        BY <1>0, <1>4 DEF FrontEvaluateRet
  <2>2. Passed(e)
        BY <1>4, <2>1 DEF Passed
  <2> QED BY <1>0, <1>1, <1>2, <2>2 DEF Heard
<1> QED BY <1>3, <1>4

LEMMA FrontEvaluateRetBase == ASSUME Base, FrontEvaluateRet PROVE Base'
<1>0. PICK e \in Rets : Heard(e) /\ (Taken(e) \/ Passed(e))
      BY FrontEvaluateRetTaken
<1>1. /\ evs # <<>> /\ e = Head(evs) /\ evs' = Tail(evs)
      /\ UNCHANGED <<backend, tables, client>>
      BY <1>0 DEF Heard
<1>2. e.answer \in Answer /\ "none" \in Answer /\ answers \in SUBSET (Check \X Answer)
      BY <1>0 DEF Rets, Answer, Base, Typed, ChecksTyped
<1>3. CASE Taken(e)
  <2>1. /\ ask.stage \in Check /\ at \in Object /\ (e.answer = "true") \in BOOLEAN
        /\ Answered(ask.stage, e.answer = "true")
        /\ answers' = answers \cup {<<ask.stage, e.answer>>}
        BY <1>3 DEF Taken
  <2>3. Decided(at)
        BY <2>1, AnsweredDecided
  <2>4. answers' \in SUBSET (Check \X Answer)
        BY <1>2, <2>1
  <2> QED BY <1>1, <1>0, <2>1, <2>3, <2>4, DecideBase
<1>4. CASE Passed(e)
  <2>1. /\ UNCHANGED <<cmds, evals, ask, at, shown>>
        /\ answers' \in SUBSET (Check \X Answer)
        BY <1>2, <1>4 DEF Passed
  <2>2. UNCHANGED <<vm, index, scripts, files, latest, pending, lastId, wish, verified, fresh>>
        BY <1>1 DEF backend, tables, client
  <2>3. /\ vm = "stop" /\ shown = FALSE /\ evs' \in Seq(Ev) /\ ToSet(evs') \subseteq ToSet(evs)
        /\ LoadsIn(evs') = LoadsIn(evs) /\ BreaksIn(evs') = 0 /\ RetsIn(evs') = 0
        /\ Asks(cmds) = 0 /\ Gos(cmds) = 0
        BY <1>0, <1>1, Deciding
  <2>4. Typed'
        BY <2>1, <2>2, <2>3
        DEF Base, Typed, BackendTyped, PipesTyped, TablesTyped, ChecksTyped, ClientTyped
  <2>5. Numbered' /\ InFiles' /\ LoadOnce'
        BY <2>1, <2>2, <2>3 DEF Base, Numbered, InFiles, LoadOnce
  <2>6. Decisions' = 0
        BY <2>1, <2>3 DEF Decisions
  <2>7. StopBound'
        BY <2>6 DEF StopBound
  <2> QED BY <2>4, <2>5, <2>7 DEF Base
<1> QED BY <1>0, <1>3, <1>4

LEMMA UserContinueBase == ASSUME Base, UserContinue PROVE Base'
<1>1. /\ shown = TRUE /\ shown' = FALSE /\ at' = NoBp /\ cmds' = Append(cmds, Go)
      /\ UNCHANGED <<vm, index, scripts, evs, files, latest, pending, lastId, evals, ask, answers,
                     wish, verified, fresh>>
      BY DEF UserContinue, Go, backend, tables, client, Base, Typed, ChecksTyped
<1>2. Go \in Cmd /\ Go.type = "Continue" /\ Go \notin ToggleSet
      BY DEF Go, Cmd, Command, ToggleSet
<1>3. /\ cmds' \in Seq(Cmd) /\ Dones(cmds') = Dones(cmds) + 0
      /\ Gos(cmds') = Gos(cmds) + 1 /\ Asks(cmds') = Asks(cmds) + 0
      /\ ToSet(cmds') = ToSet(cmds) \cup {Go}
      BY <1>1, <1>2, CmdAppend, SetAppend DEF Bit, Base, Typed, PipesTyped
<1>4. NoBp \in Object
      BY DEF NoBp, Object
<1>5. Typed'
      BY <1>1, <1>3, <1>4
      DEF Base, Typed, BackendTyped, PipesTyped, TablesTyped, ChecksTyped, ClientTyped
<1>6. Numbered' /\ InFiles'
      BY <1>1, <1>2, <1>3 DEF Base, Numbered, InFiles
<1>7. Numbers(cmds, evs, files, scripts, shown)
      BY BaseCounts DEF Base
<1>8. /\ LoadsIn(evs') = LoadsIn(evs) /\ Dones(cmds') = Dones(cmds)
      /\ BreaksIn(evs') = BreaksIn(evs) /\ RetsIn(evs') = RetsIn(evs)
      /\ Asks(cmds') = Asks(cmds) /\ Gos(cmds') = Gos(cmds) + 1
      BY <1>1, <1>3, <1>7 DEF Numbers
<1>9. LoadOnce'
      BY <1>1, <1>8 DEF Base, LoadOnce
<1>10. Decisions' = Decisions
      BY <1>1, <1>7, <1>8 DEF Decisions, Numbers
<1>11. StopBound'
      BY <1>1, <1>10 DEF Base, StopBound
<1> QED BY <1>5, <1>6, <1>9, <1>11 DEF Base

LEMMA FrontSetBreakpointTaken ==
    ASSUME Base, FrontSetBreakpoint
    PROVE  /\ evs # <<>> /\ evs' = Tail(evs) /\ Head(evs) \in Sets
           /\ Head(evs).file \in 1 .. Len(files)
           /\ verified' = verified \cup
                  {files[Head(evs).file].bps[l].id :
                      l \in {Head(evs).line + 1} \cap {l \in DOMAIN files[Head(evs).file].bps : Head(evs).set}}
           /\ UNCHANGED <<vm, index, scripts, cmds, files, latest, pending, lastId, evals, ask, at,
                          shown, answers, wish, fresh>>
<1>1. /\ evs # <<>> /\ Head(evs).type = "SetBreakpoint" /\ evs' = Tail(evs)
      /\ UNCHANGED <<vm, index, scripts, cmds, files, latest, pending, lastId, evals, ask, at,
                     shown, answers, wish, fresh>>
      BY DEF FrontSetBreakpoint, Event, backend, tables, checks
<1>2. Head(evs) \in Sets /\ Head(evs).file \in 1 .. Len(files)
  <2>1. Head(evs) \in Ev /\ Head(evs) \in ToSet(evs)
        BY <1>1, SetTail DEF Base, Typed, PipesTyped
  <2> QED BY <1>1, <2>1, EvKinds DEF Base, InFiles
<1> QED BY <1>1, <1>2 DEF FrontSetBreakpoint

LEMMA FrontSetBreakpointBase == ASSUME Base, FrontSetBreakpoint PROVE Base'
<1>0. PICK e : e = Head(evs)
      OBVIOUS
<1>1. /\ evs # <<>> /\ evs' = Tail(evs) /\ e \in Sets /\ e.file \in 1 .. Len(files)
      /\ UNCHANGED <<vm, index, scripts, cmds, files, latest, pending, lastId, evals, ask, at,
                     shown, answers, wish, fresh>>
      BY <1>0, FrontSetBreakpointTaken
<1>2. verified' = verified \cup {files[e.file].bps[l].id :
                      l \in {e.line + 1} \cap {l \in DOMAIN files[e.file].bps : e.set}}
      BY <1>0, FrontSetBreakpointTaken
<1>3. verified' \in SUBSET (1 .. lastId)
  <2>1. \A l \in DOMAIN files[e.file].bps :
           files[e.file].bps[l].id \in 1 .. lastId
        BY <1>1 DEF Base, Numbered
  <2>2. lastId \in Nat /\ verified \in SUBSET (1 .. lastId)
        BY DEF Base, Typed, TablesTyped, ClientTyped
  <2> QED BY <1>2, <2>1, <2>2
<1>4. /\ evs' \in Seq(Ev) /\ ToSet(evs') \subseteq ToSet(evs)
      /\ LoadsIn(evs) = LoadsIn(evs') + 0 /\ BreaksIn(evs) = BreaksIn(evs') + 0
      /\ RetsIn(evs) = RetsIn(evs') + 0
  <2>1. e.type = "SetBreakpoint"
        BY <1>1 DEF Sets
  <2> QED BY <1>0, <1>1, <2>1, EvTail, SetTail DEF Base, Typed, PipesTyped, Bit
<1>5. Typed'
      BY <1>1, <1>3, <1>4
      DEF Base, Typed, BackendTyped, PipesTyped, TablesTyped, ChecksTyped, ClientTyped
<1>6. /\ LoadsIn(evs') = LoadsIn(evs) /\ BreaksIn(evs') = BreaksIn(evs) /\ RetsIn(evs') = RetsIn(evs)
  <2>1. Numbers(cmds', evs', files', scripts', shown')
        BY <1>5, BaseCounts
  <2> QED BY <1>4, <2>1 DEF Numbers
<1>7. Numbered' /\ InFiles' /\ LoadOnce'
      BY <1>1, <1>4, <1>6 DEF Base, Numbered, InFiles, LoadOnce
<1>8. Decisions' = Decisions
      BY <1>1, <1>6 DEF Decisions
<1>9. StopBound'
      BY <1>1, <1>8 DEF Base, StopBound
<1> QED BY <1>5, <1>7, <1>9 DEF Base

-----------------------------------------------------------------------------
(* A load.                                                                 *)

\* What the adapter does with the load of a script whose path is p.
Loaded(p, f, sent) ==
    /\ files' = Append(files, [path |-> p, bps |-> Objects(pending[p])])
    /\ latest' = [latest EXCEPT ![p] = f]
    /\ pending' = [pending EXCEPT ![p] = <<>>]
    /\ cmds' = Append(cmds \o sent, Done)
    /\ fresh' = fresh \cup {f}

LEMMA FrontLoadScriptTaken ==
    ASSUME Base, FrontLoadScript
    PROVE  \E n \in Name : \E sent \in Toggles(Len(files) + 1, {}, pending[Chunk[n].path]) :
              /\ evs # <<>> /\ evs' = Tail(evs) /\ Head(evs) \in Loads /\ Head(evs).name = n
              /\ Loaded(Chunk[n].path, Len(files) + 1, sent)
              /\ UNCHANGED <<vm, index, scripts, lastId, evals, ask, at, shown, answers, wish, verified>>
<1>1. /\ evs # <<>> /\ Head(evs).type = "LoadScript" /\ evs' = Tail(evs)
      /\ UNCHANGED <<vm, index, scripts, lastId, evals, ask, at, shown, answers, wish, verified>>
      BY DEF FrontLoadScript, Event, backend, checks
<1>2. Head(evs) \in Loads /\ Head(evs).name \in Name
  <2>1. Head(evs) \in Ev
        BY <1>1, SetTail DEF Base, Typed, PipesTyped
  <2> QED BY <1>1, <2>1, EvKinds DEF Loads
<1>3. PICK n \in Name : n = Head(evs).name
      BY <1>2
<1>4. \E sent \in Toggles(Len(files) + 1, {}, pending[Chunk[n].path]) :
         Loaded(Chunk[n].path, Len(files) + 1, sent)
      BY <1>3 DEF FrontLoadScript, Loaded, Done
<1> QED BY <1>1, <1>2, <1>3, <1>4

\* The script that waits is the last one and gets its file.
LEMMA LoadedCounts ==
    ASSUME Base, evs # <<>>, Head(evs) \in Loads
    PROVE  /\ vm = "load" /\ shown = FALSE /\ Len(files) + 1 = Len(scripts) /\ Len(files) \in Nat
           /\ Tail(evs) \in Seq(Ev) /\ ToSet(Tail(evs)) \subseteq ToSet(evs)
           /\ LoadsIn(Tail(evs)) = 0 /\ Dones(cmds) = 0
           /\ BreaksIn(evs) = 0 /\ RetsIn(evs) = 0 /\ Asks(cmds) = 0 /\ Gos(cmds) = 0
           /\ BreaksIn(Tail(evs)) = 0 /\ RetsIn(Tail(evs)) = 0
<1>1. PICK t : t = Tail(evs)
      OBVIOUS
<1>2. t \in Seq(Ev) /\ ToSet(t) \subseteq ToSet(evs)
      BY <1>1, SetTail DEF Base, Typed, PipesTyped
<1>3. /\ LoadsIn(evs) = LoadsIn(t) + 1 /\ BreaksIn(evs) = BreaksIn(t) + 0
      /\ RetsIn(evs) = RetsIn(t) + 0
  <2>1. Head(evs).type = "LoadScript"
        BY DEF Loads
  <2> QED BY <1>1, <2>1, EvTail DEF Base, Typed, PipesTyped, Bit
<1>4. LoadsIn(t) \in Nat /\ BreaksIn(t) \in Nat /\ RetsIn(t) \in Nat
      BY <1>2, EvCounts
<1>5. Numbers(cmds, evs, files, scripts, shown)
      BY BaseCounts DEF Base
<1>6. vm = "load" /\ LoadsIn(t) = 0 /\ Dones(cmds) = 0
      BY <1>3, <1>4, <1>5 DEF Base, LoadOnce, Numbers
<1>7. Len(files) + 1 = Len(scripts)
      BY <1>3, <1>5, <1>6 DEF Base, InFiles, Numbers
<1>8. Decisions = 0
      BY <1>6 DEF Base, StopBound
<1>9. /\ BreaksIn(evs) = 0 /\ RetsIn(evs) = 0 /\ Asks(cmds) = 0 /\ Gos(cmds) = 0 /\ shown = FALSE
      BY <1>5, <1>8 DEF Decisions, Numbers
<1>10. BreaksIn(t) = 0 /\ RetsIn(t) = 0
      BY <1>3, <1>4, <1>9
<1> QED BY <1>1, <1>2, <1>5, <1>6, <1>7, <1>9, <1>10 DEF Numbers

\* The commands after a load.
LEMMA LoadedCmds ==
    ASSUME NEW q \in Seq(Cmd), NEW sent \in Seq(ToggleSet)
    PROVE  /\ q \o sent \in Seq(Cmd) /\ Append(q \o sent, Done) \in Seq(Cmd)
           /\ ToSet(Append(q \o sent, Done)) = ToSet(q) \cup ToSet(sent) \cup {Done}
           /\ ToSet(sent) \subseteq ToggleSet
<1>1. PICK r : r = q \o sent
      OBVIOUS
<1>2. r \in Seq(Cmd) /\ ToSet(r) = ToSet(q) \cup ToSet(sent)
      BY <1>1, CmdConcat, SetConcat
<1>3. Done \in Cmd
      BY DEF Cmd
<1>4. Append(r, Done) \in Seq(Cmd) /\ ToSet(Append(r, Done)) = ToSet(r) \cup {Done}
      BY <1>2, <1>3, SetAppend
<1>5. ToSet(sent) \subseteq ToggleSet
      BY LenProperties DEF ToSet
<1> QED BY <1>1, <1>2, <1>4, <1>5

\* The load under way, and what is there after it.
Loading(p, f, sent) ==
    /\ evs # <<>> /\ evs' = Tail(evs) /\ Head(evs) \in Loads /\ p = Chunk[Head(evs).name].path
    /\ f \in Nat \ {0} /\ f = Len(files) + 1 /\ f = Len(scripts)
    /\ pending[p] \in Seq(Entry) /\ sent \in Toggles(f, {}, pending[p]) /\ sent \in Seq(ToggleSet)
    /\ \A c \in ToSet(sent) : c \in ToggleSet /\ c.file = f
    /\ files' \in Seq(File) /\ Len(files') = f
    /\ files'[f].path = p /\ files'[f].bps = Objects(pending[p])
    /\ \A g \in 1 .. Len(files) : files'[g] = files[g]
    /\ latest' = [latest EXCEPT ![p] = f]
    /\ pending' = [pending EXCEPT ![p] = <<>>]
    /\ cmds' = Append(cmds \o sent, Done)
    /\ ToSet(cmds') = ToSet(cmds) \cup ToSet(sent) \cup {Done}
    /\ fresh' = fresh \cup {f}
    /\ UNCHANGED <<vm, index, scripts, lastId, evals, ask, at, shown, answers, wish, verified>>

LEMMA FrontLoadScriptForm ==
    ASSUME Base, FrontLoadScript
    PROVE  \E p \in Path : \E f, sent : Loading(p, f, sent)
<1>1. PICK n \in Name : \E sent \in Toggles(Len(files) + 1, {}, pending[Chunk[n].path]) :
         /\ evs # <<>> /\ evs' = Tail(evs) /\ Head(evs) \in Loads /\ Head(evs).name = n
         /\ Loaded(Chunk[n].path, Len(files) + 1, sent)
         /\ UNCHANGED <<vm, index, scripts, lastId, evals, ask, at, shown, answers, wish, verified>>
      BY FrontLoadScriptTaken
<1>2. PICK p \in Path : p = Chunk[n].path
      BY ChunkType
<1>3. PICK f : f = Len(files) + 1
      OBVIOUS
<1>4. PICK sent \in Toggles(f, {}, pending[p]) :
         /\ evs # <<>> /\ evs' = Tail(evs) /\ Head(evs) \in Loads /\ Head(evs).name = n
         /\ Loaded(p, f, sent)
         /\ UNCHANGED <<vm, index, scripts, lastId, evals, ask, at, shown, answers, wish, verified>>
      BY <1>1, <1>2, <1>3
<1>5. f \in Nat \ {0} /\ f = Len(files) + 1 /\ f = Len(scripts)
      BY <1>3, <1>4, LoadedCounts
<1>6. pending[p] \in Seq(Entry)
      BY DEF Base, Typed, TablesTyped
<1>7. sent \in Seq(ToggleSet) /\ \A c \in ToSet(sent) : c \in ToggleSet /\ c.file = f
  <2>1. sent \in Seq(ToggleSet) /\ \A k \in DOMAIN sent : sent[k].file = f
        BY <1>5, <1>6, TogglesCount, FS_EmptySet
  <2> QED BY <2>1, LenProperties DEF ToSet
<1>8. cmds \in Seq(Cmd) /\ cmds' = Append(cmds \o sent, Done)
      BY <1>4 DEF Loaded, Base, Typed, PipesTyped
<1>9. ToSet(cmds') = ToSet(cmds) \cup ToSet(sent) \cup {Done}
      BY <1>7, <1>8, LoadedCmds
<1> DEFINE file == [path |-> p, bps |-> Objects(pending[p])]
<1>10. /\ file \in File /\ file.path = p /\ file.bps = Objects(pending[p])
      BY <1>6, ObjectsType DEF File
<1>11. files' = Append(files, file) /\ files \in Seq(File)
      BY <1>4 DEF Loaded, Base, Typed, TablesTyped
<1> HIDE DEF file
<1>12. /\ files' \in Seq(File) /\ Len(files') = f
       /\ files'[f] = file /\ \A g \in 1 .. Len(files) : files'[g] = files[g]
       BY <1>5, <1>10, <1>11, AppendProperties
<1> QED BY <1>2, <1>4, <1>5, <1>6, <1>7, <1>8, <1>9, <1>10, <1>12 DEF Loading, Loaded

LEMMA FrontLoadScriptBase == ASSUME Base, FrontLoadScript PROVE Base'
<1>1. PICK p \in Path : \E f, sent : Loading(p, f, sent)
      BY FrontLoadScriptForm
<1>2. PICK f, sent : Loading(p, f, sent)
      BY <1>1
<1>4. /\ evs # <<>> /\ evs' = Tail(evs) /\ Head(evs) \in Loads
      /\ latest' = [latest EXCEPT ![p] = f] /\ pending' = [pending EXCEPT ![p] = <<>>]
      /\ fresh' = fresh \cup {f}
      /\ UNCHANGED <<vm, index, scripts, lastId, evals, ask, at, shown, answers, wish, verified>>
      BY <1>2 DEF Loading
<1>5. /\ vm = "load" /\ shown = FALSE /\ Len(files) + 1 = Len(scripts) /\ Len(files) \in Nat
      /\ evs' \in Seq(Ev) /\ ToSet(evs') \subseteq ToSet(evs)
      /\ LoadsIn(evs') = 0 /\ Dones(cmds) = 0
      /\ BreaksIn(evs') = 0 /\ RetsIn(evs') = 0 /\ Asks(cmds) = 0 /\ Gos(cmds) = 0
      BY <1>4, LoadedCounts
<1>6. f \in Nat \ {0} /\ f = Len(files) + 1 /\ Len(scripts) = f
      BY <1>2 DEF Loading
<1>7. pending[p] \in Seq(Entry)
      BY <1>2 DEF Loading
<1>8. /\ sent \in Seq(ToggleSet) /\ \A c \in ToSet(sent) : c.file = f
      /\ cmds' = Append(cmds \o sent, Done)
      /\ ToSet(cmds') = ToSet(cmds) \cup ToSet(sent) \cup {Done}
      BY <1>2 DEF Loading
<1>9. /\ cmds' \in Seq(Cmd) /\ Dones(cmds') = 1 /\ Asks(cmds') = 0 /\ Gos(cmds') = 0
  <2>1. PICK q : q = cmds \o sent
        OBVIOUS
  <2>2. /\ q \in Seq(Cmd) /\ Dones(q) = 0 /\ Asks(q) = 0 /\ Gos(q) = 0
        BY <1>5, <1>8, <2>1, CmdConcat DEF Base, Typed, PipesTyped
  <2>3. Done \in Cmd /\ Done.type = "LoadDone" /\ cmds' = Append(q, Done)
        BY <1>8, <2>1 DEF Cmd, Done, Command
  <2>4. /\ cmds' \in Seq(Cmd) /\ Dones(cmds') = Dones(q) + 1 /\ Asks(cmds') = Asks(q) + 0
        /\ Gos(cmds') = Gos(q) + 0
        BY <2>2, <2>3, CmdAppend DEF Bit
  <2> QED BY <2>2, <2>4
<1>12. /\ files' \in Seq(File) /\ Len(files') = f
       /\ files'[f].bps = Objects(pending[p]) /\ \A i \in 1 .. Len(files) : files'[i] = files[i]
       BY <1>2 DEF Loading
<1>13. /\ latest' \in [Path -> 0 .. Len(files')] /\ pending' \in [Path -> Seq(Entry)]
       /\ fresh' \in SUBSET (1 .. Len(files'))
  <2>1. <<>> \in Seq(Entry)
        BY EmptySeq
  <2>2. latest' = [latest EXCEPT ![p] = f] /\ pending' = [pending EXCEPT ![p] = <<>>]
        /\ fresh' = fresh \cup {f}
        BY <1>4
  <2>3. latest' \in [Path -> 0 .. Len(files')]
        BY <1>5, <1>6, <1>12, <2>2 DEF Base, Typed, TablesTyped
  <2>4. pending' \in [Path -> Seq(Entry)]
        BY <2>1, <2>2 DEF Base, Typed, TablesTyped
  <2>5. fresh' \in SUBSET (1 .. Len(files'))
    <3>1. fresh \in SUBSET (1 .. Len(files))
          BY DEF Base, Typed, ClientTyped
    <3>2. (\A g \in 1 .. Len(files) : g \in 1 .. Len(files')) /\ f \in 1 .. Len(files')
          BY <1>5, <1>6, <1>12
    <3> QED BY <2>2, <3>1, <3>2
  <2> QED BY <2>3, <2>4, <2>5
<1>14. Typed'
       BY <1>4, <1>5, <1>9, <1>12, <1>13
       DEF Base, Typed, BackendTyped, PipesTyped, TablesTyped, ChecksTyped, ClientTyped
<1>15. Numbered'
  <2>1. lastId' = lastId /\ wish' = wish /\ pending' = [pending EXCEPT ![p] = <<>>]
        BY <1>4
  <2>2. ASSUME NEW l \in DOMAIN Objects(pending[p])
        PROVE  Objects(pending[p])[l].id \in 1 .. lastId
    <3>1. PICK q \in Seq(Entry) : q = pending[p]
          BY <1>7
    <3>3. PICK k \in Good(q) : Objects(q)[l].id = q[k].id
          BY <2>2, <3>1, ObjectsType
    <3>2. k \in DOMAIN pending[p]
          BY <3>1 DEF Good
    <3> QED BY <3>1, <3>2, <3>3 DEF Base, Numbered
  <2>3. \A g \in 1 .. Len(files') : \A l \in DOMAIN files'[g].bps : files'[g].bps[l].id \in 1 .. lastId
    <3> SUFFICES ASSUME NEW g \in 1 .. Len(files'), NEW l \in DOMAIN files'[g].bps
                 PROVE  files'[g].bps[l].id \in 1 .. lastId
        OBVIOUS
    <3>1. CASE g = f
          BY <1>12, <2>2, <3>1
    <3>2. CASE g # f
      <4>1. g \in 1 .. Len(files) /\ files'[g] = files[g]
            BY <1>5, <1>6, <1>12, <3>2
      <4> QED BY <4>1 DEF Base, Numbered
    <3> QED BY <3>1, <3>2
  <2>4. \A q \in Path : \A k \in DOMAIN pending'[q] : pending'[q][k].id \in 1 .. lastId
    <3> SUFFICES ASSUME NEW q \in Path, NEW k \in DOMAIN pending'[q]
                 PROVE  pending'[q][k].id \in 1 .. lastId
        OBVIOUS
    <3>1. q # p /\ pending'[q] = pending[q]
          BY <2>1 DEF Base, Typed, TablesTyped
    <3> QED BY <3>1 DEF Base, Numbered
  <2> QED BY <2>1, <2>3, <2>4 DEF Base, Numbered
<1>16. InFiles'
  <2>1. \A c \in ToSet(sent) : c.file = f
        BY <1>8
  <2>2. Done \notin ToggleSet
        BY DEF Done, Command, ToggleSet
  <2>3. \A c \in ToSet(cmds') : c \in ToggleSet => c.file \in 1 .. Len(files')
        BY <1>5, <1>6, <1>8, <1>12, <2>1, <2>2 DEF Base, InFiles
  <2>4. \A e \in ToSet(evs') : e \in Breaks \cup Sets => e.file \in 1 .. Len(files')
        BY <1>5, <1>6, <1>12 DEF Base, InFiles
  <2>5. Len(files') + LoadsIn(evs') = Len(scripts')
        BY <1>4, <1>5, <1>6, <1>12
  <2> QED BY <2>3, <2>4, <2>5 DEF InFiles
<1>17. LoadOnce'
       BY <1>4, <1>5, <1>9 DEF LoadOnce
<1>18. StopBound'
  <2>1. Decisions' = 0
        BY <1>4, <1>5, <1>9 DEF Decisions
  <2> QED BY <2>1 DEF StopBound
<1> QED BY <1>14, <1>15, <1>16, <1>17, <1>18 DEF Base

-----------------------------------------------------------------------------
(* A request of the user.                                                  *)

LEMMA WithIdsType ==
    ASSUME NEW req \in Requests, lastId \in Nat
    PROVE  /\ WithIds(req) \in Seq(Entry) /\ DOMAIN WithIds(req) = DOMAIN req
           /\ Len(req) \in Nat
           /\ \A k \in DOMAIN req :
                 /\ WithIds(req)[k].id = lastId + k
                 /\ WithIds(req)[k].id \in lastId + 1 .. lastId + Len(req)
                 /\ WithIds(req)[k].line = req[k].line /\ WithIds(req)[k].bad = req[k].bad
<1>1. req \in Seq(Source)
      BY BreakpointsAssumption
<1>2. DOMAIN req = 1 .. Len(req) /\ Len(req) \in Nat /\ \A k \in DOMAIN req : req[k] \in Source
      BY <1>1, LenProperties
<1> DEFINE e(k) == [line |-> req[k].line, checks |-> req[k].checks,
                    bad |-> req[k].bad, id |-> lastId + k]
<1>3. \A k \in 1 .. Len(req) : e(k) \in Entry
  <2> SUFFICES ASSUME NEW k \in 1 .. Len(req) PROVE e(k) \in Entry
      OBVIOUS
  <2>1. req[k] \in Source /\ lastId + k \in Nat \ {0}
        BY <1>2
  <2> QED BY <2>1 DEF Source, Entry, Lines
<1>4. WithIds(req) = [k \in 1 .. Len(req) |-> e(k)]
      BY <1>2 DEF WithIds
<1> HIDE DEF e
<1>5. WithIds(req) \in Seq(Entry) /\ DOMAIN WithIds(req) = DOMAIN req
      BY <1>2, <1>3, <1>4
<1>6. ASSUME NEW k \in DOMAIN req
      PROVE  /\ WithIds(req)[k].id = lastId + k
             /\ WithIds(req)[k].id \in lastId + 1 .. lastId + Len(req)
             /\ WithIds(req)[k].line = req[k].line /\ WithIds(req)[k].bad = req[k].bad
  <2>1. WithIds(req)[k] = e(k) /\ k \in 1 .. Len(req)
        BY <1>2, <1>4
  <2>2. e(k).id = lastId + k /\ e(k).line = req[k].line /\ e(k).bad = req[k].bad
        BY DEF e
  <2> QED BY <1>2, <2>1, <2>2
<1> QED BY <1>2, <1>5, <1>6

\* What the two cases of a request have in common.
Requested(p, req) ==
    /\ lastId' = lastId + Len(req)
    /\ wish' = [wish EXCEPT ![p] = WithIds(req)]
    /\ fresh' = fresh \ {latest[p]}
    /\ UNCHANGED <<vm, index, scripts, evs, latest, evals, ask, at, shown, answers>>

LEMMA SetBreakpointsTaken ==
    ASSUME NEW p \in Path, NEW req \in Requests, SetBreakpoints(p, req)
    PROVE  /\ Requested(p, req)
           /\ KeepForLoad(p, WithIds(req)) \/ SetInFile(p, WithIds(req))
BY DEF SetBreakpoints, Requested, backend, checks

\* What a request does to the table of a loaded file.
Set(p, r, f, sent) ==
    /\ f \in 1 .. Len(files) /\ f = latest[p]
    /\ files' = [files EXCEPT ![f].bps = Objects(r)]
    /\ cmds' = cmds \o sent
    /\ verified' = verified \cup VerifiedAtOnce(DOMAIN files[f].bps, r)
    /\ UNCHANGED pending

LEMMA SetInFileTaken ==
    ASSUME Base, NEW p \in Path, NEW r \in Seq(Entry), SetInFile(p, r)
    PROVE  \E f \in 1 .. Len(files) : \E sent \in Toggles(f, DOMAIN files[f].bps, r) :
              Set(p, r, f, sent)
<1>1. latest[p] \in 0 .. Len(files) /\ Len(files) \in Nat
      BY LenProperties DEF Base, Typed, TablesTyped
<1>2. PICK f \in 1 .. Len(files) : f = latest[p]
      BY <1>1 DEF SetInFile
<1>3. \E sent \in Toggles(f, DOMAIN files[f].bps, r) : Set(p, r, f, sent)
      BY <1>2 DEF SetInFile, Set
<1> QED BY <1>3

\* The file of a path gets the objects of the request.
LEMMA SetFiles ==
    ASSUME Base, NEW p \in Path, NEW r \in Seq(Entry), NEW f \in 1 .. Len(files), NEW sent,
           sent \in Toggles(f, DOMAIN files[f].bps, r), Set(p, r, f, sent)
    PROVE  /\ files' \in Seq(File) /\ Len(files') = Len(files) /\ Len(files) \in Nat
           /\ files'[f].bps = Objects(r) /\ files'[f].path = files[f].path
           /\ \A g \in 1 .. Len(files) : g # f => files'[g] = files[g]
           /\ sent \in Seq(ToggleSet) /\ \A c \in ToSet(sent) : c.file = f
           /\ cmds' \in Seq(Cmd) /\ ToSet(cmds') = ToSet(cmds) \cup ToSet(sent)
           /\ Dones(cmds') = Dones(cmds) /\ Gos(cmds') = Gos(cmds) /\ Asks(cmds') = Asks(cmds)
<1>1. files \in Seq(File) /\ Len(files) \in Nat
      BY LenProperties DEF Base, Typed, TablesTyped
<1>2. files[f] \in File /\ DOMAIN files[f].bps \in SUBSET Lines /\ IsFiniteSet(DOMAIN files[f].bps)
      BY FileType
<1> DEFINE new == [files[f] EXCEPT !.bps = Objects(r)]
<1>3. new \in File /\ new.bps = Objects(r) /\ new.path = files[f].path
      BY <1>2, ObjectsType DEF File
<1>4. files' = [files EXCEPT ![f] = new]
      BY DEF Set
<1> HIDE DEF new
<1>5. /\ files' \in Seq(File) /\ Len(files') = Len(files) /\ files'[f] = new
      /\ \A g \in 1 .. Len(files) : g # f => files'[g] = files[g]
      BY <1>1, <1>3, <1>4, ExceptSeq
<1>6. sent \in Seq(ToggleSet) /\ \A c \in ToSet(sent) : c.file = f
  <2>1. f \in Nat \ {0}
        BY <1>1
  <2>2. sent \in Seq(ToggleSet) /\ \A k \in DOMAIN sent : sent[k].file = f
        BY <1>2, <2>1, TogglesCount
  <2> QED BY <2>2 DEF ToSet
<1>7. /\ cmds' = cmds \o sent /\ cmds \in Seq(Cmd)
      BY DEF Set, Base, Typed, PipesTyped
<1>8. /\ cmds' \in Seq(Cmd)
      /\ Dones(cmds') = Dones(cmds) /\ Gos(cmds') = Gos(cmds) /\ Asks(cmds') = Asks(cmds)
      BY <1>6, <1>7, CmdConcat
<1>9. ToSet(cmds') = ToSet(cmds) \cup ToSet(sent)
      BY <1>6, <1>7, CmdConcat, SetConcat
<1> QED BY <1>1, <1>3, <1>5, <1>6, <1>8, <1>9

LEMMA SetBreakpointsBase ==
    ASSUME Base, NEW p \in Path, NEW req \in Requests, SetBreakpoints(p, req)
    PROVE  Base'
<1>0. PICK r : r = WithIds(req)
      OBVIOUS
<1>1. /\ lastId' = lastId + Len(req)
      /\ wish' = [wish EXCEPT ![p] = r]
      /\ fresh' = fresh \ {latest[p]}
      /\ UNCHANGED <<vm, index, scripts, evs, latest, evals, ask, at, shown, answers>>
      BY <1>0, SetBreakpointsTaken DEF Requested
<1>2. lastId \in Nat /\ verified \in SUBSET (1 .. lastId)
      BY DEF Base, Typed, TablesTyped, ClientTyped
<1>3. /\ r \in Seq(Entry) /\ Len(req) \in Nat /\ lastId' \in Nat
      /\ \A k \in DOMAIN r : r[k].id \in 1 .. lastId'
      /\ \A i \in 1 .. lastId : i \in 1 .. lastId'
  <2>1. /\ r \in Seq(Entry) /\ Len(req) \in Nat
        /\ \A k \in DOMAIN r : r[k].id \in lastId + 1 .. lastId + Len(req)
        BY <1>0, <1>2, WithIdsType
  <2> QED BY <1>1, <1>2, <2>1
<1>4. /\ wish' \in [Path -> Seq(Entry)]
      /\ \A q \in Path : \A k \in DOMAIN wish'[q] : wish'[q][k].id \in 1 .. lastId'
  <2>1. wish' \in [Path -> Seq(Entry)] /\ wish \in [Path -> Seq(Entry)]
        BY <1>1, <1>3 DEF Base, Typed, ClientTyped
  <2>2. ASSUME NEW q \in Path, NEW k \in DOMAIN wish'[q] PROVE wish'[q][k].id \in 1 .. lastId'
    <3>1. CASE q = p
          BY <1>1, <1>3, <2>1, <2>2, <3>1
    <3>2. CASE q # p
      <4>1. wish'[q] = wish[q]
            BY <1>1, <2>1, <3>2
      <4>2. wish[q][k].id \in 1 .. lastId
            BY <2>2, <4>1 DEF Base, Numbered
      <4> QED BY <1>3, <4>1, <4>2
    <3> QED BY <3>1, <3>2
  <2> QED BY <2>1, <2>2
<1>5. /\ \A f \in 1 .. Len(files) : \A l \in DOMAIN files[f].bps : files[f].bps[l].id \in 1 .. lastId'
      /\ \A q \in Path : \A k \in DOMAIN pending[q] : pending[q][k].id \in 1 .. lastId'
      BY <1>3 DEF Base, Numbered
<1>6. CASE KeepForLoad(p, r)
  <2>1. pending' = [pending EXCEPT ![p] = r] /\ UNCHANGED <<files, cmds, verified>>
        BY <1>6 DEF KeepForLoad
  <2>2. pending' \in [Path -> Seq(Entry)] /\ pending \in [Path -> Seq(Entry)]
        BY <1>3, <2>1 DEF Base, Typed, TablesTyped
  <2>3. ASSUME NEW q \in Path, NEW k \in DOMAIN pending'[q]
        PROVE  pending'[q][k].id \in 1 .. lastId'
    <3>1. CASE q = p
          BY <1>3, <2>1, <2>2, <2>3, <3>1
    <3>2. CASE q # p
      <4>1. pending'[q] = pending[q]
            BY <2>1, <2>2, <3>2
      <4> QED BY <1>5, <2>3, <4>1
    <3> QED BY <3>1, <3>2
  <2>4. verified' \in SUBSET (1 .. lastId') /\ fresh' \in SUBSET (1 .. Len(files'))
        BY <1>1, <1>2, <1>3, <2>1 DEF Base, Typed, ClientTyped
  <2>5. Typed'
        BY <1>1, <1>3, <1>4, <2>1, <2>2, <2>4
        DEF Base, Typed, BackendTyped, PipesTyped, TablesTyped, ChecksTyped, ClientTyped
  <2>6. Numbered'
        BY <1>4, <1>5, <2>1, <2>3 DEF Numbered
  <2>7. InFiles' /\ LoadOnce'
        BY <1>1, <2>1 DEF Base, InFiles, LoadOnce
  <2>8. StopBound'
        BY <1>1, <2>1 DEF Base, StopBound, Decisions
  <2> QED BY <2>5, <2>6, <2>7, <2>8 DEF Base
<1>7. CASE SetInFile(p, r)
  <2>1. PICK f \in 1 .. Len(files) : \E sent \in Toggles(f, DOMAIN files[f].bps, r) :
           Set(p, r, f, sent)
        BY <1>3, <1>7, SetInFileTaken
  <2>2. PICK sent \in Toggles(f, DOMAIN files[f].bps, r) : Set(p, r, f, sent)
        BY <2>1
  <2>3. /\ files' \in Seq(File) /\ Len(files') = Len(files) /\ Len(files) \in Nat
        /\ files'[f].bps = Objects(r)
        /\ \A g \in 1 .. Len(files) : g # f => files'[g] = files[g]
        /\ \A c \in ToSet(sent) : c.file = f
        /\ cmds' \in Seq(Cmd) /\ ToSet(cmds') = ToSet(cmds) \cup ToSet(sent)
        /\ Dones(cmds') = Dones(cmds) /\ Gos(cmds') = Gos(cmds) /\ Asks(cmds') = Asks(cmds)
        BY <1>3, <2>2, SetFiles
  <2>4. verified' \in SUBSET (1 .. lastId')
    <3>1. verified' = verified \cup VerifiedAtOnce(DOMAIN files[f].bps, r)
          BY <2>2 DEF Set
    <3>2. VerifiedAtOnce(DOMAIN files[f].bps, r) \subseteq 1 .. lastId'
          BY <1>3 DEF VerifiedAtOnce, Good
    <3>3. verified \subseteq 1 .. lastId'
          BY <1>2, <1>3
    <3> QED BY <3>1, <3>2, <3>3
  <2>5. pending' = pending
        BY <2>2 DEF Set
  <2>6. fresh' \in SUBSET (1 .. Len(files'))
        BY <1>1, <2>3 DEF Base, Typed, ClientTyped
  <2>7. Typed'
        BY <1>1, <1>3, <1>4, <2>3, <2>4, <2>5, <2>6
        DEF Base, Typed, BackendTyped, PipesTyped, TablesTyped, ChecksTyped, ClientTyped
  <2>8. ASSUME NEW g \in 1 .. Len(files'), NEW l \in DOMAIN files'[g].bps
        PROVE  files'[g].bps[l].id \in 1 .. lastId'
    <3>1. CASE g = f
      <4>1. l \in DOMAIN Objects(r) /\ files'[g].bps[l] = Objects(r)[l]
            BY <2>3, <2>8, <3>1
      <4>2. PICK k \in Good(r) : Objects(r)[l].id = r[k].id
            BY <1>3, <4>1, ObjectsType
      <4> QED BY <1>3, <4>1, <4>2 DEF Good
    <3>2. CASE g # f
      <4>1. g \in 1 .. Len(files) /\ files'[g] = files[g]
            BY <2>3, <3>2
      <4> QED BY <1>5, <2>8, <4>1
    <3> QED BY <3>1, <3>2
  <2>9. Numbered'
        BY <1>4, <1>5, <2>5, <2>8 DEF Numbered
  <2>10. InFiles'
        BY <1>1, <2>3 DEF Base, InFiles
  <2>11. LoadOnce'
        BY <1>1, <2>3 DEF Base, LoadOnce
  <2>12. StopBound'
    <3>1. Decisions' = Decisions
          BY <1>1, <2>3 DEF Decisions
    <3> QED BY <1>1, <3>1 DEF Base, StopBound
  <2> QED BY <2>7, <2>9, <2>10, <2>11, <2>12 DEF Base
<1> QED BY <1>0, <1>6, <1>7, SetBreakpointsTaken

-----------------------------------------------------------------------------
(* Every step keeps the types.                                             *)

\* A line that is executed is one of the user's.
LEMMA LineType ==
    ASSUME NEW l \in {r.line : r \in UNION {ToSet(q) : q \in Requests}}
    PROVE  l \in Lines
<1>1. PICK r \in UNION {ToSet(q) : q \in Requests} : l = r.line
      OBVIOUS
<1>2. PICK q \in Requests : r \in ToSet(q)
      OBVIOUS
<1>3. q \in Seq(Source)
      BY BreakpointsAssumption
<1>4. r \in Source
      BY <1>2, <1>3, LenProperties DEF ToSet
<1> QED BY <1>1, <1>4 DEF Source, Lines

LEMMA NextBase == ASSUME Base, [Next]_vars PROVE Base'
<1>1. ASSUME NEW n \in Name, RegisterScript(n) PROVE Base'
      BY <1>1, RegisterBase
<1>2. ASSUME NEW n \in Name, NEW l \in {r.line : r \in UNION {ToSet(q) : q \in Requests}},
             BreakFromScript(n, l)
      PROVE  Base'
      BY <1>2, LineType, BreakBase
<1>3. CASE ToggleBreakpoint
      BY <1>3, ToggleBase
<1>4. CASE LoadDone
      BY <1>4, LoadDoneBase
<1>5. CASE Continue
      BY <1>5, ContinueBase
<1>6. CASE Evaluate
      BY <1>6, EvaluateBase
<1>7. CASE FrontLoadScript
      BY <1>7, FrontLoadScriptBase
<1>8. CASE FrontSetBreakpoint
      BY <1>8, FrontSetBreakpointBase
<1>9. CASE FrontBreak
      BY <1>9, FrontBreakBase
<1>10. CASE FrontEvaluateRet
      BY <1>10, FrontEvaluateRetBase
<1>11. CASE UserContinue
      BY <1>11, UserContinueBase
<1>12. ASSUME NEW p \in Path, NEW req \in Requests, SetBreakpoints(p, req) PROVE Base'
      BY <1>12, SetBreakpointsBase
<1>13. CASE UNCHANGED vars
  <2>1. UNCHANGED <<vm, index, scripts, cmds, evs, files, latest, pending, lastId, evals, ask, at,
                    shown, answers, wish, verified, fresh>>
        BY <1>13 DEF vars, backend, tables, checks, client
  <2> QED BY <2>1 DEF Base, Typed, BackendTyped, PipesTyped, TablesTyped, ChecksTyped, ClientTyped,
             Numbered, InFiles, LoadOnce, StopBound, Decisions
<1> QED BY <1>1, <1>2, <1>3, <1>4, <1>5, <1>6, <1>7, <1>8, <1>9, <1>10, <1>11, <1>12, <1>13
        DEF Next, Script, Commands, Adapter, User

LEMMA BaseTypeOK == Base => TypeOK
<1> SUFFICES ASSUME Base PROVE TypeOK
    OBVIOUS
<1>1. Numbers(cmds, evs, files, scripts, shown)
      BY BaseCounts DEF Base
<1>2. /\ vm \in {"run", "load", "stop"} /\ index \in [Name -> 0 .. Len(scripts)]
      /\ \A i \in DOMAIN scripts : scripts[i].bps \subseteq Nat
  <2>1. \A i \in DOMAIN scripts : scripts[i] \in Script0
        BY LenProperties DEF Base, Typed, BackendTyped
  <2> QED BY <2>1 DEF Base, Typed, BackendTyped, Script0
<1>3. Len(files) <= Len(scripts)
      BY <1>1 DEF Base, InFiles, Numbers
<1>4. \A f \in DOMAIN files : /\ files[f].path \in Path
                              /\ \A l \in DOMAIN files[f].bps : files[f].bps[l] \in Object
  <2>1. \A f \in DOMAIN files : f \in 1 .. Len(files)
        BY LenProperties DEF Base, Typed, TablesTyped
  <2> QED BY <2>1, FileType DEF File
<1>5. /\ latest \in [Path -> 0 .. Len(files)] /\ lastId \in Nat
      /\ evals \in Nat /\ at \in Object /\ shown \in BOOLEAN
      /\ verified \subseteq 1 .. lastId
      BY DEF Base, Typed, TablesTyped, ChecksTyped, ClientTyped
<1>6. ask.seq \in 0 .. evals /\ ask.stage \in Check \cup {"none"}
      BY <1>5 DEF Base, Typed, ChecksTyped, NoAsk
<1>7. fresh \subseteq DOMAIN files
      BY LenProperties DEF Base, Typed, TablesTyped, ClientTyped
<1>8. \A p \in Path : /\ \A k \in DOMAIN pending[p] : pending[p][k].id \in 1 .. lastId
                      /\ \A k \in DOMAIN wish[p] : wish[p][k].id \in 1 .. lastId
      BY DEF Base, Numbered
<1> QED BY <1>2, <1>3, <1>4, <1>5, <1>6, <1>7, <1>8 DEF TypeOK

LEMMA BaseAlways == Spec => []Base
<1>1. Init => Base
      BY InitBase
<1>2. Base /\ [Next]_vars => Base'
      BY NextBase
<1> QED BY <1>1, <1>2, PTL DEF Spec

\* The types hold whatever the chunks and the requests are.
THEOREM TypeCorrect == Spec => []TypeOK
BY BaseAlways, BaseTypeOK, PTL

-----------------------------------------------------------------------------
(* A stop is accounted for, as long as no request id comes back.           *)

IdsTellApart == MaxEval < Period

Mine(c, e, a) ==
    /\ \A x \in ToSet(c) : x \in Evals => a # NoAsk /\ x.seq = a.seq
    /\ \A x \in ToSet(e) : x \in Rets  => a # NoAsk /\ x.seq = a.seq
\* A check that was answered without a value leaves nothing under way.
Stuck == Valueless => vm = "stop" /\ Decisions = 0

Exact ==
    /\ vm = "stop" /\ ~Valueless => Decisions = 1
    /\ Mine(cmds, evs, ask)
    /\ evals <= MaxEval

\* With something to decide there is exactly one thing.
Deciders(b, e, c) ==
    \/ b
    \/ \E x \in ToSet(e) : x \in Breaks \cup Rets
    \/ \E x \in ToSet(c) : x \in Evals \cup {Go}

LEMMA OneDecision ==
    /\ Base /\ Deciders(shown, evs, cmds) => Decisions = 1
    /\ Base' /\ Deciders(shown', evs', cmds') => Decisions' = 1
<1>1. ASSUME Base, Deciders(shown, evs, cmds) PROVE Decisions = 1
  <2>1. Numbers(cmds, evs, files, scripts, shown)
        BY <1>1, BaseCounts DEF Base
  <2>2. \/ shown \/ BreaksIn(evs) # 0 \/ RetsIn(evs) # 0 \/ Asks(cmds) # 0 \/ Gos(cmds) # 0
        BY <1>1, CmdCounts, EvCounts DEF Deciders, Base, Typed, PipesTyped
  <2>3. Decisions <= 1
        BY <1>1 DEF Base, StopBound
  <2> QED BY <2>1, <2>2, <2>3 DEF Decisions, Numbers
<1>2. ASSUME Base', Deciders(shown', evs', cmds') PROVE Decisions' = 1
  <2>1. Numbers(cmds', evs', files', scripts', shown')
        BY <1>2, BaseCounts DEF Base
  <2>2. \/ shown' \/ BreaksIn(evs') # 0 \/ RetsIn(evs') # 0 \/ Asks(cmds') # 0 \/ Gos(cmds') # 0
        BY <1>2, CmdCounts, EvCounts DEF Deciders, Base, Typed, PipesTyped
  <2>3. Decisions' <= 1
        BY <1>2 DEF Base, StopBound
  <2> QED BY <2>1, <2>2, <2>3 DEF Decisions, Numbers
<1> QED BY <1>1, <1>2

\* Where anything is under way, or the state runs, all answers had values.
LEMMA Valued ==
    ASSUME Stuck, vm # "stop" \/ Decisions = 1, UNCHANGED answers
    PROVE  ~Valueless /\ ~Valueless'
<1>1. ~Valueless
      BY DEF Stuck
<1>2. answers' = answers
      OBVIOUS
<1> QED BY <1>1, <1>2 DEF Valueless

\* A decision is told to someone, and an evaluation is waited for under its own id.
LEMMA DecidedExact ==
    ASSUME IdsTellApart, Base, Base', Exact, evs # <<>>, evs' = Tail(evs),
           Head(evs) \in Breaks \cup Rets, NEW bp, Decided(bp)
    PROVE  Exact'
<1>1. /\ \A x \in ToSet(cmds) : x \notin Evals
      /\ \A x \in ToSet(evs') : x \notin Rets
      /\ cmds \in Seq(Cmd)
  <2>1. Asks(cmds) = 0 /\ RetsIn(evs') = 0
        BY Deciding
  <2>2. cmds \in Seq(Cmd) /\ evs' \in Seq(Ev)
        BY DEF Base, Typed, PipesTyped
  <2> QED BY <2>1, <2>2, CmdCounts, EvCounts
<1>2. evals \in Nat /\ evals <= MaxEval /\ MaxEval \in Nat /\ Period \in Nat \ {0}
      BY BreakpointsAssumption DEF Base, Typed, ChecksTyped, Exact
<1>3. CASE Stop(bp)
  <2>1. shown' = TRUE /\ cmds' = cmds /\ evals' = evals
        BY <1>3 DEF Stop
  <2>2. Mine(cmds', evs', ask')
        BY <1>1, <2>1 DEF Mine
  <2>3. Decisions' = 1
        BY <2>1, OneDecision DEF Deciders
  <2> QED BY <1>2, <2>1, <2>2, <2>3 DEF Exact
<1>4. CASE Skip(bp)
  <2>1. cmds' = Append(cmds, Go) /\ evals' = evals
        BY <1>4 DEF Skip, Go
  <2>2. Go \in Cmd /\ Go \notin Evals
        BY DEF Go, Cmd, Command, Evals
  <2>3. ToSet(cmds') = ToSet(cmds) \cup {Go}
        BY <1>1, <2>1, <2>2, SetAppend
  <2>4. Mine(cmds', evs', ask')
        BY <1>1, <2>2, <2>3 DEF Mine
  <2>5. Decisions' = 1
        BY <2>3, OneDecision DEF Deciders
  <2> QED BY <1>2, <2>1, <2>4, <2>5 DEF Exact
<1>5. ASSUME NEW s \in Check, Ask(bp, s) PROVE Exact'
  <2> DEFINE c == [type |-> "Evaluate", seq |-> (evals + 1) % Period]
  <2>1. /\ cmds' = Append(cmds, c) /\ evals' = evals + 1 /\ evals < MaxEval
        /\ ask' = [seq |-> evals + 1, stage |-> s]
        BY <1>5 DEF Ask
  <2>2. (evals + 1) % Period = evals + 1
        BY <1>2, <2>1 DEF IdsTellApart
  <2>3. c \in Evals /\ c \in Cmd /\ c.seq = ask'.seq /\ ask' # NoAsk
    <3>1. c \in Evals
          BY <1>2, <2>2 DEF Evals
    <3>2. c.seq = ask'.seq
          BY <2>1, <2>2
    <3>3. ask' # NoAsk
          BY <1>2, <2>1 DEF NoAsk
    <3> QED BY <3>1, <3>2, <3>3 DEF Cmd
  <2> HIDE DEF c
  <2>4. ToSet(cmds') = ToSet(cmds) \cup {c}
        BY <1>1, <2>1, <2>3, SetAppend
  <2>5. Mine(cmds', evs', ask')
        BY <1>1, <2>3, <2>4 DEF Mine
  <2>6. Decisions' = 1
        BY <2>3, <2>4, OneDecision DEF Deciders
  <2>7. evals' <= MaxEval
        BY <1>2, <2>1
  <2> QED BY <2>5, <2>6, <2>7 DEF Exact
<1> QED BY <1>3, <1>4, <1>5 DEF Decided

LEMMA FrontEvaluateRetExact ==
    ASSUME IdsTellApart, Base, Base', Exact, FrontEvaluateRet
    PROVE  Exact'
<1>0. PICK e \in Rets : Heard(e) /\ (Taken(e) \/ Passed(e))
      BY FrontEvaluateRetTaken
<1>1. /\ evs # <<>> /\ e = Head(evs) /\ e \in ToSet(evs) /\ evs' = Tail(evs)
      /\ UNCHANGED vm
      BY <1>0, SetTail DEF Heard, backend, Base, Typed, PipesTyped
<1>2. ask # NoAsk /\ e.seq = ask.seq
      BY <1>0, <1>1 DEF Exact, Mine
<1>3. CASE Taken(e)
  <2>1. ask.stage \in Check /\ (e.answer = "true") \in BOOLEAN /\ Answered(ask.stage, e.answer = "true")
        BY <1>3 DEF Taken
  <2>2. Decided(at)
        BY <2>1, AnsweredDecided
  <2> QED BY <1>0, <1>1, <2>2, DecidedExact
<1>4. CASE Passed(e)
  <2>1. /\ UNCHANGED <<cmds, evals, ask, at, shown>>
        /\ ask.stage \in Check /\ answers' = answers \cup {<<ask.stage, "none">>}
        BY <1>2, <1>4 DEF Passed
  <2>2. Valueless'
        BY <2>1 DEF Valueless
  <2>3. ToSet(evs') \subseteq ToSet(evs)
        BY <1>1, SetTail DEF Base, Typed, PipesTyped
  <2>4. Mine(cmds', evs', ask')
        BY <2>1, <2>3 DEF Exact, Mine
  <2> QED BY <2>1, <2>2, <2>4 DEF Exact
<1> QED BY <1>0, <1>3, <1>4

LEMMA EvaluateExact == ASSUME Base, Base', Exact, Evaluate PROVE Exact'
<1>0. PICK c : c = Head(cmds)
      OBVIOUS
<1>1. /\ cmds # <<>> /\ c.type = "Evaluate" /\ cmds' = Tail(cmds)
      /\ UNCHANGED <<vm, ask, evals>>
      BY <1>0 DEF Evaluate, Next1, backend, checks
<1>2. /\ c \in Evals /\ c \in ToSet(cmds) /\ ToSet(cmds') \subseteq ToSet(cmds)
      BY <1>0, <1>1, SetTail, CmdKinds DEF Base, Typed, PipesTyped
<1>3. PICK e \in Rets : evs' = Append(evs, e) /\ e.seq = c.seq
  <2>1. \E a \in Answer :
           evs' = Append(evs, [type |-> "EvaluateRet", seq |-> c.seq, answer |-> a])
        BY <1>0 DEF Evaluate
  <2> QED BY <1>2, <2>1 DEF Rets, Evals
<1>4. ToSet(evs') = ToSet(evs) \cup {e}
      BY <1>3, SetAppend DEF Base, Typed, PipesTyped, Ev
<1>5. Mine(cmds', evs', ask')
      BY <1>1, <1>2, <1>3, <1>4 DEF Exact, Mine
<1>6. Decisions' = 1
      BY <1>4, OneDecision DEF Deciders
<1> QED BY <1>1, <1>5, <1>6 DEF Exact

\* Nothing that counts has changed.
LEMMA ExactKept ==
    ASSUME Base, Exact, UNCHANGED <<vm, shown, ask, evals, answers>>,
           Asks(cmds') = Asks(cmds), Gos(cmds') = Gos(cmds),
           BreaksIn(evs') = BreaksIn(evs), RetsIn(evs') = RetsIn(evs),
           \A x \in ToSet(cmds') : x \in Evals => x \in ToSet(cmds),
           \A x \in ToSet(evs') : x \in Rets => x \in ToSet(evs)
    PROVE  Exact'
<1>1. Decisions' = Decisions
      BY DEF Decisions
<1>2. Mine(cmds', evs', ask')
      BY DEF Exact, Mine
<1>3. Valueless' <=> Valueless
      BY DEF Valueless
<1> QED BY <1>1, <1>2, <1>3 DEF Exact

\* What a toggle does to the script and tells the adapter.
Toggled(c, e) ==
    /\ cmds # <<>> /\ c = Head(cmds) /\ cmds' = Tail(cmds)
    /\ c.file \in 1 .. Len(files) /\ c.file \in 1 .. Len(scripts)
    /\ e = [type |-> "SetBreakpoint", file |-> c.file, line |-> c.line,
            set |-> c.line \notin scripts[c.file].bps]
    /\ evs' = Append(evs, e)
    /\ Len(scripts') = Len(scripts)
    /\ scripts'[c.file].bps = IF c.line \notin scripts[c.file].bps
                              THEN scripts[c.file].bps \cup {c.line}
                              ELSE scripts[c.file].bps \ {c.line}
    /\ scripts'[c.file].title = scripts[c.file].title
    /\ scripts'[c.file].source = scripts[c.file].source
    /\ \A i \in 1 .. Len(scripts) : i # c.file => scripts'[i] = scripts[i]
    /\ UNCHANGED <<vm, index, files, latest, pending, lastId, evals, ask, at, shown, answers,
                   wish, verified, fresh>>

LEMMA ToggleTaken ==
    ASSUME Base, ToggleBreakpoint
    PROVE  \E c \in ToggleSet : \E e \in Sets : Toggled(c, e)
<1>0. PICK c : c = Head(cmds)
      OBVIOUS
<1>1. /\ cmds # <<>> /\ c.type = "Toggle" /\ cmds' = Tail(cmds)
      /\ UNCHANGED <<vm, index, files, latest, pending, lastId, evals, ask, at, shown,
                     answers, wish, verified, fresh>>
      BY <1>0 DEF ToggleBreakpoint, Next1, tables, checks, client
<1>2. c \in ToggleSet /\ c \in ToSet(cmds)
      BY <1>0, <1>1, SetTail, CmdKinds DEF Base, Typed, PipesTyped
<1>3. c.file \in 1 .. Len(files) /\ c.file \in 1 .. Len(scripts)
  <2>1. c.file \in 1 .. Len(files)
        BY <1>2 DEF Base, InFiles
  <2>2. Len(files) <= Len(scripts)
        BY BaseCounts DEF Numbers, Base, InFiles
  <2> QED BY <2>1, <2>2, BaseCounts DEF Numbers, Base
<1>4. PICK e : /\ evs' = Append(evs, e)
               /\ e = [type |-> "SetBreakpoint", file |-> c.file, line |-> c.line,
                       set |-> c.line \notin scripts[c.file].bps]
      BY <1>0 DEF ToggleBreakpoint
<1>5. e \in Sets
      BY <1>2, <1>4 DEF Sets, ToggleSet
<1>6. PICK b : /\ b = IF c.line \notin scripts[c.file].bps THEN scripts[c.file].bps \cup {c.line}
                      ELSE scripts[c.file].bps \ {c.line}
               /\ scripts' = [scripts EXCEPT ![c.file].bps = b]
      BY <1>0 DEF ToggleBreakpoint
<1>7. scripts \in Seq(Script0) /\ scripts[c.file] \in Script0
      BY <1>3, ElementOfSeq DEF Base, Typed, BackendTyped
<1>8. /\ DOMAIN scripts' = DOMAIN scripts /\ DOMAIN scripts = 1 .. Len(scripts) /\ Len(scripts) \in Nat
      /\ scripts'[c.file] = [scripts[c.file] EXCEPT !.bps = b]
      /\ \A i \in 1 .. Len(scripts) : i # c.file => scripts'[i] = scripts[i]
      BY <1>3, <1>6, <1>7, LenProperties
<1>9. /\ scripts'[c.file].bps = b /\ scripts'[c.file].title = scripts[c.file].title
      /\ scripts'[c.file].source = scripts[c.file].source
      BY <1>7, <1>8 DEF Script0
<1>10. Len(scripts') = Len(scripts)
  <2>1. \E s : scripts' = [scripts EXCEPT ![c.file] = s]
        BY <1>6
  <2> QED BY <1>8, <2>1
<1> QED BY <1>0, <1>1, <1>2, <1>3, <1>4, <1>5, <1>6, <1>8, <1>9, <1>10 DEF Toggled

\* Toggles, and their confirmations, count for nothing here.
LEMMA ToggleCounts ==
    ASSUME Base, ToggleBreakpoint
    PROVE  /\ UNCHANGED <<vm, shown, ask, evals, answers>>
           /\ Asks(cmds') = Asks(cmds) /\ Gos(cmds') = Gos(cmds)
           /\ BreaksIn(evs') = BreaksIn(evs) /\ RetsIn(evs') = RetsIn(evs)
           /\ \A x \in ToSet(cmds') : x \in Evals => x \in ToSet(cmds)
           /\ \A x \in ToSet(evs') : x \in Rets => x \in ToSet(evs)
<1>1. PICK c \in ToggleSet : \E e \in Sets : Toggled(c, e)
      BY ToggleTaken
<1>2. PICK e \in Sets : Toggled(c, e)
      BY <1>1
<1>3. /\ cmds # <<>> /\ c = Head(cmds) /\ cmds' = Tail(cmds) /\ evs' = Append(evs, e)
      /\ UNCHANGED <<vm, shown, ask, evals, answers>>
      BY <1>2 DEF Toggled
<1>4. cmds \in Seq(Cmd) /\ evs \in Seq(Ev) /\ c.type = "Toggle" /\ e \in Ev /\ e.type = "SetBreakpoint"
      BY DEF Base, Typed, PipesTyped, ToggleSet, Sets, Ev
<1>5. /\ cmds' \in Seq(Cmd) /\ ToSet(cmds') \subseteq ToSet(cmds)
      /\ Asks(cmds) = Asks(cmds') + 0 /\ Gos(cmds) = Gos(cmds') + 0
      BY <1>3, <1>4, CmdTail, SetTail DEF Bit
<1>6. /\ ToSet(evs') = ToSet(evs) \cup {e} /\ e \notin Rets
      /\ BreaksIn(evs') = BreaksIn(evs) + 0 /\ RetsIn(evs') = RetsIn(evs) + 0
      BY <1>3, <1>4, EvAppend, SetAppend, EvKinds DEF Bit
<1>7. /\ Asks(cmds') = Asks(cmds) /\ Gos(cmds') = Gos(cmds)
      BY <1>5, CmdCounts
<1>8. BreaksIn(evs') = BreaksIn(evs) /\ RetsIn(evs') = RetsIn(evs)
      BY <1>4, <1>6, EvCounts
<1> QED BY <1>3, <1>5, <1>6, <1>7, <1>8

LEMMA ConfirmedCounts ==
    ASSUME Base, FrontSetBreakpoint
    PROVE  /\ UNCHANGED <<vm, shown, ask, evals, answers, cmds>>
           /\ BreaksIn(evs') = BreaksIn(evs) /\ RetsIn(evs') = RetsIn(evs)
           /\ \A x \in ToSet(evs') : x \in Rets => x \in ToSet(evs)
<1>1. /\ evs # <<>> /\ evs' = Tail(evs) /\ Head(evs) \in Sets
      /\ UNCHANGED <<vm, cmds, evals, ask, shown, answers>>
      BY FrontSetBreakpointTaken
<1>2. Head(evs).type = "SetBreakpoint" /\ evs \in Seq(Ev)
      BY <1>1 DEF Sets, Base, Typed, PipesTyped
<1>3. /\ BreaksIn(evs) = BreaksIn(evs') + 0 /\ RetsIn(evs) = RetsIn(evs') + 0
      /\ ToSet(evs') \subseteq ToSet(evs) /\ evs' \in Seq(Ev)
      BY <1>1, <1>2, EvTail, SetTail DEF Bit
<1>4. BreaksIn(evs') = BreaksIn(evs) /\ RetsIn(evs') = RetsIn(evs)
      BY <1>3, EvCounts
<1> QED BY <1>1, <1>3, <1>4

LEMMA RequestCounts ==
    ASSUME Base, NEW p \in Path, NEW req \in Requests, SetBreakpoints(p, req)
    PROVE  /\ UNCHANGED <<vm, shown, ask, evals, answers, evs>>
           /\ Asks(cmds') = Asks(cmds) /\ Gos(cmds') = Gos(cmds)
           /\ \A x \in ToSet(cmds') : x \in Evals => x \in ToSet(cmds)
<1>1. PICK r : r = WithIds(req)
      OBVIOUS
<1>2. r \in Seq(Entry) /\ UNCHANGED <<vm, evs, evals, ask, shown, answers>>
      BY <1>1, WithIdsType DEF SetBreakpoints, Base, Typed, TablesTyped, backend, checks
<1>3. CASE KeepForLoad(p, r)
  <2>1. cmds' = cmds
        BY <1>3 DEF KeepForLoad
  <2> QED BY <1>2, <2>1
<1>4. CASE SetInFile(p, r)
  <2>1. PICK f \in 1 .. Len(files) : \E sent \in Toggles(f, DOMAIN files[f].bps, r) :
           Set(p, r, f, sent)
        BY <1>2, <1>4, SetInFileTaken
  <2>2. PICK sent \in Toggles(f, DOMAIN files[f].bps, r) : Set(p, r, f, sent)
        BY <2>1
  <2>3. /\ Gos(cmds') = Gos(cmds) /\ Asks(cmds') = Asks(cmds)
        /\ ToSet(cmds') = ToSet(cmds) \cup ToSet(sent) /\ sent \in Seq(ToggleSet)
        BY <1>2, <2>2, SetFiles
  <2>4. ToSet(sent) \subseteq ToggleSet
        BY <2>3, LenProperties DEF ToSet
  <2>5. \A x \in ToggleSet : x \notin Evals
        BY DEF ToggleSet, Evals
  <2> QED BY <1>2, <2>3, <2>4, <2>5
<1> QED BY <1>1, <1>3, <1>4, SetBreakpointsTaken

\* Nothing is under way to decide, or to load, that the state does not wait for.
LEMMA StuckKept ==
    ASSUME Stuck, UNCHANGED <<vm, shown, answers>>,
           Asks(cmds') = Asks(cmds), Gos(cmds') = Gos(cmds),
           BreaksIn(evs') = BreaksIn(evs), RetsIn(evs') = RetsIn(evs)
    PROVE  Stuck'
<1>1. Decisions' = Decisions
      BY DEF Decisions
<1>2. Valueless' <=> Valueless
      BY DEF Valueless
<1> QED BY <1>1, <1>2 DEF Stuck

LEMMA FrontEvaluateRetStuck == ASSUME Base, Stuck, FrontEvaluateRet PROVE Stuck'
<1>0. PICK e \in Rets : Heard(e) /\ (Taken(e) \/ Passed(e))
      BY FrontEvaluateRetTaken
<1>1. /\ evs # <<>> /\ e = Head(evs) /\ evs' = Tail(evs) /\ UNCHANGED vm
      BY <1>0 DEF Heard, backend
<1>2. /\ vm = "stop" /\ shown = FALSE /\ BreaksIn(evs') = 0 /\ RetsIn(evs') = 0
      /\ Asks(cmds) = 0 /\ Gos(cmds) = 0
      BY <1>0, <1>1, Deciding
<1>3. ~Valueless
  <2>1. e \in ToSet(evs)
        BY <1>1, SetTail DEF Base, Typed, PipesTyped
  <2>2. Decisions = 1
        BY <1>0, <2>1, OneDecision DEF Deciders
  <2> QED BY <2>2 DEF Stuck
<1>4. CASE Taken(e)
  <2>1. ~Valueless'
        BY <1>3, <1>4 DEF Taken, Valueless
  <2> QED BY <2>1 DEF Stuck
<1>5. CASE Passed(e)
  <2>1. UNCHANGED <<cmds, shown>>
        BY <1>5 DEF Passed
  <2>2. Decisions' = 0
        BY <1>2, <2>1 DEF Decisions
  <2> QED BY <1>1, <1>2, <2>2 DEF Stuck
<1> QED BY <1>0, <1>4, <1>5

LEMMA NextStuck == ASSUME Base, Stuck, [Next]_vars PROVE Stuck'
<1>0. cmds \in Seq(Cmd) /\ evs \in Seq(Ev)
      BY DEF Base, Typed, PipesTyped
<1>1. ASSUME vm # "stop" \/ Decisions = 1, UNCHANGED answers PROVE Stuck'
      BY <1>1, Valued DEF Stuck
<1>2. ASSUME NEW n \in Name, RegisterScript(n) PROVE Stuck'
      BY <1>1, <1>2 DEF RegisterScript, checks
<1>3. ASSUME NEW n \in Name, NEW l, BreakFromScript(n, l) PROVE Stuck'
      BY <1>1, <1>3 DEF BreakFromScript, checks
<1>4. CASE ToggleBreakpoint
      BY <1>4, ToggleCounts, StuckKept
<1>5. CASE LoadDone
  <2>1. cmds # <<>> /\ Head(cmds).type = "LoadDone" /\ UNCHANGED answers
        BY <1>5 DEF LoadDone, Next1, checks
  <2>2. Dones(cmds) = Dones(Tail(cmds)) + 1
        BY <1>0, <2>1, CmdTail DEF Bit
  <2>3. Dones(Tail(cmds)) \in Nat /\ LoadsIn(evs) \in Nat
        BY <1>0, <2>1, SetTail, CmdCounts, EvCounts
  <2>4. vm = "load"
        BY <2>2, <2>3 DEF Base, LoadOnce
  <2> QED BY <1>1, <2>1, <2>4
<1>6. CASE Continue \/ Evaluate
  <2>1. cmds # <<>> /\ Head(cmds).type \in {"Continue", "Evaluate"} /\ UNCHANGED answers
        BY <1>6 DEF Continue, Evaluate, Next1, checks
  <2>2. Head(cmds) \in Cmd /\ Head(cmds) \in ToSet(cmds)
        BY <1>0, <2>1, SetTail
  <2>3. Head(cmds) \in Evals \cup {Go}
        BY <2>1, <2>2, CmdKinds
  <2>4. Decisions = 1
        BY <2>2, <2>3, OneDecision DEF Deciders
  <2> QED BY <1>1, <2>1, <2>4
<1>7. CASE FrontLoadScript
  <2>1. PICK p \in Path : \E f, sent : Loading(p, f, sent)
        BY <1>7, FrontLoadScriptForm
  <2>2. PICK f, sent : Loading(p, f, sent)
        BY <2>1
  <2>3. evs # <<>> /\ Head(evs) \in Loads
        BY <2>2 DEF Loading
  <2>4. vm = "load"
        BY <2>3, LoadedCounts
  <2>5. UNCHANGED answers
        BY <1>7 DEF FrontLoadScript, checks
  <2> QED BY <1>1, <2>4, <2>5
<1>8. CASE FrontSetBreakpoint
      BY <1>8, ConfirmedCounts, StuckKept
<1>9. CASE FrontBreak
  <2>1. answers' = {}
        BY <1>9 DEF FrontBreak
  <2> QED BY <2>1 DEF Stuck, Valueless
<1>10. CASE FrontEvaluateRet
      BY <1>10, FrontEvaluateRetStuck
<1>11. CASE UserContinue
  <2>1. shown /\ UNCHANGED answers
        BY <1>11 DEF UserContinue
  <2>2. Decisions = 1
        BY <2>1, OneDecision DEF Deciders
  <2> QED BY <1>1, <2>1, <2>2
<1>12. ASSUME NEW p \in Path, NEW req \in Requests, SetBreakpoints(p, req) PROVE Stuck'
      BY <1>12, RequestCounts, StuckKept
<1>13. CASE UNCHANGED vars
      BY <1>13, StuckKept DEF vars, backend, checks
<1> QED BY <1>2, <1>3, <1>4, <1>5, <1>6, <1>7, <1>8, <1>9, <1>10, <1>11, <1>12, <1>13
        DEF Next, Script, Commands, Adapter, User

LEMMA StuckAlways == Spec => []Stuck
<1>1. Init => Stuck
      BY DEF Init, Stuck, Valueless
<1>2. Base /\ Stuck /\ [Next]_vars => Stuck'
      BY NextStuck
<1> QED BY <1>1, <1>2, BaseAlways, PTL DEF Spec

LEMMA NextExact == ASSUME IdsTellApart, Base, Base', Stuck, Exact, [Next]_vars PROVE Exact'
<1>0. cmds \in Seq(Cmd) /\ evs \in Seq(Ev) /\ cmds' \in Seq(Cmd) /\ evs' \in Seq(Ev)
      BY DEF Base, Typed, PipesTyped
<1>1. ASSUME NEW n \in Name, RegisterScript(n) PROVE Exact'
  <2>1. CASE SameScript(n) # {}
    <3>1. UNCHANGED <<vm, cmds, evs, evals, ask, shown, answers>>
          BY <1>1, <2>1, RegisterKnown DEF checks
    <3> QED BY <3>1, ExactKept
  <2>2. CASE SameScript(n) = {}
    <3>1. PICK e \in Loads : evs' = Append(evs, e)
          BY <1>1, <2>2 DEF RegisterScript, Loads
    <3>2. vm' = "load" /\ UNCHANGED <<cmds, evals, ask, shown>>
          BY <1>1, <2>2, RegisterNew DEF checks
    <3>3. e \in Ev /\ e \notin Rets
          BY DEF Ev, Loads, Rets
    <3>4. ToSet(evs') = ToSet(evs) \cup {e}
          BY <1>0, <3>1, <3>3, SetAppend
    <3>5. Mine(cmds', evs', ask')
          BY <3>2, <3>3, <3>4 DEF Exact, Mine
    <3> QED BY <3>2, <3>5 DEF Exact
  <2> QED BY <2>1, <2>2
<1>2. ASSUME NEW n \in Name, NEW l \in {r.line : r \in UNION {ToSet(q) : q \in Requests}},
             BreakFromScript(n, l)
      PROVE  Exact'
  <2>1. PICK e : /\ evs' = Append(evs, e)
                 /\ e = [type |-> "Break", file |-> index[n], line |-> l]
        BY <1>2 DEF BreakFromScript
  <2>2. UNCHANGED <<cmds, evals, ask, shown>>
        BY <1>2 DEF BreakFromScript, checks
  <2>3. e \in Breaks
    <3>1. index[n] \in 0 .. Len(scripts) /\ index[n] # 0 /\ Len(scripts) \in Nat
          BY <1>2, BaseCounts DEF BreakFromScript, Base, Typed, BackendTyped, Numbers
    <3> QED BY <2>1, <3>1, LineType DEF Breaks
  <2>4. e \in Ev /\ e \notin Rets
        BY <2>3 DEF Ev, Breaks, Rets
  <2>5. ToSet(evs') = ToSet(evs) \cup {e}
        BY <1>0, <2>1, <2>4, SetAppend
  <2>6. Mine(cmds', evs', ask')
        BY <2>2, <2>4, <2>5 DEF Exact, Mine
  <2>7. Decisions' = 1
        BY <2>3, <2>5, OneDecision DEF Deciders
  <2> QED BY <2>2, <2>6, <2>7 DEF Exact
<1>3. CASE ToggleBreakpoint
      BY <1>3, ToggleCounts, ExactKept
<1>4. CASE LoadDone \/ Continue
  <2>1. cmds # <<>> /\ cmds' = Tail(cmds) /\ vm' = "run" /\ UNCHANGED <<evs, evals, ask, shown>>
        BY <1>4 DEF LoadDone, Continue, Next1, checks
  <2>2. ToSet(cmds') \subseteq ToSet(cmds)
        BY <1>0, <2>1, SetTail
  <2>3. Mine(cmds', evs', ask')
        BY <2>1, <2>2 DEF Exact, Mine
  <2> QED BY <2>1, <2>3 DEF Exact
<1>5. CASE Evaluate
      BY <1>5, EvaluateExact
<1>6. CASE FrontLoadScript
  <2>1. PICK p \in Path : \E f, sent : Loading(p, f, sent)
        BY <1>6, FrontLoadScriptForm
  <2>2. PICK f, sent : Loading(p, f, sent)
        BY <2>1
  <2>3. /\ evs # <<>> /\ evs' = Tail(evs) /\ Head(evs) \in Loads
        /\ ToSet(cmds') = ToSet(cmds) \cup ToSet(sent) \cup {Done}
        /\ \A x \in ToSet(sent) : x \in ToggleSet
        /\ UNCHANGED <<vm, evals, ask, shown>>
        BY <2>2 DEF Loading
  <2>4. Done \notin Evals /\ \A x \in ToggleSet : x \notin Evals
        BY DEF Done, Command, Evals, ToggleSet
  <2>5. vm = "load" /\ ToSet(evs') \subseteq ToSet(evs)
        BY <2>3, LoadedCounts
  <2>6. Mine(cmds', evs', ask')
        BY <2>3, <2>4, <2>5 DEF Exact, Mine
  <2> QED BY <2>3, <2>5, <2>6 DEF Exact
<1>7. CASE FrontSetBreakpoint
      BY <1>7, ConfirmedCounts, ExactKept
<1>8. CASE FrontBreak
  <2>1. PICK bp : Decided(bp)
        BY <1>8, FrontBreakDecided
  <2> QED BY <1>8, <2>1, FrontBreakDecided, DecidedExact
<1>9. CASE FrontEvaluateRet
      BY <1>9, FrontEvaluateRetExact
<1>10. CASE UserContinue
  <2>1. cmds' = Append(cmds, Go) /\ UNCHANGED <<vm, evs, evals, ask>>
        BY <1>10 DEF UserContinue, Go, backend
  <2>2. Go \in Cmd /\ Go \notin Evals
        BY DEF Go, Cmd, Command, Evals
  <2>3. ToSet(cmds') = ToSet(cmds) \cup {Go}
        BY <1>0, <2>1, <2>2, SetAppend
  <2>4. Mine(cmds', evs', ask')
        BY <2>1, <2>2, <2>3 DEF Exact, Mine
  <2>5. Decisions' = 1
        BY <2>3, OneDecision DEF Deciders
  <2> QED BY <2>1, <2>4, <2>5 DEF Exact
<1>11. ASSUME NEW p \in Path, NEW req \in Requests, SetBreakpoints(p, req) PROVE Exact'
      BY <1>11, RequestCounts, ExactKept
<1>12. CASE UNCHANGED vars
  <2>1. UNCHANGED <<vm, cmds, evs, evals, ask, shown, answers>>
        BY <1>12 DEF vars, backend, checks
  <2> QED BY <2>1, ExactKept
<1> QED BY <1>1, <1>2, <1>3, <1>4, <1>5, <1>6, <1>7, <1>8, <1>9, <1>10, <1>11, <1>12
        DEF Next, Script, Commands, Adapter, User

\* breakpoint.lua:274: while request ids do not come back, a state that is stopped is
\* known to the user, or exactly one message is under way that will decide on it, unless
\* a check was answered without a value: then it is not known, and nothing is under way.
THEOREM StopsAccounted == IdsTellApart => (Spec => []StopAccounted)
<1> SUFFICES ASSUME IdsTellApart PROVE Spec => []StopAccounted
    OBVIOUS
<1>1. Init => Exact
      BY SetEmpty, BreakpointsAssumption DEF Init, Exact, Mine
<1>2. Base /\ Stuck /\ Exact /\ [Next]_vars => Exact'
      BY NextExact, NextBase
<1>3. Base /\ Stuck /\ Exact => StopAccounted
  <2> SUFFICES ASSUME Base, Stuck, Exact, vm = "stop" PROVE StopAccounted
      BY DEF StopAccounted
  <2>1. cmds \in Seq(Cmd) /\ evs \in Seq(Ev)
        BY DEF Base, Typed, PipesTyped
  <2>2. \A k \in DOMAIN cmds : cmds[k] \in Cmd /\ cmds[k] \in ToSet(cmds)
        BY <2>1, LenProperties DEF ToSet
  <2>3. \A k \in DOMAIN evs : evs[k] \in Ev /\ evs[k] \in ToSet(evs)
        BY <2>1, LenProperties DEF ToSet
  <2>4. Positions(evs, Breaks) = {k \in DOMAIN evs : evs[k].type = "Break"}
        BY <2>3, EvKinds DEF Positions
  <2>5. Positions(evs, Rets) = {k \in DOMAIN evs : evs[k].type = "EvaluateRet" /\ evs[k].seq = ask.seq}
        BY <2>3, EvKinds DEF Positions, Exact, Mine
  <2>6. Positions(cmds, Evals) = {k \in DOMAIN cmds : cmds[k].type = "Evaluate" /\ cmds[k].seq = ask.seq}
        BY <2>2, CmdKinds DEF Positions, Exact, Mine
  <2>7. Positions(cmds, {Go}) = {k \in DOMAIN cmds : cmds[k].type = "Continue"}
        BY <2>2, CmdKinds DEF Positions
  <2>8. Outstanding = Decisions
        BY <2>4, <2>5, <2>6, <2>7 DEF Outstanding, Decisions, BreaksIn, RetsIn, Asks, Gos, Count
  <2>9. Decisions = IF Valueless THEN 0 ELSE 1
        BY DEF Stuck, Exact
  <2> QED BY <2>8, <2>9 DEF StopAccounted
<1> QED BY <1>1, <1>2, <1>3, BaseAlways, StuckAlways, PTL DEF Spec

-----------------------------------------------------------------------------
(* Conditions and log messages decide on a stop.                           *)

DueFor(bp, a) == \A c \in bp.checks : c # "logMessage" /\ <<c, "true">> \in a

\* What has been answered when a condition is evaluated, and what a decision means.
Sofar(s, bp, a) ==
    /\ s \in bp.checks
    /\ s = "condition" => a = {}
    /\ s = "hitCondition" => /\ a \subseteq {<<"condition", "true">>}
                             /\ "condition" \in bp.checks => <<"condition", "true">> \in a
Staged ==
    /\ ask # NoAsk => shown = FALSE /\ (Valueless \/ Sofar(ask.stage, at, answers))
    /\ shown => DueFor(at, answers)
    /\ Go \in ToSet(cmds) /\ at # NoBp => ~DueFor(at, answers)

\* Nothing has been decided yet.
Undecided == cmds \in Seq(Cmd) /\ Go \notin ToSet(cmds) /\ shown = FALSE

LEMMA StopStaged ==
    ASSUME Undecided, NEW bp, Stop(bp), DueFor(bp, answers')
    PROVE  Staged'
BY DEF Undecided, Stop, Staged

LEMMA SkipStaged ==
    ASSUME Undecided, NEW bp, Skip(bp), ~DueFor(bp, answers')
    PROVE  Staged'
BY DEF Undecided, Skip, Staged

LEMMA AskStaged ==
    ASSUME Undecided, NEW bp, NEW s \in Check, Ask(bp, s), Sofar(s, bp, answers')
    PROVE  Staged'
<1>1. /\ cmds' = Append(cmds, [type |-> "Evaluate", seq |-> (evals + 1) % Period])
      /\ at' = bp /\ ask'.stage = s /\ shown' = FALSE
      BY DEF Ask, Undecided
<1>2. Go \notin ToSet(cmds')
  <2>1. ToSet(cmds') = ToSet(cmds) \cup {[type |-> "Evaluate", seq |-> (evals + 1) % Period]}
    <3>1. cmds \in Seq(Cmd \cup {[type |-> "Evaluate", seq |-> (evals + 1) % Period]})
          BY SeqMonotonic DEF Undecided
    <3> QED BY <1>1, <3>1, SetAppend
  <2> QED BY <2>1 DEF Undecided, Go, Command
<1> QED BY <1>1, <1>2 DEF Staged

LEMMA LogStaged ==
    ASSUME Undecided, NEW bp, "logMessage" \in bp.checks, LogMessage(bp)
    PROVE  Staged'
<1>1. ~DueFor(bp, answers')
      BY DEF DueFor
<1>2. Sofar("logMessage", bp, answers') /\ "logMessage" \in Check
      BY DEF Sofar, Check
<1> QED BY <1>1, <1>2, SkipStaged, AskStaged DEF LogMessage

LEMMA StatLogStaged ==
    ASSUME Undecided, NEW bp, CheckStatLog(bp), bp.checks \subseteq Check,
           "condition" \in bp.checks => <<"condition", "true">> \in answers',
           "hitCondition" \in bp.checks => <<"hitCondition", "true">> \in answers'
    PROVE  Staged'
<1>1. CASE "logMessage" \in bp.checks
      BY <1>1, LogStaged DEF CheckStatLog, Reached
<1>2. CASE "logMessage" \notin bp.checks
  <2>1. Stop(bp)
        BY <1>2 DEF CheckStatLog, Reached
  <2>2. DueFor(bp, answers')
        BY <1>2 DEF DueFor, Check
  <2> QED BY <2>1, <2>2, StopStaged
<1> QED BY <1>1, <1>2

LEMMA HitStaged ==
    ASSUME Undecided, NEW bp, CheckHitCondition(bp), bp.checks \subseteq Check,
           "condition" \in bp.checks => <<"condition", "true">> \in answers',
           answers' \subseteq {<<"condition", "true">>}
    PROVE  Staged'
<1>1. CASE "hitCondition" \in bp.checks
  <2>1. Ask(bp, "hitCondition") /\ "hitCondition" \in Check
        BY <1>1 DEF CheckHitCondition, Reached, Check
  <2>2. Sofar("hitCondition", bp, answers')
        BY <1>1 DEF Sofar
  <2> QED BY <2>1, <2>2, AskStaged
<1>2. CASE "hitCondition" \notin bp.checks
      BY <1>2, StatLogStaged DEF CheckHitCondition, Reached
<1> QED BY <1>1, <1>2

LEMMA ConditionStaged ==
    ASSUME Undecided, NEW bp, CheckCondition(bp), bp.checks \subseteq Check, answers' = {}
    PROVE  Staged'
<1>1. CASE "condition" \in bp.checks
  <2>1. Ask(bp, "condition") /\ "condition" \in Check
        BY <1>1 DEF CheckCondition, Reached, Check
  <2>2. Sofar("condition", bp, answers')
        BY <1>1 DEF Sofar
  <2> QED BY <2>1, <2>2, AskStaged
<1>2. CASE "condition" \notin bp.checks
      BY <1>2, HitStaged DEF CheckCondition, Reached
<1> QED BY <1>1, <1>2

LEMMA DecidingUndecided ==
    ASSUME Base, evs # <<>>, Head(evs) \in Breaks \cup Rets
    PROVE  Undecided
<1>1. cmds \in Seq(Cmd)
      BY DEF Base, Typed, PipesTyped
<1> QED BY <1>1, Deciding, CmdCounts DEF Undecided

LEMMA FrontBreakStaged == ASSUME Base, FrontBreak PROVE Staged'
<1>1. Undecided
      BY FrontBreakDecided, DecidingUndecided
<1>2. PICK e : e = Head(evs)
      OBVIOUS
<1>3. CASE e.line \in DOMAIN files[e.file].bps
  <2>1. PICK bp : bp = files[e.file].bps[e.line]
        OBVIOUS
  <2>2. CheckCondition(bp) /\ answers' = {}
        BY <1>2, <1>3, <2>1 DEF FrontBreak
  <2>3. bp \in Object
        BY <1>2, <1>3, <2>1, FrontBreakDecided, FileType
  <2> QED BY <1>1, <2>2, <2>3, ConditionStaged DEF Object
<1>4. CASE e.line \notin DOMAIN files[e.file].bps
  <2>1. Stop(NoBp)
        BY <1>2, <1>4 DEF FrontBreak
  <2>2. DueFor(NoBp, answers')
        BY DEF DueFor, NoBp
  <2> QED BY <1>1, <2>1, <2>2, StopStaged
<1> QED BY <1>3, <1>4

LEMMA AnsweredStaged ==
    ASSUME Undecided, at \in Object, ask.stage \in Check, Sofar(ask.stage, at, answers),
           NEW a \in Answer, a # "none", NEW ok \in BOOLEAN, ok <=> a = "true",
           Answered(ask.stage, ok), answers' = answers \cup {<<ask.stage, a>>}
    PROVE  Staged'
<1>0. PICK bp : bp = at
      OBVIOUS
<1>1. bp.checks \subseteq Check
      BY <1>0 DEF Object
<1>2. CASE ask.stage = "condition"
  <2>1. IF ok THEN CheckHitCondition(bp) ELSE Skip(bp)
        BY <1>0, <1>2 DEF Answered
  <2>2. answers' = {<<"condition", a>>} /\ "condition" \in bp.checks
        BY <1>0, <1>2 DEF Sofar
  <2>3. CASE ok
        BY <1>1, <2>1, <2>2, <2>3, HitStaged
  <2>4. CASE ~ok
    <3>1. ~DueFor(bp, answers')
          BY <2>2, <2>4 DEF DueFor
    <3> QED BY <2>1, <2>4, <3>1, SkipStaged
  <2> QED BY <2>3, <2>4
<1>3. CASE ask.stage = "hitCondition"
  <2>1. IF ok THEN CheckStatLog(bp) ELSE Skip(bp)
        BY <1>0, <1>3 DEF Answered
  <2>2. /\ answers' \subseteq {<<"condition", "true">>, <<"hitCondition", a>>}
        /\ <<"hitCondition", a>> \in answers' /\ "hitCondition" \in bp.checks
        /\ "condition" \in bp.checks => <<"condition", "true">> \in answers'
        BY <1>0, <1>3 DEF Sofar
  <2>3. CASE ok
        BY <1>1, <2>1, <2>2, <2>3, StatLogStaged
  <2>4. CASE ~ok
    <3>1. ~DueFor(bp, answers')
          BY <2>2, <2>4 DEF DueFor
    <3> QED BY <2>1, <2>4, <3>1, SkipStaged
  <2> QED BY <2>3, <2>4
<1>4. CASE ask.stage = "logMessage"
  <2>1. LogMessage(bp) /\ "logMessage" \in bp.checks
        BY <1>0, <1>4 DEF Answered, Sofar
  <2> QED BY <2>1, LogStaged
<1> QED BY <1>2, <1>3, <1>4 DEF Check

LEMMA FrontEvaluateRetStaged == ASSUME Base, Stuck, Staged, FrontEvaluateRet PROVE Staged'
<1>0. PICK e \in Rets : Heard(e) /\ (Taken(e) \/ Passed(e))
      BY FrontEvaluateRetTaken
<1>1. evs # <<>> /\ e = Head(evs) /\ e \in Breaks \cup Rets /\ e.answer \in Answer
      BY <1>0 DEF Heard, Rets
<1>2. Undecided
      BY <1>1, DecidingUndecided
<1>3. ~Valueless
  <2>1. e \in ToSet(evs)
        BY <1>1, SetTail DEF Base, Typed, PipesTyped
  <2>2. Decisions = 1
        BY <1>1, <2>1, OneDecision DEF Deciders
  <2> QED BY <2>2 DEF Stuck
<1>4. CASE Taken(e)
  <2>1. PICK a \in Answer, ok \in BOOLEAN : a = e.answer /\ (ok <=> a = "true")
        BY <1>1
  <2>2. /\ ask # NoAsk /\ ask.stage \in Check /\ at \in Object /\ a # "none"
        /\ Answered(ask.stage, ok) /\ answers' = answers \cup {<<ask.stage, a>>}
    <3>1. (e.answer = "true") = ok
          BY <2>1
    <3> QED BY <1>4, <2>1, <3>1 DEF Taken
  <2>3. Sofar(ask.stage, at, answers)
        BY <1>3, <2>2 DEF Staged
  <2> QED BY <1>2, <2>1, <2>2, <2>3, AnsweredStaged
<1>5. CASE Passed(e)
  <2>1. UNCHANGED <<cmds, ask, at, shown>>
        BY <1>5 DEF Passed
  <2>2. CASE answers' = answers
        BY <2>1, <2>2 DEF Staged, Valueless
  <2>3. CASE ask.stage \in Check /\ answers' = answers \cup {<<ask.stage, "none">>}
    <3>1. Valueless'
          BY <2>1, <2>3 DEF Valueless
    <3> QED BY <1>2, <2>1, <3>1 DEF Staged, Undecided
  <2> QED BY <1>5, <2>2, <2>3 DEF Passed
<1> QED BY <1>0, <1>4, <1>5

\* Commands come and go without a decision.
LEMMA StagedKept ==
    ASSUME Staged, UNCHANGED checks, Go \in ToSet(cmds') => Go \in ToSet(cmds)
    PROVE  Staged'
<1>1. UNCHANGED <<ask, at, shown, answers>>
      BY DEF checks
<1>2. Valueless' <=> Valueless
      BY <1>1 DEF Valueless
<1> QED BY <1>1, <1>2 DEF Staged

LEMMA NextStaged == ASSUME Base, Stuck, Staged, [Next]_vars PROVE Staged'
<1>0. cmds \in Seq(Cmd)
      BY DEF Base, Typed, PipesTyped
<1>1. ASSUME NEW n \in Name, RegisterScript(n) PROVE Staged'
      BY <1>1, StagedKept DEF RegisterScript
<1>2. ASSUME NEW n \in Name, NEW l, BreakFromScript(n, l) PROVE Staged'
      BY <1>2, StagedKept DEF BreakFromScript
<1>3. CASE ToggleBreakpoint \/ LoadDone \/ Continue \/ Evaluate
  <2>1. cmds # <<>> /\ cmds' = Tail(cmds) /\ UNCHANGED checks
        BY <1>3 DEF ToggleBreakpoint, LoadDone, Continue, Evaluate, Next1
  <2> QED BY <1>0, <2>1, SetTail, StagedKept
<1>4. CASE FrontLoadScript
  <2>1. PICK p \in Path : \E f, sent : Loading(p, f, sent)
        BY <1>4, FrontLoadScriptForm
  <2>2. PICK f, sent : Loading(p, f, sent)
        BY <2>1
  <2>3. /\ ToSet(cmds') = ToSet(cmds) \cup ToSet(sent) \cup {Done}
        /\ \A x \in ToSet(sent) : x \in ToggleSet
        BY <2>2 DEF Loading
  <2>4. Go # Done /\ Go \notin ToggleSet
        BY DEF Done, Go, Command, ToggleSet
  <2> QED BY <1>4, <2>3, <2>4, StagedKept DEF FrontLoadScript
<1>5. CASE FrontSetBreakpoint
      BY <1>5, StagedKept DEF FrontSetBreakpoint
<1>6. CASE FrontBreak
      BY <1>6, FrontBreakStaged
<1>7. CASE FrontEvaluateRet
      BY <1>7, FrontEvaluateRetStaged
<1>8. CASE UserContinue
      BY <1>8 DEF UserContinue, Staged
<1>9. ASSUME NEW p \in Path, NEW req \in Requests, SetBreakpoints(p, req) PROVE Staged'
  <2>1. PICK r : r = WithIds(req)
        OBVIOUS
  <2>2. r \in Seq(Entry) /\ UNCHANGED checks
        BY <1>9, <2>1, WithIdsType DEF SetBreakpoints, Base, Typed, TablesTyped
  <2>3. CASE KeepForLoad(p, r)
        BY <2>2, <2>3, StagedKept DEF KeepForLoad
  <2>4. CASE SetInFile(p, r)
    <3>1. PICK f \in 1 .. Len(files) : \E sent \in Toggles(f, DOMAIN files[f].bps, r) :
             Set(p, r, f, sent)
          BY <2>2, <2>4, SetInFileTaken
    <3>2. PICK sent \in Toggles(f, DOMAIN files[f].bps, r) : Set(p, r, f, sent)
          BY <3>1
    <3>3. Gos(cmds') = Gos(cmds) /\ cmds' \in Seq(Cmd)
          BY <2>2, <3>2, SetFiles
    <3>4. Go \in ToSet(cmds') => Go \in ToSet(cmds)
          BY <1>0, <3>3, CmdCounts
    <3> QED BY <2>2, <3>4, StagedKept
  <2> QED BY <1>9, <2>1, <2>3, <2>4, SetBreakpointsTaken
<1>10. CASE UNCHANGED vars
      BY <1>10, StagedKept DEF vars, backend
<1> QED BY <1>1, <1>2, <1>3, <1>4, <1>5, <1>6, <1>7, <1>8, <1>9, <1>10
        DEF Next, Script, Commands, Adapter, User

\* breakpoint.lua:274: a stop is shown only if the conditions of the breakpoint held and
\* it has no log message, and is passed over only if not.
THEOREM ConditionsDecide == Spec => []ChecksDecide
<1>1. Init => Staged
      BY SetEmpty DEF Init, Staged
<1>2. Base /\ Stuck /\ Staged /\ [Next]_vars => Staged'
      BY NextStaged
<1>3. Base /\ Staged => ChecksDecide
  <2> SUFFICES ASSUME Base, Staged PROVE ChecksDecide
      OBVIOUS
  <2>1. Due(at) <=> DueFor(at, answers)
        BY DEF Due, DueFor
  <2>2. ASSUME NEW k \in DOMAIN cmds, cmds[k].type = "Continue" PROVE Go \in ToSet(cmds)
    <3>1. cmds[k] \in Cmd
          BY LenProperties DEF Base, Typed, PipesTyped
    <3>2. cmds[k] = Go
          BY <2>2, <3>1, CmdKinds
    <3> QED BY <3>2 DEF ToSet
  <2> QED BY <2>1, <2>2 DEF Staged, ChecksDecide
<1> QED BY <1>1, <1>2, <1>3, BaseAlways, StuckAlways, PTL DEF Spec

-----------------------------------------------------------------------------
(* The tables have what the user wants, if a path is loaded only once.     *)

OneScriptPerPath == \A m, n \in Name : Chunk[m].path = Chunk[n].path
                                      => Chunk[m].title = Chunk[n].title /\ Chunk[m].source = Chunk[n].source

Named(s, n) == s.title = Chunk[n].title /\ s.source = Chunk[n].source

Kept(t, fs, q, w) == IF t = 0 THEN q = w ELSE fs[t].bps = Objects(w)

\* The file of a path is the one that was loaded for it; a load under way is for the
\* last script and for a path that has no file.
FilesNamed ==
    /\ \A p \in Path : latest[p] # 0 => files[latest[p]].path = p
    /\ \A f \in 1 .. Len(files) : \E n \in Name : files[f].path = Chunk[n].path /\ Named(scripts[f], n)
    /\ \A e \in ToSet(evs) : e \in Loads => /\ latest[Chunk[e.name].path] = 0
                                             /\ Named(scripts[Len(scripts)], e.name)
WishInv == FilesNamed /\ \A p \in Path : Kept(latest[p], files, pending[p], wish[p])

\* Nothing changes but the events, and no load is among the new ones.
LEMMA WishInvKept ==
    ASSUME Base, WishInv, UNCHANGED <<files, latest, pending, wish>>,
           Len(scripts') = Len(scripts),
           \A i \in 1 .. Len(scripts) : /\ scripts'[i].title = scripts[i].title
                                        /\ scripts'[i].source = scripts[i].source,
           \A e \in ToSet(evs') : e \in Loads => e \in ToSet(evs)
    PROVE  WishInv'
<1>1. /\ \A p \in Path : latest[p] # 0 => files[latest[p]].path = p
      /\ \A p \in Path : Kept(latest[p], files, pending[p], wish[p])
      BY DEF WishInv, FilesNamed
<1>2. Len(files) \in Nat /\ Len(scripts) \in Nat /\ Len(files) + LoadsIn(evs) = Len(scripts)
      /\ LoadsIn(evs) \in Nat
      BY BaseCounts DEF Base, Numbers, InFiles
<1>3. ASSUME NEW f \in 1 .. Len(files')
      PROVE  \E n \in Name : files'[f].path = Chunk[n].path /\ Named(scripts'[f], n)
  <2>1. PICK n \in Name : files[f].path = Chunk[n].path /\ Named(scripts[f], n)
        BY <1>3 DEF WishInv, FilesNamed
  <2>2. f \in 1 .. Len(scripts)
        BY <1>2, <1>3
  <2>3. Named(scripts'[f], n)
        BY <2>1, <2>2 DEF Named
  <2> QED BY <2>1, <2>3
<1>4. ASSUME NEW e \in ToSet(evs'), e \in Loads
      PROVE  latest'[Chunk[e.name].path] = 0 /\ Named(scripts'[Len(scripts')], e.name)
  <2>1. e \in ToSet(evs)
        BY <1>4
  <2>2. LoadsIn(evs) # 0
        BY <1>4, <2>1, EvCounts DEF Base, Typed, PipesTyped
  <2>3. Len(scripts) \in 1 .. Len(scripts)
        BY <1>2, <2>2
  <2>4. latest[Chunk[e.name].path] = 0 /\ Named(scripts[Len(scripts)], e.name)
        BY <1>4, <2>1 DEF WishInv, FilesNamed
  <2> QED BY <2>3, <2>4 DEF Named
<1> QED BY <1>1, <1>3, <1>4 DEF WishInv, FilesNamed

LEMMA RegisterWish ==
    ASSUME OneScriptPerPath, Base, WishInv, NEW n \in Name, RegisterScript(n)
    PROVE  WishInv'
<1>1. CASE SameScript(n) # {}
      BY <1>1, RegisterKnown, WishInvKept DEF tables, client
<1>2. CASE SameScript(n) = {}
  <2>1. PICK s, e : /\ s = [title |-> Chunk[n].title, source |-> Chunk[n].source, bps |-> {}]
                    /\ e = [type |-> "LoadScript", name |-> n]
        OBVIOUS
  <2>2. /\ vm = "run" /\ scripts' = Append(scripts, s) /\ s \in Script0
        /\ evs' = Append(evs, e) /\ e \in Ev
        /\ UNCHANGED <<files, latest, pending, wish>>
        BY <1>2, <2>1, RegisterNew DEF tables, client
  <2>3. /\ Len(scripts') = Len(scripts) + 1 /\ scripts'[Len(scripts) + 1] = s
        /\ \A i \in 1 .. Len(scripts) : scripts'[i] = scripts[i]
        BY <2>2, AppendProperties DEF Base, Typed, BackendTyped
  <2>4. Len(scripts) \in Nat /\ Len(files) = Len(scripts) /\ LoadsIn(evs) = 0
        BY <2>2, Idle, BaseCounts DEF Base, Numbers
  <2>5. ToSet(evs') = ToSet(evs) \cup {e} /\ \A x \in ToSet(evs) : x \notin Loads
        BY <2>2, <2>4, EvCounts, SetAppend DEF Base, Typed, PipesTyped
  <2>6. latest[Chunk[n].path] = 0
    <3> SUFFICES ASSUME latest[Chunk[n].path] # 0 PROVE FALSE
        OBVIOUS
    <3>1. PICK p \in Path : p = Chunk[n].path
          BY ChunkType
    <3>2. latest[p] \in 1 .. Len(files) /\ files[latest[p]].path = p
      <4>1. latest[p] \in 0 .. Len(files)
            BY DEF Base, Typed, TablesTyped
      <4> QED BY <2>4, <3>1, <4>1 DEF WishInv, FilesNamed
    <3>3. PICK f \in 1 .. Len(files) : files[f].path = p
          BY <3>2
    <3>4. PICK m \in Name : files[f].path = Chunk[m].path /\ Named(scripts[f], m)
          BY DEF WishInv, FilesNamed
    <3>5. Named(scripts[f], n)
          BY <3>1, <3>3, <3>4 DEF OneScriptPerPath, Named
    <3>6. f \in DOMAIN scripts
          BY <2>4, LenProperties DEF Base, Typed, BackendTyped
    <3> QED BY <1>2, <3>5, <3>6 DEF SameScript, Named
  <2>7. Named(s, n) /\ e.name = n
        BY <2>1 DEF Named
  <2>8. ASSUME NEW f \in 1 .. Len(files')
        PROVE  \E m \in Name : files'[f].path = Chunk[m].path /\ Named(scripts'[f], m)
    <3>1. f \in 1 .. Len(files) /\ scripts'[f] = scripts[f]
          BY <2>2, <2>3, <2>4, <2>8
    <3> QED BY <2>2, <3>1 DEF WishInv, FilesNamed
  <2>9. ASSUME NEW x \in ToSet(evs'), x \in Loads
        PROVE  latest'[Chunk[x.name].path] = 0 /\ Named(scripts'[Len(scripts')], x.name)
    <3>1. x = e
          BY <2>5, <2>9
    <3> QED BY <2>2, <2>3, <2>6, <2>7, <3>1
  <2> QED BY <2>2, <2>8, <2>9 DEF WishInv, FilesNamed
<1> QED BY <1>1, <1>2

LEMMA LoadWish == ASSUME Base, WishInv, FrontLoadScript PROVE WishInv'
<1>1. PICK p \in Path : \E f, sent : Loading(p, f, sent)
      BY FrontLoadScriptForm
<1>2. PICK f, sent : Loading(p, f, sent)
      BY <1>1
<1>3. PICK n \in Name : n = Head(evs).name
      BY <1>2 DEF Loading, Loads
<1>4. /\ evs # <<>> /\ evs' = Tail(evs) /\ Head(evs) \in Loads /\ p = Chunk[n].path
      /\ f = Len(files) + 1 /\ f = Len(scripts) /\ Len(files') = f
      /\ files'[f].path = p /\ files'[f].bps = Objects(pending[p])
      /\ \A g \in 1 .. Len(files) : files'[g] = files[g]
      /\ latest' = [latest EXCEPT ![p] = f]
      /\ pending' = [pending EXCEPT ![p] = <<>>]
      /\ UNCHANGED <<scripts, wish>>
      BY <1>2, <1>3 DEF Loading
<1>5. Head(evs) \in ToSet(evs)
      BY <1>4, SetTail DEF Base, Typed, PipesTyped
<1>6. latest[p] = 0 /\ Named(scripts[f], n)
      BY <1>3, <1>4, <1>5 DEF WishInv, FilesNamed
<1>7. Len(files) \in Nat /\ latest \in [Path -> 0 .. Len(files)] /\ pending \in [Path -> Seq(Entry)]
      BY LenProperties DEF Base, Typed, TablesTyped
<1>8. \A x \in ToSet(evs') : x \notin Loads
  <2>1. evs' \in Seq(Ev) /\ LoadsIn(evs') = 0
        BY <1>4, LoadedCounts
  <2> QED BY <2>1, EvCounts
<1>9. ASSUME NEW q \in Path
      PROVE  /\ latest'[q] # 0 => files'[latest'[q]].path = q
             /\ Kept(latest'[q], files', pending'[q], wish'[q])
  <2>1. CASE q = p
    <3>1. latest'[q] = f /\ f # 0
          BY <1>4, <1>7, <2>1
    <3>2. pending[p] = wish[p]
          BY <1>6 DEF WishInv, Kept
    <3> QED BY <1>4, <2>1, <3>1, <3>2 DEF Kept
  <2>2. CASE q # p
    <3>1. latest'[q] = latest[q] /\ pending'[q] = pending[q]
          BY <1>4, <1>7, <2>2
    <3>2. /\ latest[q] # 0 => files[latest[q]].path = q
          /\ Kept(latest[q], files, pending[q], wish[q])
          BY DEF WishInv, FilesNamed
    <3>3. CASE latest[q] = 0
          BY <1>4, <3>1, <3>2, <3>3 DEF Kept
    <3>4. CASE latest[q] # 0
      <4>1. latest[q] \in 1 .. Len(files)
            BY <1>7, <3>4
      <4>2. files'[latest[q]] = files[latest[q]]
            BY <1>4, <4>1
      <4> QED BY <1>4, <3>1, <3>2, <3>4, <4>2 DEF Kept
    <3> QED BY <3>3, <3>4
  <2> QED BY <2>1, <2>2
<1>10. ASSUME NEW g \in 1 .. Len(files')
       PROVE  \E m \in Name : files'[g].path = Chunk[m].path /\ Named(scripts'[g], m)
  <2>1. CASE g = f
        BY <1>4, <1>6, <2>1
  <2>2. CASE g # f
    <3>1. g \in 1 .. Len(files) /\ files'[g] = files[g]
          BY <1>4, <1>7, <1>10, <2>2
    <3> QED BY <1>4, <3>1 DEF WishInv, FilesNamed
  <2> QED BY <2>1, <2>2
<1> QED BY <1>8, <1>9, <1>10 DEF WishInv, FilesNamed

LEMMA RequestWish ==
    ASSUME Base, WishInv, NEW p \in Path, NEW req \in Requests, SetBreakpoints(p, req)
    PROVE  WishInv'
<1>0. PICK r : r = WithIds(req)
      OBVIOUS
<1>1. wish' = [wish EXCEPT ![p] = r] /\ UNCHANGED <<scripts, evs, latest>>
      BY <1>0, SetBreakpointsTaken DEF Requested
<1>2. /\ r \in Seq(Entry)
      /\ wish \in [Path -> Seq(Entry)] /\ pending \in [Path -> Seq(Entry)]
      /\ Len(files) \in Nat /\ latest \in [Path -> 0 .. Len(files)]
      BY <1>0, WithIdsType, LenProperties DEF Base, Typed, TablesTyped, ClientTyped
<1>3. CASE KeepForLoad(p, r)
  <2>1. latest[p] = 0 /\ pending' = [pending EXCEPT ![p] = r] /\ files' = files
        BY <1>3 DEF KeepForLoad
  <2>2. FilesNamed'
        BY <1>1, <2>1 DEF WishInv, FilesNamed
  <2>3. ASSUME NEW q \in Path PROVE Kept(latest'[q], files', pending'[q], wish'[q])
    <3>1. CASE q = p
          BY <1>1, <1>2, <2>1, <3>1 DEF Kept
    <3>2. CASE q # p
      <4>1. pending'[q] = pending[q] /\ wish'[q] = wish[q]
            BY <1>1, <1>2, <2>1, <3>2
      <4> QED BY <1>1, <2>1, <4>1 DEF WishInv
    <3> QED BY <3>1, <3>2
  <2> QED BY <2>2, <2>3 DEF WishInv
<1>4. CASE SetInFile(p, r)
  <2>1. PICK f \in 1 .. Len(files) : \E sent \in Toggles(f, DOMAIN files[f].bps, r) :
           Set(p, r, f, sent)
        BY <1>2, <1>4, SetInFileTaken
  <2>2. PICK sent \in Toggles(f, DOMAIN files[f].bps, r) : Set(p, r, f, sent)
        BY <2>1
  <2>3. f = latest[p] /\ pending' = pending
        BY <2>2 DEF Set
  <2>4. /\ Len(files') = Len(files) /\ files'[f].bps = Objects(r) /\ files'[f].path = files[f].path
        /\ \A g \in 1 .. Len(files) : g # f => files'[g] = files[g]
        BY <1>2, <2>2, SetFiles
  <2>5. \A g \in 1 .. Len(files) : files'[g].path = files[g].path
        BY <2>4
  <2>6. FilesNamed'
    <3>1. ASSUME NEW q \in Path, latest[q] # 0 PROVE files'[latest[q]].path = q
      <4>1. latest[q] \in 1 .. Len(files)
            BY <1>2, <3>1
      <4> QED BY <2>5, <3>1, <4>1 DEF WishInv, FilesNamed
    <3>2. \A g \in 1 .. Len(files') : \E n \in Name :
             files'[g].path = Chunk[n].path /\ Named(scripts[g], n)
          BY <2>4, <2>5 DEF WishInv, FilesNamed
    <3> QED BY <1>1, <3>1, <3>2 DEF WishInv, FilesNamed
  <2>7. ASSUME NEW q \in Path PROVE Kept(latest'[q], files', pending'[q], wish'[q])
    <3>1. CASE q = p
          BY <1>1, <1>2, <2>3, <2>4, <3>1 DEF Kept
    <3>2. CASE q # p
      <4>1. wish'[q] = wish[q] /\ pending'[q] = pending[q]
            BY <1>1, <1>2, <2>3, <3>2
      <4>2. Kept(latest[q], files, pending[q], wish[q])
            BY DEF WishInv
      <4>3. CASE latest[q] = 0
            BY <1>1, <4>1, <4>2, <4>3 DEF Kept
      <4>4. CASE latest[q] # 0
        <5>1. latest[q] \in 1 .. Len(files) /\ files[latest[q]].path = q /\ files[latest[p]].path = p
              BY <1>2, <2>3, <4>4 DEF WishInv, FilesNamed
        <5>2. files'[latest[q]] = files[latest[q]]
              BY <2>3, <2>4, <3>2, <5>1
        <5> QED BY <1>1, <4>1, <4>2, <4>4, <5>2 DEF Kept
      <4> QED BY <4>3, <4>4
    <3> QED BY <3>1, <3>2
  <2> QED BY <2>6, <2>7 DEF WishInv
<1> QED BY <1>0, <1>3, <1>4, SetBreakpointsTaken

LEMMA NextWish == ASSUME OneScriptPerPath, Base, WishInv, [Next]_vars PROVE WishInv'
<1>0. cmds \in Seq(Cmd) /\ evs \in Seq(Ev)
      BY DEF Base, Typed, PipesTyped
<1>1. ASSUME NEW n \in Name, RegisterScript(n) PROVE WishInv'
      BY <1>1, RegisterWish
<1>2. ASSUME NEW n \in Name, NEW l \in {r.line : r \in UNION {ToSet(q) : q \in Requests}},
             BreakFromScript(n, l)
      PROVE  WishInv'
  <2>1. PICK e : e = [type |-> "Break", file |-> index[n], line |-> l]
        OBVIOUS
  <2>2. evs' = Append(evs, e) /\ UNCHANGED <<files, latest, pending, wish, scripts>>
        BY <1>2, <2>1 DEF BreakFromScript, tables, client
  <2>3. e \in Breaks
    <3>1. index[n] \in 0 .. Len(scripts) /\ index[n] # 0 /\ Len(scripts) \in Nat
          BY <1>2, BaseCounts DEF BreakFromScript, Base, Typed, BackendTyped, Numbers
    <3> QED BY <2>1, <3>1, LineType DEF Breaks
  <2>4. e \in Ev /\ e \notin Loads
        BY <2>3 DEF Ev, Breaks, Loads
  <2>5. ToSet(evs') = ToSet(evs) \cup {e}
        BY <1>0, <2>2, <2>4, SetAppend
  <2> QED BY <2>2, <2>4, <2>5, WishInvKept
<1>3. CASE ToggleBreakpoint
  <2>1. PICK c \in ToggleSet : \E e \in Sets : Toggled(c, e)
        BY <1>3, ToggleTaken
  <2>2. PICK e \in Sets : Toggled(c, e)
        BY <2>1
  <2>3. /\ evs' = Append(evs, e) /\ UNCHANGED <<files, latest, pending, wish>>
        /\ Len(scripts') = Len(scripts)
        BY <2>2 DEF Toggled
  <2>4. \A i \in 1 .. Len(scripts) : /\ scripts'[i].title = scripts[i].title
                                     /\ scripts'[i].source = scripts[i].source
        BY <2>2 DEF Toggled
  <2>5. e \in Ev /\ e \notin Loads
        BY DEF Ev, Sets, Loads
  <2>6. ToSet(evs') = ToSet(evs) \cup {e}
        BY <1>0, <2>3, <2>5, SetAppend
  <2> QED BY <2>3, <2>4, <2>5, <2>6, WishInvKept
<1>4. CASE LoadDone \/ Continue
      BY <1>4, WishInvKept DEF LoadDone, Continue, tables, client
<1>5. CASE Evaluate
  <2>1. PICK e : evs' = Append(evs, e) /\ e.type = "EvaluateRet" /\ e \in Ev
    <3>1. PICK c : c = Head(cmds)
          OBVIOUS
    <3>2. c.type = "Evaluate" /\ c \in Cmd
          BY <1>0, <1>5, <3>1, SetTail DEF Evaluate, Next1
    <3>3. c \in Evals
          BY <3>2, CmdKinds
    <3>4. PICK a \in Answer :
             evs' = Append(evs, [type |-> "EvaluateRet", seq |-> c.seq, answer |-> a])
          BY <1>5, <3>1 DEF Evaluate
    <3>5. [type |-> "EvaluateRet", seq |-> c.seq, answer |-> a] \in Ev
          BY <3>3 DEF Ev, Rets, Evals
    <3> QED BY <3>4, <3>5
  <2>2. UNCHANGED <<files, latest, pending, wish, scripts>>
        BY <1>5 DEF Evaluate, backend, tables, client
  <2>3. e \notin Loads /\ ToSet(evs') = ToSet(evs) \cup {e}
        BY <1>0, <2>1, SetAppend, EvKinds
  <2> QED BY <2>2, <2>3, WishInvKept
<1>6. CASE FrontLoadScript
      BY <1>6, LoadWish
<1>7. CASE FrontSetBreakpoint
  <2>1. /\ evs # <<>> /\ evs' = Tail(evs) /\ UNCHANGED <<files, latest, pending, wish, scripts>>
        BY <1>7, FrontSetBreakpointTaken
  <2>2. ToSet(evs') \subseteq ToSet(evs)
        BY <1>0, <2>1, SetTail
  <2> QED BY <2>1, <2>2, WishInvKept
<1>8. CASE FrontBreak \/ FrontEvaluateRet
  <2>1. /\ evs # <<>> /\ evs' = Tail(evs) /\ UNCHANGED <<files, latest, pending, wish, scripts>>
        BY <1>8 DEF FrontBreak, FrontEvaluateRet, Event, backend, tables, client
  <2>2. ToSet(evs') \subseteq ToSet(evs)
        BY <1>0, <2>1, SetTail
  <2> QED BY <2>1, <2>2, WishInvKept
<1>9. CASE UserContinue
      BY <1>9, WishInvKept DEF UserContinue, backend, tables, client
<1>10. ASSUME NEW p \in Path, NEW req \in Requests, SetBreakpoints(p, req) PROVE WishInv'
      BY <1>10, RequestWish
<1>11. CASE UNCHANGED vars
      BY <1>11, WishInvKept DEF vars, backend, tables, client
<1> QED BY <1>1, <1>2, <1>3, <1>4, <1>5, <1>6, <1>7, <1>8, <1>9, <1>10, <1>11
        DEF Next, Script, Commands, Adapter, User

LEMMA WishAlways == OneScriptPerPath => (Spec => []WishInv)
<1> SUFFICES ASSUME OneScriptPerPath PROVE Spec => []WishInv
    OBVIOUS
<1>1. Init => WishInv
  <2> SUFFICES ASSUME Init PROVE WishInv
      OBVIOUS
  <2>1. Len(files) = 0 /\ ToSet(evs) = {} /\ \A p \in Path : latest[p] = 0
        BY SetEmpty, EmptySeq DEF Init
  <2>2. \A p \in Path : pending[p] = wish[p]
        BY DEF Init
  <2> QED BY <2>1, <2>2 DEF WishInv, FilesNamed, Kept
<1>2. Base /\ WishInv /\ [Next]_vars => WishInv'
      BY NextWish
<1> QED BY <1>1, <1>2, BaseAlways, PTL DEF Spec

\* breakpoint.lua:98: where a path is loaded as one script only, the adapter's table has
\* the user's last request for a path, with the ids of the response.
THEOREM RequestsKept == OneScriptPerPath => (Spec => []WishKept)
<1>1. WishInv => WishKept
      BY DEF WishInv, Kept, WishKept
<1> QED BY <1>1, WishAlways, PTL

-----------------------------------------------------------------------------
(* Steps that leave the breakpoints alone.                                 *)

\* From q to r, no toggle is sent or executed.
Beside(q, r) ==
    \/ r = q
    \/ \E x \in Cmd \ ToggleSet : r = Append(q, x)
    \/ q # <<>> /\ r = Tail(q) /\ Head(q) \notin ToggleSet

LEMMA BesideCount ==
    ASSUME NEW q \in Seq(Cmd), NEW r, Beside(q, r), NEW c \in ToggleSet
    PROVE  Count(r, {c}) = Count(q, {c})
<1>1. Count(q, {c}) \in Nat
      BY CountType
<1>2. ASSUME NEW x \in Cmd \ ToggleSet, r = Append(q, x) PROVE Count(r, {c}) = Count(q, {c})
  <2>1. Count(r, {c}) = Count(q, {c}) + Bit(x \in {c})
        BY <1>2, CountAppend
  <2> QED BY <1>1, <2>1 DEF Bit
<1>3. CASE q # <<>> /\ r = Tail(q) /\ Head(q) \notin ToggleSet
  <2>1. Count(q, {c}) = Count(r, {c}) + Bit(Head(q) \in {c})
        BY <1>3, CountTail
  <2>2. r \in Seq(Cmd)
        BY <1>3, SetTail
  <2>3. Count(r, {c}) \in Nat
        BY <2>2, CountType
  <2> QED BY <1>3, <2>1, <2>3 DEF Bit
<1> QED BY <1>2, <1>3 DEF Beside

LEMMA DecidedBeside ==
    ASSUME Base, NEW bp, Decided(bp)
    PROVE  Beside(cmds, cmds')
<1>1. CASE Stop(bp)
      BY <1>1 DEF Stop, Beside
<1>2. CASE Skip(bp)
  <2>1. cmds' = Append(cmds, Go) /\ Go \in Cmd /\ Go \notin ToggleSet
        BY <1>2 DEF Skip, Go, Cmd, Command, ToggleSet
  <2> QED BY <2>1 DEF Beside
<1>3. ASSUME NEW s \in Check, Ask(bp, s) PROVE Beside(cmds, cmds')
  <2>1. PICK c : cmds' = Append(cmds, c) /\ c = [type |-> "Evaluate", seq |-> (evals + 1) % Period]
        BY <1>3 DEF Ask
  <2>2. (evals + 1) % Period \in Nat
        BY BreakpointsAssumption DEF Base, Typed, ChecksTyped
  <2>3. c \in Cmd /\ c \notin ToggleSet
        BY <2>1, <2>2 DEF Cmd, Evals, ToggleSet
  <2> QED BY <2>1, <2>3 DEF Beside
<1> QED BY <1>1, <1>2, <1>3 DEF Decided

LEMMA EvaluateRetBeside == ASSUME Base, FrontEvaluateRet PROVE Beside(cmds, cmds')
<1>0. PICK e \in Rets : Heard(e) /\ (Taken(e) \/ Passed(e))
      BY FrontEvaluateRetTaken
<1>1. CASE Taken(e)
  <2>1. ask.stage \in Check /\ (e.answer = "true") \in BOOLEAN /\ Answered(ask.stage, e.answer = "true")
        BY <1>1 DEF Taken
  <2>2. Decided(at)
        BY <2>1, AnsweredDecided
  <2> QED BY <2>2, DecidedBeside
<1>2. CASE Passed(e)
      BY <1>2 DEF Passed, Beside
<1> QED BY <1>0, <1>1, <1>2

Quiet == Script \/ LoadDone \/ Continue \/ Evaluate \/ FrontBreak \/ FrontEvaluateRet \/ UserContinue
         \/ UNCHANGED vars

\* The tables and the breakpoints of the scripts stay, and what is under way for them.
Same ==
    /\ UNCHANGED <<files, latest, pending, lastId, wish, verified, fresh>>
    /\ \A i \in 1 .. Len(scripts) : i \in 1 .. Len(scripts') /\ scripts'[i] = scripts[i]
    /\ \A i \in 1 .. Len(scripts') : i \in 1 .. Len(scripts) \/ scripts'[i].bps = {}
    /\ Beside(cmds, cmds')
    /\ \A e \in Sets : e \in ToSet(evs') <=> e \in ToSet(evs)

LEMMA QuietSame == ASSUME Base, Quiet PROVE Same
<1>0. cmds \in Seq(Cmd) /\ evs \in Seq(Ev)
      BY DEF Base, Typed, PipesTyped
<1>1. ASSUME NEW n \in Name, RegisterScript(n) PROVE Same
  <2>1. CASE SameScript(n) # {}
        BY <1>1, <2>1, RegisterKnown DEF tables, client, Same, Beside
  <2>2. CASE SameScript(n) = {}
    <3>1. PICK s, e : /\ s = [title |-> Chunk[n].title, source |-> Chunk[n].source, bps |-> {}]
                      /\ e = [type |-> "LoadScript", name |-> n]
          OBVIOUS
    <3>2. /\ scripts' = Append(scripts, s) /\ s \in Script0 /\ evs' = Append(evs, e) /\ e \in Ev
          /\ UNCHANGED <<cmds, files, latest, pending, lastId, wish, verified, fresh>>
          BY <2>2, <3>1, <1>1, RegisterNew DEF tables, client
    <3>3. /\ Len(scripts') = Len(scripts) + 1 /\ scripts'[Len(scripts) + 1] = s /\ Len(scripts) \in Nat
          /\ \A i \in 1 .. Len(scripts) : scripts'[i] = scripts[i]
          BY <3>2, AppendProperties, LenProperties DEF Base, Typed, BackendTyped
    <3>4. ToSet(evs') = ToSet(evs) \cup {e} /\ e \notin Sets
      <4>1. e \notin Sets
            BY <3>1 DEF Sets
      <4> QED BY <1>0, <3>2, <4>1, SetAppend
    <3>5. \A i \in 1 .. Len(scripts') : i \in 1 .. Len(scripts) \/ scripts'[i].bps = {}
          BY <3>1, <3>3
    <3>6. \A i \in 1 .. Len(scripts) : i \in 1 .. Len(scripts')
          BY <3>3
    <3> QED BY <3>2, <3>3, <3>4, <3>5, <3>6 DEF Same, Beside
  <2> QED BY <2>1, <2>2
<1>2. ASSUME NEW n \in Name, NEW l \in {r.line : r \in UNION {ToSet(q) : q \in Requests}},
             BreakFromScript(n, l)
      PROVE  Same
  <2>1. PICK e : e = [type |-> "Break", file |-> index[n], line |-> l]
        OBVIOUS
  <2>2. /\ evs' = Append(evs, e)
        /\ UNCHANGED <<scripts, cmds, files, latest, pending, lastId, wish, verified, fresh>>
        BY <1>2, <2>1 DEF BreakFromScript, tables, client
  <2>3. e \in Ev /\ e \notin Sets
    <3>1. index[n] \in 0 .. Len(scripts) /\ index[n] # 0 /\ Len(scripts) \in Nat
          BY <1>2, BaseCounts DEF BreakFromScript, Base, Typed, BackendTyped, Numbers
    <3>2. e \in Breaks
          BY <2>1, <3>1, LineType DEF Breaks
    <3> QED BY <3>2 DEF Ev, Breaks, Sets
  <2>4. ToSet(evs') = ToSet(evs) \cup {e}
        BY <1>0, <2>2, <2>3, SetAppend
  <2> QED BY <2>2, <2>3, <2>4 DEF Same, Beside
<1>3. CASE LoadDone \/ Continue
  <2>1. /\ cmds # <<>> /\ Head(cmds).type \in {"LoadDone", "Continue"} /\ cmds' = Tail(cmds)
        /\ UNCHANGED <<scripts, evs, files, latest, pending, lastId, wish, verified, fresh>>
        BY <1>3 DEF LoadDone, Continue, Next1, tables, client
  <2>2. Head(cmds) \notin ToggleSet
        BY <2>1 DEF ToggleSet
  <2> QED BY <2>1, <2>2 DEF Same, Beside
<1>4. CASE Evaluate
  <2>1. PICK c : c = Head(cmds)
        OBVIOUS
  <2>2. /\ cmds # <<>> /\ c.type = "Evaluate" /\ c \in Cmd /\ cmds' = Tail(cmds)
        /\ UNCHANGED <<scripts, files, latest, pending, lastId, wish, verified, fresh>>
        BY <1>0, <1>4, <2>1, SetTail DEF Evaluate, Next1, backend, tables, client
  <2>3. c \in Evals /\ c \notin ToggleSet
        BY <2>2, CmdKinds DEF ToggleSet
  <2>4. PICK a \in Answer :
           evs' = Append(evs, [type |-> "EvaluateRet", seq |-> c.seq, answer |-> a])
        BY <1>4, <2>1 DEF Evaluate
  <2>5. PICK e : evs' = Append(evs, e) /\ e = [type |-> "EvaluateRet", seq |-> c.seq, answer |-> a]
        BY <2>4
  <2>6. e \in Ev /\ e \notin Sets
        BY <2>3, <2>5 DEF Ev, Rets, Evals, Sets
  <2>7. ToSet(evs') = ToSet(evs) \cup {e}
        BY <1>0, <2>5, <2>6, SetAppend
  <2> QED BY <2>1, <2>2, <2>3, <2>6, <2>7 DEF Same, Beside
<1>5. CASE FrontBreak \/ FrontEvaluateRet
  <2>1. /\ evs # <<>> /\ Head(evs).type \in {"Break", "EvaluateRet"} /\ evs' = Tail(evs)
        /\ UNCHANGED <<scripts, files, latest, pending, lastId, wish, verified, fresh>>
        BY <1>5 DEF FrontBreak, FrontEvaluateRet, Event, backend, tables, client
  <2>2. ToSet(evs) = {Head(evs)} \cup ToSet(evs')
        BY <1>0, <2>1, SetTail
  <2>3. Head(evs) \notin Sets
        BY <2>1 DEF Sets
  <2>4. Beside(cmds, cmds')
        BY <1>5, FrontBreakDecided, DecidedBeside, EvaluateRetBeside
  <2> QED BY <2>1, <2>2, <2>3, <2>4 DEF Same
<1>6. CASE UserContinue
  <2>1. /\ cmds' = Append(cmds, Go)
        /\ UNCHANGED <<scripts, evs, files, latest, pending, lastId, wish, verified, fresh>>
        BY <1>6 DEF UserContinue, Go, backend, tables, client
  <2>2. Go \in Cmd /\ Go \notin ToggleSet
        BY DEF Go, Cmd, Command, ToggleSet
  <2>3. Beside(cmds, cmds')
        BY <2>1, <2>2 DEF Beside
  <2> QED BY <2>1, <2>3 DEF Same
<1>7. CASE UNCHANGED vars
      BY <1>7 DEF vars, backend, tables, client, Same, Beside
<1> QED BY <1>1, <1>2, <1>3, <1>4, <1>5, <1>6, <1>7 DEF Quiet, Script

-----------------------------------------------------------------------------
(* The two tables agree, if no request has a line twice.                   *)

OnceEach == \A req \in Requests : \A j, k \in DOMAIN req :
               ~req[j].bad /\ ~req[k].bad /\ req[j].line = req[k].line => j = k

LEMMA WithIdsDistinct ==
    ASSUME OnceEach, NEW req \in Requests, lastId \in Nat
    PROVE  Distinct(WithIds(req))
BY WithIdsType DEF OnceEach, Distinct, Good

IsOdd(n) == n % 2 = 1

\* The adapter has line b + 1 of file f if the script has b, but for the toggles.
Agree(f, b, fs, ss, c) == b + 1 \in DOMAIN fs[f].bps
                          <=> ~(b \in ss[f].bps <=> IsOdd(Count(c, {Toggle(f, b)})))
AgreeInv ==
    /\ \A f \in 1 .. Len(files) : \A b \in Nat : Agree(f, b, files, scripts, cmds)
    /\ \A i \in 1 .. Len(scripts) : i \in 1 .. Len(files) \/ scripts[i].bps = {}
    /\ \A p \in Path : Distinct(pending[p])

LEMMA OddNext == \A n \in Nat : IsOdd(n + 1) <=> ~IsOdd(n)
BY DEF IsOdd

LEMMA FileScript == ASSUME Base, NEW f \in 1 .. Len(files) PROVE f \in 1 .. Len(scripts)
<1>1. Len(files) \in Nat /\ Len(scripts) \in Nat /\ Len(files) <= Len(scripts)
      BY BaseCounts DEF Base, InFiles, Numbers
<1> QED BY <1>1

LEMMA ToggleOf ==
    ASSUME NEW f \in Nat \ {0}, NEW b \in Nat
    PROVE  /\ Toggle(f, b) \in ToggleSet /\ Toggle(f, b).file = f /\ Toggle(f, b).line = b
           /\ \A c \in ToggleSet : c = Toggle(f, b) <=> c.file = f /\ c.line = b
BY DEF Toggle, ToggleSet

LEMMA QuietAgree == ASSUME Base, Base', AgreeInv, Quiet PROVE AgreeInv'
<1>1. Same
      BY QuietSame
<1>2. /\ files' = files /\ pending' = pending /\ Len(files) \in Nat
      /\ \A i \in 1 .. Len(scripts) : scripts'[i] = scripts[i]
      /\ \A i \in 1 .. Len(scripts') : i \in 1 .. Len(scripts) \/ scripts'[i].bps = {}
      BY <1>1, BaseCounts DEF Same, Base, Numbers
<1>3. cmds \in Seq(Cmd) /\ Beside(cmds, cmds')
      BY <1>1 DEF Same, Base, Typed, PipesTyped
<1>4. ASSUME NEW f \in 1 .. Len(files), NEW b \in Nat PROVE Agree(f, b, files', scripts', cmds')
  <2>1. Agree(f, b, files, scripts, cmds)
        BY DEF AgreeInv
  <2>2. Count(cmds', {Toggle(f, b)}) = Count(cmds, {Toggle(f, b)})
    <3>1. Toggle(f, b) \in ToggleSet
          BY <1>2, ToggleOf
    <3> QED BY <1>3, <3>1, BesideCount
  <2>3. f \in 1 .. Len(scripts)
        BY FileScript
  <2>4. scripts'[f] = scripts[f]
        BY <1>2, <2>3
  <2> QED BY <1>2, <2>1, <2>2, <2>4 DEF Agree
<1>5. ASSUME NEW i \in 1 .. Len(scripts') PROVE i \in 1 .. Len(files) \/ scripts'[i].bps = {}
      BY <1>2 DEF AgreeInv
<1> QED BY <1>2, <1>4, <1>5 DEF AgreeInv

LEMMA ToggleAgree == ASSUME Base, AgreeInv, ToggleBreakpoint PROVE AgreeInv'
<1>1. PICK c \in ToggleSet : \E e \in Sets : Toggled(c, e)
      BY ToggleTaken
<1>2. PICK e \in Sets : Toggled(c, e)
      BY <1>1
<1>3. /\ cmds # <<>> /\ c = Head(cmds) /\ cmds' = Tail(cmds)
      /\ c.file \in 1 .. Len(files) /\ c.file \in 1 .. Len(scripts)
      /\ Len(scripts') = Len(scripts) /\ files' = files /\ pending' = pending
      /\ scripts'[c.file].bps = IF c.line \notin scripts[c.file].bps
                                THEN scripts[c.file].bps \cup {c.line}
                                ELSE scripts[c.file].bps \ {c.line}
      /\ \A i \in 1 .. Len(scripts) : i # c.file => scripts'[i] = scripts[i]
      BY <1>2 DEF Toggled
<1>4. cmds \in Seq(Cmd) /\ cmds' \in Seq(Cmd) /\ Len(files) \in Nat
      BY <1>3, SetTail, BaseCounts DEF Base, Typed, PipesTyped, Numbers
<1>5. ASSUME NEW f \in 1 .. Len(files), NEW b \in Nat PROVE Agree(f, b, files', scripts', cmds')
  <2>0. PICK t : t = Toggle(f, b)
        OBVIOUS
  <2>1. Agree(f, b, files, scripts, cmds) /\ f \in Nat \ {0}
        BY <1>4 DEF AgreeInv
  <2>2. Count(cmds, {t}) = Count(cmds', {t}) + Bit(c \in {t})
        BY <1>3, <1>4, CountTail
  <2>3. Count(cmds', {t}) \in Nat /\ Count(cmds, {t}) \in Nat
        BY <1>4, CountType
  <2>4. c = t <=> c.file = f /\ c.line = b
        BY <2>0, <2>1, ToggleOf
  <2>5. f \in 1 .. Len(scripts)
        BY FileScript
  <2>6. CASE c = t
    <3>1. IsOdd(Count(cmds, {t})) <=> ~IsOdd(Count(cmds', {t}))
          BY <2>2, <2>3, <2>6, OddNext DEF Bit
    <3>2. b \in scripts'[f].bps <=> b \notin scripts[f].bps
          BY <1>3, <2>4, <2>6
    <3> QED BY <1>3, <2>0, <2>1, <3>1, <3>2 DEF Agree
  <2>7. CASE c # t
    <3>1. Count(cmds, {t}) = Count(cmds', {t})
          BY <2>2, <2>3, <2>7 DEF Bit
    <3>2. b \in scripts'[f].bps <=> b \in scripts[f].bps
      <4>1. CASE c.file = f
            BY <1>3, <2>4, <2>7, <4>1
      <4>2. CASE c.file # f
            BY <1>3, <2>5, <4>2
      <4> QED BY <4>1, <4>2
    <3> QED BY <1>3, <2>0, <2>1, <3>1, <3>2 DEF Agree
  <2> QED BY <2>6, <2>7
<1>6. ASSUME NEW i \in 1 .. Len(scripts') PROVE i \in 1 .. Len(files) \/ scripts'[i].bps = {}
  <2>1. CASE i = c.file
        BY <1>3, <2>1
  <2>2. CASE i # c.file
        BY <1>3, <1>6, <2>2 DEF AgreeInv
  <2> QED BY <2>1, <2>2
<1> QED BY <1>3, <1>5, <1>6 DEF AgreeInv

LEMMA LoadAgree == ASSUME Base, AgreeInv, FrontLoadScript PROVE AgreeInv'
<1>1. PICK p \in Path : \E f, sent : Loading(p, f, sent)
      BY FrontLoadScriptForm
<1>2. PICK f, sent : Loading(p, f, sent)
      BY <1>1
<1>3. /\ f \in Nat \ {0} /\ f = Len(files) + 1 /\ f = Len(scripts)
      /\ pending[p] \in Seq(Entry) /\ sent \in Toggles(f, {}, pending[p])
      /\ sent \in Seq(ToggleSet)
      /\ Len(files') = f /\ files'[f].bps = Objects(pending[p])
      /\ \A g \in 1 .. Len(files) : files'[g] = files[g]
      /\ pending' = [pending EXCEPT ![p] = <<>>]
      /\ cmds' = Append(cmds \o sent, Done) /\ scripts' = scripts
      BY <1>2 DEF Loading
<1>4. cmds \in Seq(Cmd) /\ Len(files) \in Nat /\ pending \in [Path -> Seq(Entry)]
      BY BaseCounts DEF Base, Typed, PipesTyped, TablesTyped, Numbers
<1>5. Distinct(pending[p])
      BY DEF AgreeInv
<1>6. ASSUME NEW g \in Nat \ {0}, NEW b \in Nat
      PROVE  /\ Count(cmds', {Toggle(g, b)})
                = Count(cmds, {Toggle(g, b)})
                  + (IF f = g /\ b + 1 \in DOMAIN Objects(pending[p]) THEN 1 ELSE 0)
             /\ Count(cmds, {Toggle(g, b)}) \in Nat
  <2>0. PICK q : q = cmds \o sent
        OBVIOUS
  <2>1. q \in Seq(Cmd) /\ sent \in Seq(Cmd)
        BY <1>3, <1>4, <2>0, CmdConcat
  <2>2. Count(q, {Toggle(g, b)}) = Count(cmds, {Toggle(g, b)}) + Count(sent, {Toggle(g, b)})
        BY <1>4, <2>0, <2>1, CountConcat
  <2>3. Count(cmds', {Toggle(g, b)}) = Count(q, {Toggle(g, b)}) + Bit(Done \in {Toggle(g, b)})
    <3>1. Done \in Cmd /\ cmds' = Append(q, Done)
          BY <1>3, <2>0 DEF Cmd
    <3> QED BY <2>1, <3>1, CountAppend
  <2>4. Done # Toggle(g, b)
        BY DEF Done, Command, Toggle
  <2>5. Count(sent, {Toggle(g, b)}) = IF f = g /\ b + 1 \in DOMAIN Objects(pending[p]) THEN 1 ELSE 0
    <3>1. PICK r \in Seq(Entry) : r = pending[p]
          BY <1>3
    <3>2. sent \in Toggles(f, {}, r) /\ Distinct(r)
          BY <1>3, <1>5, <3>1
    <3>3. PICK old : old = {}
          OBVIOUS
    <3>4. old \in SUBSET Lines /\ IsFiniteSet(old)
          BY <3>3, FS_EmptySet
    <3>5. f \in Nat \ {0} /\ sent \in Toggles(f, old, r)
          BY <1>3, <3>2, <3>3
    <3>6. Count(sent, {Toggle(g, b)}) = IF Changes(f, g, b + 1, old, r) THEN 1 ELSE 0
          BY <3>2, <3>4, <3>5, TogglesCount
    <3> QED BY <3>1, <3>3, <3>6 DEF Changes
  <2>6. Count(cmds, {Toggle(g, b)}) \in Nat /\ Count(q, {Toggle(g, b)}) \in Nat
        BY <1>4, <2>1, CountType
  <2> QED BY <2>2, <2>3, <2>4, <2>5, <2>6 DEF Bit
<1>7. ASSUME NEW g \in 1 .. Len(files'), NEW b \in Nat PROVE Agree(g, b, files', scripts', cmds')
  <2>0. g \in Nat \ {0}
        BY <1>3
  <2>1. CASE g = f
    <3>1. Count(cmds, {Toggle(f, b)}) = 0
      <4>1. ASSUME NEW i \in DOMAIN cmds, cmds[i] \in {Toggle(f, b)} PROVE FALSE
        <5>1. cmds[i] \in ToSet(cmds) /\ cmds[i] \in ToggleSet /\ cmds[i].file = f
              BY <1>3, <4>1, ToggleOf DEF ToSet
        <5>2. f \in 1 .. Len(files)
              BY <5>1 DEF Base, InFiles
        <5> QED BY <1>3, <1>4, <5>2
      <4> QED BY <1>4, <4>1, CountType
    <3>2. Count(cmds', {Toggle(f, b)}) = IF b + 1 \in DOMAIN Objects(pending[p]) THEN 1 ELSE 0
      <4>1. f \in Nat \ {0}
            BY <1>3
      <4>2. Count(cmds', {Toggle(f, b)})
            = Count(cmds, {Toggle(f, b)})
              + (IF f = f /\ b + 1 \in DOMAIN Objects(pending[p]) THEN 1 ELSE 0)
            BY <1>6, <4>1
      <4> QED BY <3>1, <4>2
    <3>3. scripts[f].bps = {}
      <4>1. f \in 1 .. Len(scripts) /\ f \notin 1 .. Len(files)
            BY <1>3, <1>4
      <4> QED BY <4>1 DEF AgreeInv
    <3>4. IsOdd(Count(cmds', {Toggle(f, b)})) <=> b + 1 \in DOMAIN Objects(pending[p])
          BY <3>2 DEF IsOdd
    <3> QED BY <1>3, <2>1, <3>3, <3>4 DEF Agree
  <2>2. CASE g # f
    <3>1. g \in 1 .. Len(files) /\ files'[g] = files[g]
          BY <1>3, <1>4, <1>7, <2>2
    <3>2. Agree(g, b, files, scripts, cmds)
          BY <3>1 DEF AgreeInv
    <3>3. Count(cmds', {Toggle(g, b)}) = Count(cmds, {Toggle(g, b)})
          BY <1>6, <2>0, <2>2
    <3> QED BY <1>3, <3>1, <3>2, <3>3 DEF Agree
  <2> QED BY <2>1, <2>2
<1>8. \A i \in 1 .. Len(scripts') : i \in 1 .. Len(files')
      BY <1>3
<1>9. ASSUME NEW q \in Path PROVE Distinct(pending'[q])
  <2>1. CASE q = p
    <3>1. pending'[q] = <<>>
          BY <1>3, <1>4, <2>1
    <3> QED BY <3>1 DEF Distinct, Good
  <2>2. CASE q # p
        BY <1>3, <1>4, <2>2 DEF AgreeInv
  <2> QED BY <2>1, <2>2
<1> QED BY <1>7, <1>8, <1>9 DEF AgreeInv

LEMMA RequestAgree ==
    ASSUME OnceEach, Base, AgreeInv, NEW p \in Path, NEW req \in Requests, SetBreakpoints(p, req)
    PROVE  AgreeInv'
<1>0. PICK r : r = WithIds(req)
      OBVIOUS
<1>1. r \in Seq(Entry) /\ Distinct(r) /\ scripts' = scripts
      BY <1>0, WithIdsType, WithIdsDistinct, SetBreakpointsTaken
      DEF Requested, Base, Typed, TablesTyped
<1>2. pending \in [Path -> Seq(Entry)] /\ Len(files) \in Nat /\ cmds \in Seq(Cmd)
      BY BaseCounts DEF Base, Typed, TablesTyped, PipesTyped, Numbers
<1>3. CASE KeepForLoad(p, r)
  <2>1. pending' = [pending EXCEPT ![p] = r] /\ UNCHANGED <<files, cmds>>
        BY <1>3 DEF KeepForLoad
  <2>2. \A q \in Path : Distinct(pending'[q])
        BY <1>1, <1>2, <2>1 DEF AgreeInv
  <2> QED BY <1>1, <2>1, <2>2 DEF AgreeInv
<1>4. CASE SetInFile(p, r)
  <2>1. PICK f \in 1 .. Len(files) : \E sent \in Toggles(f, DOMAIN files[f].bps, r) :
           Set(p, r, f, sent)
        BY <1>1, <1>4, SetInFileTaken
  <2>2. PICK sent \in Toggles(f, DOMAIN files[f].bps, r) : Set(p, r, f, sent)
        BY <2>1
  <2>3. /\ Len(files') = Len(files) /\ files'[f].bps = Objects(r)
        /\ \A g \in 1 .. Len(files) : g # f => files'[g] = files[g]
        /\ sent \in Seq(ToggleSet)
        BY <1>1, <2>2, SetFiles
  <2>4. cmds' = cmds \o sent /\ pending' = pending /\ sent \in Seq(Cmd)
        BY <1>2, <2>2, <2>3, CmdConcat DEF Set
  <2>5. PICK old : old = DOMAIN files[f].bps
        OBVIOUS
  <2>6. old \in SUBSET Lines /\ IsFiniteSet(old) /\ f \in Nat \ {0}
        BY <1>2, <2>5, FileType
  <2>7. sent \in Toggles(f, old, r)
        BY <2>5
  <2>8. ASSUME NEW g \in 1 .. Len(files), NEW b \in Nat
        PROVE  Agree(g, b, files', scripts', cmds')
    <3>0. g \in Nat \ {0} /\ Agree(g, b, files, scripts, cmds)
          BY <1>2 DEF AgreeInv
    <3>1. Count(cmds', {Toggle(g, b)}) = Count(cmds, {Toggle(g, b)}) + Count(sent, {Toggle(g, b)})
          BY <1>2, <2>4, CountConcat
    <3>2. Count(sent, {Toggle(g, b)}) = IF Changes(f, g, b + 1, old, r) THEN 1 ELSE 0
          BY <1>1, <2>6, <2>7, <3>0, TogglesCount
    <3>3. Count(cmds, {Toggle(g, b)}) \in Nat
          BY <1>2, CountType
    <3>4. CASE Changes(f, g, b + 1, old, r)
      <4>1. Count(cmds', {Toggle(g, b)}) = Count(cmds, {Toggle(g, b)}) + 1
            BY <3>1, <3>2, <3>4
      <4>2. IsOdd(Count(cmds', {Toggle(g, b)})) <=> ~IsOdd(Count(cmds, {Toggle(g, b)}))
            BY <3>3, <4>1, OddNext
      <4>3. b + 1 \in DOMAIN files'[g].bps <=> ~(b + 1 \in DOMAIN files[g].bps)
            BY <2>3, <2>5, <3>4 DEF Changes
      <4> QED BY <1>1, <3>0, <4>2, <4>3 DEF Agree
    <3>5. CASE ~Changes(f, g, b + 1, old, r)
      <4>1. Count(sent, {Toggle(g, b)}) = 0
            BY <3>2, <3>5
      <4>2. Count(cmds', {Toggle(g, b)}) = Count(cmds, {Toggle(g, b)})
            BY <3>1, <3>3, <4>1
      <4>3. b + 1 \in DOMAIN files'[g].bps <=> b + 1 \in DOMAIN files[g].bps
            BY <2>3, <2>5, <3>5 DEF Changes
      <4> QED BY <1>1, <3>0, <4>2, <4>3 DEF Agree
    <3> QED BY <3>4, <3>5
  <2> QED BY <1>1, <2>3, <2>4, <2>8 DEF AgreeInv
<1> QED BY <1>0, <1>3, <1>4, SetBreakpointsTaken

LEMMA NextCases ==
    ASSUME [Next]_vars
    PROVE  \/ Quiet \/ ToggleBreakpoint \/ FrontLoadScript \/ FrontSetBreakpoint
           \/ \E p \in Path : \E req \in Requests : SetBreakpoints(p, req)
BY DEF Next, Commands, Adapter, User, Quiet

LEMMA NextAgree == ASSUME OnceEach, Base, Base', AgreeInv, [Next]_vars PROVE AgreeInv'
<1>1. CASE Quiet
      BY <1>1, QuietAgree
<1>2. CASE ToggleBreakpoint
      BY <1>2, ToggleAgree
<1>3. CASE FrontLoadScript
      BY <1>3, LoadAgree
<1>4. CASE FrontSetBreakpoint
  <2>1. UNCHANGED <<files, scripts, cmds, pending>>
        BY <1>4, FrontSetBreakpointTaken
  <2> QED BY <2>1 DEF AgreeInv
<1>5. ASSUME NEW p \in Path, NEW req \in Requests, SetBreakpoints(p, req) PROVE AgreeInv'
      BY <1>5, RequestAgree
<1> QED BY <1>1, <1>2, <1>3, <1>4, <1>5, NextCases

LEMMA AgreeAlways == OnceEach => (Spec => []AgreeInv)
<1> SUFFICES ASSUME OnceEach PROVE Spec => []AgreeInv
    OBVIOUS
<1>1. Init => AgreeInv
  <2> SUFFICES ASSUME Init PROVE AgreeInv
      OBVIOUS
  <2>1. Len(files) = 0 /\ Len(scripts) = 0 /\ \A p \in Path : pending[p] = <<>>
        BY EmptySeq DEF Init
  <2> QED BY <2>1 DEF AgreeInv, Distinct, Good
<1>2. Base /\ AgreeInv /\ [Next]_vars => AgreeInv'
      BY NextAgree, NextBase
<1> QED BY <1>1, <1>2, BaseAlways, PTL DEF Spec

\* breakpoint.lua:81: where no request has a line twice, the script and the adapter have
\* the same breakpoints once the toggles under way are executed.
THEOREM BreakpointsAgree == OnceEach => (Spec => []TablesAgree)
<1> SUFFICES ASSUME OnceEach PROVE Spec => []TablesAgree
    OBVIOUS
<1>1. Base /\ AgreeInv => TablesAgree
  <2> SUFFICES ASSUME Base, AgreeInv, NEW f \in DOMAIN files,
                      NEW b \in {c.line : c \in {x \in ToSet(cmds) : x.type = "Toggle"}}
                                \cup scripts[f].bps \cup {l - 1 : l \in DOMAIN files[f].bps}
               PROVE  b + 1 \in DOMAIN files[f].bps
                      <=> (b \in scripts[f].bps) # Odd({k \in DOMAIN cmds : cmds[k] = Toggle(f, b)})
      BY DEF TablesAgree
  <2>1. f \in 1 .. Len(files)
        BY LenProperties DEF Base, Typed, TablesTyped
  <2>2. b \in Nat
    <3>1. CASE b \in {c.line : c \in {x \in ToSet(cmds) : x.type = "Toggle"}}
      <4>1. PICK c \in ToSet(cmds) : c.type = "Toggle" /\ b = c.line
            BY <3>1
      <4>2. c \in Cmd
            BY LenProperties DEF Base, Typed, PipesTyped, ToSet
      <4> QED BY <4>1, <4>2, CmdKinds DEF ToggleSet
    <3>2. CASE b \in scripts[f].bps
      <4>1. f \in 1 .. Len(scripts)
            BY <2>1, FileScript
      <4>2. scripts[f] \in Script0
            BY <4>1, ElementOfSeq DEF Base, Typed, BackendTyped
      <4> QED BY <3>2, <4>2 DEF Script0
    <3>3. CASE b \in {l - 1 : l \in DOMAIN files[f].bps}
          BY <2>1, <3>3, FileType DEF Lines
    <3> QED BY <3>1, <3>2, <3>3
  <2>3. Agree(f, b, files, scripts, cmds)
        BY <2>1, <2>2 DEF AgreeInv
  <2>4. Count(cmds, {Toggle(f, b)}) = Cardinality({k \in DOMAIN cmds : cmds[k] = Toggle(f, b)})
    <3>1. Positions(cmds, {Toggle(f, b)}) = {k \in DOMAIN cmds : cmds[k] = Toggle(f, b)}
          BY DEF Positions
    <3> QED BY <3>1 DEF Count
  <2> QED BY <2>3, <2>4 DEF Agree, IsOdd, Odd
<1> QED BY <1>1, BaseAlways, AgreeAlways, PTL

-----------------------------------------------------------------------------
(* A script that has just been loaded has its breakpoints.                 *)

\* Every toggle of f is before the end of a load.
Followed(q, f) == \A k \in DOMAIN q : q[k] \in ToggleSet /\ q[k].file = f
                                      => \E j \in DOMAIN q : j > k /\ q[j] = Done
FreshInv == \A f \in fresh : Followed(cmds, f)

LEMMA FollowedTail ==
    ASSUME NEW q \in Seq(Cmd), q # <<>>, NEW f, Followed(q, f)
    PROVE  Followed(Tail(q), f)
<1>1. /\ Tail(q) \in Seq(Cmd) /\ Len(Tail(q)) = Len(q) - 1
      /\ \A i \in 1 .. Len(Tail(q)) : Tail(q)[i] = q[i + 1]
      BY HeadTailProperties
<1>2. /\ DOMAIN q = 1 .. Len(q) /\ Len(q) \in Nat \ {0} /\ DOMAIN Tail(q) = 1 .. Len(Tail(q))
      BY <1>1, LenProperties, EmptySeq
<1> SUFFICES ASSUME NEW k \in DOMAIN Tail(q), Tail(q)[k] \in ToggleSet, Tail(q)[k].file = f
             PROVE  \E j \in DOMAIN Tail(q) : j > k /\ Tail(q)[j] = Done
    BY DEF Followed
<1>3. k + 1 \in DOMAIN q /\ q[k + 1] = Tail(q)[k]
      BY <1>1, <1>2
<1>4. PICK j \in DOMAIN q : j > k + 1 /\ q[j] = Done
      BY <1>3 DEF Followed
<1>5. j - 1 \in DOMAIN Tail(q) /\ j - 1 > k /\ (j - 1) + 1 = j
      BY <1>1, <1>2, <1>4
<1>6. Tail(q)[j - 1] = Done
      BY <1>1, <1>2, <1>4, <1>5
<1> QED BY <1>5, <1>6

LEMMA FollowedAppend ==
    ASSUME NEW q \in Seq(Cmd), NEW x \in Cmd, NEW f
    PROVE  /\ Followed(q, f) /\ x \notin ToggleSet => Followed(Append(q, x), f)
           /\ x = Done => Followed(Append(q, x), f)
<1>1. /\ Append(q, x) \in Seq(Cmd) /\ Len(Append(q, x)) = Len(q) + 1
      /\ \A i \in 1 .. Len(q) : Append(q, x)[i] = q[i]
      /\ Append(q, x)[Len(q) + 1] = x
      BY AppendProperties
<1>2. /\ DOMAIN q = 1 .. Len(q) /\ Len(q) \in Nat /\ DOMAIN Append(q, x) = 1 .. Len(q) + 1
      BY <1>1, LenProperties
<1>3. ASSUME Followed(q, f), x \notin ToggleSet PROVE Followed(Append(q, x), f)
  <2> SUFFICES ASSUME NEW k \in DOMAIN Append(q, x), Append(q, x)[k] \in ToggleSet,
                      Append(q, x)[k].file = f
               PROVE  \E j \in DOMAIN Append(q, x) : j > k /\ Append(q, x)[j] = Done
      BY DEF Followed
  <2>1. k \in DOMAIN q /\ Append(q, x)[k] = q[k]
        BY <1>1, <1>2, <1>3
  <2>2. PICK j \in DOMAIN q : j > k /\ q[j] = Done
        BY <1>3, <2>1 DEF Followed
  <2>3. j \in DOMAIN Append(q, x) /\ Append(q, x)[j] = Done
        BY <1>1, <1>2, <2>2
  <2> QED BY <2>2, <2>3
<1>4. ASSUME x = Done PROVE Followed(Append(q, x), f)
  <2> SUFFICES ASSUME NEW k \in DOMAIN Append(q, x), Append(q, x)[k] \in ToggleSet
               PROVE  \E j \in DOMAIN Append(q, x) : j > k /\ Append(q, x)[j] = Done
      BY DEF Followed
  <2>1. Done \notin ToggleSet
        BY DEF Done, Command, ToggleSet
  <2>2. k # Len(q) + 1
        BY <1>1, <1>4, <2>1
  <2>3. Len(q) + 1 \in DOMAIN Append(q, x) /\ Len(q) + 1 > k
        BY <1>2, <2>2
  <2> QED BY <1>1, <1>4, <2>3
<1> QED BY <1>3, <1>4

LEMMA FollowedConcat ==
    ASSUME NEW q \in Seq(Cmd), NEW r \in Seq(Cmd), NEW f, Followed(q, f),
           \A c \in ToSet(r) : c.file # f
    PROVE  Followed(q \o r, f)
<1>1. /\ q \o r \in Seq(Cmd) /\ Len(q \o r) = Len(q) + Len(r)
      /\ \A i \in 1 .. Len(q) + Len(r) : (q \o r)[i] = IF i <= Len(q) THEN q[i] ELSE r[i - Len(q)]
      BY ConcatProperties
<1>2. /\ DOMAIN q = 1 .. Len(q) /\ Len(q) \in Nat /\ DOMAIN r = 1 .. Len(r) /\ Len(r) \in Nat
      /\ DOMAIN (q \o r) = 1 .. Len(q) + Len(r)
      BY <1>1, LenProperties
<1> SUFFICES ASSUME NEW k \in DOMAIN (q \o r), (q \o r)[k] \in ToggleSet, (q \o r)[k].file = f
             PROVE  \E j \in DOMAIN (q \o r) : j > k /\ (q \o r)[j] = Done
    BY DEF Followed
<1>3. k <= Len(q)
  <2> SUFFICES ASSUME ~(k <= Len(q)) PROVE FALSE
      OBVIOUS
  <2>1. k - Len(q) \in DOMAIN r /\ (q \o r)[k] = r[k - Len(q)]
        BY <1>1, <1>2
  <2> QED BY <2>1 DEF ToSet
<1>4. k \in DOMAIN q /\ (q \o r)[k] = q[k]
      BY <1>1, <1>2, <1>3
<1>5. PICK j \in DOMAIN q : j > k /\ q[j] = Done
      BY <1>4 DEF Followed
<1>6. j \in DOMAIN (q \o r) /\ (q \o r)[j] = Done
      BY <1>1, <1>2, <1>5
<1> QED BY <1>5, <1>6

LEMMA NextFresh == ASSUME Base, FreshInv, [Next]_vars PROVE FreshInv'
<1>0. cmds \in Seq(Cmd)
      BY DEF Base, Typed, PipesTyped
<1>1. CASE Quiet
  <2>1. fresh' = fresh /\ Beside(cmds, cmds')
        BY <1>1, QuietSame DEF Same
  <2> SUFFICES ASSUME NEW f \in fresh PROVE Followed(cmds', f)
      BY <2>1 DEF FreshInv
  <2>2. Followed(cmds, f)
        BY DEF FreshInv
  <2>3. ASSUME NEW x \in Cmd \ ToggleSet, cmds' = Append(cmds, x) PROVE Followed(cmds', f)
        BY <1>0, <2>2, <2>3, FollowedAppend
  <2>4. CASE cmds # <<>> /\ cmds' = Tail(cmds)
        BY <1>0, <2>2, <2>4, FollowedTail
  <2> QED BY <2>1, <2>2, <2>3, <2>4 DEF Beside
<1>2. CASE ToggleBreakpoint
  <2>1. PICK c \in ToggleSet : \E e \in Sets : Toggled(c, e)
        BY <1>2, ToggleTaken
  <2>2. cmds # <<>> /\ cmds' = Tail(cmds) /\ fresh' = fresh
        BY <2>1 DEF Toggled
  <2>3. \A f \in fresh : Followed(cmds', f)
        BY <1>0, <2>2, FollowedTail DEF FreshInv
  <2> QED BY <2>2, <2>3 DEF FreshInv
<1>3. CASE FrontLoadScript
  <2>1. PICK p \in Path : \E f, sent : Loading(p, f, sent)
        BY <1>3, FrontLoadScriptForm
  <2>2. PICK f, sent : Loading(p, f, sent)
        BY <2>1
  <2>3. PICK q : q = cmds \o sent
        OBVIOUS
  <2>4. q \in Seq(Cmd) /\ cmds' = Append(q, Done) /\ Done \in Cmd
        BY <1>0, <2>2, <2>3, CmdConcat DEF Loading, Cmd
  <2>5. \A g : Followed(cmds', g)
        BY <2>4, FollowedAppend
  <2> QED BY <2>5 DEF FreshInv
<1>4. CASE FrontSetBreakpoint
  <2>1. cmds' = cmds /\ fresh' = fresh
        BY <1>4, FrontSetBreakpointTaken
  <2> QED BY <2>1 DEF FreshInv
<1>5. ASSUME NEW p \in Path, NEW req \in Requests, SetBreakpoints(p, req) PROVE FreshInv'
  <2>1. PICK r : r = WithIds(req)
        OBVIOUS
  <2>2. r \in Seq(Entry) /\ fresh' = fresh \ {latest[p]}
        BY <1>5, <2>1, WithIdsType, SetBreakpointsTaken DEF Requested, Base, Typed, TablesTyped
  <2>3. CASE KeepForLoad(p, r)
    <3>1. cmds' = cmds
          BY <2>3 DEF KeepForLoad
    <3> QED BY <2>2, <3>1 DEF FreshInv
  <2>4. CASE SetInFile(p, r)
    <3>1. PICK f \in 1 .. Len(files) : \E sent \in Toggles(f, DOMAIN files[f].bps, r) :
             Set(p, r, f, sent)
          BY <2>2, <2>4, SetInFileTaken
    <3>2. PICK sent \in Toggles(f, DOMAIN files[f].bps, r) : Set(p, r, f, sent)
          BY <3>1
    <3>3. /\ sent \in Seq(ToggleSet) /\ \A c \in ToSet(sent) : c.file = f
          /\ f = latest[p] /\ cmds' = cmds \o sent
      <4>1. sent \in Seq(ToggleSet) /\ \A c \in ToSet(sent) : c.file = f
            BY <2>2, <3>2, SetFiles
      <4> QED BY <3>2, <4>1 DEF Set
    <3>4. sent \in Seq(Cmd)
          BY <1>0, <3>3, CmdConcat
    <3>5. ASSUME NEW g \in fresh' PROVE Followed(cmds', g)
      <4>1. g \in fresh /\ g # f
            BY <2>2, <3>3, <3>5
      <4>2. Followed(cmds, g) /\ \A c \in ToSet(sent) : c.file # g
            BY <3>3, <4>1 DEF FreshInv
      <4> QED BY <1>0, <3>3, <3>4, <4>2, FollowedConcat
    <3> QED BY <3>5 DEF FreshInv
  <2> QED BY <1>5, <2>1, <2>3, <2>4, SetBreakpointsTaken
<1> QED BY <1>1, <1>2, <1>3, <1>4, <1>5, NextCases

\* DebugBackend.cpp:634: when a script goes on after its load, the breakpoints that the
\* user had set for it are in place.
THEOREM LoadedWithBreakpoints == OnceEach => (Spec => []FirstLineStops)
<1> SUFFICES ASSUME OnceEach PROVE Spec => []FirstLineStops
    OBVIOUS
<1>1. Init => FreshInv
      BY DEF Init, FreshInv
<1>2. Base /\ FreshInv /\ [Next]_vars => FreshInv'
      BY NextFresh
<1>3. Base /\ AgreeInv /\ FreshInv => FirstLineStops
  <2> SUFFICES ASSUME Base, AgreeInv, FreshInv, NEW f \in fresh, vm # "load"
               PROVE  scripts[f].bps = {l - 1 : l \in DOMAIN files[f].bps}
      BY DEF FirstLineStops
  <2>0. cmds \in Seq(Cmd) /\ f \in 1 .. Len(files) /\ Len(files) \in Nat
        BY BaseCounts DEF Base, Typed, PipesTyped, ClientTyped, Numbers
  <2>1. Dones(cmds) = 0
        BY BaseCounts DEF Base, LoadOnce, Numbers
  <2>2. \A j \in DOMAIN cmds : cmds[j] # Done
    <3>1. Done \notin ToSet(cmds)
          BY <2>0, <2>1, CmdCounts
    <3> QED BY <3>1 DEF ToSet
  <2>3. \A b \in Nat : Count(cmds, {Toggle(f, b)}) = 0
    <3> SUFFICES ASSUME NEW b \in Nat PROVE Count(cmds, {Toggle(f, b)}) = 0
        OBVIOUS
    <3>1. Toggle(f, b) \in ToggleSet /\ Toggle(f, b).file = f
          BY <2>0, ToggleOf
    <3>2. \A k \in DOMAIN cmds : cmds[k] \notin {Toggle(f, b)}
          BY <2>2, <3>1 DEF FreshInv, Followed
    <3> QED BY <2>0, <3>2, CountType
  <2>4. \A b \in Nat : b + 1 \in DOMAIN files[f].bps <=> b \in scripts[f].bps
    <3>1. ~IsOdd(0)
          BY DEF IsOdd
    <3> QED BY <2>0, <2>3, <3>1 DEF AgreeInv, Agree
  <2>5. DOMAIN files[f].bps \in SUBSET Lines
        BY <2>0, FileType
  <2>6. scripts[f].bps \in SUBSET Nat
    <3>1. f \in 1 .. Len(scripts)
          BY <2>0, FileScript
    <3>2. scripts[f] \in Script0
          BY <3>1, ElementOfSeq DEF Base, Typed, BackendTyped
    <3> QED BY <3>2 DEF Script0
  <2>7. ASSUME NEW b \in scripts[f].bps PROVE b \in {l - 1 : l \in DOMAIN files[f].bps}
    <3>1. b \in Nat /\ b + 1 \in DOMAIN files[f].bps /\ b = (b + 1) - 1
          BY <2>4, <2>6
    <3> QED BY <3>1
  <2>8. ASSUME NEW l \in DOMAIN files[f].bps PROVE l - 1 \in scripts[f].bps
    <3>1. l - 1 \in Nat /\ (l - 1) + 1 = l
          BY <2>5 DEF Lines
    <3> QED BY <2>4, <3>1
  <2> QED BY <2>7, <2>8
<1> QED BY <1>1, <1>2, <1>3, BaseAlways, AgreeAlways, PTL DEF Spec

-----------------------------------------------------------------------------
(* What the user sees as verified.                                         *)

Told(f, l) == [type |-> "SetBreakpoint", file |-> f, line |-> l - 1, set |-> TRUE]

\* An object is verified, or its line is toggled or told to the adapter.
Assured(f, l, fs, v, c, e) ==
    fs[f].bps[l].id \in v \/ Toggle(f, l - 1) \in ToSet(c) \/ Told(f, l) \in ToSet(e)
VerifiedInv ==
    \A f \in 1 .. Len(files) : \A l \in DOMAIN files[f].bps :
        Assured(f, l, files, verified, cmds, evs)

LEMMA TogglePlace ==
    ASSUME Base, NEW f \in 1 .. Len(files), NEW l \in DOMAIN files[f].bps
    PROVE  /\ f \in Nat \ {0} /\ l \in Lines /\ l - 1 \in Nat /\ l = (l - 1) + 1
           /\ Toggle(f, l - 1) \in ToggleSet /\ Told(f, l) \in Sets
<1>1. f \in Nat \ {0}
      BY BaseCounts DEF Base, Numbers
<1>2. l \in Lines
      BY FileType
<1>3. l - 1 \in Nat /\ l = (l - 1) + 1
      BY <1>2 DEF Lines
<1> QED BY <1>1, <1>2, <1>3 DEF Toggle, ToggleSet, Told, Sets

LEMMA BesideSet ==
    ASSUME NEW q \in Seq(Cmd), NEW r, Beside(q, r), NEW c \in ToggleSet, c \in ToSet(q)
    PROVE  c \in ToSet(r)
<1>1. ASSUME NEW x \in Cmd \ ToggleSet, r = Append(q, x) PROVE c \in ToSet(r)
  <2>1. ToSet(r) = ToSet(q) \cup {x}
        BY <1>1, SetAppend
  <2> QED BY <2>1
<1>2. CASE q # <<>> /\ r = Tail(q) /\ Head(q) \notin ToggleSet
  <2>1. ToSet(q) = {Head(q)} \cup ToSet(r)
        BY <1>2, SetTail
  <2> QED BY <1>2, <2>1
<1> QED BY <1>1, <1>2 DEF Beside

LEMMA QuietVerified == ASSUME Base, VerifiedInv, Quiet PROVE VerifiedInv'
<1>1. Same
      BY QuietSame
<1>2. /\ files' = files /\ verified' = verified /\ Beside(cmds, cmds')
      /\ \A e \in Sets : e \in ToSet(evs') <=> e \in ToSet(evs)
      BY <1>1 DEF Same
<1>3. cmds \in Seq(Cmd)
      BY DEF Base, Typed, PipesTyped
<1>4. ASSUME NEW f \in 1 .. Len(files), NEW l \in DOMAIN files[f].bps
      PROVE  Assured(f, l, files', verified', cmds', evs')
  <2>1. Assured(f, l, files, verified, cmds, evs)
        BY DEF VerifiedInv
  <2>2. Toggle(f, l - 1) \in ToggleSet /\ Told(f, l) \in Sets
        BY TogglePlace
  <2>3. Toggle(f, l - 1) \in ToSet(cmds) => Toggle(f, l - 1) \in ToSet(cmds')
        BY <1>2, <1>3, <2>2, BesideSet
  <2> QED BY <1>2, <2>1, <2>2, <2>3 DEF Assured
<1> QED BY <1>2, <1>4 DEF VerifiedInv

\* The last toggle of a line that has an object sets its breakpoint.
LEMMA LastToggleSets ==
    ASSUME Base, AgreeInv, NEW f \in 1 .. Len(files), NEW l \in DOMAIN files[f].bps,
           cmds # <<>>, Toggle(f, l - 1) = Head(cmds), Toggle(f, l - 1) \notin ToSet(Tail(cmds))
    PROVE  l - 1 \notin scripts[f].bps
<1>0. PICK t : t = Toggle(f, l - 1)
      OBVIOUS
<1>1. PICK b \in Nat : b = l - 1 /\ l = b + 1
      BY TogglePlace
<1>2. PICK q : q = Tail(cmds)
      OBVIOUS
<1>3. cmds \in Seq(Cmd) /\ q \in Seq(Cmd)
      BY <1>2, SetTail DEF Base, Typed, PipesTyped
<1>4. Count(q, {t}) = 0
  <2>1. ASSUME NEW i \in DOMAIN q, q[i] \in {t} PROVE FALSE
    <3>1. q[i] \in ToSet(q)
          BY DEF ToSet
    <3> QED BY <1>0, <1>2, <2>1, <3>1
  <2> QED BY <1>3, <2>1, CountType
<1>5. Count(cmds, {t}) = Count(q, {t}) + Bit(Head(cmds) \in {t})
      BY <1>2, <1>3, CountTail
<1>6. Count(cmds, {t}) = 1
      BY <1>0, <1>4, <1>5 DEF Bit
<1>7. IsOdd(Count(cmds, {Toggle(f, b)}))
      BY <1>0, <1>1, <1>6 DEF IsOdd
<1>8. Agree(f, b, files, scripts, cmds)
      BY DEF AgreeInv
<1> QED BY <1>1, <1>7, <1>8 DEF Agree

LEMMA ToggleVerified ==
    ASSUME Base, AgreeInv, VerifiedInv, ToggleBreakpoint
    PROVE  VerifiedInv'
<1>1. PICK c \in ToggleSet : \E e \in Sets : Toggled(c, e)
      BY ToggleTaken
<1>2. PICK e \in Sets : Toggled(c, e)
      BY <1>1
<1>3. /\ cmds # <<>> /\ c = Head(cmds) /\ cmds' = Tail(cmds) /\ evs' = Append(evs, e)
      /\ files' = files /\ verified' = verified
      /\ e = [type |-> "SetBreakpoint", file |-> c.file, line |-> c.line,
              set |-> c.line \notin scripts[c.file].bps]
      BY <1>2 DEF Toggled
<1>4. ToSet(cmds) = {c} \cup ToSet(cmds') /\ ToSet(evs') = ToSet(evs) \cup {e}
  <2>1. cmds \in Seq(Cmd) /\ evs \in Seq(Ev) /\ e \in Ev
        BY DEF Base, Typed, PipesTyped, Ev
  <2> QED BY <1>3, <2>1, SetTail, SetAppend
<1>5. ASSUME NEW f \in 1 .. Len(files), NEW l \in DOMAIN files[f].bps
      PROVE  Assured(f, l, files', verified', cmds', evs')
  <2>1. Assured(f, l, files, verified, cmds, evs)
        BY DEF VerifiedInv
  <2>2. CASE Toggle(f, l - 1) = c /\ Toggle(f, l - 1) \notin ToSet(cmds')
    <3>1. l - 1 \notin scripts[f].bps
          BY <1>3, <2>2, LastToggleSets
    <3>2. c.file = f /\ c.line = l - 1
          BY <2>2 DEF Toggle
    <3>3. e = Told(f, l)
          BY <1>3, <3>1, <3>2 DEF Told
    <3> QED BY <1>4, <3>3 DEF Assured
  <2>3. CASE ~(Toggle(f, l - 1) = c /\ Toggle(f, l - 1) \notin ToSet(cmds'))
        BY <1>3, <1>4, <2>1, <2>3 DEF Assured
  <2> QED BY <2>2, <2>3
<1> QED BY <1>3, <1>5 DEF VerifiedInv

LEMMA LoadVerified == ASSUME Base, VerifiedInv, FrontLoadScript PROVE VerifiedInv'
<1>1. PICK p \in Path : \E f, sent : Loading(p, f, sent)
      BY FrontLoadScriptForm
<1>2. PICK f, sent : Loading(p, f, sent)
      BY <1>1
<1>3. /\ evs # <<>> /\ evs' = Tail(evs) /\ Head(evs) \in Loads
      /\ f \in Nat \ {0} /\ f = Len(files) + 1
      /\ pending[p] \in Seq(Entry) /\ sent \in Toggles(f, {}, pending[p])
      /\ Len(files') = f /\ files'[f].bps = Objects(pending[p])
      /\ \A g \in 1 .. Len(files) : files'[g] = files[g]
      /\ ToSet(cmds') = ToSet(cmds) \cup ToSet(sent) \cup {Done}
      /\ verified' = verified
      BY <1>2 DEF Loading
<1>4. evs \in Seq(Ev) /\ Len(files) \in Nat
      BY BaseCounts DEF Base, Typed, PipesTyped, Numbers
<1>5. ToSet(evs) = {Head(evs)} \cup ToSet(evs') /\ Head(evs) \notin Sets
  <2>1. Head(evs) \notin Sets
        BY <1>3 DEF Loads, Sets
  <2> QED BY <1>3, <1>4, <2>1, SetTail
<1>6. ASSUME NEW l \in DOMAIN Objects(pending[p]) PROVE Toggle(f, l - 1) \in ToSet(sent)
  <2>1. PICK r \in Seq(Entry) : r = pending[p]
        BY <1>3
  <2>2. PICK old : old = {}
        OBVIOUS
  <2>3. old \in SUBSET Lines /\ IsFiniteSet(old)
        BY <2>2, FS_EmptySet
  <2>4. sent \in Toggles(f, old, r)
        BY <1>3, <2>1, <2>2
  <2>5. l \in DOMAIN Objects(r) /\ l \notin old
        BY <2>1, <2>2
  <2>6. \E k \in DOMAIN sent : sent[k] = Toggle(f, l - 1)
        BY <1>3, <2>3, <2>4, <2>5, TogglesCount
  <2> QED BY <2>6 DEF ToSet
<1>7. ASSUME NEW g \in 1 .. Len(files'), NEW l \in DOMAIN files'[g].bps
      PROVE  Assured(g, l, files', verified', cmds', evs')
  <2>1. CASE g = f
        BY <1>3, <1>6, <2>1 DEF Assured
  <2>2. CASE g # f
    <3>1. g \in 1 .. Len(files) /\ files'[g] = files[g]
          BY <1>3, <1>4, <1>7, <2>2
    <3>2. l \in DOMAIN files[g].bps
          BY <3>1
    <3>3. Assured(g, l, files, verified, cmds, evs) /\ Told(g, l) \in Sets
          BY <3>1, <3>2, TogglePlace DEF VerifiedInv
    <3>4. Told(g, l) \in ToSet(evs) => Told(g, l) \in ToSet(evs')
          BY <1>5, <3>3
    <3> QED BY <1>3, <3>1, <3>3, <3>4 DEF Assured
  <2> QED BY <2>1, <2>2
<1> QED BY <1>7 DEF VerifiedInv

LEMMA ToldVerified == ASSUME Base, VerifiedInv, FrontSetBreakpoint PROVE VerifiedInv'
<1>0. PICK e : e = Head(evs)
      OBVIOUS
<1>1. /\ evs # <<>> /\ evs' = Tail(evs) /\ UNCHANGED <<cmds, files>>
      /\ verified' = verified \cup
             {files[e.file].bps[l].id : l \in {e.line + 1} \cap {l \in DOMAIN files[e.file].bps : e.set}}
      BY <1>0, FrontSetBreakpointTaken
<1>2. ToSet(evs) = {e} \cup ToSet(evs')
      BY <1>0, <1>1, SetTail DEF Base, Typed, PipesTyped
<1>3. ASSUME NEW f \in 1 .. Len(files), NEW l \in DOMAIN files[f].bps
      PROVE  Assured(f, l, files', verified', cmds', evs')
  <2>1. Assured(f, l, files, verified, cmds, evs)
        BY DEF VerifiedInv
  <2>2. CASE e = Told(f, l)
    <3>1. e.file = f /\ e.line = l - 1 /\ e.set = TRUE
          BY <2>2 DEF Told
    <3>2. e.line + 1 = l
          BY <3>1, TogglePlace
    <3>3. files[f].bps[l].id \in verified'
          BY <1>1, <3>1, <3>2
    <3> QED BY <1>1, <3>3 DEF Assured
  <2>3. CASE e # Told(f, l)
        BY <1>1, <1>2, <2>1, <2>3 DEF Assured
  <2> QED BY <2>2, <2>3
<1> QED BY <1>1, <1>3 DEF VerifiedInv

LEMMA RequestVerified ==
    ASSUME Base, VerifiedInv, NEW p \in Path, NEW req \in Requests, SetBreakpoints(p, req)
    PROVE  VerifiedInv'
<1>0. PICK r : r = WithIds(req)
      OBVIOUS
<1>1. r \in Seq(Entry) /\ evs' = evs
      BY <1>0, WithIdsType, SetBreakpointsTaken DEF Requested, Base, Typed, TablesTyped
<1>2. CASE KeepForLoad(p, r)
      BY <1>1, <1>2 DEF KeepForLoad, VerifiedInv
<1>3. CASE SetInFile(p, r)
  <2>1. PICK f \in 1 .. Len(files) : \E sent \in Toggles(f, DOMAIN files[f].bps, r) :
           Set(p, r, f, sent)
        BY <1>1, <1>3, SetInFileTaken
  <2>2. PICK sent \in Toggles(f, DOMAIN files[f].bps, r) : Set(p, r, f, sent)
        BY <2>1
  <2>3. /\ Len(files') = Len(files) /\ files'[f].bps = Objects(r)
        /\ \A g \in 1 .. Len(files) : g # f => files'[g] = files[g]
        /\ ToSet(cmds') = ToSet(cmds) \cup ToSet(sent)
        BY <1>1, <2>2, SetFiles
  <2>4. PICK old : old = DOMAIN files[f].bps
        OBVIOUS
  <2>5. verified' = verified \cup VerifiedAtOnce(old, r)
        BY <2>2, <2>4 DEF Set
  <2>6. ASSUME NEW l \in DOMAIN Objects(r) PROVE Assured(f, l, files', verified', cmds', evs')
    <3>1. CASE l \in old
      <4>1. PICK k \in Good(r) : r[k].line = l /\ Objects(r)[l].id = r[k].id
            BY <1>1, ObjectsType
      <4>2. r[k].id \in VerifiedAtOnce(old, r)
            BY <3>1, <4>1 DEF VerifiedAtOnce
      <4> QED BY <2>3, <2>5, <4>1, <4>2 DEF Assured
    <3>2. CASE l \notin old
      <4>1. old \in SUBSET Lines /\ IsFiniteSet(old) /\ f \in Nat \ {0}
            BY <2>4, BaseCounts, FileType DEF Base, Numbers
      <4>2. sent \in Toggles(f, old, r)
            BY <2>4
      <4>5. \A m \in DOMAIN Objects(r) : m \in old \/ \E k \in DOMAIN sent : sent[k] = Toggle(f, m - 1)
            BY <1>1, <4>1, <4>2, TogglesCount
      <4>3. \E k \in DOMAIN sent : sent[k] = Toggle(f, l - 1)
            BY <3>2, <4>5
      <4>4. Toggle(f, l - 1) \in ToSet(sent)
            BY <4>3 DEF ToSet
      <4> QED BY <2>3, <4>4 DEF Assured
    <3> QED BY <3>1, <3>2
  <2>7. ASSUME NEW g \in 1 .. Len(files'), NEW l \in DOMAIN files'[g].bps
        PROVE  Assured(g, l, files', verified', cmds', evs')
    <3>1. CASE g = f
          BY <2>3, <2>6, <3>1
    <3>2. CASE g # f
      <4>1. files'[g] = files[g] /\ g \in 1 .. Len(files)
            BY <2>3, <3>2
      <4>2. Assured(g, l, files, verified, cmds, evs)
            BY <4>1 DEF VerifiedInv
      <4> QED BY <1>1, <2>3, <2>5, <4>1, <4>2 DEF Assured
    <3> QED BY <3>1, <3>2
  <2> QED BY <2>7 DEF VerifiedInv
<1> QED BY <1>0, <1>2, <1>3, SetBreakpointsTaken

LEMMA NextVerified == ASSUME Base, AgreeInv, VerifiedInv, [Next]_vars PROVE VerifiedInv'
<1>1. CASE Quiet
      BY <1>1, QuietVerified
<1>2. CASE ToggleBreakpoint
      BY <1>2, ToggleVerified
<1>3. CASE FrontLoadScript
      BY <1>3, LoadVerified
<1>4. CASE FrontSetBreakpoint
      BY <1>4, ToldVerified
<1>5. ASSUME NEW p \in Path, NEW req \in Requests, SetBreakpoints(p, req) PROVE VerifiedInv'
      BY <1>5, RequestVerified
<1> QED BY <1>1, <1>2, <1>3, <1>4, <1>5, NextCases

\* Nothing can verify an id.
NeverShown(id, v, fs, pe) ==
    /\ id \notin v
    /\ \A f \in 1 .. Len(fs) : \A l \in DOMAIN fs[f].bps : fs[f].bps[l].id # id
    /\ \A p \in Path : \A k \in Good(pe[p]) : pe[p][k].id # id

\* The ids of the breakpoints whose condition does not compile.
Rejected(w) == UNION {{w[p][k].id : k \in {j \in DOMAIN w[p] : w[p][j].bad}} : p \in Path}
BadInv == \A id \in Rejected(wish) : NeverShown(id, verified, files, pending)

LEMMA RejectedGiven == ASSUME Base, NEW id \in Rejected(wish) PROVE id \in 1 .. lastId
BY DEF Rejected, Base, Numbered

LEMMA LoadBad == ASSUME Base, BadInv, FrontLoadScript PROVE BadInv'
<1>1. PICK p \in Path : \E f, sent : Loading(p, f, sent)
      BY FrontLoadScriptForm
<1>2. PICK f, sent : Loading(p, f, sent)
      BY <1>1
<1>3. /\ f = Len(files) + 1 /\ pending[p] \in Seq(Entry)
      /\ Len(files') = f /\ files'[f].bps = Objects(pending[p])
      /\ \A g \in 1 .. Len(files) : files'[g] = files[g]
      /\ pending' = [pending EXCEPT ![p] = <<>>]
      /\ verified' = verified /\ wish' = wish
      BY <1>2 DEF Loading
<1>4. Len(files) \in Nat /\ pending \in [Path -> Seq(Entry)]
      BY BaseCounts DEF Base, Typed, TablesTyped, Numbers
<1>5. ASSUME NEW id \in Rejected(wish) PROVE NeverShown(id, verified', files', pending')
  <2>1. NeverShown(id, verified, files, pending)
        BY DEF BadInv
  <2>2. ASSUME NEW g \in 1 .. Len(files'), NEW l \in DOMAIN files'[g].bps
        PROVE  files'[g].bps[l].id # id
    <3>1. CASE g = f
      <4>1. PICK r \in Seq(Entry) : r = pending[p]
            BY <1>3
      <4>2. l \in DOMAIN Objects(r)
            BY <1>3, <3>1, <4>1
      <4>3. PICK k \in Good(r) : Objects(r)[l].id = r[k].id
            BY <4>2, ObjectsType
      <4> QED BY <1>3, <2>1, <3>1, <4>1, <4>3 DEF NeverShown
    <3>2. CASE g # f
      <4>1. g \in 1 .. Len(files) /\ files'[g] = files[g]
            BY <1>3, <1>4, <2>2, <3>2
      <4> QED BY <2>1, <4>1 DEF NeverShown
    <3> QED BY <3>1, <3>2
  <2>3. ASSUME NEW q \in Path, NEW k \in Good(pending'[q]) PROVE pending'[q][k].id # id
    <3>1. CASE q = p
      <4>1. pending'[q] = <<>>
            BY <1>3, <1>4, <3>1
      <4> QED BY <4>1 DEF Good
    <3>2. CASE q # p
      <4>1. pending'[q] = pending[q]
            BY <1>3, <1>4, <3>2
      <4> QED BY <2>1, <4>1 DEF NeverShown
    <3> QED BY <3>1, <3>2
  <2> QED BY <1>3, <2>1, <2>2, <2>3 DEF NeverShown
<1> QED BY <1>3, <1>5 DEF BadInv

LEMMA ToldBad == ASSUME Base, BadInv, FrontSetBreakpoint PROVE BadInv'
<1>0. PICK e : e = Head(evs)
      OBVIOUS
<1>1. /\ e.file \in 1 .. Len(files) /\ UNCHANGED <<files, pending, wish>>
      /\ verified' = verified \cup
             {files[e.file].bps[l].id : l \in {e.line + 1} \cap {l \in DOMAIN files[e.file].bps : e.set}}
      BY <1>0, FrontSetBreakpointTaken
<1>2. ASSUME NEW id \in Rejected(wish) PROVE NeverShown(id, verified', files', pending')
  <2>1. NeverShown(id, verified, files, pending)
        BY DEF BadInv
  <2>2. id \notin verified'
        BY <1>1, <2>1 DEF NeverShown
  <2> QED BY <1>1, <2>1, <2>2 DEF NeverShown
<1> QED BY <1>1, <1>2 DEF BadInv

\* The ids of a request are new, and those of its good entries are not rejected.
LEMMA RequestIds ==
    ASSUME Base, NEW req \in Requests
    PROVE  /\ WithIds(req) \in Seq(Entry)
           /\ \A k \in DOMAIN WithIds(req) : WithIds(req)[k].id \notin 1 .. lastId
           /\ \A j, k \in DOMAIN WithIds(req) :
                 WithIds(req)[j].bad /\ ~WithIds(req)[k].bad => WithIds(req)[j].id # WithIds(req)[k].id
<1>1. lastId \in Nat
      BY DEF Base, Typed, TablesTyped
<1>2. /\ WithIds(req) \in Seq(Entry) /\ DOMAIN WithIds(req) = DOMAIN req
      /\ \A k \in DOMAIN req : WithIds(req)[k].id = lastId + k
      BY <1>1, WithIdsType
<1>3. \A k \in DOMAIN req : k \in Nat \ {0}
  <2>1. DOMAIN req = 1 .. Len(req) /\ Len(req) \in Nat
        BY BreakpointsAssumption, LenProperties
  <2> QED BY <2>1
<1>4. \A k \in DOMAIN req : WithIds(req)[k].id \notin 1 .. lastId
      BY <1>1, <1>2, <1>3
<1>5. \A j, k \in DOMAIN req : WithIds(req)[j].id = WithIds(req)[k].id => j = k
      BY <1>1, <1>2, <1>3
<1>6. ASSUME NEW j \in DOMAIN WithIds(req), NEW k \in DOMAIN WithIds(req),
             WithIds(req)[j].bad, ~WithIds(req)[k].bad
      PROVE  WithIds(req)[j].id # WithIds(req)[k].id
  <2>1. j # k
        BY <1>6
  <2> QED BY <1>2, <1>5, <2>1
<1> QED BY <1>2, <1>4, <1>6

LEMMA RequestBad ==
    ASSUME Base, BadInv, NEW p \in Path, NEW req \in Requests, SetBreakpoints(p, req)
    PROVE  BadInv'
<1>0. PICK r : r = WithIds(req)
      OBVIOUS
<1>1. /\ r \in Seq(Entry) /\ \A k \in DOMAIN r : r[k].id \notin 1 .. lastId
      /\ \A j, k \in DOMAIN r : r[j].bad /\ ~r[k].bad => r[j].id # r[k].id
      BY <1>0, RequestIds
<1>2. wish' = [wish EXCEPT ![p] = r]
      BY <1>0, SetBreakpointsTaken DEF Requested
<1>3. /\ wish \in [Path -> Seq(Entry)] /\ pending \in [Path -> Seq(Entry)]
      /\ verified \in SUBSET (1 .. lastId)
      BY DEF Base, Typed, TablesTyped, ClientTyped
<1>4. ASSUME NEW id \in Rejected(wish')
      PROVE  /\ NeverShown(id, verified, files, pending)
             /\ \A k \in Good(r) : r[k].id # id
  <2>1. PICK q \in Path : id \in {wish'[q][k].id : k \in {j \in DOMAIN wish'[q] : wish'[q][j].bad}}
        BY <1>4 DEF Rejected
  <2>2. CASE q = p
    <3>1. PICK j \in DOMAIN r : r[j].bad /\ id = r[j].id
          BY <1>2, <1>3, <2>1, <2>2
    <3>2. id \notin 1 .. lastId
          BY <1>1, <3>1
    <3>3. \A k \in Good(r) : r[k].id # id
          BY <1>1, <3>1 DEF Good
    <3>4. NeverShown(id, verified, files, pending)
          BY <1>3, <3>2 DEF NeverShown, Good, Base, Numbered
    <3> QED BY <3>3, <3>4
  <2>3. CASE q # p
    <3>1. id \in Rejected(wish)
          BY <1>2, <1>3, <2>1, <2>3 DEF Rejected
    <3>2. id \in 1 .. lastId
          BY <3>1, RejectedGiven
    <3> QED BY <1>1, <3>1, <3>2 DEF BadInv, Good
  <2> QED BY <2>2, <2>3
<1>5. CASE KeepForLoad(p, r)
  <2>1. pending' = [pending EXCEPT ![p] = r] /\ UNCHANGED <<files, verified>>
        BY <1>5 DEF KeepForLoad
  <2>2. ASSUME NEW id \in Rejected(wish') PROVE NeverShown(id, verified', files', pending')
    <3>1. NeverShown(id, verified, files, pending) /\ \A k \in Good(r) : r[k].id # id
          BY <1>4
    <3>2. ASSUME NEW q \in Path, NEW k \in Good(pending'[q]) PROVE pending'[q][k].id # id
      <4>1. CASE q = p
        <5>1. pending'[q] = r
              BY <1>3, <2>1, <4>1
        <5> QED BY <3>1, <5>1
      <4>2. CASE q # p
        <5>1. pending'[q] = pending[q]
              BY <1>3, <2>1, <4>2
        <5> QED BY <3>1, <5>1 DEF NeverShown
      <4> QED BY <4>1, <4>2
    <3> QED BY <2>1, <3>1, <3>2 DEF NeverShown
  <2> QED BY <2>2 DEF BadInv
<1>6. CASE SetInFile(p, r)
  <2>1. PICK f \in 1 .. Len(files) : \E sent \in Toggles(f, DOMAIN files[f].bps, r) :
           Set(p, r, f, sent)
        BY <1>1, <1>6, SetInFileTaken
  <2>2. PICK sent \in Toggles(f, DOMAIN files[f].bps, r) : Set(p, r, f, sent)
        BY <2>1
  <2>3. /\ Len(files') = Len(files) /\ files'[f].bps = Objects(r)
        /\ \A g \in 1 .. Len(files) : g # f => files'[g] = files[g]
        BY <1>1, <2>2, SetFiles
  <2>4. /\ verified' = verified \cup VerifiedAtOnce(DOMAIN files[f].bps, r)
        /\ pending' = pending
        BY <2>2 DEF Set
  <2>5. ASSUME NEW id \in Rejected(wish') PROVE NeverShown(id, verified', files', pending')
    <3>1. NeverShown(id, verified, files, pending) /\ \A k \in Good(r) : r[k].id # id
          BY <1>4
    <3>2. id \notin verified'
          BY <2>4, <3>1 DEF NeverShown, VerifiedAtOnce
    <3>3. ASSUME NEW g \in 1 .. Len(files'), NEW l \in DOMAIN files'[g].bps
          PROVE  files'[g].bps[l].id # id
      <4>1. CASE g = f
        <5>1. l \in DOMAIN Objects(r) /\ files'[g].bps[l] = Objects(r)[l]
              BY <2>3, <4>1
        <5>3. \A m \in DOMAIN Objects(r) : \E k \in Good(r) :
                 r[k].line = m /\ Objects(r)[m].id = r[k].id
          <6>1. r \in Seq(Entry)
                BY <1>1
          <6> QED BY <6>1, ObjectsType
        <5>2. PICK k \in Good(r) : Objects(r)[l].id = r[k].id
              BY <5>1, <5>3
        <5> QED BY <3>1, <5>1, <5>2
      <4>2. CASE g # f
        <5>1. g \in 1 .. Len(files) /\ files'[g] = files[g]
              BY <2>3, <4>2
        <5> QED BY <3>1, <5>1 DEF NeverShown
      <4> QED BY <4>1, <4>2
    <3> QED BY <2>4, <3>1, <3>2, <3>3 DEF NeverShown
  <2> QED BY <2>5 DEF BadInv
<1> QED BY <1>0, <1>5, <1>6, SetBreakpointsTaken

LEMMA NextBad == ASSUME Base, BadInv, [Next]_vars PROVE BadInv'
<1>1. CASE Quiet
  <2>1. UNCHANGED <<files, pending, wish, verified>>
        BY <1>1, QuietSame DEF Same
  <2> QED BY <2>1 DEF BadInv
<1>2. CASE ToggleBreakpoint
  <2>1. UNCHANGED <<files, pending, wish, verified>>
        BY <1>2, ToggleTaken DEF Toggled
  <2> QED BY <2>1 DEF BadInv
<1>3. CASE FrontLoadScript
      BY <1>3, LoadBad
<1>4. CASE FrontSetBreakpoint
      BY <1>4, ToldBad
<1>5. ASSUME NEW p \in Path, NEW req \in Requests, SetBreakpoints(p, req) PROVE BadInv'
      BY <1>5, RequestBad
<1> QED BY <1>1, <1>2, <1>3, <1>4, <1>5, NextCases

\* With nothing under way, the lines of the table are those of the script.
LEMMA RestAgrees ==
    ASSUME Base, AgreeInv, cmds = <<>>, NEW f \in 1 .. Len(files), NEW b \in Nat
    PROVE  b + 1 \in DOMAIN files[f].bps <=> b \in scripts[f].bps
<1>1. Count(cmds, {Toggle(f, b)}) = 0
      BY CountNone
<1>2. ~IsOdd(Count(cmds, {Toggle(f, b)}))
      BY <1>1 DEF IsOdd
<1>3. Agree(f, b, files, scripts, cmds)
      BY DEF AgreeInv
<1> QED BY <1>2, <1>3 DEF Agree

LEMMA RestShown ==
    ASSUME Base, AgreeInv, WishInv, VerifiedInv, BadInv, NEW p \in Path,
           latest[p] # 0, cmds = <<>>, \A k \in DOMAIN evs : evs[k].type # "SetBreakpoint"
    PROVE  {wish[p][k].line - 1 : k \in {j \in DOMAIN wish[p] : wish[p][j].id \in verified}}
           = scripts[latest[p]].bps
<1>1. PICK f \in 1 .. Len(files) : f = latest[p]
  <2>1. latest[p] \in 0 .. Len(files) /\ Len(files) \in Nat
        BY BaseCounts DEF Base, Typed, TablesTyped, Numbers
  <2> QED BY <2>1
<1>2. PICK r \in Seq(Entry) : r = wish[p] /\ files[f].bps = Objects(r)
  <2>1. wish[p] \in Seq(Entry)
        BY DEF Base, Typed, ClientTyped
  <2>2. files[f].bps = Objects(wish[p])
        BY <1>1 DEF WishInv, Kept
  <2> QED BY <2>1, <2>2
<1>3. \A k \in DOMAIN r : r[k] \in Entry /\ r[k].line - 1 \in Nat /\ r[k].line = (r[k].line - 1) + 1
  <2>1. \A k \in DOMAIN r : r[k] \in Entry
        BY LenProperties
  <2> QED BY <2>1 DEF Entry, Lines
<1>6. /\ DOMAIN Objects(r) = {r[k].line : k \in Good(r)}
      /\ \A l \in DOMAIN Objects(r) : \E k \in Good(r) :
            r[k].line = l /\ Objects(r)[l].id = r[k].id
      BY ObjectsType
<1>4. ASSUME NEW k \in DOMAIN r, r[k].id \in verified PROVE r[k].line - 1 \in scripts[f].bps
  <2>1. k \in Good(r)
    <3>1. CASE r[k].bad
      <4>1. r[k].id \in Rejected(wish)
            BY <1>2, <3>1 DEF Rejected
      <4> QED BY <1>4, <4>1 DEF BadInv, NeverShown
    <3>2. CASE ~r[k].bad
          BY <3>2 DEF Good
    <3> QED BY <3>1, <3>2
  <2>2. r[k].line \in DOMAIN files[f].bps
        BY <1>2, <1>6, <2>1
  <2>3. PICK b \in Nat : b = r[k].line - 1 /\ r[k].line = b + 1
        BY <1>3
  <2> QED BY <2>2, <2>3, RestAgrees
<1>5. ASSUME NEW b \in scripts[f].bps
      PROVE  \E k \in DOMAIN r : r[k].id \in verified /\ r[k].line - 1 = b
  <2>1. b \in Nat
    <3>1. scripts[f] \in Script0
          BY FileScript, ElementOfSeq DEF Base, Typed, BackendTyped
    <3> QED BY <3>1 DEF Script0
  <2>2. b + 1 \in DOMAIN files[f].bps
        BY <2>1, RestAgrees
  <2>3. PICK l \in DOMAIN files[f].bps : l = b + 1
        BY <2>2
  <2>4. Assured(f, l, files, verified, cmds, evs)
        BY DEF VerifiedInv
  <2>5. Toggle(f, l - 1) \notin ToSet(cmds)
        BY SetEmpty
  <2>6. Told(f, l) \notin ToSet(evs)
    <3>1. Told(f, l).type = "SetBreakpoint"
          BY DEF Told
    <3> QED BY <3>1 DEF ToSet
  <2>7. files[f].bps[l].id \in verified
        BY <2>4, <2>5, <2>6 DEF Assured
  <2>8. PICK k \in Good(r) : r[k].line = l /\ Objects(r)[l].id = r[k].id
        BY <1>2, <1>6
  <2>9. k \in DOMAIN r /\ r[k].id \in verified
        BY <1>2, <2>7, <2>8 DEF Good
  <2>10. r[k].line - 1 = b
         BY <2>1, <2>3, <2>8
  <2> QED BY <2>9, <2>10
<1> QED BY <1>1, <1>2, <1>4, <1>5

\* breakpoint.lua:132: where no request has a line twice and no path has two scripts, the
\* user sees as verified what the backend has, once nothing is under way.
THEOREM VerifiedCorrectly == OnceEach /\ OneScriptPerPath => (Spec => []VerifiedAtRest)
<1> SUFFICES ASSUME OnceEach, OneScriptPerPath PROVE Spec => []VerifiedAtRest
    OBVIOUS
<1>1. Init => VerifiedInv /\ BadInv
  <2> SUFFICES ASSUME Init PROVE VerifiedInv /\ BadInv
      OBVIOUS
  <2>1. Len(files) = 0 /\ Rejected(wish) = {}
        BY EmptySeq DEF Init, Rejected
  <2> QED BY <2>1 DEF VerifiedInv, BadInv
<1>2. Base /\ AgreeInv /\ VerifiedInv /\ [Next]_vars => VerifiedInv'
      BY NextVerified
<1>3. Base /\ BadInv /\ [Next]_vars => BadInv'
      BY NextBad
<1>4. Base /\ AgreeInv /\ WishInv /\ VerifiedInv /\ BadInv => VerifiedAtRest
      BY RestShown DEF VerifiedAtRest
<1> QED BY <1>1, <1>2, <1>3, <1>4, BaseAlways, AgreeAlways, WishAlways, PTL DEF Spec

=============================================================================
