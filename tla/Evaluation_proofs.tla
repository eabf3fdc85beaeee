-------------------------- MODULE Evaluation_proofs --------------------------
(***************************************************************************)
(* Proofs about Evaluation: its type invariant, and that it implements     *)
(* Frame in every frame whose visible locals have names of their own and   *)
(* are captured by no function in reach.                                   *)
(***************************************************************************)
EXTENDS Evaluation, WellFoundedInduction, TLAPS

-----------------------------------------------------------------------------
(* The sentinel for nil.                                                   *)

LEMMA UnboxedBoxed ==
    ASSUME NEW v \in Value
    PROVE  /\ Unboxed(Boxed(v)) = v
           /\ Boxed(v) \in Cell /\ Boxed(v) # Nil
BY EvaluationAssumption DEF Unboxed, Boxed, Cell

LEMMA UnboxedType == ASSUME NEW c \in Cell PROVE Unboxed(c) \in Value
BY EvaluationAssumption DEF Unboxed, Cell

\* A set of natural numbers with a member has a least one.
LEMMA LeastExists ==
    ASSUME NEW T \in SUBSET Nat, T # {}
    PROVE  \E n \in T : \A m \in T : n <= m
<1> DEFINE less == OpToRel(<, Nat)
<1>1. \E n \in T : \A m \in T : <<m, n>> \notin less
      BY WFMin, NatLessThanWellFounded
<1>2. \A m, n \in Nat : m < n => <<m, n>> \in less
      BY Zenon DEF OpToRel
<1> HIDE DEF less
<1>3. PICK n \in T : \A m \in T : <<m, n>> \notin less
      BY <1>1
<1>4. ASSUME NEW m \in T PROVE ~(m < n)
      BY <1>2, <1>3
<1> QED BY <1>4

\* Among the locals of a name there is a last one.
LEMMA LastExists ==
    ASSUME NEW x, NEW i \in Index, LocalName[i] = x
    PROVE  \E j \in Index : Last(j, x)
<1> DEFINE T == {Len(LocalName) - k : k \in {j \in Index : LocalName[j] = x}}
<1>1. Index = 1 .. Len(LocalName) /\ Len(LocalName) \in Nat
      BY EvaluationAssumption DEF Index
<1>2. T \in SUBSET Nat /\ T # {}
      BY <1>1
<1>3. PICK n \in T : \A m \in T : n <= m
      BY <1>2, LeastExists
<1>4. PICK j \in Index : LocalName[j] = x /\ n = Len(LocalName) - j
      BY <1>3
<1>5. ASSUME NEW k \in Index, LocalName[k] = x
      PROVE  k <= j
  <2>1. Len(LocalName) - k \in T
        BY <1>5
  <2>2. n <= Len(LocalName) - k
        BY <2>1, <1>3
  <2> QED BY <1>1, <1>4, <2>2
<1> QED BY <1>1, <1>4, <1>5 DEF Last

-----------------------------------------------------------------------------
(* Types.                                                                  *)

LEMMA CopiesTyped ==
    ASSUME TypeOK
    PROVE  CopyLocal \in [Visible -> Cell] /\ CopyUpvalue \in [Visible -> Cell]
<1>1. Nil \in Cell
      BY EvaluationAssumption DEF Cell
<1>2. ASSUME NEW x \in Visible PROVE CopyLocal[x] \in Cell
  <2>1. CASE \E i \in Index : LocalName[i] = x
    <3>1. (CHOOSE i \in Index : Last(i, x)) \in Index
          BY <2>1, LastExists
    <3>2. locals[CHOOSE i \in Index : Last(i, x)] \in Value
          BY <3>1 DEF TypeOK
    <3> QED BY <2>1, <3>2, UnboxedBoxed DEF CopyLocal
  <2>2. CASE ~\E i \in Index : LocalName[i] = x
        BY <1>1, <2>2 DEF CopyLocal
  <2> QED BY <2>1, <2>2
<1>3. ASSUME NEW x \in Visible PROVE CopyUpvalue[x] \in Cell
  <2>1. CASE \E i \in DOMAIN UpvalueName : UpvalueName[i] = x
    <3>1. (CHOOSE i \in DOMAIN UpvalueName : UpvalueName[i] = x) \in DOMAIN UpvalueName
          BY <2>1
    <3>2. upvalues[CHOOSE i \in DOMAIN UpvalueName : UpvalueName[i] = x] \in Value
          BY <3>1 DEF TypeOK
    <3> QED BY <2>1, <3>2, UnboxedBoxed DEF CopyUpvalue
  <2>2. CASE ~\E i \in DOMAIN UpvalueName : UpvalueName[i] = x
        BY <1>1, <2>2 DEF CopyUpvalue
  <2> QED BY <2>1, <2>2
<1> QED BY <1>2, <1>3 DEF CopyLocal, CopyUpvalue

LEMMA EmptyTyped == Empty \in [Visible -> Cell]
BY EvaluationAssumption DEF Empty, Cell

\* The names of the frame that the tables have.
LEMMA NamesTyped ==
    /\ \A i \in Index : LocalName[i] \notin Hidden => LocalName[i] \in Visible
    /\ \A i \in DOMAIN UpvalueName : UpvalueName[i] \in Visible
BY EvaluationAssumption DEF Index, Visible

LEMMA EndTyped ==
    ASSUME TypeOK
    PROVE  /\ SetLocals \in [Index -> Value]
           /\ SetUpValues \in [DOMAIN UpvalueName -> Value]
<1>1. ASSUME NEW i \in Index, LocalName[i] \notin Hidden
      PROVE  Unboxed(localTable[LocalName[i]]) \in Value
      BY <1>1, NamesTyped, UnboxedType DEF TypeOK
<1>2. ASSUME NEW i \in DOMAIN UpvalueName
      PROVE  Unboxed(upValueTable[UpvalueName[i]]) \in Value
      BY NamesTyped, UnboxedType DEF TypeOK
<1> QED BY <1>1, <1>2 DEF SetLocals, SetUpValues, TypeOK

LEMMA StepTyped ==
    ASSUME TypeOK, [Next]_vars
    PROVE  TypeOK'
<1>1. CASE Begin
      BY <1>1, CopiesTyped DEF Begin, TypeOK, frame
<1>2. ASSUME NEW x \in Visible, IndexChained(x)
      PROVE  TypeOK'
  <2>1. localTable[x] \in Cell /\ upValueTable[x] \in Cell /\ globals[x] \in Cell
        BY DEF TypeOK, Cell
  <2>2. seen' \in Value
        BY <1>2, <2>1, UnboxedType DEF IndexChained
  <2> QED BY <1>2, <2>2 DEF IndexChained, TypeOK, frame
<1>3. ASSUME NEW x \in Visible, NEW v \in Value, NewIndexChained(x, v)
      PROVE  TypeOK'
      BY <1>3, UnboxedBoxed DEF NewIndexChained, TypeOK
<1>4. ASSUME NEW x \in Visible, NEW v \in Value, CallSetsGlobal(x, v)
      PROVE  TypeOK'
      BY <1>4 DEF CallSetsGlobal, TypeOK
<1>5. ASSUME NEW i \in Captured, NEW v \in Value, CallSetsLocal(i, v)
      PROVE  TypeOK'
      BY <1>5 DEF CallSetsLocal, TypeOK
<1>6. CASE End
      BY <1>6, EndTyped, EmptyTyped DEF End, TypeOK
<1>7. CASE UNCHANGED vars
      BY <1>7 DEF vars, frame, TypeOK
<1> QED BY <1>1, <1>2, <1>3, <1>4, <1>5, <1>6, <1>7 DEF Next, Chunk

\* In every reachable state of an evaluation the frame and the tables have the
\* values they can have, the sentinel in the tables only (DebugBackend.cpp
\* 1644-1712, 1908-2131).
THEOREM TypeCorrect == Spec => []TypeOK
<1>1. Init => TypeOK
      BY EmptyTyped, EvaluationAssumption DEF Init, TypeOK
<1>2. TypeOK /\ [Next]_vars => TypeOK'
      BY StepTyped
<1> QED BY <1>1, <1>2, PTL DEF Spec

-----------------------------------------------------------------------------
(* The refinement.                                                         *)

\* Every local of the frame that has a name has one of its own: there is no
\* local x = ...; local x = ... in one function, and no block that hides one.
LocalsDistinct ==
    \A i, j \in Index :
        LocalName[i] = LocalName[j] /\ LocalName[i] \notin Hidden => i = j

LEMMA OnlyInnermost ==
    ASSUME LocalsDistinct, NEW x \in Visible, NEW i \in Index
    PROVE  Lexical!Innermost(i, x) <=> LocalName[i] = x
<1>1. Index = 1 .. Len(LocalName)
      BY EvaluationAssumption DEF Index
<1>2. ASSUME LocalName[i] = x, NEW j \in Index, j > i
      PROVE  LocalName[j] # x
  <2>1. j # i
        BY <1>1, <1>2
  <2> QED BY <1>2, <2>1 DEF LocalsDistinct, Visible
<1> QED BY <1>2 DEF Lexical!Innermost, Lexical!Index, Index

\* While a chunk runs, the tables have exactly the names of the frame.
Declared ==
    evaluating => \A x \in Visible :
        /\ localTable[x] # Nil <=> \E i \in Index : LocalName[i] = x
        /\ upValueTable[x] # Nil <=> \E i \in DOMAIN UpvalueName : UpvalueName[i] = x

LEMMA BeginDeclares ==
    ASSUME TypeOK, Begin
    PROVE  Declared'
<1>1. ASSUME NEW x \in Visible
      PROVE  CopyLocal[x] # Nil <=> \E i \in Index : LocalName[i] = x
  <2>1. CASE \E i \in Index : LocalName[i] = x
    <3>1. (CHOOSE i \in Index : Last(i, x)) \in Index
          BY <2>1, LastExists
    <3>2. locals[CHOOSE i \in Index : Last(i, x)] \in Value
          BY <3>1 DEF TypeOK
    <3> QED BY <2>1, <3>2, UnboxedBoxed DEF CopyLocal
  <2>2. CASE ~\E i \in Index : LocalName[i] = x
        BY <2>2 DEF CopyLocal
  <2> QED BY <2>1, <2>2
<1>2. ASSUME NEW x \in Visible
      PROVE  CopyUpvalue[x] # Nil <=> \E i \in DOMAIN UpvalueName : UpvalueName[i] = x
  <2>1. CASE \E i \in DOMAIN UpvalueName : UpvalueName[i] = x
    <3>1. (CHOOSE i \in DOMAIN UpvalueName : UpvalueName[i] = x) \in DOMAIN UpvalueName
          BY <2>1
    <3>2. upvalues[CHOOSE i \in DOMAIN UpvalueName : UpvalueName[i] = x] \in Value
          BY <3>1 DEF TypeOK
    <3> QED BY <2>1, <3>2, UnboxedBoxed DEF CopyUpvalue
  <2>2. CASE ~\E i \in DOMAIN UpvalueName : UpvalueName[i] = x
        BY <2>2 DEF CopyUpvalue
  <2> QED BY <2>1, <2>2
<1> QED BY <1>1, <1>2 DEF Declared, Begin

LEMMA StepDeclares ==
    ASSUME TypeOK, Declared, [Next]_vars
    PROVE  Declared'
<1>1. CASE Begin
      BY <1>1, BeginDeclares
<1>2. ASSUME NEW x \in Visible, NEW v \in Value, NewIndexChained(x, v)
      PROVE  Declared'
      BY <1>2, UnboxedBoxed DEF NewIndexChained, Declared, TypeOK
<1>3. CASE End
      BY <1>3 DEF End, Declared
<1>4. ASSUME UNCHANGED <<evaluating, localTable, upValueTable>>
      PROVE  Declared'
      BY <1>4 DEF Declared
<1> QED BY <1>1, <1>2, <1>3, <1>4
        DEF Next, Chunk, IndexChained, CallSetsGlobal, CallSetsLocal, vars

\* Beginning gives every variable the value it has.
LEMMA BeginStutters ==
    ASSUME TypeOK, LocalsDistinct, Begin
    PROVE  UNCHANGED <<MappedLocals, MappedUpvalues, globals, seen>>
<1>1. ASSUME NEW i \in Index, LocalName[i] \notin Hidden
      PROVE  Unboxed(CopyLocal[LocalName[i]]) = locals[i]
  <2> DEFINE x == LocalName[i]
             chosen == CHOOSE j \in Index : Last(j, x)
  <2>1. chosen \in Index /\ Last(chosen, x)
        BY LastExists
  <2>2. chosen = i
        BY <1>1, <2>1 DEF LocalsDistinct, Last
  <2>3. x \in Visible
        BY <1>1, NamesTyped
  <2>4. CopyLocal[x] = Boxed(locals[i])
        BY <2>2, <2>3 DEF CopyLocal
  <2>5. locals[i] \in Value
        BY DEF TypeOK
  <2> QED BY <2>4, <2>5, UnboxedBoxed
<1>2. ASSUME NEW i \in DOMAIN UpvalueName
      PROVE  Unboxed(CopyUpvalue[UpvalueName[i]]) = upvalues[i]
  <2> DEFINE x == UpvalueName[i]
             chosen == CHOOSE j \in DOMAIN UpvalueName : UpvalueName[j] = x
  <2>1. chosen \in DOMAIN UpvalueName /\ UpvalueName[chosen] = x
        OBVIOUS
  <2>2. chosen = i
        BY <2>1, EvaluationAssumption
  <2>3. x \in Visible
        BY NamesTyped
  <2>4. CopyUpvalue[x] = Boxed(upvalues[i])
        BY <2>2, <2>3 DEF CopyUpvalue
  <2>5. upvalues[i] \in Value
        BY DEF TypeOK
  <2> QED BY <2>4, <2>5, UnboxedBoxed
<1>3. locals = [i \in Index |-> locals[i]]
      BY DEF TypeOK
<1>4. upvalues = [i \in DOMAIN UpvalueName |-> upvalues[i]]
      BY DEF TypeOK
<1>5. MappedLocals = locals
      BY <1>3 DEF MappedLocals, Begin
<1>6. MappedLocals' = locals
      BY <1>1, <1>3 DEF MappedLocals, Begin, frame
<1>7. MappedUpvalues = upvalues
      BY <1>4 DEF MappedUpvalues, Begin
<1>8. MappedUpvalues' = upvalues
      BY <1>2, <1>4 DEF MappedUpvalues, Begin, frame
<1> QED BY <1>5, <1>6, <1>7, <1>8 DEF Begin, frame

\* Ending gives the variables of the frame what the tables say.
LEMMA EndStutters ==
    ASSUME TypeOK, End
    PROVE  UNCHANGED <<MappedLocals, MappedUpvalues, globals, seen>>
<1>1. MappedLocals' = SetLocals
      BY EndTyped DEF MappedLocals, End
<1>2. MappedLocals = SetLocals
      BY DEF MappedLocals, SetLocals, End
<1>3. MappedUpvalues' = SetUpValues
      BY EndTyped DEF MappedUpvalues, End
<1>4. MappedUpvalues = SetUpValues
      BY DEF MappedUpvalues, SetUpValues, End
<1> QED BY <1>1, <1>2, <1>3, <1>4 DEF End

\* Reading a name reads the variable it stands for.
LEMMA ReadGets ==
    ASSUME TypeOK, Declared, LocalsDistinct, NEW x \in Visible, IndexChained(x)
    PROVE  Lexical!Get(x)
<1>1. UNCHANGED <<MappedLocals, MappedUpvalues, globals>>
      BY DEF IndexChained, MappedLocals, MappedUpvalues, frame
<1>2. CASE \E i \in Index : LocalName[i] = x
  <2>1. PICK i \in Index : LocalName[i] = x
        BY <1>2
  <2>2. Lexical!Innermost(i, x)
        BY <2>1, OnlyInnermost
  <2>3. seen' = Unboxed(localTable[x])
        BY <1>2 DEF IndexChained, Declared
  <2>4. MappedLocals[i] = Unboxed(localTable[x])
        BY <2>1 DEF MappedLocals, IndexChained, Visible
  <2> QED BY <1>1, <2>2, <2>3, <2>4 DEF Lexical!Get, Lexical!Index, Index
<1>3. CASE /\ ~\E i \in Index : LocalName[i] = x
           /\ \E i \in DOMAIN UpvalueName : UpvalueName[i] = x
  <2>1. PICK i \in DOMAIN UpvalueName : UpvalueName[i] = x
        BY <1>3
  <2>2. seen' = Unboxed(upValueTable[x])
        BY <1>3 DEF IndexChained, Declared
  <2>3. MappedUpvalues[i] = Unboxed(upValueTable[x])
        BY <2>1 DEF MappedUpvalues, IndexChained
  <2> QED BY <1>1, <1>3, <2>1, <2>2, <2>3
          DEF Lexical!Get, Lexical!IsLocal, Lexical!Index, Index
<1>4. CASE /\ ~\E i \in Index : LocalName[i] = x
           /\ ~\E i \in DOMAIN UpvalueName : UpvalueName[i] = x
  <2>1. seen' = Unboxed(globals[x])
        BY <1>4 DEF IndexChained, Declared
  <2>2. globals[x] \in Value
        BY DEF TypeOK
  <2>3. Unboxed(globals[x]) = globals[x]
        BY <2>2, EvaluationAssumption DEF Unboxed
  <2> QED BY <1>1, <1>4, <2>1, <2>3
          DEF Lexical!Get, Lexical!IsLocal, Lexical!IsUpvalue, Lexical!Index, Index
<1> QED BY <1>2, <1>3, <1>4

\* Assigning to a name assigns to the variable it stands for, and to no other.
LEMMA AssignSets ==
    ASSUME TypeOK, Declared, LocalsDistinct, NEW x \in Visible, NEW v \in Value,
           NewIndexChained(x, v)
    PROVE  Lexical!Set(x, v)
<1>1. /\ UNCHANGED <<locals, upvalues, seen>> /\ evaluating /\ evaluating'
      BY DEF NewIndexChained
<1>2. Unboxed(Boxed(v)) = v
      BY UnboxedBoxed
<1>3. ASSUME NEW i \in Index
      PROVE  MappedLocals'[i] = IF Lexical!Innermost(i, x) THEN v ELSE MappedLocals[i]
  <2>1. Lexical!Innermost(i, x) <=> LocalName[i] = x
        BY OnlyInnermost
  <2>2. CASE LocalName[i] = x
    <3>1. localTable' = [localTable EXCEPT ![x] = Boxed(v)]
          BY <1>1, <2>2 DEF NewIndexChained, Declared
    <3>2. localTable'[x] = Boxed(v) /\ x \notin Hidden
          BY <3>1 DEF TypeOK, Visible
    <3> QED BY <1>1, <1>2, <2>1, <2>2, <3>2 DEF MappedLocals
  <2>3. CASE LocalName[i] # x
    <3>1. CASE LocalName[i] \notin Hidden
      <4>1. LocalName[i] \in Visible
            BY <3>1, NamesTyped
      <4>2. localTable'[LocalName[i]] = localTable[LocalName[i]]
            BY <2>3, <4>1 DEF NewIndexChained, TypeOK
      <4> QED BY <1>1, <2>1, <2>3, <3>1, <4>2 DEF MappedLocals
    <3>2. CASE LocalName[i] \in Hidden
          BY <1>1, <2>1, <2>3, <3>2 DEF MappedLocals
    <3> QED BY <3>1, <3>2
  <2> QED BY <2>2, <2>3
<1>4. ASSUME NEW i \in DOMAIN UpvalueName
      PROVE  MappedUpvalues'[i] =
                 IF UpvalueName[i] = x /\ ~Lexical!IsLocal(x) THEN v ELSE MappedUpvalues[i]
  <2>1. UpvalueName[i] \in Visible
        BY NamesTyped
  <2>2. Lexical!IsLocal(x) <=> localTable[x] # Nil
        BY <1>1 DEF Declared, Lexical!IsLocal, Lexical!Index, Index
  <2>3. CASE UpvalueName[i] = x /\ ~Lexical!IsLocal(x)
    <3>1. upValueTable' = [upValueTable EXCEPT ![x] = Boxed(v)]
          BY <1>1, <2>2, <2>3 DEF NewIndexChained, Declared
    <3>2. upValueTable'[x] = Boxed(v)
          BY <3>1 DEF TypeOK
    <3> QED BY <1>1, <1>2, <2>3, <3>2 DEF MappedUpvalues
  <2>4. CASE ~(UpvalueName[i] = x /\ ~Lexical!IsLocal(x))
    <3>1. upValueTable'[UpvalueName[i]] = upValueTable[UpvalueName[i]]
          BY <2>1, <2>2, <2>4 DEF NewIndexChained, TypeOK
    <3> QED BY <1>1, <2>4, <3>1 DEF MappedUpvalues
  <2> QED BY <2>3, <2>4
<1>5. globals' = [y \in Visible |->
                     IF y = x /\ ~Lexical!IsLocal(x) /\ ~Lexical!IsUpvalue(x) THEN v
                     ELSE globals[y]]
  <2>1. /\ Lexical!IsLocal(x) <=> localTable[x] # Nil
        /\ Lexical!IsUpvalue(x) <=> upValueTable[x] # Nil
        BY <1>1 DEF Declared, Lexical!IsLocal, Lexical!IsUpvalue, Lexical!Index, Index
  <2> QED BY <2>1 DEF NewIndexChained, TypeOK
<1>6. MappedLocals' = [i \in Index |-> IF Lexical!Innermost(i, x) THEN v ELSE MappedLocals[i]]
      BY <1>3 DEF MappedLocals
<1>7. MappedUpvalues' =
          [i \in DOMAIN UpvalueName |->
              IF UpvalueName[i] = x /\ ~Lexical!IsLocal(x) THEN v ELSE MappedUpvalues[i]]
      BY <1>4 DEF MappedUpvalues
<1> QED BY <1>1, <1>5, <1>6, <1>7 DEF Lexical!Set, Lexical!Index, Index, Visible

LEMMA StepImplements ==
    ASSUME TypeOK, Declared, LocalsDistinct, Captured = {}, [Next]_vars
    PROVE  [Lexical!Next]_(Lexical!vars)
<1> USE DEF Lexical!vars
<1>1. CASE Begin
      BY <1>1, BeginStutters
<1>2. ASSUME NEW x \in Visible, IndexChained(x)
      PROVE  Lexical!Next
      BY <1>2, ReadGets DEF Lexical!Next, Visible
<1>3. ASSUME NEW x \in Visible, NEW v \in Value, NewIndexChained(x, v)
      PROVE  Lexical!Next
      BY <1>3, AssignSets DEF Lexical!Next, Visible
<1>4. ASSUME NEW x \in Visible, NEW v \in Value, CallSetsGlobal(x, v)
      PROVE  Lexical!Next
  <2>1. UNCHANGED <<MappedLocals, MappedUpvalues, seen>>
        BY <1>4 DEF CallSetsGlobal, MappedLocals, MappedUpvalues
  <2>2. Lexical!CallSetsGlobal(x, v)
        BY <1>4, <2>1 DEF CallSetsGlobal, Lexical!CallSetsGlobal
  <2> QED BY <2>2 DEF Lexical!Next, Visible
<1>5. CASE End
      BY <1>5, EndStutters
<1>6. CASE UNCHANGED vars
      BY <1>6 DEF vars, frame, MappedLocals, MappedUpvalues
<1> QED BY <1>1, <1>2, <1>3, <1>4, <1>5, <1>6 DEF Next, Chunk

\* Evaluating through the tables of names does, in every frame without two
\* visible locals of one name and with no function in reach that assigns to its
\* locals, what the chunk would do in the place where the function stopped
\* (DebugBackend.cpp 1868-2302).  Both conditions are needed: see SetLocals.
THEOREM EvaluationImplementsFrame ==
    ASSUME LocalsDistinct, Captured = {}
    PROVE  Spec => EvaluatesInFrame
<1>1. Init => Lexical!Init
  <2> SUFFICES ASSUME Init PROVE Lexical!Init
      OBVIOUS
  <2>1. MappedLocals = locals /\ MappedUpvalues = upvalues
        BY DEF Init, MappedLocals, MappedUpvalues
  <2> QED BY <2>1 DEF Init, Lexical!Init, Lexical!Index, Index, Visible
<1>2. Init => Declared
      BY DEF Init, Declared
<1>3. TypeOK /\ Declared /\ [Next]_vars => Declared'
      BY StepDeclares
<1>4. TypeOK /\ Declared /\ [Next]_vars => [Lexical!Next]_(Lexical!vars)
      BY StepImplements
<1> QED BY <1>1, <1>2, <1>3, <1>4, TypeCorrect, PTL
        DEF Spec, EvaluatesInFrame, Lexical!Spec

=============================================================================
