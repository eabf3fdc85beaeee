----------------------------- MODULE Evaluation -----------------------------
(***************************************************************************)
(* How the backend evaluates an expression or a statement in a frame of a  *)
(* stopped state (DebugBackend.cpp, Evaluate): the locals and the upvalues *)
(* are copied into tables by their names, the chunk runs with an           *)
(* environment that looks names up in the tables and then in the globals,  *)
(* and afterwards, whether it succeeded or not, both tables are copied     *)
(* back.  It implements Frame where no two locals of the frame have the    *)
(* same name and no function in reach assigns to one of them.              *)
(*                                                                         *)
(* What the chunk does is open: it reads and assigns names and calls       *)
(* functions, in any order, and ends, by its end or by an error.  In a     *)
(* table of Lua, Nil is what is not there.                                 *)
(***************************************************************************)
EXTENDS Naturals, Sequences

CONSTANTS Name, Hidden, Value, Nil,
          Sentinel,            \* stands for a nil that was declared
          LocalName, UpvalueName, Captured

ASSUME EvaluationAssumption ==
    /\ Nil \in Value /\ Sentinel \notin Value
    /\ Hidden \subseteq Name
    /\ LocalName \in Seq(Name) /\ UpvalueName \in Seq(Name \ Hidden)
    /\ \A i, j \in DOMAIN UpvalueName : UpvalueName[i] = UpvalueName[j] => i = j
    /\ Captured \subseteq DOMAIN LocalName

VARIABLES
    locals, upvalues, globals,
    seen,          \* the value last read
    evaluating,
    localTable, upValueTable

frame == <<locals, upvalues, globals>>
vars  == <<frame, seen, evaluating, localTable, upValueTable>>

Index == DOMAIN LocalName
Visible == Name \ Hidden
Cell  == Value \cup {Sentinel}
Empty == [x \in Visible |-> Nil]

Init ==
    /\ locals \in [Index -> Value]
    /\ upvalues \in [DOMAIN UpvalueName -> Value]
    /\ globals \in [Visible -> Value]
    /\ seen = Nil
    /\ evaluating = FALSE
    /\ localTable = Empty /\ upValueTable = Empty

TypeOK ==
    /\ locals \in [Index -> Value]
    /\ upvalues \in [DOMAIN UpvalueName -> Value]
    /\ globals \in [Visible -> Value]
    /\ seen \in Value
    /\ evaluating \in BOOLEAN
    /\ localTable \in [Visible -> Cell] /\ upValueTable \in [Visible -> Cell]

-----------------------------------------------------------------------------
\* A nil that is declared is not the same as a name that is not.
\* Mutant: a nil stays a nil.
BoxedNot(v) == v
Boxed(v)    == IF v = Nil THEN Sentinel ELSE v
Unboxed(v)  == IF v = Sentinel THEN Nil ELSE v

\* CopyLocal: the locals are stored in their order, the last of a name remains.
\* Internal variables, with names like (for index), are skipped.
Last(i, x) == /\ LocalName[i] = x
              /\ \A j \in Index : j > i => LocalName[j] # x
CopyLocal ==
    [x \in Visible |->
        IF \E i \in Index : LocalName[i] = x
        THEN Boxed(locals[CHOOSE i \in Index : Last(i, x)]) ELSE Nil]
CopyUpvalue ==
    [x \in Visible |->
        IF \E i \in DOMAIN UpvalueName : UpvalueName[i] = x
        THEN Boxed(upvalues[CHOOSE i \in DOMAIN UpvalueName : UpvalueName[i] = x]) ELSE Nil]

\* CreateEnvironment.
Begin ==
    /\ ~evaluating
    /\ evaluating' = TRUE
    /\ localTable' = CopyLocal /\ upValueTable' = CopyUpvalue
    /\ UNCHANGED <<frame, seen>>

\* IndexChained: local -> upvalue -> global.
IndexChained(x) ==
    /\ evaluating
    /\ seen' = Unboxed(IF localTable[x] # Nil THEN localTable[x]
                       ELSE IF upValueTable[x] # Nil THEN upValueTable[x]
                       ELSE globals[x])
    /\ UNCHANGED <<frame, evaluating, localTable, upValueTable>>

\* NewIndexChained: where the name is declared, else in the globals.
NewIndexChained(x, v) ==
    /\ evaluating
    /\ \/ /\ localTable[x] # Nil
          /\ localTable' = [localTable EXCEPT ![x] = Boxed(v)]
          /\ UNCHANGED <<upValueTable, globals>>
       \/ /\ localTable[x] = Nil /\ upValueTable[x] # Nil
          /\ upValueTable' = [upValueTable EXCEPT ![x] = Boxed(v)]
          /\ UNCHANGED <<localTable, globals>>
       \/ /\ localTable[x] = Nil /\ upValueTable[x] = Nil
          /\ globals' = [globals EXCEPT ![x] = v]
          /\ UNCHANGED <<localTable, upValueTable>>
    /\ UNCHANGED <<locals, upvalues, seen, evaluating>>

\* A function that is called has the real variables, not the tables.
CallSetsGlobal(x, v) ==
    /\ evaluating
    /\ globals' = [globals EXCEPT ![x] = v]
    /\ UNCHANGED <<locals, upvalues, seen, evaluating, localTable, upValueTable>>
CallSetsLocal(i, v) ==
    /\ evaluating
    /\ locals' = [locals EXCEPT ![i] = v]
    /\ UNCHANGED <<upvalues, globals, seen, evaluating, localTable, upValueTable>>

\* SetLocals, SetUpValues: every variable gets what the table has for its name.
\* Mutant: internal variables too, for which it has nothing.
SetLocalsAll ==
    [i \in Index |-> IF LocalName[i] \in Hidden THEN Nil ELSE Unboxed(localTable[LocalName[i]])]
SetLocals ==
    [i \in Index |-> IF LocalName[i] \in Hidden THEN locals[i]
                     ELSE Unboxed(localTable[LocalName[i]])]
SetUpValues == [i \in DOMAIN UpvalueName |-> Unboxed(upValueTable[UpvalueName[i]])]

\* The chunk ends or raises an error, and the tables are dropped.
\* Mutant: a nil that was declared is copied back as it is in the table.
EndBoxed ==
    /\ evaluating
    /\ locals' = SetLocals
    /\ upvalues' = [i \in DOMAIN UpvalueName |-> upValueTable[UpvalueName[i]]]
    /\ evaluating' = FALSE
    /\ localTable' = Empty /\ upValueTable' = Empty
    /\ UNCHANGED <<globals, seen>>
End ==
    /\ evaluating
    /\ locals' = SetLocals
    /\ upvalues' = SetUpValues
    /\ evaluating' = FALSE
    /\ localTable' = Empty /\ upValueTable' = Empty
    /\ UNCHANGED <<globals, seen>>

Chunk == \/ \E x \in Visible : IndexChained(x)
         \/ \E x \in Visible, v \in Value : NewIndexChained(x, v) \/ CallSetsGlobal(x, v)
         \/ \E i \in Captured, v \in Value : CallSetsLocal(i, v)

Next == Begin \/ Chunk \/ End

Spec == Init /\ [][Next]_vars

-----------------------------------------------------------------------------
\* While a chunk runs, a variable is what the table says.
MappedLocals ==
    [i \in Index |-> IF evaluating /\ LocalName[i] \notin Hidden
                     THEN Unboxed(localTable[LocalName[i]]) ELSE locals[i]]
MappedUpvalues ==
    [i \in DOMAIN UpvalueName |->
        IF evaluating THEN Unboxed(upValueTable[UpvalueName[i]]) ELSE upvalues[i]]

Lexical == INSTANCE Frame WITH locals <- MappedLocals, upvalues <- MappedUpvalues

\* An evaluation is what the chunk would do in the place where the function has
\* stopped: every name is the variable the programmer means, nothing else is
\* changed, and beginning and ending change nothing (DebugBackend.cpp 1890-1891
\* "Create an environment table that chains all three of the tables together.
\* They are accessed like this: local -> upvalue -> global"; 2275 "Copy any
\* changes to the up values due to evaluating the watch back.")
EvaluatesInFrame == Lexical!Spec

\* An evaluation changes no variable that its names do not reach: a local that is
\* hidden by another of the same name keeps its value.  (DebugBackend.cpp 2275
\* "Copy any changes to the up values due to evaluating the watch back.")
HiddenLocalsKept ==
    [][\A i \in Index : locals'[i] # locals[i] => Last(i, LocalName[i])]_vars
=============================================================================
