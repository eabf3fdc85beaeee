-------------------------------- MODULE Frame --------------------------------
(***************************************************************************)
(* What it means to run a chunk of Lua in the place where a function has   *)
(* stopped: a name is the innermost local variable of that name, else the  *)
(* upvalue, else the global, and nothing changes but what is assigned.     *)
(***************************************************************************)
EXTENDS Naturals

CONSTANTS Name, Hidden,        \* names, and those of internal variables
          Value, Nil,
          LocalName,           \* the names of the locals, outermost first
          UpvalueName,         \* the names of the upvalues
          Captured             \* locals that functions in reach assign to

VARIABLES locals, upvalues, globals,
          seen                 \* the value last read

vars == <<locals, upvalues, globals, seen>>

Index == DOMAIN LocalName
\* The local that a name stands for.
Innermost(i, x) == /\ LocalName[i] = x
                   /\ \A j \in Index : j > i => LocalName[j] # x
IsLocal(x)   == \E i \in Index : LocalName[i] = x
IsUpvalue(x) == \E i \in DOMAIN UpvalueName : UpvalueName[i] = x

Init ==
    /\ locals \in [Index -> Value]
    /\ upvalues \in [DOMAIN UpvalueName -> Value]
    /\ globals \in [Name \ Hidden -> Value]
    /\ seen = Nil

Get(x) ==
    /\ \/ \E i \in Index : Innermost(i, x) /\ seen' = locals[i]
       \/ /\ ~IsLocal(x)
          /\ \E i \in DOMAIN UpvalueName : UpvalueName[i] = x /\ seen' = upvalues[i]
       \/ /\ ~IsLocal(x) /\ ~IsUpvalue(x)
          /\ seen' = globals[x]
    /\ UNCHANGED <<locals, upvalues, globals>>

Set(x, v) ==
    /\ locals' = [i \in Index |-> IF Innermost(i, x) THEN v ELSE locals[i]]
    /\ upvalues' = [i \in DOMAIN UpvalueName |->
                       IF UpvalueName[i] = x /\ ~IsLocal(x) THEN v ELSE upvalues[i]]
    /\ globals' = [y \in Name \ Hidden |->
                      IF y = x /\ ~IsLocal(x) /\ ~IsUpvalue(x) THEN v ELSE globals[y]]
    /\ UNCHANGED seen

\* The chunk calls a function, which assigns to a global of its own sight, or to
\* a local that it has captured.
CallSetsGlobal(x, v) == /\ globals' = [globals EXCEPT ![x] = v]
                        /\ UNCHANGED <<locals, upvalues, seen>>
CallSetsLocal(i, v)  == /\ locals' = [locals EXCEPT ![i] = v]
                        /\ UNCHANGED <<upvalues, globals, seen>>

Next == \/ \E x \in Name \ Hidden : Get(x)
        \/ \E x \in Name \ Hidden, v \in Value : Set(x, v) \/ CallSetsGlobal(x, v)
        \/ \E i \in Captured, v \in Value : CallSetsLocal(i, v)

Spec == Init /\ [][Next]_vars
=============================================================================
