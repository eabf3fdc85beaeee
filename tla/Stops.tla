-------------------------------- MODULE Stops --------------------------------
(***************************************************************************)
(* What a stop is, seen from outside: a state stops and says so, it is     *)
(* shown to the user or found not worth it, it is told to go on, it is let *)
(* go, and it goes on; once each, in this order.  Somebody else runs Lua   *)
(* in a state only between the first and the last of these.                *)
(***************************************************************************)
CONSTANT VM

VARIABLES stage,       \* how far the stop of a state has come
          evaluating,  \* the state that Lua is run in for the user
          linked       \* whether there is an adapter, and it follows

vars == <<stage, evaluating, linked>>

Stopped == {"told", "shown", "resumed"}
Stage   == Stopped \cup {"running", "released"}

Init ==
    /\ stage = [v \in VM |-> "running"]
    /\ evaluating = {}
    /\ linked = TRUE

Move(v, from, to) ==
    /\ linked /\ stage[v] \in from
    /\ stage' = [stage EXCEPT ![v] = to]
    /\ UNCHANGED <<evaluating, linked>>

Stop(v)    == Move(v, {"running"}, "told")
Show(v)    == Move(v, {"told"}, "shown")
Resume(v)  == Move(v, {"told", "shown"}, "resumed")
Release(v) == v \notin evaluating /\ Move(v, {"resumed"}, "released")
GoOn(v)    == Move(v, {"released"}, "running")

Enter(v) ==
    /\ linked /\ evaluating = {} /\ stage[v] \in Stopped
    /\ evaluating' = {v}
    /\ UNCHANGED <<stage, linked>>

Leave(v) ==
    /\ linked /\ evaluating = {v}
    /\ evaluating' = {}
    /\ UNCHANGED <<stage, linked>>

\* An adapter that has left, or has lost its way, does not come back, and nothing
\* more is said about stops.
Part == ~linked'

Next == \/ \E v \in VM : \/ Stop(v) \/ Show(v) \/ Resume(v) \/ Release(v) \/ GoOn(v)
                         \/ Enter(v) \/ Leave(v)
        \/ Part

Spec == Init /\ [][Next]_vars
=============================================================================
