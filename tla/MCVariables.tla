----------------------------- MODULE MCVariables -----------------------------
(* Instances of Variables: the stack of a stop and the tables in its frames.  *)
EXTENDS Variables

Lua       == [lua |-> TRUE, native |-> 0]
C(native) == [lua |-> FALSE, native |-> native]

\* A function called by pcall: one native frame is found for the C function.
CalledByC == <<Lua, C(1), Lua>>
\* None is found (lua_pcallk is not recognised as the end of a segment, or the
\* process has 64 bits).
CalledByHiddenC == <<Lua, C(0), Lua>>

\* The caller has a table that contains itself, the function another one too.
Frames == [l \in LuaLevel |-> IF l = 0 THEN {"t1", "t2"} ELSE {"t1"}]
Tables == [t \in Table |-> {"t1"}]
=============================================================================
