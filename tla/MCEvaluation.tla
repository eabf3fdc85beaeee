---------------------------- MODULE MCEvaluation ----------------------------
(* Instances of Evaluation: the variables of a frame.                        *)
EXTENDS Evaluation

\* A loop in a function: its own x hides the upvalue x, u is an upvalue only, g a
\* global.
Loop   == <<"x", "(for index)">>
Closed == <<"x", "u">>
\* local x = ...; local x = tonumber(x)
Shadowed == <<"x", "x">>
=============================================================================
