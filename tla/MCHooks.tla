-------------------------------- MODULE MCHooks --------------------------------
(* Instances of Hooks: programs of a few functions, as values for Fun.       *)
EXTENDS Hooks

\* A main chunk and a function that ends on its only line of code.
ChunkAndFunction ==
    [main |-> [script |-> "s1", first |-> 0, last |-> 0, body |-> {5}],
     f    |-> [script |-> "s1", first |-> 2, last |-> 3, body |-> {3}]]

\* The function is written on one line.
OneLiner ==
    [main |-> [script |-> "s1", first |-> 0, last |-> 0, body |-> {5}],
     f    |-> [script |-> "s2", first |-> 2, last |-> 2, body |-> {2}]]

\* One state with a deep stack, one that is seldom busy.
Depths  == [v1 |-> 3, v2 |-> 1]
Shallow == [v1 |-> 2]
=============================================================================
