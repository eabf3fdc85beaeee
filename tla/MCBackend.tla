------------------------------ MODULE MCBackend ------------------------------
(***************************************************************************)
(* Instances of Backend for TLC.                                           *)
(***************************************************************************)
EXTENDS Backend, TLC

\* Virtual machines are interchangeable, and so are scripts.
Symmetry == Permutations(VM) \cup Permutations(Script)

=============================================================================
