---------------------------- MODULE MCConnector ----------------------------
(* Model-checking instance of Connector: three interchangeable Channel     *)
(* objects.                                                                *)
EXTENDS Connector, TLC
CONSTANTS c1, c2, c3
MCIds == {c1, c2, c3}
\* Channel objects are interchangeable: any permutation of them is a
\* behaviour of the program too.
IdSymmetry == Permutations(MCIds)
============================================================================
