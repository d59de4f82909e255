---------------------------- MODULE MCWritePath ----------------------------
(* Small instances of WritePath for TLC. *)
EXTENDS WritePath, TLC

\* Client threads are interchangeable: no action compares them.
ClientSymmetry == Permutations(Clients)
=============================================================================
