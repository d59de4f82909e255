----------------------------- MODULE MCPMGroup -----------------------------
(* Small instances of PMGroup for TLC. *)
EXTENDS PMGroup, TLC

\* Heap places are interchangeable.
NodeSymmetry == Permutations(Nodes)
=============================================================================
