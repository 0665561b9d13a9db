---------------------------- MODULE MC_CollectAll ----------------------------
(* Model-checking instance of CollectAll: model values and symmetry.       *)
EXTENDS CollectAll, TLC

\* Operations are interchangeable, and so are collectors.
Symmetry == Permutations(Op) \cup Permutations(Collector)
=============================================================================
