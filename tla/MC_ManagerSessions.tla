------------------------- MODULE MC_ManagerSessions -------------------------
(* Model-checking instance of ManagerSessions: model values and symmetry.  *)
EXTENDS ManagerSessions, TLC

\* Addresses, threads, device ids and system ids are interchangeable.
Symmetry == Permutations(Session) \cup Permutations(Thread)
              \cup Permutations(Did) \cup Permutations(Sid)
=============================================================================
