----------------------------- MODULE MCCheckQueue -----------------------------
(* Small instances of CheckQueue for TLC.                                  *)
EXTENDS CheckQueue, TLC

CONSTANTS c1, c2, c3, s1, s2, k1

\* All checks of one checkpoint key.
OneKey == [c \in Checks |-> k1]

\* Checks of one key differ in nothing, and no definition chooses among them.
Symmetry == Permutations(Checks) \cup Permutations(Submitters)
===============================================================================
