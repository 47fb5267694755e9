---------------------------- MODULE MCWorkerService ----------------------------
(* Small instances of WorkerService: one checkpoint key.                   *)
EXTENDS WorkerService, TLC

CONSTANTS c1, c2, s1, s2, k1, e1, e2

OneKey == c1 :> k1 @@ c2 :> k1
TwoEnvironments == c1 :> e1 @@ c2 :> e2
===============================================================================
