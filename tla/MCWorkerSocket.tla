---------------------------- MODULE MCWorkerSocket -----------------------------
(* Two clients and one launcher, hence up to three services.               *)
EXTENDS WorkerSocket, TLC

CONSTANTS c1, c2, l1
===============================================================================
