----------------------------- MODULE MCLedgerStore -----------------------------
(* A small ledger: two objects and two connections from one of them.       *)
EXTENDS LedgerStore, TLC

CONSTANTS o1, o2, e1, e2

FromFirst == e1 :> o1 @@ e2 :> o1
ToSecond == e1 :> o2 @@ e2 :> o2
===============================================================================
