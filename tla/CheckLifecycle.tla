---------------------------- MODULE CheckLifecycle ----------------------------
(***************************************************************************)
(* What the durable check queue promises about each check, whoever calls   *)
(* it and whatever dies: a check is executed at most once; only an         *)
(* execution that is under way produces a result or a timeout; a check     *)
(* never returns to the queue.  CheckQueue implements this specification.  *)
(***************************************************************************)
EXTENDS Integers

CONSTANT Checks

VARIABLES status,    \* derive._operational of each check
          ran,       \* checks whose execution has begun
          executing  \* checks a worker is executing now

lvars == <<status, ran, executing>>

Outcomes == {"completed", "failed", "timed_out"}

LInit == /\ status = [c \in Checks |-> "absent"]
         /\ ran = {}
         /\ executing = {}

\* The check and its source are in the ledger.
Enqueue(c) == /\ status[c] = "absent"
              /\ status' = [status EXCEPT ![c] = "queued"]
              /\ UNCHANGED <<ran, executing>>

\* A withdrawal that comes between the worker's look and its write is
\* overridden, hence "interrupted".
Begin(c) == /\ status[c] \in {"queued", "interrupted"}
            /\ c \notin ran
            /\ status' = [status EXCEPT ![c] = "running"]
            /\ ran' = ran \cup {c}
            /\ executing' = executing \cup {c}

\* The execution under way ends with a result or runs out of budget.
End(c, outcome) == /\ c \in executing
                   /\ status[c] \in {"running", "interrupted"}
                   /\ status' = [status EXCEPT ![c] = outcome]
                   /\ executing' = executing \ {c}
                   /\ UNCHANGED ran

\* The execution ends without writing anything.
Abandon(c) == /\ c \in executing
              /\ executing' = executing \ {c}
              /\ UNCHANGED <<status, ran>>

\* Cancelled, superseded, interrupted, or reconciled after a crash.
Interrupted(c) == /\ status[c] # "absent"
                  /\ status' = [status EXCEPT ![c] = "interrupted"]
                  /\ UNCHANGED <<ran, executing>>

LNext == \E c \in Checks : \/ Enqueue(c) \/ Begin(c)
                           \/ \E outcome \in Outcomes : End(c, outcome)
                           \/ Abandon(c) \/ Interrupted(c)

LSpec == LInit /\ [][LNext]_lvars
===============================================================================
