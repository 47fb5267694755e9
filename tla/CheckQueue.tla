------------------------------ MODULE CheckQueue ------------------------------
(***************************************************************************)
(* The durable scratch-check queue (ledger/queue.py) under concurrent      *)
(* callers.                                                                *)
(*                                                                         *)
(* A queue operation reads the ledger outside any transaction, decides,    *)
(* and then writes one transaction (Ledger.write: BEGIN IMMEDIATE ...      *)
(* COMMIT, all of it or none).  A read and the write that follows it are   *)
(* therefore two steps here, and another process may commit between them.  *)
(*                                                                         *)
(* No status is stored in the ledger: op[c] is what derive._operational    *)
(* returns for the events of check c so far; since the latest one wins,    *)
(* the replay can be carried along from event to event.                    *)
(*                                                                         *)
(* A check is named by the digest of its source, checkpoint key,           *)
(* environment and request class; its priority is not part of the digest.  *)
(***************************************************************************)
EXTENDS Integers, FiniteSets

CONSTANTS Checks,       \* content digests, i.e. check object ids
          Submitters,   \* agent turns that submit checks, one call at a time
          Workers,      \* one warm worker per checkpoint key
          KeyOf,        \* the checkpoint key (hence the worker) of a check
          Priorities,   \* priorities a request may carry
          MaxPending,   \* the queue's max_pending
          NoCheck, NoScope

ASSUME QueueAssumption ==
    /\ IsFiniteSet(Checks) /\ IsFiniteSet(Submitters)
    /\ Priorities \subseteq Int
    /\ KeyOf \in [Checks -> Workers]
    /\ MaxPending \in Nat \ {0}
    /\ NoCheck \notin Checks
    /\ NoScope \notin Submitters

VARIABLES
    op,         \* derived operational state of each check
    created,    \* event id of the check's creation, 0 while it does not exist
    priority,   \* the priority stored in the check object
    scope,      \* the scope of the check's first check_submitted event
    submitted,  \* number of check_submitted events of each check
    starts,     \* number of check_started events of each check
    results,    \* number of check_completed and check_failed events
    head,       \* the last creation's event id
    phase,      \* how far each submitter is in its submit call,
    wanted,     \*   the check it asks for,
    asked,      \*   the priority it asks with,
    seen,       \*   the check objects it listed
    step,       \* how far each worker is in a queue operation,
    job         \*   and the check it is about

checkVars == <<op, created, priority, scope, submitted, starts, results, head>>
callVars == <<phase, wanted, asked, seen>>
workerVars == <<step, job>>
vars == <<op, created, priority, scope, submitted, starts, results, head,
          phase, wanted, asked, seen, step, job>>
-------------------------------------------------------------------------------
(* What the ledger says.                                                   *)

Terminal == {"completed", "failed", "timed_out"}
OpStates == {"queued", "running", "interrupted"} \cup Terminal

Existing == {c \in Checks : created[c] # 0}
Queued   == {c \in Checks : op[c] = "queued"}

\* Mutant: the newest check of a priority comes first.
NewestFirst(c, d) == \/ priority[c] > priority[d]
                     \/ priority[c] = priority[d] /\ created[c] > created[d]

\* pending() sorts by (-priority, created_event_id).
Precedes(c, d) == \/ priority[c] > priority[d]
                  \/ priority[c] = priority[d] /\ created[c] < created[d]

Pending(k) == {c \in Queued : KeyOf[c] = k}
First(k)   == {c \in Pending(k) : \A d \in Pending(k) \ {c} : Precedes(c, d)}

Phases == {"idle", "listing", "admitted", "conflict"}
Steps == {"idle", "picked", "starting", "checking", "completing", "reconciling"}

TypeOK ==
    /\ op \in [Checks -> OpStates \cup {"absent"}]
    /\ created \in [Checks -> Nat]
    /\ priority \in [Checks -> Int]
    /\ scope \in [Checks -> Submitters \cup {NoScope}]
    /\ submitted \in [Checks -> Nat]
    /\ starts \in [Checks -> Nat]
    /\ results \in [Checks -> Nat]
    /\ head \in Nat
    /\ phase \in [Submitters -> Phases]
    /\ wanted \in [Submitters -> Checks \cup {NoCheck}]
    /\ asked \in [Submitters -> Int]
    /\ seen \in [Submitters -> SUBSET Checks]
    /\ step \in [Workers -> Steps]
    /\ job \in [Workers -> Checks \cup {NoCheck}]
    /\ \A s \in Submitters : phase[s] # "idle" => wanted[s] \in Checks
    /\ \A k \in Workers : step[k] # "idle" => job[k] \in Checks

Init ==
    /\ op = [c \in Checks |-> "absent"]
    /\ created = [c \in Checks |-> 0]
    /\ priority = [c \in Checks |-> 0]
    /\ scope = [c \in Checks |-> NoScope]
    /\ submitted = [c \in Checks |-> 0]
    /\ starts = [c \in Checks |-> 0]
    /\ results = [c \in Checks |-> 0]
    /\ head = 0
    /\ phase = [s \in Submitters |-> "idle"]
    /\ wanted = [s \in Submitters |-> NoCheck]
    /\ asked = [s \in Submitters |-> 0]
    /\ seen = [s \in Submitters |-> {}]
    /\ step = [k \in Workers |-> "idle"]
    /\ job = [k \in Workers |-> NoCheck]
-------------------------------------------------------------------------------
(* submit.  The check_reused event of a scoped repeat changes no derived   *)
(* state and is left out.                                                  *)

Return(s) == /\ phase' = [phase EXCEPT ![s] = "idle"]
             /\ wanted' = [wanted EXCEPT ![s] = NoCheck]
             /\ asked' = [asked EXCEPT ![s] = 0]
             /\ seen' = [seen EXCEPT ![s] = {}]

SubmitReuse(s, c) ==
    /\ phase[s] = "idle"
    /\ created[c] # 0
    /\ Return(s)
    /\ UNCHANGED <<checkVars, workerVars>>

\* The object is absent: list every check object ...
SubmitList(s, c, p) ==
    /\ phase[s] = "idle"
    /\ created[c] = 0
    /\ phase' = [phase EXCEPT ![s] = "listing"]
    /\ wanted' = [wanted EXCEPT ![s] = c]
    /\ asked' = [asked EXCEPT ![s] = p]
    /\ seen' = [seen EXCEPT ![s] = Existing]
    /\ UNCHANGED <<checkVars, workerVars>>

\* ... and only then replay the state of each of those listed.
SubmitRefuse(s) ==
    /\ phase[s] = "listing"
    /\ Cardinality(seen[s] \cap Queued) >= MaxPending
    /\ Return(s)
    /\ UNCHANGED <<checkVars, workerVars>>

\* Mutant: a full queue admits one more.
AdmitAtCapacity(s) ==
    /\ phase[s] = "listing"
    /\ Cardinality(seen[s] \cap Queued) <= MaxPending
    /\ phase' = [phase EXCEPT ![s] = "admitted"]
    /\ UNCHANGED <<checkVars, wanted, asked, seen, workerVars>>

SubmitAdmit(s) ==
    /\ phase[s] = "listing"
    /\ Cardinality(seen[s] \cap Queued) < MaxPending
    /\ phase' = [phase EXCEPT ![s] = "admitted"]
    /\ UNCHANGED <<checkVars, wanted, asked, seen, workerVars>>

SubmitCommit(s) ==
    LET c == wanted[s] IN
    /\ phase[s] = "admitted"
    /\ created[c] = 0
    /\ head' = head + 1
    /\ created' = [created EXCEPT ![c] = head + 1]
    /\ priority' = [priority EXCEPT ![c] = asked[s]]
    /\ scope' = [scope EXCEPT ![c] = s]
    /\ submitted' = [submitted EXCEPT ![c] = @ + 1]
    /\ op' = [op EXCEPT ![c] = "queued"]
    /\ Return(s)
    /\ UNCHANGED <<starts, results, workerVars>>

\* Mutant: check_submitted carries no idempotency key.
SubmitTwice(s) ==
    LET c == wanted[s] IN
    /\ phase[s] = "admitted"
    /\ created[c] # 0
    /\ priority[c] = asked[s]
    /\ submitted' = [submitted EXCEPT ![c] = @ + 1]
    /\ Return(s)
    /\ UNCHANGED <<op, created, priority, scope, starts, results, head,
                   workerVars>>

\* A concurrent twin committed first: every write of this transaction finds
\* its identical predecessor, and check_submitted its idempotency key.
SubmitTwin(s) ==
    LET c == wanted[s] IN
    /\ phase[s] = "admitted"
    /\ created[c] # 0
    /\ priority[c] = asked[s]
    /\ Return(s)
    /\ UNCHANGED <<checkVars, workerVars>>

\* Same digest, another priority: create_object raises and the transaction
\* rolls back.
SubmitConflict(s) ==
    LET c == wanted[s] IN
    /\ phase[s] = "admitted"
    /\ created[c] # 0
    /\ priority[c] # asked[s]
    /\ phase' = [phase EXCEPT ![s] = "conflict"]
    /\ UNCHANGED <<checkVars, wanted, asked, seen, workerVars>>

\* The submitting process raises what it met, or dies between two of its steps.
SubmitterLost(s) ==
    /\ phase[s] # "idle"
    /\ Return(s)
    /\ UNCHANGED <<checkVars, workerVars>>

Submit(s) == \/ \E c \in Checks : SubmitReuse(s, c)
             \/ \E c \in Checks, p \in Priorities : SubmitList(s, c, p)
             \/ SubmitRefuse(s) \/ SubmitAdmit(s)
             \/ SubmitCommit(s) \/ SubmitTwin(s) \/ SubmitConflict(s)
             \/ SubmitterLost(s)
-------------------------------------------------------------------------------
(* The worker of a checkpoint key: process_next, reconcile.                *)

Advance(k, to) == step' = [step EXCEPT ![k] = to] /\ UNCHANGED job

Take(k, c, to) == /\ step' = [step EXCEPT ![k] = to]
                  /\ job' = [job EXCEPT ![k] = c]
Rest(k) == Take(k, NoCheck, "idle")

\* op' after an event on c whose operational meaning is "state".
Record(c, state) == op' = [op EXCEPT ![c] = state]

\* process_next reads pending() and takes its first element.
Pick(k, c) ==
    /\ step[k] = "idle"
    /\ c \in First(k)
    /\ Take(k, c, "picked")
    /\ UNCHANGED <<checkVars, callVars>>

\* start() reads the state again, outside its transaction.
StartRead(k) ==
    /\ step[k] = "picked"
    /\ op[job[k]] = "queued"
    /\ Advance(k, "starting")
    /\ UNCHANGED <<checkVars, callVars>>

StartRefused(k) ==
    /\ step[k] = "picked"
    /\ op[job[k]] # "queued"
    /\ Rest(k)
    /\ UNCHANGED <<checkVars, callVars>>

StartCommit(k) ==
    LET c == job[k] IN
    /\ step[k] = "starting"
    /\ Record(c, "running")
    /\ starts' = [starts EXCEPT ![c] = @ + 1]
    /\ Advance(k, "checking")
    /\ UNCHANGED <<created, priority, scope, submitted, results, head,
                   callVars>>

\* The backend answered within the budget: complete() reads the state ...
CompleteRead(k) ==
    /\ step[k] = "checking"
    /\ op[job[k]] = "running"
    /\ Advance(k, "completing")
    /\ UNCHANGED <<checkVars, callVars>>

CompleteRefused(k) ==
    /\ step[k] = "checking"
    /\ op[job[k]] # "running"
    /\ Rest(k)
    /\ UNCHANGED <<checkVars, callVars>>

\* ... and commits the result, its claims and the closing event together.
CompleteCommit(k, outcome) ==
    LET c == job[k] IN
    /\ step[k] = "completing"
    /\ Record(c, outcome)
    /\ results' = [results EXCEPT ![c] = @ + 1]
    /\ Rest(k)
    /\ UNCHANGED <<created, priority, scope, submitted, starts, head,
                   callVars>>

\* The budget ran out: time_out() has no guard.
TimeOut(k) ==
    /\ step[k] = "checking"
    /\ Record(job[k], "timed_out")
    /\ Rest(k)
    /\ UNCHANGED <<created, priority, scope, submitted, starts, results, head,
                   callVars>>

\* reconcile(), one running check at a time.
ReconcileRead(k, c) ==
    /\ step[k] = "idle"
    /\ KeyOf[c] = k
    /\ op[c] = "running"
    /\ Take(k, c, "reconciling")
    /\ UNCHANGED <<checkVars, callVars>>

\* Mutant: a reconciled check goes back to the queue.
ReconcileRequeue(k) ==
    /\ step[k] = "reconciling"
    /\ Record(job[k], "queued")
    /\ Rest(k)
    /\ UNCHANGED <<created, priority, scope, submitted, starts, results, head,
                   callVars>>

ReconcileCommit(k) ==
    /\ step[k] = "reconciling"
    /\ Record(job[k], "interrupted")
    /\ Rest(k)
    /\ UNCHANGED <<created, priority, scope, submitted, starts, results, head,
                   callVars>>

\* The worker process dies; a transaction it had open rolls back.
WorkerLost(k) ==
    /\ step[k] # "idle"
    /\ Rest(k)
    /\ UNCHANGED <<checkVars, callVars>>

Work(k) == \/ \E c \in Checks : Pick(k, c)
           \/ StartRead(k) \/ StartRefused(k) \/ StartCommit(k)
           \/ CompleteRead(k) \/ CompleteRefused(k)
           \/ \E outcome \in {"completed", "failed"} : CompleteCommit(k, outcome)
           \/ TimeOut(k)
           \/ \E c \in Checks : ReconcileRead(k, c)
           \/ ReconcileCommit(k)
           \/ WorkerLost(k)
-------------------------------------------------------------------------------
(* Operators.  Each of these only requires that the check exists.          *)

\* Mutant: nothing checks that the check exists.
WithdrawAny(c) ==
    /\ Record(c, "interrupted")
    /\ UNCHANGED <<created, priority, scope, submitted, starts, results, head,
                   callVars, workerVars>>

Withdraw(c) ==
    /\ created[c] # 0
    /\ Record(c, "interrupted")
    /\ UNCHANGED <<created, priority, scope, submitted, starts, results, head,
                   callVars, workerVars>>

Cancel(c) == Withdraw(c)
Interrupt(c) == Withdraw(c)
Supersede(c, newer) == created[newer] # 0 /\ Withdraw(c)

Operate == \E c \in Checks : \/ Cancel(c)
                             \/ Interrupt(c)
                             \/ \E newer \in Checks : Supersede(c, newer)

Next == \/ \E s \in Submitters : Submit(s)
        \/ \E k \in Workers : Work(k)
        \/ Operate

Spec == Init /\ [][Next]_vars
-------------------------------------------------------------------------------
(* Safety.                                                                 *)

\* However many submitters race past the existence test, a check is
\* submitted exactly once, and it is the object's creation that submits it
\* (queue.py: the check_submitted idempotency key, create_object).
SubmittedOnce == \A c \in Checks :
    submitted[c] = (IF created[c] = 0 THEN 0 ELSE 1)

\* Repeated submission is never repeated work: whatever is withdrawn, lost or
\* resubmitted, one check is started at most once and answered at most once,
\* and never answered without having been started.
RunsAtMostOnce == \A c \in Checks : results[c] <= starts[c] /\ starts[c] <= 1

\* The bound on pending work that the code keeps: the capacity test is read
\* before the transaction, so each submitter beyond the first may push the
\* queue one past max_pending, and no more than that, however stale its list.
PendingOverrun == Cardinality(Queued) <= MaxPending + Cardinality(Submitters) - 1

\* A check that left the queue never re-enters it: neither a resubmission nor
\* a reconciliation queues it again.
NeverRequeued ==
    [][\A c \in Checks : op[c] \notin {"absent", "queued"} => op'[c] # "queued"]_vars

\* Among the checks of one worker, one that is started was not overtaking an
\* older check of at least its priority that is still waiting.
NoOvertaking ==
    [][\A d \in Checks : starts'[d] > starts[d] =>
         ~ \E c \in Queued : /\ c # d
                             /\ KeyOf[c] = KeyOf[d]
                             /\ priority[c] >= priority[d]
                             /\ created[c] < created[d]]_vars

\* The queue implements the lifecycle promised to its callers: a check is
\* executing while its worker is between check_started and the closing event.
Executing == {c \in Checks : \E k \in Workers :
                 job[k] = c /\ step[k] \in {"checking", "completing"}}

Lifecycle == INSTANCE CheckLifecycle
             WITH status <- op,
                  ran <- {c \in Checks : starts[c] > 0},
                  executing <- Executing

\* Every step of the queue is a step of CheckLifecycle or leaves it alone.
ImplementsLifecycle == Lifecycle!LSpec
===============================================================================
