------------------------- MODULE DurableChecks_proofs -------------------------
(***************************************************************************)
(* Theorems about the durable checks. CheckQueue: the queue, for every set *)
(* of checks, submitters, workers and priorities and every capacity.       *)
(* WorkerService: the processes use the queue as CheckQueue allows, so     *)
(* what is proved of the queue holds of them; and no check stays marked    *)
(* running beside a service that takes new work.                           *)
(***************************************************************************)
EXTENDS WorkerService, FiniteSetTheorems, TLAPS
-------------------------------------------------------------------------------
(* The inductive invariant behind RunsAtMostOnce and the refinement.        *)

\* A check exists from its only submission on; only a started check runs.
CheckInv(c) ==
    /\ created[c] = 0 <=> op[c] = "absent"
    /\ submitted[c] = (IF created[c] = 0 THEN 0 ELSE 1)
    /\ op[c] \in {"absent", "queued"} => starts[c] = 0
    /\ op[c] = "running" => starts[c] = 1
    /\ results[c] <= starts[c]
    /\ starts[c] <= 1

\* What a worker knows of its check while other processes keep writing: a
\* withdrawal may have come in between, nothing else.
WorkerInv(k) == step[k] # "idle" =>
    LET c == job[k] IN
    /\ KeyOf[c] = k
    /\ step[k] \in {"picked", "starting"} =>
         starts[c] = 0 /\ op[c] \in {"queued", "interrupted"}
    /\ step[k] \in {"checking", "completing"} =>
         /\ starts[c] = 1 /\ results[c] = 0
         /\ op[c] \in {"running", "interrupted"}
    /\ step[k] = "reconciling" =>
         starts[c] = 1 /\ op[c] \in {"running", "interrupted"}

QueueInv == /\ TypeOK
            /\ \A c \in Checks : CheckInv(c)
            /\ \A k \in Workers : WorkerInv(k)
-------------------------------------------------------------------------------
(* Type correctness.                                                       *)

\* Every variable of the queue keeps its type, whatever its callers do.
LEMMA TypeCorrectStep == TypeOK /\ [Next]_vars => TypeOK'
<1> SUFFICES ASSUME TypeOK, [Next]_vars PROVE TypeOK'
  OBVIOUS
<1> USE QueueAssumption DEF TypeOK, OpStates, Terminal, Phases, Steps, checkVars, callVars,
        workerVars, Return
<1>1. ASSUME NEW s \in Submitters, Submit(s) PROVE TypeOK'
  <2>1. CASE \E c \in Checks : SubmitReuse(s, c)
    BY <2>1 DEF SubmitReuse
  <2>2. CASE \E c \in Checks, p \in Priorities : SubmitList(s, c, p)
    BY <2>2 DEF SubmitList, Existing
  <2>3. CASE SubmitRefuse(s)
    BY <2>3 DEF SubmitRefuse
  <2>4. CASE SubmitAdmit(s)
    BY <2>4 DEF SubmitAdmit
  <2>5. CASE SubmitCommit(s)
    <3>1. submitted' \in [Checks -> Nat]
      BY <2>5 DEF SubmitCommit
    <3>2. op' \in [Checks -> OpStates \cup {"absent"}] /\ created' \in [Checks -> Nat]
      BY <2>5 DEF SubmitCommit
    <3>3. priority' \in [Checks -> Int] /\ scope' \in [Checks -> Submitters \cup {NoScope}]
      BY <2>5 DEF SubmitCommit
    <3>4. QED
      BY <2>5, <3>1, <3>2, <3>3 DEF SubmitCommit
  <2>6. CASE SubmitTwin(s)
    BY <2>6 DEF SubmitTwin
  <2>7. CASE SubmitConflict(s)
    BY <2>7 DEF SubmitConflict
  <2>8. CASE SubmitterLost(s)
    BY <2>8 DEF SubmitterLost
  <2>9. QED
    BY <1>1, <2>1, <2>2, <2>3, <2>4, <2>5, <2>6, <2>7, <2>8 DEF Submit
<1>2. ASSUME NEW k \in Workers, Work(k) PROVE TypeOK'
  <2> USE DEF Record, Rest, Take, Advance
  <2>1. CASE \E c \in Checks : Pick(k, c)
    BY <2>1 DEF Pick
  <2>2. CASE StartRead(k) \/ StartRefused(k)
    BY <2>2 DEF StartRead, StartRefused
  <2>3. CASE StartCommit(k)
    <3>1. starts' \in [Checks -> Nat]
      BY <2>3 DEF StartCommit
    <3>2. op' \in [Checks -> OpStates \cup {"absent"}]
      BY <2>3 DEF StartCommit
    <3>3. QED
      BY <2>3, <3>1, <3>2 DEF StartCommit
  <2>4. CASE CompleteRead(k) \/ CompleteRefused(k)
    BY <2>4 DEF CompleteRead, CompleteRefused
  <2>5. CASE \E outcome \in {"completed", "failed"} : CompleteCommit(k, outcome)
    <3>1. results' \in [Checks -> Nat]
      BY <2>5 DEF CompleteCommit
    <3>2. op' \in [Checks -> OpStates \cup {"absent"}]
      BY <2>5 DEF CompleteCommit
    <3>3. QED
      BY <2>5, <3>1, <3>2 DEF CompleteCommit
  <2>6. CASE TimeOut(k) \/ ReconcileCommit(k)
    BY <2>6 DEF TimeOut, ReconcileCommit
  <2>7. CASE \E c \in Checks : ReconcileRead(k, c)
    BY <2>7 DEF ReconcileRead
  <2>8. CASE WorkerLost(k)
    BY <2>8 DEF WorkerLost
  <2>9. QED
    BY <1>2, <2>1, <2>2, <2>3, <2>4, <2>5, <2>6, <2>7, <2>8 DEF Work
<1>3. CASE Operate
  BY <1>3 DEF Operate, Cancel, Interrupt, Supersede, Withdraw, Record
<1>4. CASE UNCHANGED vars
  BY <1>4 DEF vars
<1>5. QED
  BY <1>1, <1>2, <1>3, <1>4 DEF Next

\* The queue's state is well typed in every reachable state.
THEOREM TypeCorrect == Spec => []TypeOK
<1>1. Init => TypeOK
  BY QueueAssumption DEF Init, TypeOK, OpStates, Phases, Steps
<1>2. QED
  BY <1>1, TypeCorrectStep, PTL DEF Spec
-------------------------------------------------------------------------------
(* The invariant is inductive.                                             *)

LEMMA InvInit == Init => QueueInv
  BY QueueAssumption DEF Init, QueueInv, TypeOK, OpStates, Phases, Steps, CheckInv, WorkerInv

\* A submit call disturbs at most the check it creates, which no worker holds.
LEMMA InvSubmit == ASSUME NEW s \in Submitters, QueueInv, Submit(s)
                   PROVE  /\ \A c \in Checks : CheckInv(c)'
                          /\ \A k \in Workers : WorkerInv(k)'
<1> USE QueueAssumption DEF QueueInv, checkVars, workerVars
<1>1. CASE SubmitCommit(s)
  <2>1. wanted[s] \in Checks /\ created[wanted[s]] = 0 /\ op[wanted[s]] = "absent"
    BY <1>1 DEF SubmitCommit, TypeOK, CheckInv
  <2>2. ASSUME NEW c \in Checks PROVE CheckInv(c)'
    <3>1. CASE c = wanted[s]
      BY <1>1, <2>1, <3>1 DEF SubmitCommit, TypeOK, CheckInv
    <3>2. CASE c # wanted[s]
      BY <1>1, <2>1, <3>2 DEF SubmitCommit, TypeOK, CheckInv
    <3>3. QED
      BY <3>1, <3>2
  <2>3. ASSUME NEW k \in Workers PROVE WorkerInv(k)'
    BY <1>1, <2>1 DEF SubmitCommit, TypeOK, WorkerInv, Steps
  <2>4. QED
    BY <2>2, <2>3
<1>2. CASE ~SubmitCommit(s)
  <2>1. UNCHANGED <<checkVars, workerVars>>
    BY <1>2 DEF Submit, SubmitReuse, SubmitList, SubmitRefuse, SubmitAdmit, SubmitTwin,
                SubmitConflict, SubmitterLost
  <2>2. QED
    BY <2>1 DEF CheckInv, WorkerInv
<1>3. QED
  BY <1>1, <1>2

\* What a worker writes concerns the check it holds.
LEMMA InvWork == ASSUME NEW k \in Workers, QueueInv, Work(k)
                 PROVE  /\ \A c \in Checks : CheckInv(c)'
                        /\ \A w \in Workers : WorkerInv(w)'
<1> USE QueueAssumption DEF QueueInv, checkVars, TypeOK, CheckInv, WorkerInv, Record, Rest,
        Take, Advance
<1>1. CASE \E c \in Checks : Pick(k, c) \/ ReconcileRead(k, c)
  BY <1>1 DEF Pick, ReconcileRead, First, Pending, Queued
<1>2. CASE StartRead(k) \/ StartRefused(k)
  BY <1>2 DEF StartRead, StartRefused
<1>3. CASE StartCommit(k)
  BY <1>3 DEF StartCommit
<1>4. CASE CompleteRead(k) \/ CompleteRefused(k)
  BY <1>4 DEF CompleteRead, CompleteRefused
<1>5. CASE \E outcome \in {"completed", "failed"} : CompleteCommit(k, outcome)
  BY <1>5 DEF CompleteCommit
<1>6. CASE TimeOut(k)
  BY <1>6 DEF TimeOut
<1>7. CASE ReconcileCommit(k)
  BY <1>7 DEF ReconcileCommit
<1>8. CASE WorkerLost(k)
  BY <1>8 DEF WorkerLost
<1>9. QED
  BY <1>1, <1>2, <1>3, <1>4, <1>5, <1>6, <1>7, <1>8 DEF Work

\* An operator's withdrawal fits whatever step the workers are in.
LEMMA InvOperate == ASSUME QueueInv, Operate
                    PROVE  /\ \A c \in Checks : CheckInv(c)'
                           /\ \A k \in Workers : WorkerInv(k)'
  BY DEF Operate, Cancel, Interrupt, Supersede, Withdraw, Record, QueueInv, TypeOK, CheckInv,
         WorkerInv, callVars, workerVars

\* QueueInv is inductive ...
LEMMA QueueInvStep == QueueInv /\ [Next]_vars => QueueInv'
<1> SUFFICES ASSUME QueueInv, [Next]_vars PROVE QueueInv'
  OBVIOUS
<1>1. TypeOK'
  BY TypeCorrectStep DEF QueueInv
<1>2. CASE UNCHANGED vars
  BY <1>1, <1>2 DEF QueueInv, CheckInv, WorkerInv, vars
<1>3. CASE \E s \in Submitters : Submit(s)
  BY <1>1, <1>3, InvSubmit DEF QueueInv
<1>4. CASE \E k \in Workers : Work(k)
  BY <1>1, <1>4, InvWork DEF QueueInv
<1>5. CASE Operate
  BY <1>1, <1>5, InvOperate DEF QueueInv
<1>6. QED
  BY <1>2, <1>3, <1>4, <1>5 DEF Next

\* ... hence holds in every reachable state.
LEMMA QueueInvHolds == Spec => []QueueInv
  BY InvInit, QueueInvStep, PTL DEF Spec

\* A check is submitted exactly once, however many submitters race for it.
THEOREM SubmitsOnce == Spec => []SubmittedOnce
  <1>1. QueueInv => SubmittedOnce
    BY DEF QueueInv, CheckInv, SubmittedOnce
  <1>2. QED
    BY <1>1, QueueInvHolds, PTL

\* A check is started at most once and answered at most once.
THEOREM RunsOnce == Spec => []RunsAtMostOnce
  <1>1. QueueInv => RunsAtMostOnce
    BY DEF QueueInv, CheckInv, RunsAtMostOnce
  <1>2. QED
    BY <1>1, QueueInvHolds, PTL

\* No step queues a check that already left the queue.
THEOREM NeverQueuedAgain == Spec => NeverRequeued
  <1>1. ASSUME QueueInv, [Next]_vars, NEW c \in Checks,
               op[c] \notin {"absent", "queued"}
        PROVE  op'[c] # "queued"
    <2>1. CASE \E s \in Submitters : Submit(s)
      BY <1>1, <2>1 DEF Submit, SubmitReuse, SubmitList, SubmitRefuse, SubmitAdmit,
         SubmitCommit, SubmitTwin, SubmitConflict, SubmitterLost, checkVars,
         QueueInv, CheckInv, TypeOK
    <2>2. CASE \E k \in Workers : Work(k)
      BY <1>1, <2>2 DEF Work, Pick, StartRead, StartRefused, StartCommit, CompleteRead,
         CompleteRefused, CompleteCommit, TimeOut, ReconcileRead, ReconcileCommit,
         WorkerLost, Record, checkVars, QueueInv, TypeOK
    <2>3. CASE Operate
      BY <1>1, <2>3 DEF Operate, Cancel, Interrupt, Supersede, Withdraw, Record,
         QueueInv, TypeOK
    <2>4. CASE UNCHANGED vars
      BY <1>1, <2>4 DEF vars
    <2>5. QED
      BY <1>1, <2>1, <2>2, <2>3, <2>4 DEF Next
  <1>2. QueueInv /\ [Next]_vars =>
          [\A c \in Checks : op[c] \notin {"absent", "queued"} => op'[c] # "queued"]_vars
    BY <1>1
  <1>3. QED
    BY <1>2, QueueInvHolds, PTL DEF Spec, NeverRequeued
-------------------------------------------------------------------------------
(* The bound on pending work.                                              *)
(*                                                                         *)
(* Order the queue by creation.  A check at position MaxPending or later   *)
(* was admitted by a submitter whose list did not hold MaxPending of the   *)
(* checks before it that are still queued; had the same submitter created  *)
(* an earlier check at such a position, its list would have.  So the       *)
(* checks from position MaxPending on all have different submitters.       *)

UpTo(c) == {d \in Queued : created[d] <= created[c]}

PendingInv ==
    \* The creation order is total and every check has its submitter.
    /\ \A c \in Existing : created[c] <= head /\ scope[c] \in Submitters
    /\ \A c, d \in Existing : created[c] = created[d] => c = d
    \* A list holds what existed when it was taken, with all that is older,
    \* and everything its submitter created before.
    /\ \A s \in Submitters : seen[s] \subseteq Existing
    /\ \A s \in Submitters : \A c \in seen[s], d \in Existing :
         created[d] <= created[c] => d \in seen[s]
    /\ \A s \in Submitters : phase[s] \in {"listing", "admitted"} =>
         \A c \in Existing : scope[c] = s => c \in seen[s]
    \* Checks only leave the queue, so an admission stays justified.
    /\ \A s \in Submitters : phase[s] = "admitted" =>
         Cardinality(seen[s] \cap Queued) < MaxPending
    /\ \A c, d \in Queued : scope[c] = scope[d] /\ created[c] < created[d] =>
         Cardinality(UpTo(c)) < MaxPending

\* Sets of checks are finite, and a smaller set has no more elements.
LEMMA SmallerSet == ASSUME NEW S, NEW T, T \subseteq S, S \subseteq Checks
                    PROVE  /\ Cardinality(S) \in Nat /\ Cardinality(T) \in Nat
                           /\ Cardinality(T) <= Cardinality(S)
                           /\ IsFiniteSet(S) /\ IsFiniteSet(T)
                           /\ Cardinality(S) = Cardinality(T) => S = T
<1>1. IsFiniteSet(S)
  BY FS_Subset, QueueAssumption
<1>2. IsFiniteSet(T) /\ Cardinality(T) <= Cardinality(S) /\ (Cardinality(S) = Cardinality(T) => S = T)
  BY <1>1, FS_Subset
<1>3. QED
  BY <1>1, <1>2, FS_CardinalityType

LEMMA PendingInit == Init => PendingInv
  BY DEF Init, PendingInv, Existing, Queued

\* A step that creates no check and takes none into the queue.
LEMMA PendingShrinks ==
    ASSUME QueueInv, PendingInv, Queued' \subseteq Queued,
           UNCHANGED <<created, scope, head, callVars>>
    PROVE  PendingInv'
<1>1. Existing' = Existing
  BY DEF Existing
<1>2. ASSUME NEW s \in Submitters, phase'[s] = "admitted"
      PROVE  Cardinality(seen'[s] \cap Queued') < MaxPending
  <2>1. Cardinality(seen[s] \cap Queued) < MaxPending
    BY <1>2 DEF PendingInv, callVars
  <2>2. seen'[s] \cap Queued' \subseteq seen[s] \cap Queued /\ seen[s] \cap Queued \subseteq Checks
    BY DEF callVars, Queued
  <2>3. QED
    BY <2>1, <2>2, SmallerSet, QueueAssumption
<1>3. ASSUME NEW c \in Queued', NEW d \in Queued',
             scope'[c] = scope'[d], created'[c] < created'[d]
      PROVE  Cardinality(UpTo(c)') < MaxPending
  <2>1. Cardinality(UpTo(c)) < MaxPending
    BY <1>3 DEF PendingInv
  <2>2. UpTo(c)' \subseteq UpTo(c) /\ UpTo(c) \subseteq Checks
    BY DEF UpTo, Queued
  <2>3. QED
    BY <2>1, <2>2, SmallerSet, QueueAssumption
<1>4. QED
  BY <1>1, <1>2, <1>3 DEF PendingInv, callVars

\* The steps of a submit call that write nothing.
LEMMA PendingReads ==
    ASSUME NEW s \in Submitters, QueueInv, PendingInv, Submit(s), ~SubmitCommit(s)
    PROVE  PendingInv'
<1> USE DEF QueueInv, TypeOK
<1>1. UNCHANGED <<checkVars, workerVars>> /\ Existing' = Existing /\ Queued' = Queued
      /\ \A c : UpTo(c)' = UpTo(c)
  BY DEF Submit, SubmitReuse, SubmitList, SubmitRefuse, SubmitAdmit, SubmitTwin,
         SubmitConflict, SubmitterLost, checkVars, Existing, Queued, UpTo
<1>2. CASE \E c \in Checks, p \in Priorities : SubmitList(s, c, p)
  <2>1. /\ phase' = [phase EXCEPT ![s] = "listing"]
        /\ seen' = [seen EXCEPT ![s] = Existing]
    BY <1>2 DEF SubmitList
  <2>2. QED
    BY <1>1, <2>1 DEF PendingInv, checkVars, Existing
<1>3. CASE SubmitAdmit(s)
  <2>1. phase' = [phase EXCEPT ![s] = "admitted"] /\ seen' = seen /\ phase[s] = "listing"
        /\ Cardinality(seen[s] \cap Queued) < MaxPending
    BY <1>3 DEF SubmitAdmit
  <2>2. QED
    BY <1>1, <2>1 DEF PendingInv, checkVars
<1>4. CASE SubmitConflict(s)
  <2>1. phase' = [phase EXCEPT ![s] = "conflict"] /\ seen' = seen
    BY <1>4 DEF SubmitConflict
  <2>2. QED
    BY <1>1, <2>1 DEF PendingInv, checkVars
<1>5. CASE Return(s)
  <2>1. phase' = [phase EXCEPT ![s] = "idle"] /\ seen' = [seen EXCEPT ![s] = {}]
    BY <1>5 DEF Return
  <2>2. QED
    BY <1>1, <2>1 DEF PendingInv, checkVars
<1>6. QED
  BY <1>2, <1>3, <1>4, <1>5 DEF Submit, SubmitReuse, SubmitRefuse, SubmitTwin, SubmitterLost

\* The new check is the youngest of the queue; the other checks of its
\* submitter are on the submitter's list.
LEMMA PendingCommit ==
    ASSUME NEW s \in Submitters, QueueInv, PendingInv, SubmitCommit(s)
    PROVE  PendingInv'
<1> DEFINE n == wanted[s]
<1> USE DEF QueueInv, TypeOK
<1>1. /\ n \in Checks /\ created[n] = 0 /\ op[n] = "absent" /\ n \notin Queued
      /\ phase[s] = "admitted"
      /\ created' = [created EXCEPT ![n] = head + 1] /\ head' = head + 1
      /\ scope' = [scope EXCEPT ![n] = s] /\ op' = [op EXCEPT ![n] = "queued"]
      /\ phase' = [phase EXCEPT ![s] = "idle"] /\ seen' = [seen EXCEPT ![s] = {}]
  BY DEF SubmitCommit, CheckInv, Queued, Return
<1>2. Existing' = Existing \cup {n} /\ Queued' = Queued \cup {n} /\ n \notin Existing
  BY <1>1 DEF Existing, Queued
<1>3. /\ \A c \in Existing' : created'[c] <= head' /\ scope'[c] \in Submitters
      /\ \A c, d \in Existing' : created'[c] = created'[d] => c = d
  BY <1>1, <1>2 DEF PendingInv, Existing
<1>4. ASSUME NEW t \in Submitters
      PROVE  /\ seen'[t] \subseteq Existing'
             /\ \A c \in seen'[t], d \in Existing' :
                   created'[d] <= created'[c] => d \in seen'[t]
             /\ phase'[t] \in {"listing", "admitted"} =>
                   \A c \in Existing' : scope'[c] = t => c \in seen'[t]
             /\ phase'[t] = "admitted" => Cardinality(seen'[t] \cap Queued') < MaxPending
  <2>1. CASE t = s
    BY <1>1, <2>1
  <2>2. CASE t # s
    <3>1. phase'[t] = phase[t] /\ seen'[t] = seen[t]
      BY <1>1, <2>2
    <3>2. \A c \in seen[t] : c \in Existing /\ c # n /\ created[c] <= head
      BY <1>2 DEF PendingInv
    <3>3. seen[t] \cap Queued' = seen[t] \cap Queued
      BY <1>2, <3>2
    <3>4. \A c \in seen[t], d \in Existing' : created'[d] <= created'[c] => d \in seen[t]
      <4>1. ASSUME NEW c \in seen[t], NEW d \in Existing', created'[d] <= created'[c]
            PROVE  d \in seen[t]
        <5>1. c \in Existing /\ c # n /\ created[c] <= head /\ created[c] \in Nat
          BY <3>2 DEF Existing
        <5>2. created'[c] = created[c]
          BY <1>1, <5>1 DEF Existing
        <5>3. d # n
          BY <1>1, <4>1, <5>1, <5>2
        <5>4. d \in Existing /\ created'[d] = created[d]
          BY <1>1, <1>2, <5>3 DEF Existing
        <5>5. QED
          BY <4>1, <5>1, <5>2, <5>4 DEF PendingInv
      <4>2. QED
        BY <4>1
    <3>5. \A c \in Existing' : scope'[c] = t => c \in Existing /\ scope[c] = t
      BY <1>1, <1>2, <2>2 DEF Existing
    <3>6. QED
      BY <1>2, <3>1, <3>2, <3>3, <3>4, <3>5 DEF PendingInv
  <2>3. QED
    BY <2>1, <2>2
<1>5. ASSUME NEW c \in Queued', NEW d \in Queued',
             scope'[c] = scope'[d], created'[c] < created'[d]
      PROVE  Cardinality(UpTo(c)') < MaxPending
  <2>1. c # n
    <3>1. d \in Existing'
      BY <1>2, <1>5 DEF Queued, Existing, CheckInv
    <3>2. created'[d] <= head + 1 /\ created'[n] = head + 1
      BY <1>1, <1>3, <3>1
    <3>3. QED
      BY <1>1, <1>5, <3>1, <3>2 DEF Existing
  <2>2. c \in Queued /\ c \in Existing /\ created[c] <= head /\ created'[c] = created[c]
    <3>1. c \in Queued
      BY <1>2, <2>1
    <3>2. c \in Existing
      BY <3>1 DEF Queued, Existing, CheckInv
    <3>3. QED
      BY <1>1, <2>1, <3>1, <3>2 DEF Existing, PendingInv
  <2>3. UpTo(c)' = UpTo(c) /\ UpTo(c) \subseteq Checks
    BY <1>1, <1>2, <2>2 DEF UpTo, Queued
  <2>4. CASE d = n
    <3>1. scope[c] = s /\ c \in seen[s]
      BY <1>1, <1>5, <2>1, <2>2, <2>4 DEF PendingInv
    <3>2. UpTo(c) \subseteq seen[s] \cap Queued /\ seen[s] \cap Queued \subseteq Checks
      BY <3>1 DEF UpTo, PendingInv, Queued, Existing, CheckInv
    <3>3. Cardinality(seen[s] \cap Queued) < MaxPending
      BY <1>1 DEF PendingInv
    <3>4. QED
      BY <2>3, <3>2, <3>3, SmallerSet, QueueAssumption
  <2>5. CASE d # n
    <3>1. d \in Queued /\ scope[c] = scope[d] /\ created[c] < created[d]
      BY <1>1, <1>2, <1>5, <2>1, <2>5 DEF Queued
    <3>2. QED
      BY <2>2, <2>3, <3>1 DEF PendingInv
  <2>6. QED
    BY <2>4, <2>5
<1>6. QED
  BY <1>3, <1>4, <1>5 DEF PendingInv

\* PendingInv holds in every reachable state.
LEMMA PendingInvHolds == Spec => [](QueueInv /\ PendingInv)
<1>1. QueueInv /\ PendingInv /\ [Next]_vars => PendingInv'
  <2> SUFFICES ASSUME QueueInv, PendingInv, [Next]_vars PROVE PendingInv'
    OBVIOUS
  <2>1. ASSUME NEW s \in Submitters, Submit(s) PROVE PendingInv'
    BY <2>1, PendingReads, PendingCommit
  <2>2. ASSUME NEW k \in Workers, Work(k) PROVE PendingInv'
    <3>1. UNCHANGED <<created, scope, head, callVars>>
      BY <2>2 DEF Work, Pick, StartRead, StartRefused, StartCommit, CompleteRead,
         CompleteRefused, CompleteCommit, TimeOut, ReconcileRead, ReconcileCommit,
         WorkerLost, checkVars
    <3>2. Queued' \subseteq Queued
      BY <2>2 DEF Work, Pick, StartRead, StartRefused, StartCommit, CompleteRead,
         CompleteRefused, CompleteCommit, TimeOut, ReconcileRead, ReconcileCommit,
         WorkerLost, checkVars, Queued, Record, QueueInv, TypeOK
    <3>3. QED
      BY <3>1, <3>2, PendingShrinks
  <2>3. CASE Operate
    <3>1. UNCHANGED <<created, scope, head, callVars>> /\ Queued' \subseteq Queued
      BY <2>3 DEF Operate, Cancel, Interrupt, Supersede, Withdraw, Record, Queued,
         QueueInv, TypeOK
    <3>2. QED
      BY <3>1, PendingShrinks
  <2>4. CASE UNCHANGED vars
    <3>1. UNCHANGED <<created, scope, head, callVars>> /\ Queued' \subseteq Queued
      BY <2>4 DEF vars, callVars, Queued
    <3>2. QED
      BY <3>1, PendingShrinks
  <2>5. QED
    BY <2>1, <2>2, <2>3, <2>4 DEF Next
<1>2. QED
  BY <1>1, PendingInit, QueueInvHolds, PTL DEF Spec

\* An injective function needs a codomain of at least its domain's size.
LEMMA InjectionBound ==
    ASSUME NEW S, NEW T, IsFiniteSet(S), IsFiniteSet(T), NEW f \in [S -> T],
           \A x, y \in S : f[x] = f[y] => x = y
    PROVE  Cardinality(S) <= Cardinality(T)
<1>1. Cardinality(S) \in Nat /\ Cardinality(T) \in Nat
  BY FS_CardinalityType
<1>2. ~(Cardinality(T) < Cardinality(S))
  BY FS_PigeonHole
<1>3. QED
  BY <1>1, <1>2

\* The checks of the queue that have MaxPending or more checks up to them.
Late == {c \in Queued : Cardinality(UpTo(c)) >= MaxPending}

\* They have different submitters.
LEMMA FewLate == ASSUME QueueInv, PendingInv
                 PROVE  Cardinality(Late) <= Cardinality(Submitters)
<1> DEFINE f == [c \in Late |-> scope[c]]
<1>1. Late \subseteq Queued /\ Queued \subseteq Existing /\ Existing \subseteq Checks
  BY DEF Late, Queued, Existing, QueueInv, CheckInv
<1>2. f \in [Late -> Submitters]
  BY <1>1 DEF PendingInv
<1>3. ASSUME NEW c \in Late, NEW d \in Late, f[c] = f[d] PROVE c = d
  <2>1. scope[c] = scope[d] /\ c \in Queued /\ d \in Queued
    BY <1>1, <1>3
  <2>2. created[c] \in Nat /\ created[d] \in Nat
    BY <1>1 DEF QueueInv, TypeOK
  <2>3. Cardinality(UpTo(c)) \in Nat /\ Cardinality(UpTo(d)) \in Nat
    BY SmallerSet, <1>1 DEF UpTo
  <2>4. Cardinality(UpTo(c)) >= MaxPending /\ Cardinality(UpTo(d)) >= MaxPending
    BY DEF Late
  <2>5. ~(created[c] < created[d]) /\ ~(created[d] < created[c])
    BY <2>1, <2>3, <2>4, QueueAssumption DEF PendingInv
  <2>6. QED
    BY <1>1, <2>2, <2>5 DEF PendingInv
<1>4. IsFiniteSet(Late) /\ IsFiniteSet(Submitters)
  BY SmallerSet, <1>1, QueueAssumption
<1> HIDE DEF f
<1>5. QED
  BY <1>2, <1>3, <1>4, InjectionBound

\* The others have ranks 1 .. MaxPending - 1, all different.
LEMMA FewEarly == ASSUME QueueInv, PendingInv
                  PROVE  Cardinality(Queued \ Late) <= MaxPending - 1
<1> DEFINE Early == Queued \ Late
           f == [c \in Early |-> Cardinality(UpTo(c))]
<1>1. Early \subseteq Queued /\ Queued \subseteq Existing /\ Existing \subseteq Checks
  BY DEF Queued, Existing, QueueInv, CheckInv
<1>2. ASSUME NEW c \in Queued
      PROVE  /\ c \in UpTo(c) /\ UpTo(c) \subseteq Checks /\ IsFiniteSet(UpTo(c))
             /\ Cardinality(UpTo(c)) \in Nat /\ created[c] \in Nat
             /\ Cardinality(UpTo(c)) # 0
  <2>1. created[c] \in Nat /\ c \in UpTo(c) /\ UpTo(c) \subseteq Checks
    BY <1>1 DEF UpTo, QueueInv, TypeOK
  <2>2. IsFiniteSet(UpTo(c)) /\ Cardinality(UpTo(c)) \in Nat
    BY <2>1, SmallerSet
  <2>3. QED
    BY <2>1, <2>2, FS_EmptySet
<1>3. f \in [Early -> 1 .. (MaxPending - 1)]
  BY <1>1, <1>2, QueueAssumption DEF Late
<1>4. ASSUME NEW c \in Early, NEW d \in Early, f[c] = f[d] PROVE c = d
  <2>1. Cardinality(UpTo(c)) = Cardinality(UpTo(d))
    BY <1>4
  <2>2. CASE created[c] <= created[d]
    <3>1. UpTo(c) \subseteq UpTo(d)
      BY <1>1, <1>2, <2>2 DEF UpTo, QueueInv, TypeOK
    <3>2. d \in UpTo(c)
      BY <1>1, <1>2, <2>1, <3>1, SmallerSet
    <3>3. created[d] <= created[c]
      BY <3>2 DEF UpTo
    <3>4. QED
      BY <1>1, <1>2, <2>2, <3>3 DEF PendingInv
  <2>3. CASE created[d] <= created[c]
    <3>1. UpTo(d) \subseteq UpTo(c)
      BY <1>1, <1>2, <2>3 DEF UpTo, QueueInv, TypeOK
    <3>2. c \in UpTo(d)
      BY <1>1, <1>2, <2>1, <3>1, SmallerSet
    <3>3. created[c] <= created[d]
      BY <3>2 DEF UpTo
    <3>4. QED
      BY <1>1, <1>2, <2>3, <3>3 DEF PendingInv
  <2>4. QED
    BY <1>1, <1>2, <2>2, <2>3
<1>5. IsFiniteSet(Early)
  BY SmallerSet, <1>1
<1>6. IsFiniteSet(1 .. (MaxPending - 1)) /\ Cardinality(1 .. (MaxPending - 1)) = MaxPending - 1
  BY QueueAssumption, FS_Interval
<1> HIDE DEF f
<1>7. Cardinality(Early) <= Cardinality(1 .. (MaxPending - 1))
  BY <1>3, <1>4, <1>5, <1>6, InjectionBound
<1>8. QED
  BY <1>6, <1>7

\* However stale the lists of the submitters, the queue never holds more than
\* MaxPending checks plus one for every submitter but the first.
THEOREM PendingBound == Spec => []PendingOverrun
<1>1. ASSUME QueueInv, PendingInv PROVE PendingOverrun
  <2>1. Queued \subseteq Checks /\ Late \subseteq Queued
    BY DEF Queued, Late
  <2>2. IsFiniteSet(Queued) /\ IsFiniteSet(Late)
        /\ Cardinality(Queued) \in Nat /\ Cardinality(Late) \in Nat
    BY <2>1, SmallerSet
  <2>3. Cardinality(Queued \ Late) = Cardinality(Queued) - Cardinality(Late)
    <3>1. Queued \cap Late = Late
      BY <2>1
    <3>2. QED
      BY <2>2, <3>1, FS_Difference
  <2>4. Cardinality(Submitters) \in Nat
    BY QueueAssumption, FS_CardinalityType
  <2>5. QED
    BY <1>1, <2>2, <2>3, <2>4, FewLate, FewEarly, QueueAssumption DEF PendingOverrun
<1>2. QED
  BY <1>1, PendingInvHolds, PTL
-------------------------------------------------------------------------------
(* The order of the queue.                                                 *)

\* c should have been taken rather than d.
Passed(c, d) == /\ c # d /\ KeyOf[c] = KeyOf[d]
                /\ priority[c] >= priority[d]
                /\ created[c] < created[d]

\* What a worker picked stays the first choice until it is started: whatever is
\* submitted meanwhile is younger.
OrderInv == \A k \in Workers : step[k] \in {"picked", "starting"} =>
               \A c \in Queued : ~Passed(c, job[k])

\* Nothing but a commit of a submission and the workers' steps matters to it.
LEMMA OrderShrinks ==
    ASSUME QueueInv, OrderInv, Queued' \subseteq Queued, UNCHANGED <<created, priority>>,
           NEW k \in Workers, UNCHANGED <<step[k], job[k]>>,
           step'[k] \in {"picked", "starting"}
    PROVE  \A c \in Queued' : ~Passed(c, job[k])'
  BY DEF OrderInv, Passed

\* A new check is the youngest.
LEMMA OrderSubmit == ASSUME NEW s \in Submitters, QueueInv, PendingInv, OrderInv, Submit(s)
                     PROVE  OrderInv'
<1>1. CASE ~SubmitCommit(s)
  BY <1>1 DEF Submit, SubmitReuse, SubmitList, SubmitRefuse, SubmitAdmit, SubmitTwin,
              SubmitConflict, SubmitterLost, checkVars, workerVars, OrderInv, Passed, Queued
<1>2. CASE SubmitCommit(s)
  <2> DEFINE n == wanted[s]
  <2>1. /\ n \in Checks /\ created[n] = 0 /\ op[n] = "absent"
        /\ head \in Nat /\ created \in [Checks -> Nat] /\ priority \in [Checks -> Int]
    BY <1>2 DEF SubmitCommit, QueueInv, TypeOK, CheckInv
  <2>2. /\ created' = [created EXCEPT ![n] = head + 1]
        /\ priority' = [priority EXCEPT ![n] = asked[s]]
        /\ op' = [op EXCEPT ![n] = "queued"]
        /\ UNCHANGED <<step, job>>
    BY <1>2 DEF SubmitCommit, workerVars
  <2>3. ASSUME NEW k \in Workers, step[k] \in {"picked", "starting"}, NEW c \in Queued'
        PROVE  ~Passed(c, job[k])'
    <3>1. job[k] \in Checks /\ op[job[k]] \in {"queued", "interrupted"}
      BY <2>3 DEF QueueInv, TypeOK, WorkerInv
    <3>2. job[k] # n /\ job[k] \in Existing
      BY <2>1, <3>1 DEF QueueInv, CheckInv, Existing
    <3>3. created[job[k]] <= head
      BY <3>2 DEF PendingInv
    <3>4. CASE c = n
      BY <2>1, <2>2, <3>1, <3>2, <3>3, <3>4 DEF Passed
    <3>5. CASE c # n
      <4>1. c \in Queued
        BY <2>2, <2>3, <3>5, <2>1 DEF Queued, QueueInv, TypeOK
      <4>2. ~Passed(c, job[k])
        BY <2>3, <4>1 DEF OrderInv
      <4>3. c \in Checks
        BY <4>1 DEF Queued
      <4>4. QED
        BY <2>1, <2>2, <3>1, <3>2, <3>5, <4>2, <4>3 DEF Passed
    <3>6. QED
      BY <3>4, <3>5
  <2>4. QED
    BY <2>2, <2>3 DEF OrderInv
<1>3. QED
  BY <1>1, <1>2

\* pending() puts nothing before what it returns first.
LEMMA OrderWork == ASSUME NEW k \in Workers, QueueInv, OrderInv, Work(k)
                   PROVE  OrderInv'
<1>1. /\ Queued' \subseteq Queued /\ UNCHANGED <<created, priority>>
      /\ \A w \in Workers : w # k => UNCHANGED <<step[w], job[w]>>
  BY DEF Work, Pick, StartRead, StartRefused, StartCommit, CompleteRead, CompleteRefused,
         CompleteCommit, TimeOut, ReconcileRead, ReconcileCommit, WorkerLost, Record, Rest,
         Take, Advance, checkVars, Queued, QueueInv, TypeOK
<1>2. ASSUME step'[k] \in {"picked", "starting"}
      PROVE  \A c \in Queued' : ~Passed(c, job[k])'
  <2>1. CASE \E d \in Checks : Pick(k, d)
    <3>1. PICK d \in Checks : d \in First(k) /\ job' = [job EXCEPT ![k] = d]
      BY <2>1 DEF Pick, Take
    <3>2. job'[k] = d /\ KeyOf[d] = k
      BY <3>1 DEF QueueInv, TypeOK, First, Pending
    <3>3. ASSUME NEW c \in Queued, Passed(c, d) PROVE FALSE
      <4>1. c \in Pending(k) \ {d}
        BY <3>2, <3>3 DEF Passed, Pending
      <4>2. Precedes(d, c)
        BY <3>1, <4>1 DEF First
      <4>3. /\ priority[c] \in Int /\ priority[d] \in Int
            /\ created[c] \in Nat /\ created[d] \in Nat
        BY <3>1, <3>3 DEF QueueInv, TypeOK, Queued
      <4>4. QED
        BY <3>3, <4>2, <4>3 DEF Passed, Precedes
    <3>4. QED
      BY <1>1, <3>2, <3>3 DEF Passed
  <2>2. CASE StartRead(k)
    <3>1. step[k] = "picked" /\ job' = job
      BY <2>2 DEF StartRead, Advance
    <3>2. QED
      BY <1>1, <3>1 DEF OrderInv, Passed
  <2>3. QED
    BY <1>2, <2>1, <2>2 DEF Work, StartRefused, StartCommit, CompleteRead, CompleteRefused,
       CompleteCommit, TimeOut, ReconcileRead, ReconcileCommit, WorkerLost, Rest, Take,
       Advance, QueueInv, TypeOK
<1>3. ASSUME NEW w \in Workers, w # k, step'[w] \in {"picked", "starting"}
      PROVE  \A c \in Queued' : ~Passed(c, job[w])'
  BY <1>1, <1>3, OrderShrinks
<1>4. QED
  BY <1>2, <1>3 DEF OrderInv

\* A check that is started has not overtaken an older one of its worker that waits with
\* at least its priority, although the queue is read two steps before.
THEOREM NothingOvertakes == Spec => NoOvertaking
<1>1. Init => OrderInv
  BY DEF Init, OrderInv
<1>2. QueueInv /\ PendingInv /\ OrderInv /\ [Next]_vars => OrderInv'
  <2> SUFFICES ASSUME QueueInv, PendingInv, OrderInv, [Next]_vars PROVE OrderInv'
    OBVIOUS
  <2>1. CASE \E s \in Submitters : Submit(s)
    BY <2>1, OrderSubmit
  <2>2. CASE \E k \in Workers : Work(k)
    BY <2>2, OrderWork
  <2>3. CASE Operate
    <3>1. Queued' \subseteq Queued /\ UNCHANGED <<created, priority, step, job>>
      BY <2>3 DEF Operate, Cancel, Interrupt, Supersede, Withdraw, Record, workerVars, Queued,
                  QueueInv, TypeOK
    <3>2. QED
      BY <3>1, OrderShrinks DEF OrderInv
  <2>4. CASE UNCHANGED vars
    BY <2>4 DEF vars, OrderInv, Passed, Queued
  <2>5. QED
    BY <2>1, <2>2, <2>3, <2>4 DEF Next
<1>3. ASSUME QueueInv, OrderInv, [Next]_vars, NEW d \in Checks, starts'[d] > starts[d]
      PROVE  ~ \E c \in Queued : Passed(c, d)
  <2>1. PICK k \in Workers : StartCommit(k)
    <3>1. starts' # starts
      BY <1>3 DEF QueueInv, TypeOK
    <3>2. QED
      BY <1>3, <3>1 DEF Next, vars, Submit, SubmitReuse, SubmitList, SubmitRefuse, SubmitAdmit,
         SubmitCommit, SubmitTwin, SubmitConflict, SubmitterLost, Work, Pick, StartRead,
         StartRefused, CompleteRead, CompleteRefused, CompleteCommit, TimeOut, ReconcileRead,
         ReconcileCommit, WorkerLost, Operate, Cancel, Interrupt, Supersede, Withdraw, checkVars
  <2>2. step[k] = "starting" /\ d = job[k]
    BY <1>3, <2>1 DEF StartCommit, QueueInv, TypeOK
  <2>3. QED
    BY <1>3, <2>2 DEF OrderInv
<1>4. QueueInv /\ OrderInv /\ [Next]_vars =>
         [\A d \in Checks : starts'[d] > starts[d] =>
             ~ \E c \in Queued : /\ c # d
                                 /\ KeyOf[c] = KeyOf[d]
                                 /\ priority[c] >= priority[d]
                                 /\ created[c] < created[d]]_vars
  BY <1>3 DEF Passed
<1>5. QED
  BY <1>1, <1>2, <1>4, PendingInvHolds, PTL DEF Spec, NoOvertaking
-------------------------------------------------------------------------------
(* The queue implements CheckLifecycle.                                    *)

\* Each step of the queue is a step of the lifecycle or invisible to it.
THEOREM QueueImplementsLifecycle == Spec => ImplementsLifecycle
<1> DEFINE ran == {c \in Checks : starts[c] > 0}
<1> USE DEF Lifecycle!LNext, Lifecycle!lvars
<1>1. Init => Lifecycle!LInit
  BY DEF Init, Lifecycle!LInit, Executing
<1>2. QueueInv /\ [Next]_vars => [Lifecycle!LNext]_(Lifecycle!lvars)
  <2> SUFFICES ASSUME QueueInv, [Next]_vars PROVE [Lifecycle!LNext]_(Lifecycle!lvars)
    OBVIOUS
  <2> USE QueueAssumption DEF QueueInv, TypeOK
  <2>1. ASSUME NEW s \in Submitters, SubmitCommit(s) PROVE Lifecycle!LNext
    <3> DEFINE n == wanted[s]
    <3>1. n \in Checks /\ op[n] = "absent" /\ op' = [op EXCEPT ![n] = "queued"]
          /\ UNCHANGED <<starts, step, job>>
      BY <2>1 DEF SubmitCommit, CheckInv, workerVars
    <3>2. Executing' = Executing /\ ran' = ran
      BY <3>1 DEF Executing
    <3>3. Lifecycle!Enqueue(n)
      BY <3>1, <3>2 DEF Lifecycle!Enqueue
    <3>4. QED
      BY <3>1, <3>3
  <2>2. ASSUME NEW s \in Submitters, Submit(s), ~SubmitCommit(s)
        PROVE  UNCHANGED Lifecycle!lvars
    BY <2>2 DEF Submit, SubmitReuse, SubmitList, SubmitRefuse, SubmitAdmit, SubmitTwin,
       SubmitConflict, SubmitterLost, checkVars, workerVars, Executing
  <2>3. ASSUME NEW k \in Workers, StartCommit(k) PROVE Lifecycle!LNext
    <3>1. PICK c \in Checks : c = job[k]
      BY <2>3 DEF StartCommit
    <3>2. op[c] \in {"queued", "interrupted"} /\ starts[c] = 0
          /\ op' = [op EXCEPT ![c] = "running"] /\ starts' = [starts EXCEPT ![c] = @ + 1]
          /\ step' = [step EXCEPT ![k] = "checking"] /\ job' = job
      BY <2>3, <3>1 DEF StartCommit, WorkerInv, Record, Advance
    <3>3. ran' = ran \cup {c}
      BY <3>2
    <3>4. Executing' = Executing \cup {c}
      BY <2>3, <3>1, <3>2 DEF Executing, StartCommit
    <3>5. Lifecycle!Begin(c)
      BY <3>2, <3>3, <3>4 DEF Lifecycle!Begin
    <3>6. QED
      BY <3>5
  <2>4. ASSUME NEW k \in Workers, NEW outcome \in {"completed", "failed", "timed_out"},
               step[k] \in {"checking", "completing"}, Record(job[k], outcome), Rest(k),
               starts' = starts
        PROVE  Lifecycle!LNext
    <3> DEFINE c == job[k]
    <3>1. c \in Checks /\ op[c] \in {"running", "interrupted"}
          /\ op' = [op EXCEPT ![c] = outcome] /\ ran' = ran /\ c \in Executing
      BY <2>4 DEF WorkerInv, Record, Executing
    <3>2. Executing' = Executing \ {c}
      BY <2>4 DEF Executing, Rest, Take, WorkerInv
    <3>3. Lifecycle!End(c, outcome)
      BY <3>1, <3>2 DEF Lifecycle!End
    <3>4. QED
      BY <3>1, <3>3 DEF Lifecycle!Outcomes
  <2>5. ASSUME NEW c \in Checks, op[c] # "absent", Record(c, "interrupted"),
               starts' = starts, Executing' = Executing
        PROVE  Lifecycle!LNext
    BY <2>5 DEF Lifecycle!Interrupted, Record
  <2>6. ASSUME NEW k \in Workers, Work(k) PROVE [Lifecycle!LNext]_(Lifecycle!lvars)
    <3>1. CASE StartCommit(k)
      BY <2>3, <3>1
    <3>2. CASE TimeOut(k)
      BY <2>4, <3>2 DEF TimeOut
    <3>3. CASE \E outcome \in {"completed", "failed"} : CompleteCommit(k, outcome)
      BY <2>4, <3>3 DEF CompleteCommit
    <3>4. CASE ReconcileCommit(k)
      <4>1. Executing' = Executing
        BY <3>4 DEF ReconcileCommit, Rest, Take, Executing
      <4>2. QED
        BY <2>5, <3>4, <4>1 DEF ReconcileCommit, WorkerInv
    <3>5. CASE StartRead(k) \/ StartRefused(k) \/ CompleteRead(k)
               \/ (\E c \in Checks : Pick(k, c) \/ ReconcileRead(k, c))
      <4>1. UNCHANGED checkVars
        BY <3>5 DEF StartRead, StartRefused, CompleteRead, Pick, ReconcileRead
      <4>2. Executing' = Executing
        BY <3>5 DEF StartRead, StartRefused, CompleteRead, Pick, ReconcileRead, Rest, Take,
           Advance, Executing
      <4>3. QED
        BY <4>1, <4>2 DEF checkVars
    <3>6. CASE CompleteRefused(k) \/ WorkerLost(k)
      <4> DEFINE c == job[k]
      <4>1. UNCHANGED checkVars /\ Rest(k) /\ step[k] # "idle"
        BY <3>6 DEF CompleteRefused, WorkerLost
      <4>2. CASE step[k] \in {"checking", "completing"}
        <5>1. c \in Executing /\ c \in Checks
          BY <4>2 DEF Executing
        <5>2. Executing' = Executing \ {c}
          BY <4>1, <4>2 DEF Executing, Rest, Take, WorkerInv
        <5>3. Lifecycle!Abandon(c)
          BY <4>1, <5>1, <5>2 DEF Lifecycle!Abandon, checkVars
        <5>4. QED
          BY <5>1, <5>3
      <4>3. CASE step[k] \notin {"checking", "completing"}
        BY <4>1, <4>3 DEF Executing, Rest, Take, checkVars
      <4>4. QED
        BY <4>2, <4>3
    <3>7. QED
      BY <2>6, <3>1, <3>2, <3>3, <3>4, <3>5, <3>6 DEF Work
  <2>7. CASE Operate
    <3>1. PICK c \in Checks : Withdraw(c)
      BY <2>7 DEF Operate, Cancel, Interrupt, Supersede
    <3>2. op[c] # "absent" /\ Executing' = Executing
      BY <3>1 DEF Withdraw, CheckInv, workerVars, Executing
    <3>3. QED
      BY <2>5, <3>1, <3>2 DEF Withdraw
  <2>8. CASE UNCHANGED vars
    BY <2>8 DEF vars, Executing
  <2>9. QED
    BY <2>1, <2>2, <2>6, <2>7, <2>8 DEF Next
<1>3. QED
  BY <1>1, <1>2, QueueInvHolds, PTL DEF Spec, ImplementsLifecycle, Lifecycle!LSpec
-------------------------------------------------------------------------------
-------------------------------------------------------------------------------
(* Every step of a client or a service is a step of the queue or leaves    *)
(* the queue alone.                                                        *)

LEMMA ClientUsesQueue == ASSUME NEW s \in Submitters, ClientStep(s) \/ ClientKilled(s)
                         PROVE  [Next]_vars
<1>1. Submit(s) \/ UNCHANGED vars
  BY DEF ClientStep, Asking, Obtained, SpawnWorker, Answered, Deadline, ClientKilled, Submit
<1>2. QED
  BY <1>1 DEF Next

LEMMA ServiceUsesQueue ==
    ASSUME NEW k \in Workers,
           ChildStep(k) \/ ServiceStep(k) \/ Failed(k) \/ Broken(k) \/ Crash(k) \/ Signal(k),
           \A w \in Workers : active[w] \in Checks \cup {NoCheck},
           service[k] = "raising" => active[k] \in Checks
    PROVE  [Next]_vars
<1>1. ASSUME ~InterruptActive(k) PROVE Work(k) \/ UNCHANGED vars
  BY <1>1 DEF ChildStep, TakeLock, LockHeld, ServiceStep, ReconcileNext, Reconcile, Serve,
     Look, IdleExit, StopExit, NothingLeft, Process, Processed, Refused, Closed, Failed,
     Broken, Crash, Signal, WorkerGone, Work
<1>2. CASE InterruptActive(k)
  BY <1>2 DEF InterruptActive, Operate, Next
<1>3. QED
  BY <1>1, <1>2 DEF Next

LEMMA WithdrawnUsesQueue == Withdrawn => [Next]_vars
  BY ServiceAssumption DEF Withdrawn, Operate, Next
-------------------------------------------------------------------------------
(* The inductive invariant.                                                *)

\* What the lock holder of a key is doing and what its worker is doing.
HolderInv(k) ==
    /\ step[k] \in {"picked", "starting", "checking", "completing"} => service[k] = "active"
    /\ step[k] = "reconciling" => service[k] = "booting"
    /\ step[k] = "idle" => job[k] = NoCheck
    /\ service[k] \in {"active", "raising"} => active[k] \in Checks

ServiceInv == /\ QueueInv
              /\ STypeOK
              /\ \A k \in Workers : HolderInv(k)
              /\ RunningIsOwned

LEMMA ServiceInit == SInit => ServiceInv
<1> SUFFICES ASSUME SInit PROVE ServiceInv
  OBVIOUS
<1>1. QueueInv
  BY InvInit DEF SInit
<1>2. STypeOK
  BY ServiceAssumption DEF SInit, STypeOK, ServiceStates
<1>3. ASSUME NEW k \in Workers PROVE HolderInv(k)
  BY DEF SInit, Init, HolderInv
<1>4. RunningIsOwned
  BY DEF SInit, Init, RunningIsOwned
<1>5. QED
  BY <1>1, <1>2, <1>3, <1>4 DEF ServiceInv

LEMMA ServiceQueueStep == ServiceInv /\ [SNext]_svars => [Next]_vars
<1> SUFFICES ASSUME ServiceInv, [SNext]_svars PROVE [Next]_vars
  OBVIOUS
<1>1. CASE UNCHANGED svars
  BY <1>1 DEF svars
<1>2. CASE \E s \in Submitters : ClientStep(s) \/ ClientKilled(s)
  BY <1>2, ClientUsesQueue
<1>3. CASE \E k \in Workers : \/ ChildStep(k) \/ ServiceStep(k)
                              \/ Failed(k) \/ Broken(k) \/ Crash(k) \/ Signal(k)
  BY <1>3, ServiceUsesQueue DEF ServiceInv, STypeOK, HolderInv
<1>4. CASE Withdrawn
  BY <1>4, WithdrawnUsesQueue
<1>5. QED
  BY <1>1, <1>2, <1>3, <1>4 DEF SNext

LEMMA ServiceType == ServiceInv /\ [SNext]_svars => STypeOK'
<1> SUFFICES ASSUME ServiceInv, [SNext]_svars PROVE STypeOK'
  OBVIOUS
<1> USE ServiceAssumption, QueueAssumption
    DEF ServiceInv, STypeOK, ServiceStates, outerVars, serviceVars, loopVars, clientVars
<1>0. Fault => faults' \in 0 .. MaxFaults
  BY DEF Fault
<1>1. CASE UNCHANGED svars
  BY <1>1 DEF svars
<1>2. ASSUME NEW s \in Submitters, ClientStep(s) PROVE STypeOK'
  <2>1. CASE Asking(s)
    BY <2>1 DEF Asking
  <2>2. CASE \E c \in Checks : Obtained(s, c)
    BY <2>2 DEF Obtained, Obtain
  <2>3. CASE SpawnWorker(s)
    BY <2>3 DEF SpawnWorker
  <2>4. CASE Answered(s) \/ Deadline(s)
    BY <2>4 DEF Answered, Deadline, Obtain
  <2>5. QED
    BY <1>2, <2>1, <2>2, <2>3, <2>4 DEF ClientStep
<1>3. ASSUME NEW s \in Submitters, ClientKilled(s) PROVE STypeOK'
  BY <1>0, <1>3 DEF ClientKilled, Obtain
<1>4. ASSUME NEW k \in Workers, ChildStep(k) PROVE STypeOK'
  BY <1>4 DEF ChildStep, TakeLock, LockHeld, Become, Existing
<1>5. ASSUME NEW k \in Workers, ServiceStep(k) PROVE STypeOK'
  <2> USE DEF Become
  <2>1. CASE \E c \in Checks : ReconcileNext(k, c) \/ Look(k, c)
    BY <2>1 DEF ReconcileNext, Look
  <2>2. CASE Reconcile(k)
    <3>1. job[k] \in Checks
      BY <2>2 DEF Reconcile, ReconcileCommit, QueueInv, TypeOK
    <3>2. QED
      BY <2>2, <3>1 DEF Reconcile
  <2>3. CASE Serve(k) \/ IdleExit(k) \/ StopExit(k) \/ NothingLeft(k) \/ Process(k)
             \/ Processed(k) \/ Refused(k) \/ InterruptActive(k)
    BY <2>3 DEF Serve, IdleExit, StopExit, NothingLeft, Process, Processed, Refused,
       InterruptActive
  <2>4. CASE Closed(k)
    BY <2>4 DEF Closed, Reset
  <2>5. QED
    BY <1>5, <2>1, <2>2, <2>3, <2>4 DEF ServiceStep
<1>6. ASSUME NEW k \in Workers, Failed(k) \/ Broken(k) \/ Crash(k) \/ Signal(k) PROVE STypeOK'
  <2> USE <1>0 DEF Become
  <2>1. CASE Failed(k) \/ Broken(k)
    BY <2>1 DEF Failed, Broken
  <2>2. CASE Crash(k)
    BY <2>2 DEF Crash, Reset
  <2>3. CASE Signal(k)
    BY <2>3 DEF Signal
  <2>4. QED
    BY <1>6, <2>1, <2>2, <2>3
<1>7. CASE Withdrawn
  BY <1>0, <1>7 DEF Withdrawn
<1>8. QED
  BY <1>1, <1>2, <1>3, <1>4, <1>5, <1>6, <1>7 DEF SNext
-------------------------------------------------------------------------------
(* RunningIsOwned is preserved.                                            *)

\* What a client does concerns neither the services nor a running check.
LEMMA ClientKeepsOwned ==
    ASSUME NEW s \in Submitters, ServiceInv, ClientStep(s) \/ ClientKilled(s)
    PROVE  /\ \A k \in Workers : HolderInv(k)'
           /\ RunningIsOwned'
<1>1. UNCHANGED <<step, job, service, todo, active>>
  BY DEF ClientStep, Asking, Obtained, SpawnWorker, Answered, Deadline, ClientKilled,
     SubmitList, SubmitRefuse, SubmitAdmit, SubmitConflict, SubmitterLost, SubmitReuse,
     SubmitCommit, SubmitTwin, workerVars, serviceVars, loopVars, vars
<1>2. \A c \in Checks : op'[c] = "running" => op[c] = "running"
  BY DEF ClientStep, Asking, Obtained, SpawnWorker, Answered, Deadline, ClientKilled,
     SubmitList, SubmitRefuse, SubmitAdmit, SubmitConflict, SubmitterLost, SubmitReuse,
     SubmitCommit, SubmitTwin, checkVars, vars, ServiceInv, QueueInv, TypeOK
<1>3. QED
  BY <1>1, <1>2 DEF ServiceInv, HolderInv, RunningIsOwned

LEMMA WithdrawnKeepsOwned ==
    ASSUME ServiceInv, Withdrawn
    PROVE  /\ \A k \in Workers : HolderInv(k)'
           /\ RunningIsOwned'
<1>1. UNCHANGED <<step, job, service, todo, active>>
  BY DEF Withdrawn, Cancel, Supersede, Withdraw, workerVars, serviceVars, loopVars
<1>2. \A c \in Checks : op'[c] = "running" => op[c] = "running"
  BY DEF Withdrawn, Cancel, Supersede, Withdraw, Record, ServiceInv, QueueInv, TypeOK
<1>3. QED
  BY <1>1, <1>2 DEF ServiceInv, HolderInv, RunningIsOwned

\* Who executes check c, if it is running.
Owned(c) ==
    LET k == KeyOf[c] IN
    \/ job[k] = c /\ step[k] \in {"checking", "completing"}
    \/ service[k] \in {"down", "raising", "closing"}
    \/ service[k] = "booting" /\ (c \in todo[k] \/ job[k] = c)

\* The step of one key's process is nobody else's business.
LEMMA OneKeyAtATime ==
    ASSUME NEW k \in Workers, ServiceInv,
           \A w \in Workers \ {k} : /\ step'[w] = step[w] /\ job'[w] = job[w]
                                    /\ service'[w] = service[w] /\ todo'[w] = todo[w]
                                    /\ active'[w] = active[w],
           \A c \in Checks : KeyOf[c] # k /\ op'[c] = "running" => op[c] = "running",
           HolderInv(k)',
           \A c \in Checks : KeyOf[c] = k /\ op'[c] = "running" => Owned(c)'
    PROVE  /\ \A w \in Workers : HolderInv(w)'
           /\ RunningIsOwned'
<1>1. \A w \in Workers : HolderInv(w)'
  BY DEF ServiceInv, HolderInv
<1>2. ASSUME NEW c \in Checks, op'[c] = "running" PROVE Owned(c)'
  <2>1. CASE KeyOf[c] = k
    BY <1>2, <2>1
  <2>2. CASE KeyOf[c] # k
    <3>1. KeyOf[c] \in Workers \ {k} /\ op[c] = "running"
      BY <1>2, <2>2, QueueAssumption
    <3>2. Owned(c)
      BY <3>1 DEF ServiceInv, RunningIsOwned, Owned
    <3>3. QED
      BY <3>1, <3>2 DEF Owned
  <2>3. QED
    BY <2>1, <2>2
<1>3. QED
  BY <1>1, <1>2 DEF RunningIsOwned, Owned

LEMMA ServiceKeepsOwned ==
    ASSUME NEW k \in Workers, ServiceInv,
           ChildStep(k) \/ ServiceStep(k) \/ Failed(k) \/ Broken(k) \/ Crash(k) \/ Signal(k)
    PROVE  /\ \A w \in Workers : HolderInv(w)'
           /\ RunningIsOwned'
<1>0. /\ \A w \in Workers : HolderInv(w) /\ WorkerInv(w)
      /\ \A c \in Checks : op[c] = "running" => Owned(c) /\ created[c] # 0
      /\ TypeOK /\ STypeOK
  BY DEF ServiceInv, QueueInv, CheckInv, RunningIsOwned, Owned
<1> USE QueueAssumption DEF loopVars, serviceVars, outerVars, Become
<1>1. CASE ChildStep(k)
  <2>1. UNCHANGED <<op, step, job, active>>
    BY <1>1 DEF ChildStep, TakeLock, LockHeld, vars, serviceVars, loopVars
  <2>2. HolderInv(k)'
    BY <1>0, <1>1, <2>1 DEF ChildStep, TakeLock, LockHeld, Existing, HolderInv, Owned, TypeOK, STypeOK
  <2>3. \A c \in Checks : KeyOf[c] # k /\ op'[c] = "running" => op[c] = "running"
    BY <1>0, <1>1, <2>1 DEF ChildStep, TakeLock, LockHeld, Existing, HolderInv, Owned, TypeOK, STypeOK
  <2>4. \A c \in Checks : KeyOf[c] = k /\ op'[c] = "running" => Owned(c)'
    BY <1>0, <1>1, <2>1 DEF ChildStep, TakeLock, LockHeld, Existing, HolderInv, Owned, TypeOK, STypeOK
  <2>5. \A w \in Workers \ {k} : /\ step'[w] = step[w] /\ job'[w] = job[w]
                                   /\ service'[w] = service[w] /\ todo'[w] = todo[w]
                                   /\ active'[w] = active[w]
    BY <1>0, <1>1, <2>1 DEF ChildStep, TakeLock, LockHeld, Existing, HolderInv, Owned, TypeOK, STypeOK
  <2>6. QED
    BY <1>0, <2>2, <2>3, <2>4, <2>5, OneKeyAtATime
<1>2. CASE \E c \in Checks : ReconcileNext(k, c)
  <2>1. PICK d \in Checks : ReconcileNext(k, d)
    BY <1>2
  <2>2. /\ op' = op /\ service[k] = "booting" /\ step[k] \in {"idle", "reconciling"}
        /\ UNCHANGED <<service, active>> /\ todo' = [todo EXCEPT ![k] = @ \ {d}]
        /\ \A w \in Workers \ {k} : step'[w] = step[w] /\ job'[w] = job[w]
        /\ step[k] = "idle" /\ step'[k] \in {"idle", "reconciling"}
        /\ op[d] = "running" => job'[k] = d /\ step'[k] = "reconciling"
        /\ step'[k] = "idle" => job' = job
        /\ job[k] = NoCheck
    BY <1>0, <2>1 DEF ReconcileNext, ReconcileRead, Take, checkVars, vars, TypeOK, HolderInv
  <2>3. HolderInv(k)'
    BY <1>0, <2>2 DEF HolderInv, Owned, TypeOK, STypeOK
  <2>4. \A c \in Checks : KeyOf[c] # k /\ op'[c] = "running" => op[c] = "running"
    BY <1>0, <2>2 DEF HolderInv, Owned, TypeOK, STypeOK
  <2>5. \A c \in Checks : KeyOf[c] = k /\ op'[c] = "running" => Owned(c)'
    <3>1. SUFFICES ASSUME NEW c \in Checks, KeyOf[c] = k, op'[c] = "running" PROVE Owned(c)'
      OBVIOUS
    <3>2. CASE c = d
      BY <2>2, <3>1, <3>2 DEF Owned
    <3>3. CASE c # d
      <4>1. c \in todo[k]
        BY <1>0, <2>2, <3>1 DEF Owned
      <4>2. QED
        BY <1>0, <2>2, <3>1, <3>3, <4>1 DEF Owned, STypeOK
    <3>4. QED
      BY <3>2, <3>3
  <2>6. \A w \in Workers \ {k} : /\ step'[w] = step[w] /\ job'[w] = job[w]
                                   /\ service'[w] = service[w] /\ todo'[w] = todo[w]
                                   /\ active'[w] = active[w]
    BY <1>0, <2>2 DEF HolderInv, Owned, TypeOK, STypeOK
  <2>7. QED
    BY <1>0, <2>3, <2>4, <2>5, <2>6, OneKeyAtATime
<1>3. CASE \E c \in Checks : Look(k, c)
  <2>1. /\ UNCHANGED <<op, step, job, todo>> /\ service[k] = "serving"
        /\ service' = [service EXCEPT ![k] = "active"]
        /\ \E c \in Checks : active' = [active EXCEPT ![k] = c]
    BY <1>3 DEF Look, vars
  <2>2. HolderInv(k)'
    BY <1>0, <2>1 DEF HolderInv, Owned, TypeOK, STypeOK
  <2>3. \A c \in Checks : KeyOf[c] # k /\ op'[c] = "running" => op[c] = "running"
    BY <1>0, <2>1 DEF HolderInv, Owned, TypeOK, STypeOK
  <2>4. \A c \in Checks : KeyOf[c] = k /\ op'[c] = "running" => Owned(c)'
    BY <1>0, <2>1 DEF HolderInv, Owned, TypeOK, STypeOK
  <2>5. \A w \in Workers \ {k} : /\ step'[w] = step[w] /\ job'[w] = job[w]
                                   /\ service'[w] = service[w] /\ todo'[w] = todo[w]
                                   /\ active'[w] = active[w]
    BY <1>0, <2>1 DEF HolderInv, Owned, TypeOK, STypeOK
  <2>6. QED
    BY <1>0, <2>2, <2>3, <2>4, <2>5, OneKeyAtATime
<1>4. CASE Reconcile(k)
  <2>1. /\ job[k] \in Checks /\ KeyOf[job[k]] = k /\ step[k] = "reconciling"
        /\ op' = [op EXCEPT ![job[k]] = "interrupted"]
        /\ step' = [step EXCEPT ![k] = "idle"] /\ job' = [job EXCEPT ![k] = NoCheck]
        /\ UNCHANGED <<service, todo, active>>
    BY <1>0, <1>4 DEF Reconcile, ReconcileCommit, Record, Rest, Take, WorkerInv, TypeOK
  <2>2. HolderInv(k)'
    BY <1>0, <2>1 DEF HolderInv, Owned, TypeOK, STypeOK
  <2>3. \A c \in Checks : KeyOf[c] # k /\ op'[c] = "running" => op[c] = "running"
    BY <1>0, <2>1 DEF HolderInv, Owned, TypeOK, STypeOK
  <2>4. \A c \in Checks : KeyOf[c] = k /\ op'[c] = "running" => Owned(c)'
    BY <1>0, <2>1 DEF HolderInv, Owned, TypeOK, STypeOK
  <2>5. \A w \in Workers \ {k} : /\ step'[w] = step[w] /\ job'[w] = job[w]
                                   /\ service'[w] = service[w] /\ todo'[w] = todo[w]
                                   /\ active'[w] = active[w]
    BY <1>0, <2>1 DEF HolderInv, Owned, TypeOK, STypeOK
  <2>6. QED
    BY <1>0, <2>2, <2>3, <2>4, <2>5, OneKeyAtATime
<1>5. CASE Serve(k) \/ IdleExit(k) \/ StopExit(k) \/ NothingLeft(k) \/ Broken(k) \/ Signal(k)
  <2>1. /\ UNCHANGED <<op, step, job, todo, active>>
        /\ \A w \in Workers \ {k} : service'[w] = service[w]
        /\ service[k] \in {"booting", "serving", "active", "raising", "closing"}
        /\ service'[k] = service[k] \/ service'[k] \in {"serving", "closing"}
        /\ service'[k] # service[k] => step[k] = "idle"
        /\ service'[k] = "serving" => service[k] \in {"booting", "serving", "active"}
        /\ service'[k] = "serving" /\ service[k] = "booting" => todo[k] = {}
    BY <1>0, <1>5 DEF Serve, IdleExit, StopExit, NothingLeft, Broken, Signal, vars, HolderInv,
       TypeOK, STypeOK, ServiceStates, Steps
  <2>2. HolderInv(k)'
    BY <1>0, <2>1 DEF HolderInv, Owned, TypeOK, STypeOK
  <2>3. \A c \in Checks : KeyOf[c] # k /\ op'[c] = "running" => op[c] = "running"
    BY <1>0, <2>1 DEF HolderInv, Owned, TypeOK, STypeOK
  <2>4. \A c \in Checks : KeyOf[c] = k /\ op'[c] = "running" => Owned(c)'
    <3>1. SUFFICES ASSUME NEW c \in Checks, KeyOf[c] = k, op'[c] = "running" PROVE Owned(c)'
      OBVIOUS
    <3>2. Owned(c)
      BY <1>0, <2>1, <3>1
    <3>3. CASE service'[k] = service[k]
      BY <2>1, <3>1, <3>2, <3>3 DEF Owned
    <3>4. CASE service'[k] = "closing"
      BY <3>1, <3>4 DEF Owned
    <3>5. CASE service'[k] = "serving" /\ service'[k] # service[k]
      <4>1. step[k] = "idle" /\ job[k] # c
        BY <1>0, <2>1, <3>5 DEF HolderInv
      <4>2. service[k] = "closing"
        BY <2>1, <3>1, <3>2, <3>5, <4>1 DEF Owned
      <4>3. QED
        BY <2>1, <3>5, <4>2
    <3>6. QED
      BY <2>1, <3>3, <3>4, <3>5
  <2>5. \A w \in Workers \ {k} : /\ step'[w] = step[w] /\ job'[w] = job[w]
                                   /\ service'[w] = service[w] /\ todo'[w] = todo[w]
                                   /\ active'[w] = active[w]
    BY <1>0, <2>1 DEF HolderInv, Owned, TypeOK, STypeOK
  <2>6. QED
    BY <1>0, <2>2, <2>3, <2>4, <2>5, OneKeyAtATime
<1>6. CASE Process(k)
  <2>1. service[k] = "active" /\ UNCHANGED <<service, todo, active>>
    BY <1>6 DEF Process
  <2>2. ASSUME StartCommit(k)
        PROVE  /\ \A w \in Workers : HolderInv(w)'
               /\ RunningIsOwned'
    <3>1. job[k] \in Checks /\ KeyOf[job[k]] = k /\ job' = job
          /\ op' = [op EXCEPT ![job[k]] = "running"] /\ step' = [step EXCEPT ![k] = "checking"]
      BY <1>0, <2>2 DEF StartCommit, Record, Advance, WorkerInv, TypeOK
    <3>2. HolderInv(k)'
      BY <1>0, <2>1, <3>1 DEF HolderInv, Owned, TypeOK, STypeOK
    <3>3. \A c \in Checks : KeyOf[c] # k /\ op'[c] = "running" => op[c] = "running"
      BY <1>0, <2>1, <3>1 DEF HolderInv, Owned, TypeOK, STypeOK
    <3>4. \A c \in Checks : KeyOf[c] = k /\ op'[c] = "running" => Owned(c)'
      BY <1>0, <2>1, <3>1 DEF HolderInv, Owned, TypeOK, STypeOK
    <3>5. \A w \in Workers \ {k} : /\ step'[w] = step[w] /\ job'[w] = job[w]
                                     /\ service'[w] = service[w] /\ todo'[w] = todo[w]
                                     /\ active'[w] = active[w]
      BY <1>0, <2>1, <3>1 DEF HolderInv, Owned, TypeOK, STypeOK
    <3>6. QED
      BY <1>0, <3>2, <3>3, <3>4, <3>5, OneKeyAtATime
  <2>3. ASSUME ~StartCommit(k)
        PROVE  /\ \A w \in Workers : HolderInv(w)'
               /\ RunningIsOwned'
    <3>1. /\ op' = op
          /\ \A w \in Workers \ {k} : step'[w] = step[w] /\ job'[w] = job[w]
          /\ step'[k] \in {"picked", "starting", "completing"}
          /\ step[k] \in {"checking", "completing"} =>
                job'[k] = job[k] /\ step'[k] = "completing"
      BY <1>0, <1>6, <2>3 DEF Process, Pick, StartRead, CompleteRead, Take, Advance,
         checkVars, TypeOK, Steps
    <3>2. HolderInv(k)'
      BY <1>0, <2>1, <3>1 DEF HolderInv, Owned, TypeOK, STypeOK
    <3>3. \A c \in Checks : KeyOf[c] # k /\ op'[c] = "running" => op[c] = "running"
      BY <1>0, <2>1, <3>1 DEF HolderInv, Owned, TypeOK, STypeOK
    <3>4. \A c \in Checks : KeyOf[c] = k /\ op'[c] = "running" => Owned(c)'
      BY <1>0, <2>1, <3>1 DEF HolderInv, Owned, TypeOK, STypeOK
    <3>5. \A w \in Workers \ {k} : /\ step'[w] = step[w] /\ job'[w] = job[w]
                                     /\ service'[w] = service[w] /\ todo'[w] = todo[w]
                                     /\ active'[w] = active[w]
      BY <1>0, <2>1, <3>1 DEF HolderInv, Owned, TypeOK, STypeOK
    <3>6. QED
      BY <1>0, <3>2, <3>3, <3>4, <3>5, OneKeyAtATime
  <2>4. QED
    BY <2>2, <2>3
<1>7. CASE Processed(k)
  <2>1. job[k] \in Checks /\ KeyOf[job[k]] = k /\ service[k] = "active"
        /\ step[k] \in {"checking", "completing"}
        /\ (\E outcome \in Terminal : op' = [op EXCEPT ![job[k]] = outcome])
        /\ step' = [step EXCEPT ![k] = "idle"] /\ job' = [job EXCEPT ![k] = NoCheck]
        /\ service' = [service EXCEPT ![k] = "serving"] /\ UNCHANGED <<todo, active>>
    BY <1>0, <1>7 DEF Processed, CompleteCommit, TimeOut, Record, Rest, Take, WorkerInv,
       TypeOK, Terminal
  <2>2. HolderInv(k)'
    BY <1>0, <2>1 DEF HolderInv, Owned, TypeOK, STypeOK, Terminal
  <2>3. \A c \in Checks : KeyOf[c] # k /\ op'[c] = "running" => op[c] = "running"
    BY <1>0, <2>1 DEF HolderInv, Owned, TypeOK, STypeOK, Terminal
  <2>4. \A c \in Checks : KeyOf[c] = k /\ op'[c] = "running" => Owned(c)'
    <3>1. SUFFICES ASSUME NEW c \in Checks, KeyOf[c] = k, op'[c] = "running" PROVE FALSE
      OBVIOUS
    <3>2. c # job[k]
      BY <1>0, <2>1, <3>1 DEF TypeOK, Terminal
    <3>3. op[c] = "running"
      BY <1>0, <2>1, <3>1, <3>2 DEF TypeOK
    <3>4. QED
      BY <1>0, <2>1, <3>1, <3>2, <3>3 DEF Owned
  <2>5. \A w \in Workers \ {k} : /\ step'[w] = step[w] /\ job'[w] = job[w]
                                   /\ service'[w] = service[w] /\ todo'[w] = todo[w]
                                   /\ active'[w] = active[w]
    BY <1>0, <2>1 DEF HolderInv, Owned, TypeOK, STypeOK, Terminal
  <2>6. QED
    BY <1>0, <2>2, <2>3, <2>4, <2>5, OneKeyAtATime
<1>8. CASE Refused(k) \/ Failed(k)
  <2>1. /\ op' = op /\ service[k] = "active" /\ UNCHANGED <<todo, active>>
        /\ service' = [service EXCEPT ![k] = "raising"]
        /\ \A w \in Workers \ {k} : step'[w] = step[w] /\ job'[w] = job[w]
        /\ step'[k] = "idle" /\ job'[k] = NoCheck
    BY <1>0, <1>8 DEF Refused, Failed, WorkerGone, WorkerLost, StartRefused, CompleteRefused,
       Rest, Take, checkVars, vars, TypeOK, HolderInv
  <2>2. HolderInv(k)'
    BY <1>0, <2>1 DEF HolderInv, Owned, TypeOK, STypeOK
  <2>3. \A c \in Checks : KeyOf[c] # k /\ op'[c] = "running" => op[c] = "running"
    BY <1>0, <2>1 DEF HolderInv, Owned, TypeOK, STypeOK
  <2>4. \A c \in Checks : KeyOf[c] = k /\ op'[c] = "running" => Owned(c)'
    BY <1>0, <2>1 DEF HolderInv, Owned, TypeOK, STypeOK
  <2>5. \A w \in Workers \ {k} : /\ step'[w] = step[w] /\ job'[w] = job[w]
                                   /\ service'[w] = service[w] /\ todo'[w] = todo[w]
                                   /\ active'[w] = active[w]
    BY <1>0, <2>1 DEF HolderInv, Owned, TypeOK, STypeOK
  <2>6. QED
    BY <1>0, <2>2, <2>3, <2>4, <2>5, OneKeyAtATime
<1>9. CASE InterruptActive(k)
  <2>1. /\ UNCHANGED <<step, job, todo, active>> /\ service[k] = "raising"
        /\ service' = [service EXCEPT ![k] = "closing"]
        /\ op' = [op EXCEPT ![active[k]] = "interrupted"]
    BY <1>9 DEF InterruptActive, Interrupt, Withdraw, Record, workerVars
  <2>2. HolderInv(k)'
    BY <1>0, <2>1 DEF HolderInv, Owned, TypeOK, STypeOK
  <2>3. \A c \in Checks : KeyOf[c] # k /\ op'[c] = "running" => op[c] = "running"
    BY <1>0, <2>1 DEF HolderInv, Owned, TypeOK, STypeOK
  <2>4. \A c \in Checks : KeyOf[c] = k /\ op'[c] = "running" => Owned(c)'
    BY <1>0, <2>1 DEF HolderInv, Owned, TypeOK, STypeOK
  <2>5. \A w \in Workers \ {k} : /\ step'[w] = step[w] /\ job'[w] = job[w]
                                   /\ service'[w] = service[w] /\ todo'[w] = todo[w]
                                   /\ active'[w] = active[w]
    BY <1>0, <2>1 DEF HolderInv, Owned, TypeOK, STypeOK
  <2>6. QED
    BY <1>0, <2>2, <2>3, <2>4, <2>5, OneKeyAtATime
<1>10. CASE Closed(k) \/ Crash(k)
  <2>1. /\ op' = op
        /\ service' = [service EXCEPT ![k] = "down"]
        /\ todo' = [todo EXCEPT ![k] = {}] /\ active' = [active EXCEPT ![k] = NoCheck]
        /\ \A w \in Workers \ {k} : step'[w] = step[w] /\ job'[w] = job[w]
        /\ step'[k] = "idle" /\ job'[k] = NoCheck
    BY <1>0, <1>10 DEF Closed, Crash, Reset, WorkerGone, WorkerLost, Rest, Take, checkVars,
       vars, TypeOK, HolderInv, Steps
  <2>2. HolderInv(k)'
    BY <1>0, <2>1 DEF HolderInv, Owned, TypeOK, STypeOK
  <2>3. \A c \in Checks : KeyOf[c] # k /\ op'[c] = "running" => op[c] = "running"
    BY <1>0, <2>1 DEF HolderInv, Owned, TypeOK, STypeOK
  <2>4. \A c \in Checks : KeyOf[c] = k /\ op'[c] = "running" => Owned(c)'
    BY <1>0, <2>1 DEF HolderInv, Owned, TypeOK, STypeOK
  <2>5. \A w \in Workers \ {k} : /\ step'[w] = step[w] /\ job'[w] = job[w]
                                   /\ service'[w] = service[w] /\ todo'[w] = todo[w]
                                   /\ active'[w] = active[w]
    BY <1>0, <2>1 DEF HolderInv, Owned, TypeOK, STypeOK
  <2>6. QED
    BY <1>0, <2>2, <2>3, <2>4, <2>5, OneKeyAtATime
<1>11. QED
  BY <1>1, <1>2, <1>3, <1>4, <1>5, <1>6, <1>7, <1>8, <1>9, <1>10 DEF ServiceStep

LEMMA ServiceInvHolds == ServiceSpec => []ServiceInv
<1>1. ServiceInv /\ [SNext]_svars => ServiceInv'
  <2> SUFFICES ASSUME ServiceInv, [SNext]_svars PROVE ServiceInv'
    OBVIOUS
  <2>1. QueueInv' /\ STypeOK'
    BY ServiceQueueStep, ServiceType, QueueInvStep DEF ServiceInv
  <2>2. CASE UNCHANGED svars
    BY <2>1, <2>2 DEF ServiceInv, HolderInv, RunningIsOwned, svars, vars, serviceVars, loopVars
  <2>3. CASE \E s \in Submitters : ClientStep(s) \/ ClientKilled(s)
    BY <2>1, <2>3, ClientKeepsOwned DEF ServiceInv
  <2>4. CASE \E k \in Workers : \/ ChildStep(k) \/ ServiceStep(k)
                                \/ Failed(k) \/ Broken(k) \/ Crash(k) \/ Signal(k)
    BY <2>1, <2>4, ServiceKeepsOwned DEF ServiceInv
  <2>5. CASE Withdrawn
    BY <2>1, <2>5, WithdrawnKeepsOwned DEF ServiceInv
  <2>6. QED
    BY <2>2, <2>3, <2>4, <2>5 DEF SNext
<1>2. QED
  BY <1>1, ServiceInit, PTL DEF ServiceSpec

\* While a service takes new work, every check of its key that is marked
\* running is the one it is executing.
THEOREM RunningStaysOwned == ServiceSpec => []RunningIsOwned
<1>1. ServiceInv => RunningIsOwned
  BY DEF ServiceInv
<1>2. QED
  BY <1>1, ServiceInvHolds, PTL

\* The clients and the services only use the queue as CheckQueue allows.
THEOREM ServiceImplementsQueue == ServiceSpec => ImplementsQueue
<1>1. SInit => Init
  BY DEF SInit
<1>2. QED
  BY <1>1, ServiceQueueStep, ServiceInvHolds, PTL DEF ServiceSpec, ImplementsQueue, Spec

\* So no crash, signal, failure or retry makes a check run twice.
THEOREM ServiceRunsOnce == ServiceSpec => []RunsAtMostOnce
  BY ServiceImplementsQueue, RunsOnce, PTL DEF ImplementsQueue

===============================================================================
