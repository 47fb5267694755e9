----------------------------- MODULE WorkerService -----------------------------
(***************************************************************************)
(* The warm worker service of each checkpoint key                          *)
(* (ledger/worker_service.py, WarmWorker.process_next) and the clients     *)
(* that submit a check, spawn the service and poll (ledger/client.py, the  *)
(* path without a worker socket), composed with the durable queue.         *)
(*                                                                         *)
(* Every step that touches the ledger is an action of CheckQueue together  *)
(* with what it means to the process that takes it.  A service holds the   *)
(* flock of its key from TakeLock until the process is gone; a child that  *)
(* finds the lock taken exits at once.  Nothing tells the client.          *)
(***************************************************************************)
EXTENDS CheckQueue

CONSTANTS Environments,  \* environment identities
          EnvOf,         \* the environment of each check (in its digest)
          NoEnv,
          Withdrawable,  \* checks that other callers of the queue withdraw
          MaxFaults      \* bound on crashes, signals and killed clients

ASSUME ServiceAssumption == /\ EnvOf \in [Checks -> Environments]
                            /\ NoEnv \notin Environments
                            /\ Withdrawable \subseteq Checks
                            /\ MaxFaults \in Nat

VARIABLES
    service,   \* what the lock holder of each key is doing
    env,       \* the environment it was spawned with
    todo,      \* checks that its reconcile() has yet to visit
    active,    \* active_id, the check it read before process_next
    stopping,  \* it received SIGTERM or SIGINT
    children,  \* spawned children that have not tried the lock yet
    awaits,    \* the check each client got from submit
    polling,   \* it spawned a worker and polls until its deadline
    faults

loopVars == <<env, todo, active, stopping>>
serviceVars == <<service, loopVars>>
clientVars == <<awaits, polling>>
outerVars == <<children, clientVars, faults>>
svars == <<vars, serviceVars, outerVars>>

ServiceStates == {"down", "booting", "serving", "active", "raising", "closing"}

STypeOK ==
    /\ service \in [Workers -> ServiceStates]
    /\ env \in [Workers -> Environments \cup {NoEnv}]
    /\ todo \in [Workers -> SUBSET Checks]
    /\ active \in [Workers -> Checks \cup {NoCheck}]
    /\ stopping \in [Workers -> BOOLEAN]
    /\ children \in [Workers -> SUBSET Environments]
    /\ awaits \in [Submitters -> Checks \cup {NoCheck}]
    /\ polling \in [Submitters -> BOOLEAN]
    /\ faults \in 0 .. MaxFaults

SInit ==
    /\ Init
    /\ service = [k \in Workers |-> "down"]
    /\ env = [k \in Workers |-> NoEnv]
    /\ todo = [k \in Workers |-> {}]
    /\ active = [k \in Workers |-> NoCheck]
    /\ stopping = [k \in Workers |-> FALSE]
    /\ children = [k \in Workers |-> {}]
    /\ awaits = [s \in Submitters |-> NoCheck]
    /\ polling = [s \in Submitters |-> FALSE]
    /\ faults = 0

Fault == faults < MaxFaults /\ faults' = faults + 1
-------------------------------------------------------------------------------
(* The client: check() without a worker socket.                            *)

Obtain(s, c) == /\ awaits' = [awaits EXCEPT ![s] = c]
                /\ polling' = [polling EXCEPT ![s] = FALSE]

\* submit has yet to return a job, or raised.
Asking(s) ==
    /\ awaits[s] = NoCheck
    /\ \/ \E c \in Checks, p \in Priorities : SubmitList(s, c, p)
       \/ SubmitRefuse(s) \/ SubmitAdmit(s) \/ SubmitConflict(s)
       \/ phase[s] = "conflict" /\ SubmitterLost(s)
    /\ UNCHANGED <<clientVars, serviceVars, children, faults>>

Obtained(s, c) ==
    /\ awaits[s] = NoCheck
    /\ \/ SubmitReuse(s, c)
       \/ c = wanted[s] /\ (SubmitCommit(s) \/ SubmitTwin(s))
    /\ Obtain(s, c)
    /\ UNCHANGED <<serviceVars, children, faults>>

\* No answer yet: start_worker, once per call.
SpawnWorker(s) ==
    LET c == awaits[s] IN
    /\ c # NoCheck /\ ~polling[s]
    /\ op[c] \notin Terminal
    /\ children' = [children EXCEPT ![KeyOf[c]] = @ \cup {EnvOf[c]}]
    /\ polling' = [polling EXCEPT ![s] = TRUE]
    /\ UNCHANGED <<vars, serviceVars, awaits, faults>>

Answered(s) ==
    /\ awaits[s] # NoCheck
    /\ op[awaits[s]] \in Terminal
    /\ Obtain(s, NoCheck)
    /\ UNCHANGED <<vars, serviceVars, children, faults>>

\* "durable check ... did not finish": only the client gives up.
Deadline(s) ==
    /\ polling[s]
    /\ op[awaits[s]] \notin Terminal
    /\ Obtain(s, NoCheck)
    /\ UNCHANGED <<vars, serviceVars, children, faults>>

\* The client process is killed wherever it is.
ClientKilled(s) ==
    /\ Fault
    /\ \/ SubmitterLost(s)
       \/ awaits[s] # NoCheck /\ UNCHANGED vars
    /\ Obtain(s, NoCheck)
    /\ UNCHANGED <<serviceVars, children>>

ClientStep(s) == \/ Asking(s) \/ SpawnWorker(s) \/ Answered(s) \/ Deadline(s)
                 \/ \E c \in Checks : Obtained(s, c)
-------------------------------------------------------------------------------
(* The service process of a key.                                           *)

Become(k, state) == service' = [service EXCEPT ![k] = state]

\* Whatever the worker was doing, it does no more; an open transaction rolls
\* back.
WorkerGone(k) == \/ WorkerLost(k)
                 \/ step[k] = "idle" /\ UNCHANGED vars

\* The child with environment e wins the lock and lists the checks it has to
\* reconcile.
TakeLock(k, e) ==
    /\ e \in children[k]
    /\ service[k] = "down"
    /\ Become(k, "booting")
    /\ env' = [env EXCEPT ![k] = e]
    /\ todo' = [todo EXCEPT ![k] = {c \in Existing : KeyOf[c] = k}]
    /\ children' = [children EXCEPT ![k] = @ \ {e}]
    /\ UNCHANGED <<vars, active, stopping, clientVars, faults>>

\* BlockingIOError: the child returns 0.
LockHeld(k, e) ==
    /\ e \in children[k]
    /\ service[k] # "down"
    /\ children' = [children EXCEPT ![k] = @ \ {e}]
    /\ UNCHANGED <<vars, serviceVars, clientVars, faults>>

ReconcileNext(k, c) ==
    /\ service[k] = "booting"
    /\ c \in todo[k]
    /\ \/ ReconcileRead(k, c)
       \/ op[c] # "running" /\ step[k] = "idle" /\ UNCHANGED vars
    /\ todo' = [todo EXCEPT ![k] = @ \ {c}]
    /\ UNCHANGED <<service, env, active, stopping, outerVars>>

Reconcile(k) ==
    /\ ReconcileCommit(k)
    /\ UNCHANGED <<serviceVars, children, clientVars, faults>>

Serve(k) ==
    /\ service[k] = "booting"
    /\ todo[k] = {} /\ step[k] = "idle"
    /\ Become(k, "serving")
    /\ UNCHANGED <<vars, loopVars, outerVars>>

\* The loop: the first pending check becomes active_id ...
Look(k, c) ==
    /\ service[k] = "serving" /\ ~stopping[k]
    /\ c \in First(k)
    /\ active' = [active EXCEPT ![k] = c]
    /\ Become(k, "active")
    /\ UNCHANGED <<vars, env, todo, stopping, outerVars>>

\* Mutant: the service exits with checks still queued.
BusyExit(k) ==
    /\ service[k] = "serving"
    /\ Become(k, "closing")
    /\ UNCHANGED <<vars, loopVars, outerVars>>

IdleExit(k) ==
    /\ service[k] = "serving"
    /\ Pending(k) = {}
    /\ Become(k, "closing")
    /\ UNCHANGED <<vars, loopVars, outerVars>>

StopExit(k) ==
    /\ service[k] = "serving" /\ stopping[k]
    /\ Become(k, "closing")
    /\ UNCHANGED <<vars, loopVars, outerVars>>

\* ... and process_next reads the queue once more.
NothingLeft(k) ==
    /\ service[k] = "active" /\ step[k] = "idle"
    /\ Pending(k) = {}
    /\ Become(k, "serving")
    /\ UNCHANGED <<vars, loopVars, outerVars>>

Process(k) ==
    /\ service[k] = "active"
    /\ \/ \E c \in Checks : Pick(k, c)
       \/ step[k] = "picked" /\ EnvOf[job[k]] = env[k] /\ StartRead(k)
       \/ StartCommit(k)
       \/ CompleteRead(k)
    /\ UNCHANGED <<serviceVars, outerVars>>

Processed(k) ==
    /\ service[k] = "active"
    /\ \/ \E outcome \in {"completed", "failed"} : CompleteCommit(k, outcome)
       \/ TimeOut(k)
    /\ Become(k, "serving")
    /\ UNCHANGED <<loopVars, outerVars>>

\* process_next raises: the environments differ, the check is no longer queued
\* or no longer running ...
Refused(k) ==
    /\ service[k] = "active"
    /\ \/ step[k] = "picked" /\ EnvOf[job[k]] # env[k] /\ WorkerLost(k)
       \/ step[k] = "picked" /\ EnvOf[job[k]] = env[k] /\ StartRefused(k)
       \/ CompleteRefused(k)
    /\ Become(k, "raising")
    /\ UNCHANGED <<loopVars, outerVars>>

\* ... or Lean, the artifact store or the ledger failed.
Failed(k) ==
    /\ Fault
    /\ service[k] = "active"
    /\ WorkerGone(k)
    /\ Become(k, "raising")
    /\ UNCHANGED <<loopVars, children, clientVars>>

\* The loop's own pending() or the handler's interrupt() raises.
Broken(k) ==
    /\ Fault
    /\ service[k] \in {"serving", "raising"}
    /\ Become(k, "closing")
    /\ UNCHANGED <<vars, loopVars, children, clientVars>>

\* Mutant: the loop goes on after an exception.
ResumeAfterInterrupt(k) ==
    /\ service[k] = "raising"
    /\ Interrupt(active[k])
    /\ Become(k, "serving")
    /\ UNCHANGED <<loopVars, outerVars>>

\* Mutant: the handler puts the check back into the queue.
RequeueActive(k) ==
    /\ service[k] = "raising"
    /\ Record(active[k], "queued")
    /\ Become(k, "closing")
    /\ UNCHANGED <<created, priority, scope, submitted, starts, results, head,
                   callVars, workerVars, loopVars, outerVars>>

\* The handler interrupts active_id, whatever was processed.
InterruptActive(k) ==
    /\ service[k] = "raising"
    /\ Interrupt(active[k])
    /\ Become(k, "closing")
    /\ UNCHANGED <<loopVars, outerVars>>

Reset(k) == /\ Become(k, "down")
            /\ env' = [env EXCEPT ![k] = NoEnv]
            /\ todo' = [todo EXCEPT ![k] = {}]
            /\ active' = [active EXCEPT ![k] = NoCheck]
            /\ stopping' = [stopping EXCEPT ![k] = FALSE]

\* The finally block is done and the process exits: only now the lock is free.
Closed(k) ==
    /\ service[k] = "closing"
    /\ Reset(k)
    /\ UNCHANGED <<vars, outerVars>>

Crash(k) ==
    /\ Fault
    /\ service[k] # "down"
    /\ WorkerGone(k)
    /\ Reset(k)
    /\ UNCHANGED <<children, clientVars>>

Signal(k) ==
    /\ Fault
    /\ service[k] # "down" /\ ~stopping[k]
    /\ stopping' = [stopping EXCEPT ![k] = TRUE]
    /\ UNCHANGED <<vars, service, env, todo, active, children, clientVars>>

ChildStep(k) == \E e \in Environments : TakeLock(k, e) \/ LockHeld(k, e)

ServiceStep(k) ==
    \/ \E c \in Checks : ReconcileNext(k, c) \/ Look(k, c)
    \/ Reconcile(k) \/ Serve(k)
    \/ IdleExit(k) \/ StopExit(k) \/ NothingLeft(k)
    \/ Process(k) \/ Processed(k) \/ Refused(k)
    \/ InterruptActive(k) \/ Closed(k)

\* Withdrawals by other callers of the queue.
Withdrawn == /\ Fault
             /\ \E c \in Withdrawable :
                   Cancel(c) \/ \E newer \in Checks : Supersede(c, newer)
             /\ UNCHANGED <<serviceVars, children, clientVars>>

SNext == \/ \E s \in Submitters : ClientStep(s) \/ ClientKilled(s)
         \/ \E k \in Workers : \/ ChildStep(k) \/ ServiceStep(k)
                               \/ Failed(k) \/ Broken(k) \/ Crash(k) \/ Signal(k)
         \/ Withdrawn

ServiceSpec == SInit /\ [][SNext]_svars

\* A client in a call gets on with it: every loop of check() sleeps and has a
\* deadline.  A spawned child reaches the lock.  A service gets on with its
\* loop; the backend answers or its budget runs out.
FairSpec == /\ ServiceSpec
            /\ \A s \in Submitters :
                  /\ WF_svars(SpawnWorker(s) \/ Answered(s) \/ Deadline(s))
                  /\ WF_svars(phase[s] # "idle" /\ ClientStep(s))
            /\ \A k \in Workers : WF_svars(ChildStep(k)) /\ WF_svars(ServiceStep(k))
-------------------------------------------------------------------------------
(* Properties.                                                             *)

\* A check marked running is being executed by the service of its key, unless
\* that service is gone, about to reconcile, or on its way out: no check stays
\* "running" beside a service that takes new work.
RunningIsOwned == \A c \in Checks : op[c] = "running" =>
    LET k == KeyOf[c] IN
    \/ job[k] = c /\ step[k] \in {"checking", "completing"}
    \/ service[k] \in {"down", "raising", "closing"}
    \/ service[k] = "booting" /\ (c \in todo[k] \/ job[k] = c)

\* The processes use the queue as CheckQueue allows: what holds of the queue
\* for any callers holds of this system.
ImplementsQueue == Spec

\* A check that clients ask for again and again does not stay queued or
\* running for ever, even when the child a client spawned found the lock held
\* by a service that was just exiting.
RetriedEnds == \A c \in Checks :
    []<>(\E s \in Submitters : awaits[s] = c)
    => (op[c] \in {"queued", "running"} ~> op[c] \notin {"queued", "running"})
===============================================================================
