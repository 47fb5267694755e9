----------------------------- MODULE WorkerSocket ------------------------------
(***************************************************************************)
(* The request socket of one checkpoint key: services bind it at a path    *)
(* that outlives them (ledger/worker_service.py), clients connect to that  *)
(* path and spawn a service when nobody listens (ledger/client.py, the     *)
(* path with a worker socket).                                             *)
(*                                                                         *)
(* A service is named by who spawned it: a client, once per call, or a     *)
(* launcher.  The flock, the socket file and the reset of connections when *)
(* a process closes or dies are the operating system's.  What a check does *)
(* in the queue is WorkerService's concern: here it ends or never ends.    *)
(***************************************************************************)
EXTENDS Integers

CONSTANTS Clients, Launchers,
          NoFile,
          MaxFaults   \* bound on crashes and signals

Services == Clients \cup Launchers

ASSUME SocketAssumption == NoFile \notin Services /\ MaxFaults \in Nat

VARIABLES
    proc,       \* where main() of each service is
    stopping,   \* services that were sent SIGTERM or SIGINT
    path,       \* the service whose socket the path names
    backlog,    \* per service: clients connected and not yet accepted
    handling,   \* per service: clients its handler threads serve
    call,       \* where check() of each client is
    delivered,  \* per client: the services that its request was sent to
    ended,      \* clients whose durable check is completed, failed or timed out
    faults

socketVars == <<proc, stopping, path, backlog, handling, call, delivered, ended, faults>>

ProcStates == {"unborn", "spawned", "locked", "cleared", "bound", "serving",
               "leaving", "closed", "unlinked", "gone"}

TypeOK == /\ proc \in [Services -> ProcStates]
          /\ stopping \subseteq Services
          /\ path \in Services \cup {NoFile}
          /\ backlog \in [Services -> SUBSET Clients]
          /\ handling \in [Services -> SUBSET Clients]
          /\ call \in [Clients -> {"idle", "refused", "polling", "sent",
                                   "answered", "error", "gave_up"}]
          /\ delivered \in [Clients -> SUBSET Services]
          /\ ended \subseteq Clients
          /\ faults \in 0 .. MaxFaults

SocketInit ==
    /\ proc = [s \in Services |-> "unborn"]
    /\ stopping = {}
    /\ path = NoFile
    /\ backlog = [s \in Services |-> {}]
    /\ handling = [s \in Services |-> {}]
    /\ call = [c \in Clients |-> "idle"]
    /\ delivered = [c \in Clients |-> {}]
    /\ ended = {}
    /\ faults = 0

Fault == faults < MaxFaults /\ faults' = faults + 1

Become(s, state) == proc' = [proc EXCEPT ![s] = state]

callVars == <<call, delivered, ended>>
threadVars == <<backlog, handling>>
-------------------------------------------------------------------------------
(* The service: main().                                                    *)

\* Mutant: the lock goes with the listener, before the path is unlinked.
HoldingWithListener(s) == proc[s] \in {"locked", "cleared", "bound", "serving", "leaving"}

\* The lock is held until the process is gone.
Holding(s) == proc[s] \in {"locked", "cleared", "bound", "serving", "leaving",
                           "closed", "unlinked"}

Launch(s) == /\ s \in Launchers
             /\ proc[s] = "unborn"
             /\ Become(s, "spawned")
             /\ UNCHANGED <<stopping, path, threadVars, callVars, faults>>

Lock(s) == /\ proc[s] = "spawned"
           /\ Become(s, IF \E t \in Services : Holding(t) THEN "gone" ELSE "locked")
           /\ UNCHANGED <<stopping, path, threadVars, callVars, faults>>

\* Mutant: the file of a crashed service is left where it is.
LeaveStale(s) == /\ proc[s] = "locked"
                 /\ Become(s, "cleared")
                 /\ UNCHANGED <<stopping, path, threadVars, callVars, faults>>

UnlinkStale(s) == /\ proc[s] = "locked"
                  /\ path' = NoFile
                  /\ Become(s, "cleared")
                  /\ UNCHANGED <<stopping, threadVars, callVars, faults>>

\* bind needs a path that does not exist.
Bind(s) == /\ proc[s] = "cleared" /\ path = NoFile
           /\ path' = s
           /\ Become(s, "bound")
           /\ UNCHANGED <<stopping, threadVars, callVars, faults>>

\* listen, start the acceptor; reconcile and serve.
Listen(s) == /\ proc[s] = "bound"
             /\ Become(s, "serving")
             /\ UNCHANGED <<stopping, path, threadVars, callVars, faults>>

\* A client polls for 30 seconds after it was refused, and an idle service
\* leaves after 7200: none leaves for being idle while a client polls.
IdleExit(s) == /\ proc[s] = "serving"
               /\ \A c \in Clients : call[c] # "polling"
               /\ Become(s, "leaving")
               /\ UNCHANGED <<stopping, path, threadVars, callVars, faults>>

StopExit(s) == /\ proc[s] = "serving" /\ s \in stopping
               /\ Become(s, "leaving")
               /\ UNCHANGED <<stopping, path, threadVars, callVars, faults>>

\* process_next or the loop raises: the finally block runs as well.
Raises(s) == /\ Fault
             /\ proc[s] = "serving"
             /\ Become(s, "leaving")
             /\ UNCHANGED <<stopping, path, threadVars, callVars>>

\* Mutant: a client whose connection is reset asks again.
AskAgain(clients) == call' = [c \in Clients |-> IF c \in clients THEN "refused" ELSE call[c]]

\* Connections that nobody accepted are reset.
Hangup(clients) == call' = [c \in Clients |-> IF c \in clients THEN "error" ELSE call[c]]

CloseListener(s) == /\ proc[s] = "leaving"
                    /\ Become(s, "closed")
                    /\ Hangup(backlog[s])
                    /\ backlog' = [backlog EXCEPT ![s] = {}]
                    /\ UNCHANGED <<stopping, path, handling, delivered, ended, faults>>

Unlink(s) == /\ proc[s] = "closed"
             /\ path' = NoFile
             /\ Become(s, "unlinked")
             /\ UNCHANGED <<stopping, threadVars, callVars, faults>>

\* The handler threads are daemons and die with the process.
Gone(s) == /\ Become(s, "gone")
           /\ stopping' = stopping \ {s}
           /\ Hangup(backlog[s] \cup handling[s])
           /\ backlog' = [backlog EXCEPT ![s] = {}]
           /\ handling' = [handling EXCEPT ![s] = {}]
           /\ UNCHANGED <<path, delivered, ended>>

Exit(s) == /\ proc[s] = "unlinked"
           /\ Gone(s)
           /\ UNCHANGED faults

Crash(s) == /\ Fault
            /\ proc[s] \notin {"unborn", "gone"}
            /\ Gone(s)

Signal(s) == /\ Fault
             /\ Holding(s)
             /\ stopping' = stopping \cup {s}
             /\ UNCHANGED <<proc, path, threadVars, callVars>>
-------------------------------------------------------------------------------
(* Its acceptor and handler threads.                                       *)

\* Until it is told to stop, by a signal or before the listener closes.
Accept(s, c) == /\ proc[s] \in {"serving", "leaving"} /\ s \notin stopping
                /\ c \in backlog[s]
                /\ backlog' = [backlog EXCEPT ![s] = @ \ {c}]
                /\ handling' = [handling EXCEPT ![s] = @ \cup {c}]
                /\ UNCHANGED <<proc, stopping, path, callVars, faults>>

\* A service ends the check that some handler submitted.
CheckEnds(c) == /\ \E s \in Services : proc[s] = "serving" /\ c \in handling[s]
                /\ c \notin ended
                /\ ended' = ended \cup {c}
                /\ UNCHANGED <<proc, stopping, path, threadVars, call, delivered, faults>>

SendReply(s, c, answer) ==
    /\ c \in handling[s]
    /\ handling' = [handling EXCEPT ![s] = @ \ {c}]
    /\ call' = [call EXCEPT ![c] = answer]
    /\ UNCHANGED <<proc, stopping, path, backlog, delivered, ended, faults>>

Answer(s, c) == c \in ended /\ SendReply(s, c, "answered")

\* Mutant: the handler waits for the check however long it takes.
WaitOn(s, c) == c \in ended /\ SendReply(s, c, "error")

\* "durable check ... did not finish", or the request was refused.
HandlerFails(s, c) == c \notin ended /\ SendReply(s, c, "error")
-------------------------------------------------------------------------------
(* The client: check().                                                    *)

\* connect finds a listener behind the path.
Reachable(s) == path = s /\ proc[s] \in {"serving", "leaving"}

SendRequest(c, s) ==
    /\ Reachable(s)
    /\ backlog' = [backlog EXCEPT ![s] = @ \cup {c}]
    /\ delivered' = [delivered EXCEPT ![c] = @ \cup {s}]
    /\ call' = [call EXCEPT ![c] = "sent"]
    /\ UNCHANGED <<proc, stopping, path, handling, ended, faults>>

Request(c) == call[c] = "idle" /\ \E s \in Services : SendRequest(c, s)

\* FileNotFoundError or ConnectionRefusedError.
Refused(c) == /\ call[c] = "idle"
              /\ \A s \in Services : ~Reachable(s)
              /\ call' = [call EXCEPT ![c] = "refused"]
              /\ UNCHANGED <<proc, stopping, path, threadVars, delivered, ended, faults>>

\* start_worker, once per call.
Respawn(c) == /\ call[c] = "refused"
              /\ call' = [call EXCEPT ![c] = "polling"]
              /\ Become(c, "spawned")
              /\ UNCHANGED <<stopping, path, threadVars, delivered, ended, faults>>

Poll(c) == call[c] = "polling" /\ \E s \in Services : SendRequest(c, s)

\* "warm ledger worker did not recover".  A child binds within the 30 seconds.
GiveUp(c) == /\ call[c] = "polling"
             /\ \A s \in Services : ~Reachable(s) /\
                   proc[s] \notin {"spawned", "locked", "cleared", "bound"}
             /\ call' = [call EXCEPT ![c] = "gave_up"]
             /\ UNCHANGED <<proc, stopping, path, threadVars, delivered, ended, faults>>

ServiceStep(s) == \/ Lock(s) \/ UnlinkStale(s) \/ Bind(s) \/ Listen(s)
                  \/ StopExit(s) \/ CloseListener(s) \/ Unlink(s) \/ Exit(s)

ThreadStep(s, c) == Accept(s, c) \/ Answer(s, c) \/ HandlerFails(s, c)

ClientStep(c) == Respawn(c) \/ Poll(c) \/ GiveUp(c)

SocketNext ==
    \/ \E s \in Services : \/ Launch(s) \/ IdleExit(s) \/ ServiceStep(s)
                           \/ Crash(s) \/ Signal(s) \/ Raises(s)
                           \/ \E c \in Clients : ThreadStep(s, c)
    \/ \E c \in Clients : Request(c) \/ Refused(c) \/ ClientStep(c) \/ CheckEnds(c)

SocketSpec == SocketInit /\ [][SocketNext]_socketVars

\* Processes and threads run; a handler's loop has a deadline.  No service has
\* to become idle and no check has to end.
FairSocketSpec ==
    /\ SocketSpec
    /\ \A s \in Services : /\ WF_socketVars(ServiceStep(s))
                           /\ \A c \in Clients : WF_socketVars(ThreadStep(s, c))
    /\ \A c \in Clients : WF_socketVars(ClientStep(c))
-------------------------------------------------------------------------------
(* Properties.                                                             *)

\* While a service serves, the path leads to it: neither a crashed predecessor's
\* file nor one that is late to clean up gets between the clients and it.
LiveListenerReachable == \A s \in Services :
    proc[s] \in {"bound", "serving", "leaving", "closed"} => path = s

\* "retry only failures that happened before a request could be delivered": a
\* call never hands its request to two services.
DeliveredOnce == \A c \in Clients : \A s, t \in delivered[c] : s = t

\* A client that sent its request does not wait for ever (it has no timeout of
\* its own): not on a service that stopped accepting, and not on a check that
\* never ends.
RequestsEnd == \A c \in Clients : call[c] = "sent" ~> call[c] \in {"answered", "error"}

\* A client that finds no service, only what a dead one left behind, gets its
\* request through, unless something fails again.
RespawnRecovers == \A c \in Clients :
    (/\ call[c] = "polling" /\ proc[c] = "spawned"
     /\ faults = MaxFaults
     /\ \A s \in Services : ~Holding(s))
    ~> call[c] \in {"sent", "answered", "error"}
===============================================================================
