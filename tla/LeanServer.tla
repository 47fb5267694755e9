------------------------------ MODULE LeanServer -------------------------------
(***************************************************************************)
(* The conversation of LeanServerBackend (ledger/worker.py) with the Lean  *)
(* server: check() opens a document and waits for the end of its           *)
(* elaboration, among incremental diagnostics, late messages of documents  *)
(* that ran out of budget, and requests of the server's own.               *)
(*                                                                         *)
(* The server is external: it reports a document's diagnostics in pieces,  *)
(* answers waitForDiagnostics when all of them are out, and may hang or    *)
(* die.  The pipes and the reader thread only delay a message, which the   *)
(* server does here by sending it later.                                   *)
(***************************************************************************)
EXTENDS Integers, Sequences

CONSTANTS MaxDocs,    \* bound on the checks of one backend
          MaxPieces,  \* bound on the diagnostics notifications of a document
          MaxAsks,    \* bound on the server's own requests
          MaxUnread   \* bound on the messages sent ahead of the client

Docs == 1 .. MaxDocs

ASSUME ServerAssumption == /\ MaxDocs \in Nat /\ MaxPieces \in Nat
                           /\ MaxAsks \in Nat /\ MaxUnread \in Nat

VARIABLES
    alive,     \* the server process runs
    finished,  \* documents whose waitForDiagnostics it has answered
    pieces,    \* per document: diagnostics notifications sent
    reported,  \* per document: an error was among the diagnostics
    asks,      \* requests of its own
    responded, \* it has answered the _request that is pending
    messages,  \* the backend's _messages
    pc,        \* where the backend is
    doc,       \* _document_id
    saw,       \* saw_matching_diagnostics
    error,     \* an error is among the diagnostics collected
    deferred,  \* the list of that name
    outcome,   \* what the wait that is ending has come to
    verdict    \* per document: what check() returned or raised

serverVars == <<alive, finished, pieces, reported, asks, responded>>
collected == <<saw, error>>
clientVars == <<pc, doc, saw, error, deferred, outcome, verdict>>
vars == <<alive, finished, pieces, reported, asks, responded, messages,
          pc, doc, saw, error, deferred, outcome, verdict>>

Diagnostics(d, bad, incremental) ==
    [kind |-> "diagnostics", doc |-> d, bad |-> bad, incremental |-> incremental]
Ready(d) == [kind |-> "ready", doc |-> d]         \* waitForDiagnostics is done
Refusal(d) == [kind |-> "refusal", doc |-> d]     \* or failed
Response == [kind |-> "response", doc |-> 0]      \* to initialize or shutdown
Ask(id) == [kind |-> "ask", doc |-> id]           \* ids are scoped by direction
ReaderFailed == [kind |-> "failed", doc |-> 0]

Init == /\ alive = TRUE
        /\ finished = {}
        /\ pieces = [d \in Docs |-> 0]
        /\ reported = [d \in Docs |-> FALSE]
        /\ asks = 0 /\ responded = FALSE
        /\ messages = <<>>
        /\ pc = "initialize"
        /\ doc = 0 /\ saw = FALSE /\ error = FALSE
        /\ deferred = <<>>
        /\ outcome = "none"
        /\ verdict = [d \in Docs |-> "none"]
-------------------------------------------------------------------------------
(* The Lean server (external).                                             *)

Send(m) == /\ alive /\ Len(messages) < MaxUnread
           /\ messages' = Append(messages, m)

Opened(d) == d <= doc
Closed(d) == d < doc \/ (d = doc /\ pc \notin {"waiting", "ending"})

\* One more piece, or all that there is so far.
Report(d, bad, incremental) ==
    /\ Opened(d) /\ d \notin finished
    /\ pieces[d] < MaxPieces
    /\ pieces' = [pieces EXCEPT ![d] = @ + 1]
    /\ reported' = [reported EXCEPT ![d] = @ \/ bad]
    /\ Send(Diagnostics(d, IF incremental THEN bad ELSE reported'[d], incremental))
    /\ UNCHANGED <<alive, finished, asks, responded, clientVars>>

\* The diagnostics of a closed document are cleared.
Clear(d) ==
    /\ Closed(d) /\ pieces[d] \in 1 .. MaxPieces
    /\ pieces' = [pieces EXCEPT ![d] = MaxPieces + 1]
    /\ Send(Diagnostics(d, FALSE, FALSE))
    /\ UNCHANGED <<alive, finished, reported, asks, responded, clientVars>>

Finish(d, reply) ==
    /\ Opened(d) /\ d \notin finished
    /\ finished' = finished \cup {d}
    /\ Send(reply)
    /\ UNCHANGED <<alive, pieces, reported, asks, responded, clientVars>>

Respond ==
    /\ pc \in {"initialize", "shutdown"} /\ ~responded
    /\ responded' = TRUE
    /\ Send(Response)
    /\ UNCHANGED <<alive, finished, pieces, reported, asks, clientVars>>

ServerAsks ==
    /\ asks < MaxAsks
    /\ asks' = asks + 1
    /\ Send(Ask(doc))
    /\ UNCHANGED <<alive, finished, pieces, reported, responded, clientVars>>

\* Between two messages the reader thread meets the end of the file and ends
\* without a word, inside of one it reports an error.
Die ==
    /\ alive
    /\ alive' = FALSE
    /\ messages' \in {messages, Append(messages, ReaderFailed)}
    /\ UNCHANGED <<finished, pieces, reported, asks, responded, clientVars>>

Server == \/ \E d \in Docs : \/ \E bad, incremental \in BOOLEAN : Report(d, bad, incremental)
                             \/ \E reply \in {Ready(d), Refusal(d)} : Finish(d, reply)
                             \/ Clear(d)
          \/ Respond \/ ServerAsks \/ Die
-------------------------------------------------------------------------------
(* check and _wait_for_diagnostics.  _send raises when the server is gone. *)

Raised(d) == verdict' = [verdict EXCEPT ![d] = "raised"]

\* didOpen and the request to wait.
Open ==
    /\ pc = "idle" /\ doc < MaxDocs
    /\ doc' = doc + 1
    /\ saw' = FALSE /\ error' = FALSE
    /\ \/ alive /\ pc' = "waiting" /\ UNCHANGED verdict
       \/ ~alive /\ pc' = "failed" /\ Raised(doc + 1)
    /\ UNCHANGED <<serverVars, messages, deferred, outcome>>

Take(kinds) == /\ messages # <<>> /\ Head(messages).kind \in kinds
               /\ messages' = Tail(messages)

End(result) == pc' = "ending" /\ outcome' = result

\* Mutant: any response is the response.
AnyResponse(m) == m.kind \in {"ready", "refusal"}

IsResponse(m) == m.kind \in {"ready", "refusal"} /\ m.doc = doc

Matching(m) == m.kind = "diagnostics" /\ m.doc = doc

ReaderGone ==
    /\ pc = "waiting"
    /\ Take({"failed"})
    /\ End("raised")
    /\ UNCHANGED <<serverVars, doc, collected, deferred, verdict>>

AnswerAsk ==
    /\ pc = "waiting"
    /\ Take({"ask"})
    /\ \/ alive /\ UNCHANGED <<pc, outcome>>
       \/ ~alive /\ End("raised")
    /\ UNCHANGED <<serverVars, doc, collected, deferred, verdict>>

WaitOver ==
    /\ pc = "waiting"
    /\ Take({"ready", "refusal"}) /\ IsResponse(Head(messages))
    /\ End(IF Head(messages).kind = "refusal" \/ ~saw THEN "raised"
           ELSE IF error THEN "failure" ELSE "success")
    /\ UNCHANGED <<serverVars, doc, collected, deferred, verdict>>

Collect ==
    /\ pc = "waiting"
    /\ Take({"diagnostics"}) /\ Matching(Head(messages))
    /\ saw' = TRUE
    /\ error' = (Head(messages).bad \/ (Head(messages).incremental /\ error))
    /\ UNCHANGED <<serverVars, pc, doc, deferred, outcome, verdict>>

Defer ==
    /\ pc = "waiting"
    /\ Take({"diagnostics", "ready", "refusal", "response"})
    /\ ~IsResponse(Head(messages)) /\ ~Matching(Head(messages))
    /\ deferred' = Append(deferred, Head(messages))
    /\ UNCHANGED <<serverVars, pc, doc, collected, outcome, verdict>>

BudgetSpent ==
    /\ pc = "waiting"
    /\ End("timed_out")
    /\ UNCHANGED <<serverVars, messages, doc, collected, deferred, verdict>>

\* The deferred messages go back one by one, behind whatever arrived meanwhile.
PutBack ==
    /\ pc = "ending" /\ deferred # <<>>
    /\ messages' = Append(messages, Head(deferred))
    /\ deferred' = Tail(deferred)
    /\ UNCHANGED <<serverVars, pc, doc, collected, outcome, verdict>>

\* Mutant: a document of a server that is gone needs no closing.
CloseQuietly ==
    /\ pc = "ending" /\ deferred = <<>>
    /\ verdict' = [verdict EXCEPT ![doc] = outcome]
    /\ pc' = IF outcome = "raised" THEN "failed" ELSE "idle"
    /\ outcome' = "none"
    /\ UNCHANGED <<serverVars, messages, doc, collected, deferred>>

\* didClose; with the server gone it raises, whatever the outcome was.
CloseDocument ==
    /\ pc = "ending" /\ deferred = <<>>
    /\ \/ /\ alive
          /\ verdict' = [verdict EXCEPT ![doc] = outcome]
          /\ pc' = IF outcome = "raised" THEN "failed" ELSE "idle"
       \/ /\ ~alive
          /\ Raised(doc)
          /\ pc' = "failed"
    /\ outcome' = "none"
    /\ UNCHANGED <<serverVars, messages, doc, collected, deferred>>
-------------------------------------------------------------------------------
(* __init__ and close, each around a _request.  What a _request defers and  *)
(* puts back, nobody reads any more (close) or is not there (__init__).     *)

rest == <<finished, pieces, reported, asks, doc, collected, deferred, outcome, verdict>>

Requesting == pc \in {"initialize", "shutdown"}

\* The constructor raises and leaves the process; close() kills it.
RequestFails ==
    \/ pc = "initialize" /\ pc' = "unborn" /\ UNCHANGED alive
    \/ pc = "shutdown" /\ pc' = "closed" /\ alive' = FALSE

\* An error response makes the constructor close the backend and raise.
Initialized ==
    /\ pc = "initialize" /\ Take({"response"})
    /\ \/ pc' = IF alive THEN "idle" ELSE "unborn"
       \/ pc' = IF alive THEN "shutdown" ELSE "closed"
    /\ responded' = FALSE
    /\ UNCHANGED <<alive, rest>>

\* exit, and a kill when the process is still there after three seconds.
ShutDown ==
    /\ pc = "shutdown" /\ Take({"response"})
    /\ pc' = "closed" /\ alive' = FALSE
    /\ UNCHANGED <<responded, rest>>

RequestSkips ==
    /\ Requesting
    /\ \/ Take({"diagnostics", "ready", "refusal"}) /\ UNCHANGED <<alive, pc>>
       \/ Take({"ask"}) /\ alive /\ UNCHANGED <<alive, pc>>
       \/ Take({"ask"}) /\ ~alive /\ RequestFails
       \/ Take({"failed"}) /\ RequestFails
    /\ UNCHANGED <<responded, rest>>

\* The time is over just after a message: TimeoutError.
RequestLate ==
    /\ Requesting /\ messages # <<>>
    /\ RequestFails
    /\ UNCHANGED <<messages, responded, rest>>

\* It is over while the queue is empty: queue.Empty, which close() lets pass.
RequestEmpty ==
    /\ Requesting /\ messages = <<>>
    /\ pc' = IF pc = "initialize" THEN "unborn" ELSE "closed"
    /\ UNCHANGED <<alive, messages, responded, rest>>

Close ==
    /\ pc \in {"idle", "failed"}
    /\ pc' = IF alive THEN "shutdown" ELSE "closed"
    /\ UNCHANGED <<alive, responded, messages, rest>>

Check == \/ Open \/ ReaderGone \/ AnswerAsk \/ WaitOver \/ Collect \/ Defer
         \/ BudgetSpent \/ PutBack \/ CloseDocument

Next == \/ Server \/ Check
        \/ Initialized \/ ShutDown \/ RequestSkips \/ RequestLate \/ RequestEmpty
        \/ Close

Spec == Init /\ [][Next]_vars
-------------------------------------------------------------------------------
(* Properties.                                                             *)

\* A verdict is the whole truth about its own document: it comes after the end
\* of that document's elaboration and reflects every diagnostic, none of another
\* document, however late messages arrive and in whatever order they are put back.
VerdictIsWhole == \A d \in Docs : verdict[d] \in {"success", "failure"} =>
    d \in finished /\ (verdict[d] = "failure") = reported[d]

\* "keeping a crashed run, an exhausted budget, and a superseded claim from all
\* collapsing into the same word" (docs/ledger.html): a check is not said to have
\* timed out when its server has died, even where the wait ran into its timeout
\* because nothing told it of the death.
DeathIsNoTimeout ==
    [][\A d \in Docs : verdict[d] = "none" /\ verdict'[d] = "timed_out" => alive]_vars
===============================================================================
