------------------------------- MODULE EventLog -------------------------------
(***************************************************************************)
(* The append-only event log of formal/shinka/observability.py: writers in *)
(* several processes lock the file, verify all of it, append one record,   *)
(* sync it and return a receipt.  A writer may die at any step, a write    *)
(* may be torn, the machine may lose what was not synced, and somebody may *)
(* edit the file.                                                          *)
(*                                                                         *)
(* A hash is the tuple of what it is computed from.  A field's value is a  *)
(* record of the type the validators tell ("content" is what none of them  *)
(* lets pass) and what it says.                                            *)
(***************************************************************************)
EXTENDS Naturals, Sequences, TLC

CONSTANTS Writers,
          CampaignOf,  \* writer -> its campaign
          Calls,       \* [event, turn, fields]: what writers ask for
          Sorted,      \* a list of record identifiers -> the list in order
          MaxEvents,   \* a bound on the length of the log
          Genesis,     \* the hash before the first record
          None

ASSUME LogAssumption == MaxEvents \in Nat
ASSUME WritersAssumption == None \notin Writers
ASSUME CallsAssumption == \A e \in Calls :
    /\ e = [event |-> e.event, turn |-> e.turn, fields |-> e.fields]
    /\ e.fields = [n \in DOMAIN e.fields |->
                     [type |-> e.fields[n].type, is |-> e.fields[n].is]]
ASSUME SortedAssumption == \A ids \in DOMAIN Sorted : /\ Sorted[ids] \in DOMAIN Sorted
                                                     /\ Sorted[Sorted[ids]] = Sorted[ids]

VARIABLES log,      \* the whole records of the file
          torn,     \* part of a record follows them
          synced,   \* how many of them are on the disk
          lock,     \* the writer with the flock
          pc,
          local,    \* writer -> what emit() works on
          receipts, \* returned by emit()
          anchor,   \* the last head() that was put away
          anchored, \* history: the log it was taken of
          edited    \* history: somebody changed the file

fileVars == <<log, torn, synced>>
emitVars == <<lock, pc, local, receipts>>
vars == <<fileVars, emitVars, anchor, anchored, edited>>

-------------------------------------------------------------------------------
(* The schema: EVENT_SPECS and the validators of the fields *)

Is(required, optional) == [required |-> required, optional |-> optional]

ChatIds == {"request_id", "model_id"}
ToolIds == {"invocation_id", "tool_id"}
QueryIds == {"query_id", "query_sha256"}
ScratchIds == {"invocation_id", "mode", "source_sha256"}
StageIds == {"evaluation_id", "stage", "mode", "candidate_sha256"}
Ends == {"status", "duration_ms"}
Seals == {"manifest_sha256", "receipt_sha256"}
Counted == {"accepted_goal_count", "certified_relation_count"}

EventSpecs ==
       "campaign.phase.started"  :> Is({"operation_id", "phase"}, {"parent_operation_id", "config_sha256"})
    @@ "campaign.phase.finished" :> Is({"operation_id", "phase"} \cup Ends, Seals \cup {"error_class"})
    @@ "turn.phase.started"      :> Is({"operation_id", "phase"}, {"parent_operation_id", "input_sha256"})
    @@ "turn.phase.finished"     :> Is({"operation_id", "phase"} \cup Ends,
                                       {"output_sha256", "receipt_sha256", "error_class"})
    @@ "model.request.started"   :> Is(ChatIds, {"request_sha256", "route_sha256"})
    @@ "model.request.finished"  :> Is(ChatIds \cup Ends,
                                       {"response_sha256", "input_tokens", "cached_input_tokens",
                                        "output_tokens", "reasoning_tokens", "total_tokens",
                                        "cost_microusd", "error_class"})
    @@ "tool.invocation.started"  :> Is(ToolIds, {"metadata_sha256"})
    @@ "tool.invocation.finished" :> Is(ToolIds \cup Ends, {"result_sha256", "exit_code", "error_class"})
    @@ "research_ledger.query.started"  :> Is(QueryIds, {"goal_id", "kind_filter", "status_filter", "tag_id"})
    @@ "research_ledger.query.finished" :> Is(QueryIds \cup Ends \cup {"result_count"}, {"error_class"})
    @@ "research_ledger.records_opened" :> Is({"open_id", "record_ids"}, {"query_id"})
    @@ "lean.scratch.started"     :> Is(ScratchIds, {"assembled_sha256"})
    @@ "lean.scratch.finished"    :> Is(ScratchIds \cup Ends, {"assembled_sha256", "exit_code", "error_class"})
    @@ "evaluator.stage.started"  :> Is(StageIds, {})
    @@ "evaluator.stage.finished" :> Is(StageIds \cup Ends, Counted \cup {"receipt_sha256", "error_class"})
    @@ "promotion.phase.started"  :> Is({"promotion_id", "phase"}, {"candidate_sha256"})
    @@ "promotion.phase.finished" :> Is({"promotion_id", "phase"} \cup Ends,
                                        Seals \cup Counted \cup {"error_class"})
    @@ "audit.phase.started"      :> Is({"audit_id", "phase"}, {"input_sha256"})
    @@ "audit.phase.finished"     :> Is({"audit_id", "phase"} \cup Ends,
                                        Seals \cup {"audited_goal_count", "audited_relation_count", "error_class"})

CampaignEvents == {"campaign.phase.started", "campaign.phase.finished"}
TurnEvents == {"turn.phase.started", "turn.phase.finished"}

HashFields == {"assembled_sha256", "candidate_sha256", "config_sha256", "input_sha256",
               "manifest_sha256", "metadata_sha256", "output_sha256", "query_sha256",
               "receipt_sha256", "request_sha256", "response_sha256", "result_sha256",
               "route_sha256", "source_sha256"}
NonnegativeIntegerFields ==
    {"accepted_goal_count", "audited_goal_count", "audited_relation_count",
     "cached_input_tokens", "certified_relation_count", "cost_microusd", "duration_ms",
     "input_tokens", "output_tokens", "reasoning_tokens", "result_count", "total_tokens"}

FieldType(n) == CASE n \in HashFields -> "hash"
                  [] n \in NonnegativeIntegerFields -> "count"
                  [] n = "exit_code" -> "exit"
                  [] n = "record_ids" -> "ids"
                  [] OTHER -> "identifier"

\* _validate_turn, where 0 stands for no turn.
TurnFits(event, turn) == /\ event \in TurnEvents => turn > 0
                         /\ event \in CampaignEvents => turn = 0

FieldsFit(event, fields) ==
    LET spec == EventSpecs[event]
    IN  /\ spec.required \subseteq DOMAIN fields
        /\ DOMAIN fields \subseteq spec.required \cup spec.optional
        /\ \A n \in DOMAIN fields : fields[n].type = FieldType(n)
        /\ "record_ids" \in DOMAIN fields => fields["record_ids"].is \in DOMAIN Sorted

Admitted(e) == /\ e.event \in DOMAIN EventSpecs
               /\ TurnFits(e.event, e.turn)
               /\ FieldsFit(e.event, e.fields)

\* What _normalize_fields returns: record identifiers are put in order.
InOrder(n, field) == IF n = "record_ids"
                     THEN [type |-> field.type, is |-> Sorted[field.is]] ELSE field

Normal(e) == [event |-> e.event, turn |-> e.turn,
              fields |-> [n \in DOMAIN e.fields |-> InOrder(n, e.fields[n])]]
-------------------------------------------------------------------------------
Hash(sequence, previous, campaign, event) == <<sequence, previous, campaign, event>>

Record(sequence, previous, campaign, event) ==
    [sequence |-> sequence, previous |-> previous, campaign |-> campaign,
     event |-> event, hash |-> Hash(sequence, previous, campaign, event)]

\* The claimed hash of the last record, as record number i + 1 should repeat it.
HashBefore(s, i) == IF i = 1 THEN Genesis ELSE s[i - 1].hash
HeadHash(s) == HashBefore(s, Len(s) + 1)

\* _verify_text finds no error: a record has the fields of the envelope and the hash
\* of the others, what it says fits the schema, and it continues the chain.
Valid(s) == \A i \in 1 .. Len(s) :
               /\ s[i] = Record(s[i].sequence, s[i].previous, s[i].campaign, s[i].event)
               /\ Admitted(s[i].event) /\ Normal(s[i].event) = s[i].event
               /\ s[i].sequence = i - 1
               /\ s[i].previous = HashBefore(s, i)
               /\ s[i].campaign = s[1].campaign

OfCampaign(s, c) == s # <<>> => s[1].campaign = c

ChainHead(s) == [count |-> Len(s), hash |-> HeadHash(s)]

Emitting(event, sequence, previous) ==
    [event |-> event, sequence |-> sequence, previous |-> previous]
NoEmit == Emitting(None, 0, Genesis)

Init == /\ log = <<>> /\ torn = FALSE /\ synced = 0
        /\ lock = None /\ pc = [w \in Writers |-> "idle"]
        /\ local = [w \in Writers |-> NoEmit]
        /\ receipts = {}
        /\ anchor = None /\ anchored = <<>> /\ edited = FALSE
-------------------------------------------------------------------------------
(* ObservabilityLog.emit *)

Goto(w, p) == pc' = [pc EXCEPT ![w] = p]
Release(w) == /\ Goto(w, "idle") /\ lock' = None
              /\ local' = [local EXCEPT ![w] = NoEmit]

\* Mutant: the fields are written as they came.
EmitAsItCame(w, e) ==
    /\ pc[w] = "idle" /\ lock = None /\ Len(log) < MaxEvents /\ Admitted(e)
    /\ lock' = w /\ Goto(w, "locked")
    /\ local' = [local EXCEPT ![w] = Emitting(e, 0, Genesis)]
    /\ UNCHANGED <<fileVars, receipts, anchor, anchored, edited>>

\* A call that breaks the schema is refused before the file is opened.
EmitLock(w, e) ==
    /\ pc[w] = "idle" /\ lock = None /\ Len(log) < MaxEvents /\ Admitted(e)
    /\ lock' = w /\ Goto(w, "locked")
    /\ local' = [local EXCEPT ![w] = Emitting(Normal(e), 0, Genesis)]
    /\ UNCHANGED <<fileVars, receipts, anchor, anchored, edited>>

\* An invalid log gets no more events.
EmitVerify(w) ==
    /\ pc[w] = "locked"
    /\ IF ~torn /\ Valid(log) /\ OfCampaign(log, CampaignOf[w])
       THEN /\ local' = [local EXCEPT ![w] = Emitting(@.event, Len(log), HeadHash(log))]
            /\ Goto(w, "verified") /\ lock' = lock
       ELSE Release(w)
    /\ UNCHANGED <<fileVars, receipts, anchor, anchored, edited>>

Mine(w) == Record(local[w].sequence, local[w].previous, CampaignOf[w], local[w].event)

EmitWrite(w) ==
    /\ pc[w] = "verified"
    /\ log' = Append(log, Mine(w))
    /\ Goto(w, "written")
    /\ UNCHANGED <<torn, synced, lock, local, receipts, anchor, anchored, edited>>

\* Only a part gets there: the disk is full, or the writer dies.
EmitTears(w) ==
    /\ pc[w] = "verified"
    /\ torn' = TRUE
    /\ Release(w)
    /\ UNCHANGED <<log, synced, receipts, anchor, anchored, edited>>

\* Mutant: the log is not synced.
EmitUnsynced(w) ==
    /\ pc[w] = "written"
    /\ Goto(w, "synced")
    /\ UNCHANGED <<fileVars, lock, local, receipts, anchor, anchored, edited>>

EmitSync(w) ==
    /\ pc[w] = "written"
    /\ synced' = Len(log)
    /\ Goto(w, "synced")
    /\ UNCHANGED <<log, torn, lock, local, receipts, anchor, anchored, edited>>

\* Closing the file releases the lock, and the caller has its receipt.
EmitReturn(w) ==
    /\ pc[w] = "synced"
    /\ receipts' = receipts \cup {[sequence |-> local[w].sequence, hash |-> Mine(w).hash]}
    /\ Release(w)
    /\ UNCHANGED <<fileVars, anchor, anchored, edited>>

\* The writer dies, or fsync raises: a record without a receipt may stay.
Dies(w) ==
    /\ pc[w] # "idle"
    /\ Release(w)
    /\ UNCHANGED <<fileVars, receipts, anchor, anchored, edited>>
-------------------------------------------------------------------------------
(* The machine, the keeper of the anchor, and somebody with an editor *)

\* What was not synced may be lost, wholly or in part.
PowerLoss ==
    /\ \E n \in synced .. Len(log) :
          /\ log' = SubSeq(log, 1, n) /\ synced' = n
          /\ torn' \in {FALSE, torn \/ n < Len(log)}
    /\ lock' = None /\ pc' = [w \in Writers |-> "idle"]
    /\ local' = [w \in Writers |-> NoEmit]
    /\ UNCHANGED <<receipts, anchor, anchored, edited>>

\* head() verifies without the lock.
TakeHead == /\ ~torn /\ Valid(log)
            /\ anchor' = ChainHead(log) /\ anchored' = log
            /\ UNCHANGED <<fileVars, emitVars, edited>>

\* A shorter log, or one in which an event was replaced, with the hash of its record
\* or without.
Edits(s) ==
    {SubSeq(s, 1, n) : n \in 0 .. Len(s)}
      \cup {[s EXCEPT ![i].event = e] : i \in DOMAIN s, e \in Calls}
      \cup {[s EXCEPT ![i] = Record(@.sequence, @.previous, @.campaign, e)] :
                i \in DOMAIN s, e \in Calls}

\* One of these, a bound.
Edit == /\ lock = None /\ ~edited
        /\ log' \in Edits(log) /\ synced' = Len(log')
        /\ torn' = torn /\ edited' = TRUE
        /\ UNCHANGED <<emitVars, anchor, anchored>>

\* The editor computes the chain anew, record by record.
Rechain == /\ lock = None /\ edited
           /\ \E i \in DOMAIN log :
                 log' = [log EXCEPT ![i] = Record(@.sequence, HashBefore(log, i), @.campaign, @.event)]
           /\ UNCHANGED <<torn, synced, emitVars, anchor, anchored, edited>>

Next == \/ \E w \in Writers : \/ \E e \in Calls : EmitLock(w, e)
                              \/ EmitVerify(w) \/ EmitWrite(w) \/ EmitTears(w)
                              \/ EmitSync(w) \/ EmitReturn(w) \/ Dies(w)
        \/ PowerLoss \/ TakeHead \/ Edit \/ Rechain

Spec == Init /\ [][Next]_vars
-------------------------------------------------------------------------------
(* Properties *)

\* Mutant: the head's hash is not compared.
CountMatches(head) == Len(log) = head.count

\* verify_observability_log with an expected head.
HeadMatches(head) == Len(log) = head.count /\ HeadHash(log) = head.hash

Verifies(head) == ~torn /\ Valid(log) /\ HeadMatches(head)

\* An event with a receipt stays where the receipt says, whatever writers run
\* into each other, die or lose power: only an edit can take it away.
ReceiptsStand ==
    ~edited => \A r \in receipts : /\ r.sequence < Len(log)
                                   /\ log[r.sequence + 1].hash = r.hash

\* Nothing a writer may ask for shuts the log: unless a write was torn or the file
\* edited, it verifies and takes the next event.
LogStaysOpen == ~edited /\ ~torn => Valid(log)

\* Against an anchor no change passes: a log that verifies is the one it was taken
\* of, also when its chain was computed anew.
AnchorTells == anchor # None => (Verifies(anchor) => log = anchored)
===============================================================================
