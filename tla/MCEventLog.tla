------------------------------ MODULE MCEventLog ------------------------------
(* Two writers of one campaign and one of another.  They ask for a         *)
(* phase, with a turn or without, and for records that are not in order, or *)
(* with a text that no field may carry.                                     *)
EXTENDS EventLog

MCCampaignOf == "relay" :> "A" @@ "runner" :> "A" @@ "other" :> "B"

Word(w) == [type |-> "identifier", is |-> w]
Phase == "operation_id" :> Word("o") @@ "phase" :> Word("p")
Opened == "open_id" :> Word("o") @@ "record_ids" :> [type |-> "ids", is |-> <<2, 1>>]
Titled == Opened @@ "query_id" :> [type |-> "content", is |-> "a sentence"]

MCCalls == {[event |-> "campaign.phase.started", turn |-> t, fields |-> Phase] : t \in {0, 1}}
            \cup {[event |-> "research_ledger.records_opened", turn |-> 0, fields |-> f]
                      : f \in {Opened, Titled}}

MCSorted == <<2, 1>> :> <<1, 2>> @@ <<1, 2>> :> <<1, 2>>
===============================================================================
