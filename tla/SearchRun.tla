------------------------------ MODULE SearchRun ------------------------------
(***************************************************************************)
(* One search campaign and what it leaves in its run directory: run.py     *)
(* with audit.py and lineage.py, the evaluator that the Shinka runner      *)
(* starts per generation (evaluate.py), the best directory                 *)
(* (shinka_runtime.py), and what replay.py finds in the directory.         *)
(*                                                                         *)
(* The formal project and the configuration are files that somebody may    *)
(* edit at any time; a content is a version, and an edit is a version      *)
(* nobody has seen before.  The runner is external: it proposes            *)
(* candidates, runs one evaluator at a time, stores programs and may       *)
(* raise.  An evaluator is a process of its own and survives a run that    *)
(* fails.                                                                  *)
(***************************************************************************)
EXTENDS KernelScoring

CONSTANTS MaxGenerations,
          MaxEdits,     \* a bound on the edits of the two inputs together
          None

ASSUME RunAssumption == /\ MaxGenerations \in Nat /\ MaxEdits \in Nat /\ 0 \in Versions
                        /\ None \notin Nat \cup Candidates

Generations == 1 .. MaxGenerations

VARIABLES
    disk,      \* the live versions of the project and the configuration
    pc,        \* where run.main is
    outcome,   \* its local `status`
    expected,  \* the project hash every evaluation is held to
    snapshot,  \* the input snapshot with the configuration that was parsed
    manifest,  \* run_manifest.json: its status, "absent" before there is one,
               \* and its inventory
    events,    \* events.jsonl
    candidate, \* generation -> main.lean
    results,   \* generation -> how much of results/ is there
    receipt,   \* generation -> evaluation_manifest.json
    programs,  \* the rows of programs.sqlite
    lineage,   \* proof_lineage.json with the database snapshot
    eval,      \* the evaluator process
    best,      \* the best directory and its refresh
    inventory  \* local of finalize_run_manifest

runVars  == <<pc, outcome, expected, snapshot, manifest, events, lineage, inventory>>
evalVars == <<candidate, results, receipt, programs, eval>>
vars     == <<disk, runVars, evalVars, best>>

NoEval == [at |-> "idle"]
NoBest == [at |-> "idle", dest |-> None, previous |-> None, staging |-> None,
           debris |-> FALSE, program |-> None, due |-> FALSE]

\* Everything that result_inventory records: the directory without the manifest.
Files == [events |-> events, snapshot |-> snapshot, candidate |-> candidate,
          results |-> results, receipt |-> receipt, lineage |-> lineage,
          best |-> [dest |-> best.dest, previous |-> best.previous,
                    staging |-> best.staging, debris |-> best.debris]]

Init == /\ disk = [project |-> 0, config |-> 0]
        /\ pc = "configured" /\ outcome = "completed"
        /\ expected = None /\ snapshot = None
        /\ manifest = [status |-> "absent", inventory |-> None]
        /\ inventory = None
        /\ events = <<>> /\ lineage = None
        /\ candidate = [g \in Generations |-> None]
        /\ results = [g \in Generations |-> "none"]
        /\ receipt = [g \in Generations |-> None]
        /\ programs = <<>>
        /\ eval = NoEval /\ best = NoBest

\* Somebody edits an input while the run is under way.
Edit(f) == /\ disk[f] + 1 \in Versions /\ disk.project + disk.config < MaxEdits
           /\ disk' = [disk EXCEPT ![f] = @ + 1]
           /\ UNCHANGED <<runVars, evalVars, best>>
-------------------------------------------------------------------------------
(* run.main up to the runner *)

AppendEvent(names) == events' = events \o names

\* The project's hash becomes an argument of every evaluation.
BuildRuntime ==
    /\ pc = "configured"
    /\ expected' = disk.project
    /\ pc' = "built"
    /\ UNCHANGED <<disk, outcome, snapshot, manifest, events, lineage, inventory,
                   evalVars, best>>

\* create_run_manifest makes the directory and records the inputs.
CreateDirectory ==
    /\ pc = "built"
    /\ snapshot' = disk
    /\ pc' = "copying"
    /\ UNCHANGED <<disk, outcome, expected, manifest, events, lineage, inventory,
                   evalVars, best>>

\* Each copy is compared with its record: an edit in between ends the run
\* before there is a manifest.
CopyInputs ==
    /\ pc = "copying"
    /\ IF disk = snapshot
       THEN /\ manifest' = [status |-> "running", inventory |-> None]
            /\ AppendEvent(<<"run_started", "input_snapshot_completed">>)
            /\ pc' = "searching"
       ELSE /\ pc' = "raised"
            /\ UNCHANGED <<manifest, events>>
    /\ UNCHANGED <<disk, outcome, expected, snapshot, lineage, inventory,
                   evalVars, best>>
-------------------------------------------------------------------------------
(* The runner and its evaluator *)

\* The runner writes a candidate and starts an evaluator, which reads the
\* configuration anew.
Propose(g, c) ==
    /\ pc = "searching" /\ eval.at = "idle"
    /\ candidate[g] = None /\ Len(programs) = g - 1
    /\ candidate' = [candidate EXCEPT ![g] = c]
    /\ eval' = [at |-> "loaded", gen |-> g, config |-> disk.config]
    /\ UNCHANGED <<disk, runVars, results, receipt, programs, best>>

\* The project must still be the one of the run's start.
CheckProject ==
    /\ eval.at = "loaded"
    /\ eval' = IF disk.project = expected
               THEN [at |-> "checked", gen |-> eval.gen, config |-> eval.config]
               ELSE [at |-> "judged", gen |-> eval.gen, config |-> eval.config,
                     ran |-> None, reach |-> 0, accepted |-> {}]
    /\ UNCHANGED <<disk, runVars, candidate, results, receipt, programs, best>>

\* Lean reads the project as it is now; each invocation leaves files.
Judge(reach) ==
    /\ eval.at = "checked"
    /\ reach \in Reaches(eval.config)
    /\ eval' = [at |-> "judged", gen |-> eval.gen, config |-> eval.config,
                ran |-> disk.project, reach |-> reach,
                accepted |-> RunKernel(candidate[eval.gen], disk.project,
                                       eval.config, reach)]
    /\ results' = IF candidate[eval.gen] \in Legal
                  THEN [results EXCEPT ![eval.gen] = "partial"] ELSE results
    /\ UNCHANGED <<disk, runVars, candidate, receipt, programs, best>>

\* Mutant: the receipt repeats the hash of the check.
WriteResultsCheckedHash ==
    /\ eval.at = "judged"
    /\ results' = [results EXCEPT ![eval.gen] = "whole"]
    /\ receipt' = [receipt EXCEPT ![eval.gen] =
                     [inputs |-> expected, configuration |-> disk.config,
                      accepted |-> eval.accepted,
                      ran |-> eval.ran, reach |-> eval.reach, used |-> eval.config]]
    /\ eval' = [at |-> "done", gen |-> eval.gen]
    /\ UNCHANGED <<disk, runVars, candidate, programs, best>>

\* write_results hashes the project and the configuration once more.  `ran`,
\* `reach` and `used` are history: what the kernel really worked on.
WriteResults ==
    /\ eval.at = "judged"
    /\ results' = [results EXCEPT ![eval.gen] = "whole"]
    /\ receipt' = [receipt EXCEPT ![eval.gen] =
                     [inputs |-> disk.project, configuration |-> disk.config,
                      accepted |-> eval.accepted,
                      ran |-> eval.ran, reach |-> eval.reach, used |-> eval.config]]
    /\ eval' = [at |-> "done", gen |-> eval.gen]
    /\ UNCHANGED <<disk, runVars, candidate, programs, best>>

\* The evaluator dies, or the runner's job limit ends it.
EvaluatorLost ==
    /\ eval.at \in {"loaded", "checked", "judged"}
    /\ eval' = [at |-> "done", gen |-> eval.gen]
    /\ UNCHANGED <<disk, runVars, candidate, results, receipt, programs, best>>

\* The runner stores the program with a parent it sampled from the archive, and
\* asks for the best directory to be refreshed.
StoreProgram(parent) ==
    /\ pc = "searching" /\ eval.at = "done"
    /\ parent \in {None} \cup {programs[i].gen : i \in DOMAIN programs}
    /\ programs' = Append(programs, [gen |-> eval.gen, parent |-> parent])
    /\ eval' = NoEval
    /\ best' = [best EXCEPT !.due = TRUE]
    /\ UNCHANGED <<disk, runVars, candidate, results, receipt>>

\* Without the runner nobody collects an evaluator that survived it.
OrphanEnds == /\ pc \in {"raised", "ended", "cut", "killed"} /\ eval.at = "done"
              /\ eval' = NoEval
              /\ UNCHANGED <<disk, runVars, candidate, results, receipt, programs, best>>
-------------------------------------------------------------------------------
(* The best directory *)

\* Only correct programs compete: those with an accepted goal.  A program
\* without a receipt has no score.
Credit(g) == IF receipt[g] = None THEN {} ELSE receipt[g].accepted

Correct == {g \in {programs[i].gen : i \in DOMAIN programs} : Credit(g) # {}}

TopProgram == CHOOSE g \in Correct :
                 \A h \in Correct : \/ Cardinality(Credit(g)) > Cardinality(Credit(h))
                                    \/ /\ Cardinality(Credit(g)) = Cardinality(Credit(h))
                                       /\ g <= h

\* The whole directory is copied beside the old one.  A copy that fails stays.
StageBest ==
    /\ pc = "searching" /\ best.at = "idle" /\ best.due
    /\ IF Correct = {} \/ TopProgram = best.program
       THEN best' = [best EXCEPT !.due = FALSE]
       ELSE \/ best' = [best EXCEPT !.due = FALSE, !.at = "staged",
                                    !.staging = TopProgram]
            \/ best' = [best EXCEPT !.due = FALSE, !.debris = TRUE]
    /\ UNCHANGED <<disk, runVars, evalVars>>

\* Mutant: the old directory is removed first.
RemoveFirst ==
    /\ best.at = "staged" /\ pc = "searching"
    /\ best' = [best EXCEPT !.at = "moved", !.dest = None]
    /\ UNCHANGED <<disk, runVars, evalVars>>

\* The two renames, with a moment without a best directory in between.
MoveAway ==
    /\ best.at = "staged" /\ pc = "searching"
    /\ best' = [best EXCEPT !.at = "moved", !.previous = best.dest, !.dest = None]
    /\ UNCHANGED <<disk, runVars, evalVars>>

PlaceBest ==
    /\ best.at = "moved" /\ pc = "searching"
    /\ best' = [best EXCEPT !.at = "placed", !.dest = best.staging, !.staging = None]
    /\ UNCHANGED <<disk, runVars, evalVars>>

DiscardPrevious ==
    /\ best.at = "placed" /\ pc = "searching"
    /\ best' = [best EXCEPT !.at = "idle", !.previous = None, !.program = best.dest]
    /\ UNCHANGED <<disk, runVars, evalVars>>

\* An error in the replacement puts the old directory back if none is there;
\* what is left of a removal stays.
RefreshFails ==
    /\ best.at \in {"staged", "moved", "placed"} /\ pc = "searching"
    /\ best' = [best EXCEPT !.at = "idle", !.staging = None, !.previous = None,
                            !.dest = IF @ = None THEN best.previous ELSE @,
                            !.debris = @ \/ (best.at = "placed" /\ best.previous # None)]
    /\ UNCHANGED <<disk, runVars, evalVars>>
-------------------------------------------------------------------------------
(* run.main after the runner: the finally blocks *)

RunnerReturns ==
    /\ pc = "searching" /\ eval.at = "idle" /\ best.at = "idle" /\ ~best.due
    /\ pc' = "lineage"
    /\ UNCHANGED <<disk, outcome, expected, snapshot, manifest, events, lineage,
                   inventory, evalVars, best>>

\* The runner raises, or the user interrupts it; its evaluator may go on.  The
\* executor's thread with the refresh is waited for.
RunnerRaises ==
    /\ pc = "searching" /\ best.at = "idle"
    /\ pc' = "lineage"
    /\ outcome' \in {"failed", "interrupted"}
    /\ UNCHANGED <<disk, expected, snapshot, manifest, events, lineage,
                   inventory, evalVars, best>>

\* One node per stored program, bound to the files it has by now.
Node(p) == [gen |-> p.gen, parent |-> p.parent, candidate |-> candidate[p.gen],
            receipt |-> receipt[p.gen]]

\* The node of the best score, then of the later generation, and its ancestors.
Frontier == CHOOSE i \in DOMAIN programs : \A j \in DOMAIN programs :
               LET a == Cardinality(Credit(programs[i].gen))
                   b == Cardinality(Credit(programs[j].gen))
               IN  a > b \/ (a = b /\ programs[i].gen >= programs[j].gen)

AncestorPath ==
    LET path[i \in 0 .. Len(programs)] ==
            IF i = 0 THEN <<>>
            ELSE IF programs[i].parent = None THEN <<programs[i].gen>>
            ELSE Append(path[CHOOSE j \in 1 .. i - 1 : programs[j].gen = programs[i].parent],
                        programs[i].gen)
    IN  path[Frontier]

WriteLineage ==
    /\ pc = "lineage"
    /\ IF programs = <<>>
       THEN pc' = "finalizing" /\ lineage' = lineage
       ELSE /\ lineage' = [nodes |-> {Node(programs[i]) : i \in DOMAIN programs},
                           path |-> AncestorPath]
            /\ pc' = "recording"
    /\ UNCHANGED <<disk, outcome, expected, snapshot, manifest, events, inventory,
                   evalVars, best>>

RecordLineage ==
    /\ pc = "recording"
    /\ AppendEvent(<<"proof_lineage_recorded">>)
    /\ pc' = "finalizing"
    /\ UNCHANGED <<disk, outcome, expected, snapshot, manifest, lineage, inventory,
                   evalVars, best>>

\* An error, or a second interrupt, in the inner try: the manifest is still
\* finalised, with the status it had.
LineageRaises ==
    /\ pc \in {"lineage", "recording"}
    /\ pc' = "finalizing"
    /\ UNCHANGED <<disk, outcome, expected, snapshot, manifest, events, lineage,
                   inventory, evalVars, best>>

\* Mutant: only a run that went well is finalised.
AppendFinishedIfCompleted ==
    /\ pc = "finalizing" /\ outcome = "completed"
    /\ AppendEvent(<<"run_finished">>)
    /\ pc' = "counting"
    /\ UNCHANGED <<disk, outcome, expected, snapshot, manifest, lineage, inventory,
                   evalVars, best>>

AppendFinished ==
    /\ pc = "finalizing"
    /\ AppendEvent(<<"run_finished">>)
    /\ pc' = "counting"
    /\ UNCHANGED <<disk, outcome, expected, snapshot, manifest, lineage, inventory,
                   evalVars, best>>

\* Mutant: the inventory is older than the last event.
TakeInventoryEarly ==
    /\ pc = "counting"
    /\ inventory' = [Files EXCEPT !.events = SubSeq(events, 1, Len(events) - 1)]
    /\ pc' = "writing"
    /\ UNCHANGED <<disk, outcome, expected, snapshot, manifest, events, lineage,
                   evalVars, best>>

TakeInventory ==
    /\ pc = "counting"
    /\ inventory' = Files
    /\ pc' = "writing"
    /\ UNCHANGED <<disk, outcome, expected, snapshot, manifest, events, lineage,
                   evalVars, best>>

ReplaceManifest ==
    /\ pc = "writing"
    /\ manifest' = [status |-> outcome, inventory |-> inventory]
    /\ pc' = "ended"
    /\ UNCHANGED <<disk, outcome, expected, snapshot, events, lineage, inventory,
                   evalVars, best>>

\* An interrupt in finalize_run_manifest itself, and a kill at any time.
FinalizeCut ==
    /\ pc \in {"finalizing", "counting", "writing"}
    /\ pc' = "cut"
    /\ UNCHANGED <<disk, outcome, expected, snapshot, manifest, events, lineage,
                   inventory, evalVars, best>>

Killed ==
    /\ pc \notin {"raised", "ended", "cut", "killed"}
    /\ pc' = "killed"
    /\ UNCHANGED <<disk, outcome, expected, snapshot, manifest, events, lineage,
                   inventory, evalVars, best>>

Over == pc \in {"raised", "ended", "cut", "killed"}

\* The processes are gone; the directory stays for replay.
Rest == Over /\ eval.at = "idle" /\ UNCHANGED vars

Next == \/ \E f \in {"project", "config"} : Edit(f)
        \/ BuildRuntime \/ CreateDirectory \/ CopyInputs
        \/ \E g \in Generations, c \in Candidates : Propose(g, c)
        \/ CheckProject \/ WriteResults \/ EvaluatorLost \/ OrphanEnds
        \/ eval.at = "checked" /\ \E reach \in Reaches(eval.config) : Judge(reach)
        \/ \E parent \in {None} \cup Generations : StoreProgram(parent)
        \/ StageBest \/ MoveAway \/ PlaceBest \/ DiscardPrevious \/ RefreshFails
        \/ RunnerReturns \/ RunnerRaises
        \/ WriteLineage \/ RecordLineage \/ LineageRaises
        \/ AppendFinished \/ TakeInventory \/ ReplaceManifest
        \/ FinalizeCut \/ Killed \/ Rest

Main == \/ BuildRuntime \/ CreateDirectory \/ CopyInputs \/ RunnerReturns
        \/ WriteLineage \/ RecordLineage
        \/ AppendFinished \/ TakeInventory \/ ReplaceManifest

Evaluation == \/ CheckProject \/ WriteResults
              \/ eval.at = "checked" /\ Judge(0)
              \/ StoreProgram(None)

Refresh == StageBest \/ MoveAway \/ PlaceBest \/ DiscardPrevious

\* run.main goes on when it can, an evaluator ends within its job limit, and
\* the executor finishes a refresh.
Spec == /\ Init /\ [][Next]_vars
        /\ WF_vars(Main) /\ WF_vars(Evaluation) /\ WF_vars(Refresh)
-------------------------------------------------------------------------------
(* replay.replay *)

LineageProblems ==
    IF lineage = None THEN {"missing proof lineage"}
    ELSE {n.gen : n \in {m \in lineage.nodes : \/ candidate[m.gen] # m.candidate
                                                \/ receipt[m.gen] # m.receipt}}

\* Mutant: the candidates are evaluated in the live checkout.
FreshLive(g) == RunKernel(candidate[g], disk.project, disk.config,
                          FullBudget(disk.config))

\* What the snapshot makes of a recorded candidate, given the time.
Fresh(g) == RunKernel(candidate[g], snapshot.project, snapshot.config,
                      FullBudget(snapshot.config))

FreshProblems == {g \in Generations : /\ candidate[g] # None /\ receipt[g] # None
                                      /\ Fresh(g) # receipt[g].accepted}

\* Every recorded file is there with its contents, and no other.
InventoryHolds == manifest.inventory # None => manifest.inventory = Files

ReplayAccepts == /\ manifest.status # "absent"
                 /\ InventoryHolds
                 /\ LineageProblems = {}
                 /\ FreshProblems = {}
-------------------------------------------------------------------------------
(* Properties *)

\* Evaluation credits the largest set of soundly proved goals that contains its
\* prerequisites: a goal that the shared budget did not reach costs itself and
\* the goals that need it, and no other.
AcceptedIsLargestClosed ==
    \A g \in Generations : receipt[g] # None /\ receipt[g].ran # None =>
       receipt[g].accepted =
          IF candidate[g] \in Legal /\ receipt[g].reach > 0
             /\ receipt[g].ran \in Elaborates[candidate[g]]
          THEN LargestClosed(candidate[g], receipt[g].ran, receipt[g].used,
                             receipt[g].reach)
          ELSE {}

\* Between the check of the project and the kernel's run the project may change;
\* the hash that the receipt records at the end shows it: a receipt with the
\* run's own inputs was judged on them.
ReceiptsTellTheirProject ==
    \A g \in Generations :
       receipt[g] # None /\ receipt[g].accepted # {} /\ receipt[g].inputs = expected
       => receipt[g].ran = expected

\* finalize_run_manifest comes last: nothing that the run writes after a
\* normal return of the runner escapes the inventory.
CompletedRunVerifies ==
    manifest.status = "completed" => manifest.inventory = Files

\* Replay accepts a completed run whose evaluations all saw the snapshotted
\* project and configuration and had the time they needed, whatever was edited
\* meanwhile in the checkout.
UndisturbedRunReplays ==
    /\ pc = "ended" /\ outcome = "completed" /\ lineage # None
    /\ \A g \in Generations : receipt[g] # None =>
          /\ receipt[g].ran = snapshot.project /\ receipt[g].used = snapshot.config
          /\ receipt[g].reach = FullBudget(snapshot.config)
    => ReplayAccepts

\* Once there was a best directory, one is found under its name or under that
\* of its predecessor, at any instant, and under its name between refreshes.
BestSurvives == [][ (best.dest # None \/ best.previous # None) =>
                    /\ best'.dest # None \/ best'.previous # None
                    /\ best'.at = "idle" => best'.dest # None ]_vars

\* A search that starts and is not killed or cut short is finalised.
RunsAreFinalized == (pc = "searching") ~> (pc \in {"ended", "cut", "killed"})

\* Each goal is audited on its own declaration and type.
IndependentlyAudited ==
    \A g \in Generations : receipt[g] # None /\ receipt[g].ran # None =>
       receipt[g].accepted \subseteq
          Audited(candidate[g], receipt[g].ran, receipt[g].used, receipt[g].reach)
===============================================================================
