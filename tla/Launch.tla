-------------------------------- MODULE Launch --------------------------------
(***************************************************************************)
(* Invocations of the leanevolve command, side by side, on one repository: *)
(* `plan` and `run` of a workflow (launch.py) from the settings to the     *)
(* receipt on disk (cli.py, receipt.py), `configure` (settings.py), the    *)
(* campaigns they find (campaign.py) and the runners they start: run.py as *)
(* far as a launcher sees it, the campaign's directory and the exit status *)
(* (SearchRun is the inside of one).  A runner of a workflow that has no   *)
(* results flag keeps no campaign and only ends.                           *)
(***************************************************************************)
EXTENDS LaunchPlan

CONSTANTS
    Invocations,  \* numbers from 1
    Requests,     \* [task, arguments, consent, changes] that people ask for
    Machines,     \* what the machine may be like
    MaxFaults,    \* a bound on changes of the machine, interrupts and deaths
    FirstMachine, \* the machine at first
    FirstLocal    \* the local settings at first

\* The directory that a request names with the results flag; the others are named
\* after the invocation that allocates them.
OwnDirectory == 0
Directories == Invocations \cup {OwnDirectory}

Tasks == {"plan", "run", "configure"}

\* Amounts and model routes of a settings file; a setting may be absent.
Readable(s) == /\ {s["limit"], s["reserve"]} \subseteq Int \cup {None}
               /\ s["route"] \in Seq(Int) \cup {None}

\* A campaign's directory: the status in its manifest, if that was written, and what
\* its lineage says.  An interruption that a runner records is a failure here.
Campaign == [status : {"none", "running", "completed", "failed"},
             lineage : {"none", "partial", "complete"}, goals : BOOLEAN]

\* What a runner does, or its exit status; one that was killed failed.
Runners == {"starting", "searching", "succeeded", "failed"}

\* What a receipt says of an invocation.
Results == {"ok", "no_result", "validation", "usage", "infrastructure", "missing_tool",
            "cancelled", "interrupted"}

ASSUME LaunchAssumption ==
    /\ Invocations \subseteq Nat \ {0} /\ MaxFaults \in Nat
    /\ None \notin Campaign \cup Runners \cup Results
    /\ Readable(FirstLocal)
    /\ FirstMachine \in Machines /\ \A m \in Machines : m.free \in Nat
    /\ \A r \in Requests :
          /\ r.task \in Tasks /\ r.arguments \in Arguments /\ Readable(r.changes)
          /\ \A n \in DOMAIN r.arguments : r.arguments[n].flag = Workflow.results =>
                r.arguments[n].value \in {<<d>> : d \in Directories}

VARIABLES
    machine, faults,
    local,     \* leanevolve.local.toml
    pc, job, settings, plan, result,
    listed,    \* the manifests that build_plan has read
    draft,     \* what configure is going to write
    runner,    \* the runner's process
    campaigns, \* directory -> manifest and lineage
    started,   \* directories in the order of their campaigns' starts
    staged,    \* task -> the inode of <task>.json.tmp
    filed,     \* task -> the inode of <task>.json
    inodes,    \* inode -> whose receipt it holds
    handle     \* the inode that an invocation has open

worldVars   == <<machine, faults>>
invVars     == <<pc, job, settings, plan, result, listed, draft>>
runVars     == <<runner, campaigns, started>>
receiptVars == <<staged, filed, inodes, handle>>
vars        == <<worldVars, local, invVars, runVars, receiptVars>>

\* A file that holds no receipt, or parts of two.
Empty == 0
Mixed == -1

Init ==
    /\ machine = FirstMachine /\ faults = 0
    /\ local = FirstLocal
    /\ pc = [i \in Invocations |-> "idle"]
    /\ job = [i \in Invocations |-> None] /\ settings = job /\ plan = job
    /\ result = job /\ listed = job /\ draft = job /\ runner = job /\ handle = job
    /\ campaigns = [d \in Directories |-> None] /\ started = <<>>
    /\ staged = [t \in Tasks |-> None] /\ filed = staged
    /\ inodes = [i \in Invocations |-> Empty]

Goto(i, p) == pc' = [pc EXCEPT ![i] = p]
Finish(i, r) == result' = [result EXCEPT ![i] = r] /\ Goto(i, "reporting")

\* A volume comes or goes, a lockfile or a tool changes.
Change == /\ faults < MaxFaults
          /\ machine' \in Machines \ {machine} /\ faults' = faults + 1
          /\ UNCHANGED <<local, invVars, runVars, receiptVars>>
-------------------------------------------------------------------------------
(* Up to the plan *)

Begin(i, r) == /\ pc[i] = "idle"
               /\ job' = [job EXCEPT ![i] = r] /\ Goto(i, "begun")
               /\ UNCHANGED <<worldVars, local, settings, plan, result, listed, draft,
                              runVars, receiptVars>>

Load(i) ==
    /\ pc[i] = "begun"
    /\ IF Loads(local)
       THEN /\ settings' = [settings EXCEPT ![i] = LoadSettings(local)]
            /\ Goto(i, "loaded") /\ UNCHANGED result
       ELSE Finish(i, "validation") /\ UNCHANGED settings
    /\ UNCHANGED <<worldVars, local, job, plan, listed, draft, runVars, receiptVars>>

HasManifest(d) == campaigns[d] # None /\ campaigns[d].status # "none"

\* discover: the campaigns that have a manifest, and its status.
Discovered == [d \in {d \in Directories : HasManifest(d)} |-> campaigns[d].status]

\* The checks, and the manifests of the campaigns that are there.
Validate(i) ==
    /\ pc[i] = "loaded" /\ job[i].task \in {"plan", "run"}
    /\ LET refusal == Refusal(settings[i], machine, job[i].arguments)
       IN  IF refusal # None
           THEN Finish(i, refusal) /\ UNCHANGED listed
           ELSE /\ listed' = [listed EXCEPT ![i] = Discovered]
                /\ Goto(i, "listed") /\ UNCHANGED result
    /\ UNCHANGED <<worldVars, local, job, settings, plan, draft, runVars, receiptVars>>

\* Mutant: a campaign that failed is built upon as well.
ReplayableOnceEnded(d, status) ==
    d \in DOMAIN status /\ status[d] # "running" /\ campaigns[d].lineage = "complete"

\* Its manifest was read as completed, and its lineage is complete.
Replayable(d, status) ==
    d \in DOMAIN status /\ status[d] = "completed" /\ campaigns[d].lineage = "complete"

\* The newest of them.
Inherited(status) ==
    LET newest == SelectLastInSeq(started, LAMBDA d : Replayable(d, status))
    IN  IF newest = 0 THEN None ELSE started[newest]

\* The lineages are read after the manifests.
BuildPlan(i) ==
    /\ pc[i] = "listed"
    /\ \E printed \in Printed(settings[i].limit) :
          plan' = [plan EXCEPT ![i] = Plan(settings[i], job[i].arguments, <<i>>,
                                           Inherited(listed[i]), printed)]
    /\ listed' = [listed EXCEPT ![i] = None]
    /\ Goto(i, "planned")
    /\ UNCHANGED <<worldVars, local, job, settings, result, draft, runVars, receiptVars>>

\* What keeps a command from being executed: the ledger is looked for again.
Unexecutable(i) == CASE LedgerRefused(settings[i], machine) -> "infrastructure"
                     [] ~Available(machine, Workflow.program) -> "missing_tool"
                     [] OTHER -> None

\* A plan ends with the runner's own opinion of the command, where it has one.
SelfChecks(i) == IF Workflow.plan = None THEN {"ok"}
                 ELSE IF Unexecutable(i) # None THEN {Unexecutable(i)}
                 ELSE {"ok", "validation"}

SelfCheck(i) ==
    /\ pc[i] = "planned" /\ job[i].task = "plan"
    /\ \E verdict \in SelfChecks(i) : Finish(i, verdict)
    /\ UNCHANGED <<worldVars, local, job, settings, plan, listed, draft, runVars, receiptVars>>
-------------------------------------------------------------------------------
(* The runner *)

Spends(i) == plan[i].ceiling # None /\ plan[i].ceiling > 0

\* --yes, an answer at the terminal, or neither.
Authorize(i) ==
    /\ pc[i] = "planned" /\ job[i].task = "run"
    /\ \/ /\ ~Spends(i) \/ job[i].consent \in {"yes", "terminal"}
          /\ Goto(i, "granted") /\ UNCHANGED result
       \/ Spends(i) /\ job[i].consent = "terminal" /\ Finish(i, "cancelled")
       \/ Spends(i) /\ job[i].consent = "batch" /\ Finish(i, "usage")
    /\ UNCHANGED <<worldVars, local, job, settings, plan, listed, draft, runVars, receiptVars>>

Spawn(i) ==
    /\ pc[i] = "granted"
    /\ IF Unexecutable(i) # None
       THEN Finish(i, Unexecutable(i)) /\ UNCHANGED runner
       ELSE /\ runner' = [runner EXCEPT ![i] = "starting"]
            /\ Goto(i, "running") /\ UNCHANGED result
    /\ UNCHANGED <<worldVars, local, job, settings, plan, listed, draft, campaigns, started,
                   receiptVars>>

Directory(i) == Parsed(plan[i].command, Workflow.results)[1]

\* The runner is asked for its opinion of the command, or for its usage.
ChecksOnly(command) == \E flag \in {"--check-config", "--help"} : HasFlag(command, flag)

\* Without a campaign: the runner is killed, an argument, the configuration or the
\* directory is not right, or there was nothing to search for.
RunnerEndsEarly(i) ==
    /\ runner[i] = "starting"
    /\ \E end \in {"succeeded", "failed"} :
          /\ end = "succeeded" => Workflow.results = None \/ ChecksOnly(plan[i].command)
          /\ runner' = [runner EXCEPT ![i] = end]
    /\ UNCHANGED <<worldVars, local, invVars, campaigns, started, receiptVars>>

\* The directory must be new.  A runner that fails over its manifest leaves it behind.
RunnerStarts(i) ==
    /\ runner[i] = "starting"
    /\ Workflow.results # None /\ ~ChecksOnly(plan[i].command)
    /\ campaigns[Directory(i)] = None
    /\ \E status \in {"none", "running"} :
          /\ campaigns' = [campaigns EXCEPT ![Directory(i)] =
                              [status |-> status, lineage |-> "none", goals |-> FALSE]]
          /\ started' = IF status = "none" THEN started ELSE Append(started, Directory(i))
          /\ runner' = [runner EXCEPT ![i] = IF status = "none" THEN "failed" ELSE "searching"]
    /\ UNCHANGED <<worldVars, local, invVars, receiptVars>>

\* The lineage, complete or not, and whether it has accepted goals.
Traces == {"complete", "partial"} \X BOOLEAN

RunnerTraces(i) ==
    /\ runner[i] = "searching" /\ campaigns[Directory(i)].lineage = "none"
    /\ \E trace \in Traces :
          campaigns' = [campaigns EXCEPT ![Directory(i)].lineage = trace[1],
                                         ![Directory(i)].goals = trace[2]]
    /\ UNCHANGED <<worldVars, local, invVars, runner, started, receiptVars>>

\* The manifest is finalized after the lineage, and also where there is none: a search
\* without a database, a write that failed.  Finalizing may fail too, or the runner is
\* killed before; it succeeds only where nothing has failed.
RunnerEnds(i) ==
    /\ runner[i] = "searching"
    /\ \E status \in {"completed", "failed", "running"}, end \in {"succeeded", "failed"} :
          /\ end = "succeeded" => status = "completed"
          /\ campaigns' = [campaigns EXCEPT ![Directory(i)].status = status]
          /\ runner' = [runner EXCEPT ![i] = end]
    /\ UNCHANGED <<worldVars, local, invVars, started, receiptVars>>

\* The launcher looks for the campaign where the plan put it.
Recorded(i) == Workflow.results # None /\ HasManifest(i)

\* Mutant: whatever ends without an error is a result.
StatusOfExit(i) == IF runner[i] = "succeeded" THEN "ok" ELSE "infrastructure"

\* A runner that succeeds without a campaign is a success.
StatusOf(i) == IF runner[i] # "succeeded" THEN "infrastructure"
               ELSE IF Recorded(i) /\ ~campaigns[i].goals THEN "no_result"
               ELSE "ok"

Collect(i) ==
    /\ pc[i] = "running" /\ runner[i] \in {"succeeded", "failed"}
    /\ Finish(i, StatusOf(i))
    /\ UNCHANGED <<worldVars, local, job, settings, plan, listed, draft, runVars, receiptVars>>

\* The runner gets the same signal; one that has not ended when its parent stops
\* waiting is killed.
Interrupt(i) ==
    /\ pc[i] \in {"begun", "loaded", "listed", "planned", "granted", "running", "configured",
                "emptied"}
    /\ faults < MaxFaults /\ faults' = faults + 1
    /\ runner' = [runner EXCEPT ![i] = IF @ \in {"starting", "searching"} THEN "failed" ELSE @]
    /\ Finish(i, "interrupted")
    /\ UNCHANGED <<machine, local, job, settings, plan, listed, draft, campaigns, started,
                   receiptVars>>

Dies(i) == /\ pc[i] \notin {"idle", "ended", "dead"}
           /\ faults < MaxFaults /\ faults' = faults + 1
           /\ Goto(i, "dead")
           /\ UNCHANGED <<machine, local, job, settings, plan, result, listed, draft,
                          runVars, receiptVars>>
-------------------------------------------------------------------------------
(* configure *)

ConfigureRead(i) ==
    /\ pc[i] = "loaded" /\ job[i].task = "configure"
    /\ IF ConfigureRefused(job[i].changes)
       THEN Finish(i, "usage") /\ UNCHANGED draft
       ELSE /\ draft' = [draft EXCEPT ![i] = Overlaid(local, job[i].changes)]
            /\ Goto(i, "configured") /\ UNCHANGED result
    /\ UNCHANGED <<worldVars, local, job, settings, plan, listed, runVars, receiptVars>>

\* write_text empties the file before it fills it.
ConfigureOpen(i) ==
    /\ pc[i] = "configured"
    /\ local' = NoOverrides /\ Goto(i, "emptied")
    /\ UNCHANGED <<worldVars, job, settings, plan, result, listed, draft, runVars, receiptVars>>

ConfigureWrite(i) ==
    /\ pc[i] = "emptied"
    /\ local' = draft[i] /\ Finish(i, "ok")
    /\ UNCHANGED <<worldVars, job, settings, plan, listed, draft, runVars, receiptVars>>
-------------------------------------------------------------------------------
(* The receipt: every invocation of a task has the same two paths *)

\* main loads the settings again to find the directory.
ReceiptOpen(i) ==
    /\ pc[i] = "reporting"
    /\ IF ~Loads(local)
       THEN Goto(i, "ended") /\ UNCHANGED receiptVars
       ELSE LET t    == job[i].task
                file == IF staged[t] = None THEN i ELSE staged[t]
            IN  /\ staged' = [staged EXCEPT ![t] = file]
                /\ handle' = [handle EXCEPT ![i] = file]
                /\ inodes' = [inodes EXCEPT ![file] = Empty]
                /\ Goto(i, "opened") /\ UNCHANGED filed
    /\ UNCHANGED <<worldVars, local, job, settings, plan, result, listed, draft, runVars>>

\* Two receipts in one file: the shorter over the longer is neither.
ReceiptWrite(i) ==
    /\ pc[i] = "opened"
    /\ \E text \in {i, Mixed} :
          /\ inodes[handle[i]] = Empty => text = i
          /\ inodes' = [inodes EXCEPT ![handle[i]] = text]
    /\ Goto(i, "written")
    /\ UNCHANGED <<worldVars, local, job, settings, plan, result, listed, draft, runVars,
                   staged, filed, handle>>

\* Where somebody else has renamed the file already, there is no receipt to name.
ReceiptRename(i) ==
    /\ pc[i] = "written"
    /\ LET t == job[i].task
       IN  IF staged[t] = None THEN UNCHANGED <<staged, filed>>
           ELSE /\ filed' = [filed EXCEPT ![t] = staged[t]]
                /\ staged' = [staged EXCEPT ![t] = None]
    /\ Goto(i, "ended")
    /\ UNCHANGED <<worldVars, local, job, settings, plan, result, listed, draft, runVars,
                   inodes, handle>>

Next == \/ Change
        \/ \E i \in Invocations :
              \/ \E r \in Requests : Begin(i, r)
              \/ Load(i) \/ Validate(i) \/ BuildPlan(i) \/ SelfCheck(i)
              \/ Authorize(i) \/ Spawn(i) \/ Collect(i) \/ Interrupt(i) \/ Dies(i)
              \/ RunnerEndsEarly(i) \/ RunnerStarts(i) \/ RunnerTraces(i)
              \/ RunnerEnds(i)
              \/ ConfigureRead(i) \/ ConfigureOpen(i) \/ ConfigureWrite(i)
              \/ ReceiptOpen(i) \/ ReceiptWrite(i) \/ ReceiptRename(i)

Spec == Init /\ [][Next]_vars
-------------------------------------------------------------------------------
(* Properties *)

RepeatsAFlag(arguments) ==
    \E a, b \in DOMAIN arguments : a < b /\ arguments[a].flag = arguments[b].flag

\* The chunks that a runner makes of its command, each with a budget of its own.
Chunks(command) ==
    IF HasFlag(command, "--spotlight") THEN Parsed(command, "--spotlight")[1]
    ELSE IF Workflow.schedule # None /\ Workflow.schedule.style = "chunks"
            /\ HasFlag(command, Workflow.schedule.flag)
    THEN Len(Parsed(command, Workflow.schedule.flag))
    ELSE 1

\* The amount that the runner reads is the one that the plan multiplies: the user gave
\* it, or it is printed as it is.
HandedExactly(i) == \/ HasFlag(job[i].arguments, Workflow.cost)
                    \/ Printed(plan[i].perChunk) = {plan[i].perChunk}

\* What a running runner gets to spend, in all chunks, is what somebody agreed to, as long
\* as no flag is given twice: the command that is handed over has the defaults and the
\* amounts that the plan added up.  But for the way an amount is printed (launch.py:418):
\* a limit of more than six digits goes out rounded, up to a two hundred thousandth above
\* the ceiling, which launch.py:599 says cannot happen.
SpendIsAuthorized ==
    \A i \in Invocations :
        runner[i] \in {"starting", "searching"} /\ Workflow.cost # None
            /\ ~RepeatsAFlag(job[i].arguments) =>
            LET spend   == Parsed(plan[i].command, Workflow.cost)[1] * Chunks(plan[i].command)
                ceiling == plan[i].ceiling
            IN  /\ spend <= ceiling + ceiling \div 200000
                /\ HandedExactly(i) => spend <= ceiling
                /\ spend > 0 => job[i].consent \in {"yes", "terminal"}

\* The receipt that is left under the name of a run says ok only where the campaign
\* it planned has come to an end with goals.  Three kinds of runs say ok without one: of
\* a workflow that keeps no campaign, of a runner that is only asked to check (whose exit
\* status is all there is), and of a user who chose the directory: then the launcher
\* looks where the runner never was.
OkMeansResult ==
    \A i \in Invocations :
        /\ filed["run"] # None /\ inodes[filed["run"]] = i /\ result[i] = "ok"
        /\ Workflow.results # None /\ ~HasFlag(job[i].arguments, Workflow.results)
        /\ ~ChecksOnly(plan[i].command)
        => campaigns[i] # None /\ campaigns[i].status = "completed" /\ campaigns[i].goals

\* What a plan builds on is finished and traced, though its manifest and its lineage
\* are read at two times while its runner writes them.
InheritedStands ==
    \A i \in Invocations :
        plan[i] # None /\ plan[i].inherited # None =>
            /\ campaigns[plan[i].inherited].status = "completed"
            /\ campaigns[plan[i].inherited].lineage = "complete"

\* Where doctor says READY no check of the machine stops a workflow that follows, if
\* Shinka is there (doctor does not count it missing), but for a reserve that is missed by
\* less than doctor shows: it rounds the free space before it compares (doctor.py:82), a
\* launch does not (launch.py:117).  The two read the machine with code of their own.
ReadyMeansRunnable ==
    Loads(local) /\ DoctorReady(LoadSettings(local), machine) /\ machine.shinka # None
        => MachineRefusal([LoadSettings(local) EXCEPT !.reserve = @ - Hundredth \div 2], machine)
             = None
===============================================================================
