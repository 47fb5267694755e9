------------------------------ MODULE LaunchPlan ------------------------------
(***************************************************************************)
(* What workflow/launch.py computes before it starts a runner: the command *)
(* it hands over, the ordered schedule (schedule.py) and the ceiling that  *)
(* the schedule multiplies; and what settings.py makes of the settings     *)
(* files, environment.py and doctor.py of the machine.                     *)
(*                                                                         *)
(* An argument is a flag with its value, a sequence of numbers: the turns  *)
(* of each chunk, an amount, a directory.  <<>> is the empty text, and a   *)
(* negative number also stands for what is not a finite number.  Amounts   *)
(* are whole numbers of a unit as small as one likes.                      *)
(***************************************************************************)
EXTENDS Integers, Sequences, SequencesExt, FiniteSets

CONSTANTS
    Workflow,  \* one table [workflow.x] of leanevolve.toml
    Toml,      \* the other settings of that file
    PowersOfTen, \* those up to the largest amount
    Hundredth, \* of a gigabyte, in the unit of free space
    None

Arguments == Seq([flag : STRING, value : Seq(Int)])

Styles == {"steps", "chunks", "spotlight"}
Kinds == {"solve", "expand", "spotlight"}

HasFlag(arguments, flag) == \E i \in DOMAIN arguments : arguments[i].flag = flag

\* What the shipped leanevolve.toml says of its workflows, and settings.py checks in
\* part: a style is one of three, every flag has a purpose of its own, and the program
\* comes without flags for what a person asks for; nor do the defaults set an amount
\* or a directory.
ASSUME PlanAssumption ==
    /\ None \notin Int \cup Seq(Int) \cup STRING
    /\ None \notin [style : Styles, value : Seq(Int)]
    /\ None \notin [style : Styles, epochs : Seq([kind : Kinds, turns : Int])]
    /\ Workflow.command \in Arguments /\ Workflow.defaults \in Arguments
    /\ {Workflow.cost, Workflow.results, Workflow.model} \subseteq STRING \cup {None}
    /\ Workflow.schedule # None => Workflow.schedule.style \in Styles
    /\ LET asked == {"--spotlight"} \cup
                     IF Workflow.schedule = None THEN {} ELSE {Workflow.schedule.flag}
       IN  /\ \A flag \in asked \cup {Workflow.cost, Workflow.results} :
                 ~HasFlag(Workflow.command, flag)
           /\ {Workflow.cost, Workflow.results, Workflow.model} \cap asked = {}
    /\ \A flag \in {Workflow.cost, Workflow.results} : ~HasFlag(Workflow.defaults, flag)
    /\ Workflow.cost # None => Workflow.cost \notin {Workflow.results, Workflow.model}
    /\ Workflow.results # None => Workflow.results # Workflow.model
    /\ Toml.limit \in Int /\ Toml.reserve \in Int /\ Toml.route \in Seq(Int) \cup {None}
    /\ PowersOfTen \subseteq Nat \ {0} /\ Hundredth \in Nat \ {0}

\* doctor looks for the tools that [tools] requires, a launch for those of the workflow.
ASSUME ToolsAssumption ==
    Workflow.requires \ {"shinka"} \subseteq Toml.tools \cup {"uv", "mise", "git", "lake"}

MaxTurnsPerChunk == 99
MaxChunks == 32
MaxSpotlightTurns == 25

Arg(flag, value) == [flag |-> flag, value |-> value]

\* The nearest multiples of p: two where an amount lies between them, as a tie of binary
\* fractions goes either way.
Rounded(amount, p) ==
    LET below == p * (amount \div p)
    IN  {m \in {below, below + p} : 2 * (m - amount) \in -p .. p}
-------------------------------------------------------------------------------
(* Flags *)

\* The first occurrence counts.
FlagValue(arguments, flag) ==
    IF HasFlag(arguments, flag)
    THEN arguments[SelectInSeq(arguments, LAMBDA a : a.flag = flag)].value
    ELSE None

\* What a runner makes of its command: argparse takes the last occurrence.
Parsed(command, flag) == command[SelectLastInSeq(command, LAMBDA a : a.flag = flag)].value
-------------------------------------------------------------------------------
(* schedule.py *)

Epoch(kind, turns) == [kind |-> kind, turns |-> turns]

\* The turns a value asks for are legal in this style.
Parses(style, value) ==
    /\ value # <<>>
    /\ \A i \in DOMAIN value : value[i] \in 1 .. MaxTurnsPerChunk
    /\ style # "chunks" => Len(value) = 1
    /\ style = "chunks" => Len(value) <= MaxChunks
    /\ style = "spotlight" => value[1] <= MaxSpotlightTurns

\* An expansion follows every chunk.
ParseSchedule(style, value) ==
    [style |-> style,
     epochs |-> CASE style = "steps" -> <<Epoch("solve", value[1])>>
                  [] style = "spotlight" -> <<Epoch("spotlight", value[1])>>
                  [] style = "chunks" ->
                        [i \in 1 .. 2 * Len(value) |->
                            IF i % 2 = 1 THEN Epoch("solve", value[(i + 1) \div 2])
                                         ELSE Epoch("expand", 0)]]

\* The style and the value of the schedule that a command asks for, if any.
Asked(command) ==
    IF FlagValue(command, "--spotlight") # None
    THEN [style |-> "spotlight", value |-> FlagValue(command, "--spotlight")]
    ELSE IF Workflow.schedule # None /\ HasFlag(command, Workflow.schedule.flag)
    THEN [style |-> Workflow.schedule.style,
          value |-> FlagValue(command, Workflow.schedule.flag)]
    ELSE None

ScheduleRefused(command) ==
    Asked(command) # None /\ ~Parses(Asked(command).style, Asked(command).value)

Schedule(command) ==
    IF Asked(command) = None THEN None
    ELSE ParseSchedule(Asked(command).style, Asked(command).value)

Solves(schedule) == {n \in DOMAIN schedule.epochs : schedule.epochs[n].kind # "expand"}

\* How many chunks have a budget of their own.
ChunkCount(schedule) ==
    IF schedule = None THEN 1
    ELSE IF schedule.style = "spotlight" THEN schedule.epochs[1].turns
    ELSE IF Solves(schedule) = {} THEN 1 ELSE Cardinality(Solves(schedule))
-------------------------------------------------------------------------------
(* The command *)

CostRefused(limit, arguments) ==
    /\ Workflow.cost # None /\ HasFlag(arguments, Workflow.cost)
    /\ LET value == FlagValue(arguments, Workflow.cost)
       IN  ~(Len(value) = 1 /\ value[1] \in 0 .. limit)

\* resolve_cost_ceiling, of the arguments that the user gave.
PerChunk(limit, arguments) ==
    IF Workflow.cost = None THEN None
    ELSE IF FlagValue(arguments, Workflow.cost) = None THEN limit
    ELSE FlagValue(arguments, Workflow.cost)[1]

Given(arguments) == Workflow.command \o arguments

\* The defaults of flags that are not given, in their order.
WithDefaults(arguments) ==
    LET Filled[n \in 0 .. Len(Workflow.defaults)] ==
          IF n = 0 THEN Given(arguments)
          ELSE IF HasFlag(Filled[n - 1], Workflow.defaults[n].flag) THEN Filled[n - 1]
          ELSE Append(Filled[n - 1], Workflow.defaults[n])
    IN  Filled[Len(Workflow.defaults)]

ModelMissing(route, arguments) ==
    Workflow.model # None /\ ~HasFlag(WithDefaults(arguments), Workflow.model) /\ route = None

Supplied(command, flag, value) ==
    IF flag = None \/ value = None \/ HasFlag(command, flag) THEN command
    ELSE Append(command, Arg(flag, value))

WithModel(route, arguments) ==
    Supplied(WithDefaults(arguments), Workflow.model, route)

Aggregate(limit, schedule, arguments) ==
    IF PerChunk(limit, arguments) = None THEN None
    ELSE PerChunk(limit, arguments) * ChunkCount(schedule)

\* f"{amount:g}" keeps six significant digits.
Printed(amount) ==
    UNION {Rounded(amount, p) :
             p \in {q \in PowersOfTen : (q = 1 \/ 100000 * q <= amount) /\ amount < 1000000 * q}}

\* Mutant: the schedule is read before the defaults are filled in.
PlanBeforeDefaults(settings, arguments, dir, inherited, printed) ==
    LET base     == WithModel(settings.route, arguments)
        schedule == Schedule(Given(arguments))
        perChunk == PerChunk(settings.limit, arguments)
        cost     == IF perChunk = None THEN None ELSE <<printed>>
    IN  [schedule  |-> schedule,
         perChunk  |-> perChunk,
         ceiling   |-> Aggregate(settings.limit, schedule, arguments),
         inherited |-> inherited,
         command   |-> Supplied(Supplied(base, Workflow.cost, cost), Workflow.results, dir)]

\* build_plan, once nothing has refused it.  What it adds up is the amount, what it
\* hands over is the amount as it is printed.
Plan(settings, arguments, dir, inherited, printed) ==
    LET base     == WithModel(settings.route, arguments)
        schedule == Schedule(base)
        perChunk == PerChunk(settings.limit, arguments)
        cost     == IF perChunk = None THEN None ELSE <<printed>>
    IN  [schedule  |-> schedule,
         perChunk  |-> perChunk,
         ceiling   |-> Aggregate(settings.limit, schedule, arguments),
         inherited |-> inherited,
         command   |-> Supplied(Supplied(base, Workflow.cost, cost), Workflow.results, dir)]
-------------------------------------------------------------------------------
(* settings.py: the local file over the one under version control *)

Keys == {"limit", "route", "reserve", "database", "artifacts"}
NoOverrides == [k \in Keys |-> None]

Merged(local, k) == IF local[k] # None THEN local[k] ELSE Toml[k]

HalfLedger(local) == (Merged(local, "database") = None) # (Merged(local, "artifacts") = None)

\* Amounts are numbers from 0, and a ledger is a pair.
Loads(local) == /\ ~HalfLedger(local)
                /\ Merged(local, "limit") >= 0 /\ Merged(local, "reserve") >= 0

LoadSettings(local) ==
    [k \in Keys |-> Merged(local, k)]

\* configure sets some keys and keeps the others.
Overlaid(local, changes) ==
    [k \in Keys |-> IF changes[k] # None THEN changes[k] ELSE local[k]]

ConfigureRefused(changes) == (changes.database = None) # (changes.artifacts = None)
-------------------------------------------------------------------------------
(* The machine: the programs on PATH and in elan's directory, the lockfile, Shinka *)

\* A program that is found counts, whatever it answers when its version is asked.
Available(machine, tool) == tool \in machine.path \/ (tool = "lake" /\ machine.elan)

\* uv itself has to say so.
LockCurrent(machine) == machine.lockfile = "current" /\ Available(machine, "uv")

Managed(machine) == machine.venv \/ machine.escape

MissingTools(machine) ==
    {t \in Workflow.requires :
        IF t = "shinka" THEN machine.shinka = None ELSE ~Available(machine, t)}

StorageRefused(settings, machine) ==
    \/ ~machine.writable
    \/ machine.free < settings.reserve
    \/ Toml.requireExternal /\ ~machine.external

\* None as well where the ledger is configured and away.
LedgerOf(settings, machine) ==
    IF /\ settings.database # None /\ settings.artifacts # None
       /\ machine.database /\ machine.artifacts
    THEN settings.database ELSE None

LedgerRefused(settings, machine) ==
    Workflow.ledgerRequired /\ LedgerOf(settings, machine) = None

\* What is wrong with the machine, in the order of build_plan's checks.
MachineRefusal(settings, machine) ==
    CASE ~Managed(machine) -> "missing_tool"
      [] ~LockCurrent(machine) -> "validation"
      [] MissingTools(machine) # {} -> "missing_tool"
      [] StorageRefused(settings, machine) -> "infrastructure"
      [] LedgerRefused(settings, machine) -> "infrastructure"
      [] OTHER -> None

Refusal(settings, machine, arguments) ==
    IF MachineRefusal(settings, machine) # None THEN MachineRefusal(settings, machine)
    ELSE IF \/ CostRefused(settings.limit, arguments)
            \/ ModelMissing(settings.route, arguments)
            \/ ScheduleRefused(WithModel(settings.route, arguments))
    THEN "usage"
    ELSE None

\* What doctor finds wrong below the artifact root: it compares the free space that it
\* shows, in hundredths of a gigabyte.
StorageReported(settings, machine) ==
    \/ ~machine.writable
    \/ \A shown \in Rounded(machine.free, Hundredth) : shown < settings.reserve
    \/ Toml.requireExternal /\ ~machine.external

\* And with the ledger of any workflow that fails closed.
LedgerReported(settings, machine) ==
    /\ Workflow.ledgerRequired
    /\ ~(/\ settings.database # None /\ settings.artifacts # None
         /\ machine.database /\ machine.artifacts)

ToolsReported(machine) ==
    {t \in Toml.tools \cup {"uv", "mise", "git", "lake"} : ~Available(machine, t)}

\* Mutant: the lockfile is reported and not counted.
DoctorReadyUnlocked(settings, machine) ==
    /\ Managed(machine) /\ ToolsReported(machine) = {}
    /\ machine.shinka # "other" /\ machine.pins /\ machine.inputs
    /\ ~StorageReported(settings, machine) /\ ~LedgerReported(settings, machine)

\* run_doctor finds nothing to report.  Shinka may be another revision than the pinned
\* one, or absent: only the former counts.
DoctorReady(settings, machine) ==
    /\ Managed(machine) /\ LockCurrent(machine) /\ ToolsReported(machine) = {}
    /\ machine.shinka # "other" /\ machine.pins /\ machine.inputs
    /\ ~StorageReported(settings, machine) /\ ~LedgerReported(settings, machine)
===============================================================================
