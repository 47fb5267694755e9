----------------------------- MODULE ScratchCheck -----------------------------
(***************************************************************************)
(* Scratch checks of one proposal agent, one after the other               *)
(* (shinka_lean_check.run_check): the candidate is built from a proposal,  *)
(* checked against the source policy, flattened with the frozen modules    *)
(* into one stream, and given to a Lean process with a time limit.         *)
(*                                                                         *)
(* Lean and what it may leave behind are external, and so is the agent,    *)
(* which may take an accepted candidate for its next parent.               *)
(***************************************************************************)
EXTENDS ScratchSource

CONSTANTS Proposals,    \* [mode, text] of the agent's calls
          FirstParent,  \* the source that append and diff start from
          FirstCheckpoint, \* checkpoint_input.lean, or <<>> if there is none
          CheckpointName,
          Graphs,       \* frozen snapshots: module -> its imports, in order
          Wrong,        \* lines that Lean does not elaborate, imports apart
          MaxChecks     \* a bound on the number of calls

\* The name of the candidate, which no import can have.
CandidateName == "<candidate>"

\* The hunks of a diff, as its parser reads them.
Hunks == [old : Nat, oldCount : Nat, new : Nat, newCount : Nat,
          body : Seq({" ", "-", "+"} \X Lines)]

ASSUME ScratchAssumption ==
    /\ MaxChecks \in Nat
    /\ CheckpointName \in InLibrary /\ CandidateName \notin Names
    /\ FirstParent \in Seq(Lines) \ {<<>>} /\ FirstCheckpoint \in Seq(Lines)
    /\ \A p \in Proposals : \/ p.mode \in {"append", "candidate"} /\ p.text \in Seq(Lines)
                            \/ p.mode = "diff" /\ p.text \in Seq(Hunks)
    /\ \A frozen \in Graphs : /\ DOMAIN frozen \subseteq InLibrary \ {CheckpointName}
                              /\ \A n \in DOMAIN frozen : frozen[n] \in Seq(Names)
    /\ \A line \in Lines : IsImport(line) => line \notin Wrong

VARIABLES graph,      \* the frozen snapshot of this solve
          checkpoint, \* its checkpoint_input.lean
          parent,     \* the selected parent
          phase,      \* where run_check is
          check,      \* the call: its number, parent and candidate
          stack,      \* the visits under way: [name, rest]
          ordered,    \* assembled modules
          external,   \* imports left to the package path
          lean,       \* the Lean process: "none", "running" or "exited"
          code,       \* what it returned, and "killed" on a timeout
          held,       \* a descendant of Lean with the pipes: "none", "group", "session"
          io,         \* reader and writer: "none", "busy" or "done"
          status,     \* of the receipt
          emitted     \* the events of this solve, as the sink gets them

callVars == <<graph, checkpoint, parent>>
assemblyVars == <<stack, ordered, external>>
processVars == <<lean, code, held, io>>
scratchVars == <<callVars, phase, check, assemblyVars, processVars, status, emitted>>

Init == /\ graph \in Graphs
        /\ checkpoint = FirstCheckpoint /\ parent = FirstParent
        /\ phase = "idle" /\ check = [number |-> 0, parent |-> <<>>, candidate |-> <<>>]
        /\ stack = <<>> /\ ordered = <<>> /\ external = <<>>
        /\ lean = "none" /\ code = "none" /\ held = "none" /\ io = "none"
        /\ status = "not_run" /\ emitted = {}

\* The modules of this assembly: the snapshot and the checkpoint.
Modules == DOMAIN graph \cup (IF checkpoint = <<>> THEN {} ELSE {CheckpointName})
ImportsOf(n) == IF n = CheckpointName THEN HeaderImports(checkpoint) ELSE graph[n]

\* A ScratchFailure before Lean was announced.
Fail(s) == /\ phase' = "done" /\ status' = s
           /\ UNCHANGED <<callVars, check, assemblyVars, processVars, emitted>>
-------------------------------------------------------------------------------
(* The candidate *)

Build(p) == CASE p.mode = "candidate" -> p.text
              [] p.mode = "append"    -> AppendToParent(parent, p.text)
              [] p.mode = "diff"      -> ApplyUnifiedDiff(parent, p.text)

\* The checkpoint must be permitted itself, must not build on generated modules,
\* and must be in the candidate's header.
CheckpointHolds(c) ==
    checkpoint # <<>> =>
       /\ Permitted(checkpoint, <<>>) /\ CheckpointName \notin AllImports(checkpoint)
       /\ \E i \in Header(c) : Imported(c[i]) = CheckpointName

\* A call arrives: paths, checkpoint, candidate and policy.
Begin(p) ==
    /\ phase = "idle" /\ check.number < MaxChecks
    /\ LET c     == Build(p)
           basis == IF p.mode = "candidate" THEN <<>> ELSE parent
       IN  /\ check' = [number |-> check.number + 1, parent |-> basis, candidate |-> c]
           /\ IF Permitted(c, basis) /\ CheckpointHolds(c)
              THEN /\ phase' = "assembling" /\ status' = "not_run"
                   /\ stack' = <<[name |-> CandidateName, rest |-> HeaderImports(c)]>>
              ELSE phase' = "done" /\ status' = "policy_failed" /\ stack' = <<>>
    /\ ordered' = <<>> /\ external' = <<>>
    /\ UNCHANGED <<callVars, processVars, emitted>>
-------------------------------------------------------------------------------
(* assemble_frozen_source: visit(), with its stack of calls *)

Top == stack[Len(stack)]
Advanced == [stack EXCEPT ![Len(stack)].rest = Tail(@)]
Visited == {ordered[i] : i \in DOMAIN ordered}
Visiting == {stack[i].name : i \in DOMAIN stack}
Visit(n) == phase = "assembling" /\ Top.rest # <<>> /\ n = Head(Top.rest)

Leave == /\ phase = "assembling" /\ Top.rest = <<>>
         /\ stack' = SubSeq(stack, 1, Len(stack) - 1)
         /\ IF Len(stack) = 1
            THEN phase' = "assembled" /\ ordered' = ordered
            ELSE phase' = phase /\ ordered' = Append(ordered, Top.name)
         /\ UNCHANGED <<callVars, check, external, processVars, status, emitted>>

\* A dependency that is assembled already, or that the library does not have.
Skip(n) == /\ Visit(n)
           /\ n \in Visited \/ n \notin Modules \cup InLibrary
           /\ external' = IF n \in Visited \/ \E i \in DOMAIN external : external[i] = n
                          THEN external ELSE Append(external, n)
           /\ stack' = Advanced
           /\ UNCHANGED <<callVars, phase, check, ordered, processVars, status, emitted>>

\* Mutant: a module is placed before what it imports.
EnterFirst(n) ==
    /\ Visit(n)
    /\ n \in Modules \ (Visited \cup Visiting)
    /\ stack' = Append(Advanced, [name |-> n, rest |-> ImportsOf(n)])
    /\ ordered' = Append(ordered, n)
    /\ UNCHANGED <<callVars, phase, check, external, processVars, status, emitted>>

Enter(n) ==
    /\ Visit(n)
    /\ n \in Modules \ (Visited \cup Visiting)
    /\ stack' = Append(Advanced, [name |-> n, rest |-> ImportsOf(n)])
    /\ UNCHANGED <<callVars, phase, check, ordered, external, processVars, status, emitted>>

\* A module of the library that is not frozen, or a cycle.
AssemblyFails(n) == /\ Visit(n)
                    /\ n \notin Visited
                    /\ n \in InLibrary \ Modules \/ n \in Visiting
                    /\ Fail("assembly_failed")

\* The lines that Lean reads of a source of the stream.
Streamed == {WithoutImports(s) : s \in {check.candidate} \cup
                (IF CheckpointName \in Visited THEN {checkpoint} ELSE {})}

\* External: Lean accepts imports in the header of the stream only.
Elaborates == \A s \in Streamed : \A i \in DOMAIN s : s[i] \notin Wrong /\ ~IsImport(s[i])
-------------------------------------------------------------------------------
(* run_check around Lean *)

\* The pinned toolchain is not there.
ToolchainMissing == phase = "assembled" /\ Fail("infrastructure_failed")

\* The package-path receipt is read for external imports only.
PathReceiptInvalid ==
    phase = "assembled" /\ external # <<>> /\ Fail("infrastructure_failed")

Announce == /\ phase = "assembled"
            /\ phase' = "announced"
            /\ emitted' = emitted \cup {<<"started", check.number>>}
            /\ UNCHANGED <<callVars, check, assemblyVars, processVars, status>>

\* However an announced invocation ends, the finally block reports it.
End(s) == /\ phase' = "done" /\ status' = s
          /\ emitted' = emitted \cup {<<"finished", check.number>>}
          /\ UNCHANGED <<callVars, check, assemblyVars>>

SpawnFails == phase = "announced" /\ End("infrastructure_failed") /\ UNCHANGED processVars

Spawn == /\ phase = "announced"
         /\ phase' = "waiting"
         /\ lean' = "running" /\ code' = "none" /\ held' = "none" /\ io' = "busy"
         /\ UNCHANGED <<callVars, check, assemblyVars, status, emitted>>

\* External: Lean starts a process that inherits the pipes, perhaps in a
\* session of its own, and that process ends.
Forks == /\ lean = "running" /\ held = "none"
         /\ held' \in {"group", "session"}
         /\ UNCHANGED <<callVars, phase, check, assemblyVars, lean, code, io, status, emitted>>

HelperExits == /\ held # "none" /\ held' = "none"
               /\ UNCHANGED <<callVars, phase, check, assemblyVars, lean, code, io, status,
                              emitted>>

LeanExits == /\ lean = "running"
             /\ lean' = "exited"
             /\ code' = IF Elaborates THEN "zero" ELSE "nonzero"
             /\ UNCHANGED <<callVars, phase, check, assemblyVars, held, io, status, emitted>>

\* The threads see the end of the pipes.
ThreadsEnd == /\ io = "busy" /\ lean # "running" /\ held = "none"
              /\ io' = "done"
              /\ UNCHANGED <<callVars, phase, check, assemblyVars, lean, code, held, status,
                             emitted>>

\* Mutant: a timeout that gives the process up.
TimesOutUnkilled ==
    /\ phase = "waiting" /\ lean = "running"
    /\ code' = "killed" /\ phase' = "joining"
    /\ UNCHANGED <<callVars, check, assemblyVars, lean, held, io, status, emitted>>

\* process.wait expires: the group is killed and Lean is reaped.
TimesOut ==
    /\ phase = "waiting" /\ lean = "running"
    /\ lean' = "exited" /\ code' = "killed" /\ phase' = "joining"
    /\ held' = IF held = "group" THEN "none" ELSE held
    /\ UNCHANGED <<callVars, check, assemblyVars, io, status, emitted>>

WaitReturns == /\ phase = "waiting" /\ lean = "exited"
               /\ phase' = "joining"
               /\ UNCHANGED <<callVars, check, assemblyVars, processVars, status, emitted>>

Verdict == CASE code = "zero"    -> "lean_ok"
             [] code = "nonzero" -> "lean_rejected"
             [] code = "killed"  -> "timeout"

\* The threads have ended within the join.
Close == phase = "joining" /\ io = "done" /\ End(Verdict) /\ UNCHANGED processVars

\* They have not: closing a pipe waits for the thread that reads it.
JoinExpires == /\ phase = "joining" /\ io = "busy"
               /\ phase' = "closing"
               /\ UNCHANGED <<callVars, check, assemblyVars, processVars, status, emitted>>

\* Then the thread may still be alive, or its read failed on the closed pipe.
CloseReturns ==
    /\ phase = "closing" /\ io = "done"
    /\ \E s \in {Verdict} \cup (IF code = "killed" THEN {} ELSE {"infrastructure_failed"}) :
          End(s)
    /\ UNCHANGED processVars

\* KeyboardInterrupt: nothing stops Lean, which has its own session.
Interrupted ==
    \/ /\ phase \in {"announced", "waiting", "joining", "closing"}
       /\ End("not_run") /\ UNCHANGED processVars
    \/ phase \in {"assembling", "assembled"} /\ Fail("not_run")
-------------------------------------------------------------------------------
(* The agent and the next campaign are external *)

\* Before the next call: nothing is left of Lean, as far as this model follows it.
Fresh == lean' = "none" /\ code' = "none" /\ held' = "none" /\ io' = "none"

\* The agent keeps its parent or goes on from what was accepted.
Proceed == /\ phase = "done" /\ lean # "running"
           /\ phase' = "idle" /\ Fresh
           /\ parent' \in {parent} \cup (IF status = "lean_ok" THEN {check.candidate} ELSE {})
           /\ UNCHANGED <<graph, checkpoint, check, assemblyVars, status, emitted>>

\* materialize_files and prepare_checkpoint refuse a source without one evolve block.
Prepared(s) == IF Bounded(s) THEN s ELSE Rejected

\* An accepted delta becomes part of the checkpoint of the next campaign, which
\* starts from an empty delta.
Cumulate == /\ phase = "done" /\ status = "lean_ok"
            /\ Prepared(checkpoint) # Rejected /\ Prepared(check.candidate) # Rejected
            /\ phase' = "idle" /\ Fresh
            /\ checkpoint' = Prepared(Materialize(checkpoint, check.candidate))
            /\ parent' = FirstParent
            /\ UNCHANGED <<graph, check, assemblyVars, status, emitted>>

Rest == phase \in {"idle", "done"} /\ check.number = MaxChecks /\ UNCHANGED scratchVars

Next == \/ \E p \in Proposals : Begin(p)
        \/ Leave
        \/ \E n \in Names : Skip(n) \/ Enter(n) \/ AssemblyFails(n)
        \/ ToolchainMissing \/ PathReceiptInvalid \/ Announce \/ SpawnFails \/ Spawn
        \/ Forks \/ HelperExits \/ LeanExits \/ ThreadsEnd
        \/ TimesOut \/ WaitReturns \/ Close \/ JoinExpires \/ CloseReturns
        \/ Interrupted \/ Proceed \/ Cumulate \/ Rest

Checker == \/ Leave \/ (\E n \in Names : Skip(n) \/ Enter(n) \/ AssemblyFails(n))
           \/ Announce \/ Spawn
           \/ TimesOut \/ WaitReturns \/ Close \/ JoinExpires \/ CloseReturns

\* The checker goes on when it can (its wait expires), and its threads see the end
\* of a pipe.  Lean and its descendants owe nothing.
Spec == Init /\ [][Next]_scratchVars /\ WF_scratchVars(Checker) /\ WF_scratchVars(ThreadsEnd)
-------------------------------------------------------------------------------
(* Properties *)

\* The candidate's modules are in S, and so is every module that one of S imports.
Closed(S) == /\ AllHeader(check.candidate) \cap Modules \subseteq S
             /\ \A m \in S : \A k \in DOMAIN ImportsOf(m) :
                   ImportsOf(m)[k] \in Modules => ImportsOf(m)[k] \in S

\* The stream is assembled.
Flat == phase \in {"assembled", "announced", "waiting", "joining", "closing"}

\* An assembled stream has every module that the candidate reaches and no other,
\* once and after what it imports; what is not there is outside the library.
AssemblyIsTopological ==
    Flat =>
       /\ Visited \subseteq Modules /\ Closed(Visited)
       /\ \A S \in SUBSET Modules : Closed(S) => Visited \subseteq S
       /\ \A i, j \in DOMAIN ordered : ordered[i] = ordered[j] => i = j
       /\ \A i \in DOMAIN ordered : \A k \in DOMAIN ImportsOf(ordered[i]) :
             LET n == ImportsOf(ordered[i])[k]
             IN  \/ \E j \in 1 .. i - 1 : ordered[j] = n
                 \/ n \notin InLibrary /\ \E j \in DOMAIN external : external[j] = n

\* The files that make up a check beside the library: the candidate, and the checkpoint
\* where there is one.
Judged == {check.candidate} \cup (IF checkpoint = <<>> THEN {} ELSE {checkpoint})

\* Flattening makes no success of a source that Lean refuses as a file: where a check
\* was accepted, the candidate has its imports in the header and no wrong line, and so
\* has the checkpoint, which is in the stream of every accepted candidate.
NoFalseSuccess ==
    phase = "done" /\ status = "lean_ok" =>
       \A s \in Judged : /\ AllImports(s) = AllHeader(s)
                         /\ \A i \in DOMAIN s : s[i] \notin Wrong

\* "An accepted declaration may only be followed by new text": neither an
\* append nor a diff, one after the other, changes or reorders what the parent
\* has outside and before its append point.
ParentStands ==
    phase # "idle" /\ status = "lean_ok" /\ check.parent # <<>> =>
       StartsWith(Declarations(check.candidate), Declarations(Prefix(check.parent)))

\* Campaign after campaign the checkpoint is a permitted source with the same
\* surroundings, and its evolve block starts with the content that it had.
CheckpointsGrow ==
    [][ checkpoint' # checkpoint =>
           /\ Permitted(checkpoint', <<>>)
           /\ Outside(checkpoint') = Outside(checkpoint)
           /\ StartsWith(Content(EvolveBlock(checkpoint')),
                         Content(EvolveBlock(checkpoint))) ]_scratchVars

\* An announced invocation is reported, by itself or with the last process that
\* holds the pipes of its Lean: no timeout leaves Lean to be waited for, and no
\* failure or interrupt skips the report.
AnnouncedIsReported ==
    \A k \in 1 .. MaxChecks : (<<"started", k>> \in emitted)
                                ~> (<<"finished", k>> \in emitted \/ held # "none")
===============================================================================
