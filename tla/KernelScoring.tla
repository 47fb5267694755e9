---------------------------- MODULE KernelScoring ----------------------------
(***************************************************************************)
(* What the evaluator accepts of a candidate: kernel.run_kernel and the    *)
(* goal ladder that config._goals admits.  A function of the candidate,    *)
(* the formal project, the configuration and of how far the one time       *)
(* budget reaches.                                                         *)
(*                                                                         *)
(* Lean itself is external: Elaborates and Inhabits say which invocations  *)
(* return 0 for a version of the project, Clean which declarations of a    *)
(* candidate rest on allowed axioms only.                                  *)
(***************************************************************************)
EXTENDS Naturals, Sequences, FiniteSets

CONSTANTS Versions,     \* contents that the project and the configuration have
          Candidates,
          GoalNames,
          Ladder,       \* configuration version -> its goals, in order
          Declaration,  \* goal -> the declaration it audits
          DependsOn,    \* goal -> its prerequisites
          Legal,        \* candidates that the source policy lets through
          Elaborates,   \* candidate -> projects where it compiles
          Inhabits,     \* candidate -> project -> goals whose example compiles
          Clean         \* candidate -> declarations within the axiom policy

Declarations == {Declaration[g] : g \in GoalNames}

\* _goals: there is a goal, names are unique and prerequisites come earlier.
WellFormed(goals) ==
    /\ goals \in Seq(GoalNames) /\ goals # <<>>
    /\ \A i \in DOMAIN goals :
          LET earlier == {goals[j] : j \in 1 .. i - 1}
          IN  goals[i] \notin earlier /\ DependsOn[goals[i]] \subseteq earlier

ASSUME ConfigAssumption ==
    /\ Versions \subseteq Nat
    /\ Declaration \in [GoalNames -> STRING]
    /\ DependsOn \in [GoalNames -> SUBSET GoalNames]
    /\ DOMAIN Ladder = Versions /\ \A v \in Versions : WellFormed(Ladder[v])

ASSUME LeanAssumption ==
    /\ Legal \subseteq Candidates
    /\ Elaborates \in [Candidates -> SUBSET Versions]
    /\ Inhabits \in [Candidates -> [Versions -> SUBSET GoalNames]]
    /\ Clean \in [Candidates -> SUBSET Declarations]
-------------------------------------------------------------------------------
(* The budget: the candidate's own check and then one audit per goal share *)
(* timeout_seconds, so the invocations that finish are a prefix of them.   *)

Reaches(v) == 0 .. Len(Ladder[v]) + 1

\* The goals whose own audit ran within the budget and returned 0.
Audited(c, p, v, reach) ==
    {Ladder[v][i] : i \in 1 .. (reach - 1)} \cap Inhabits[c][p]

\* Receipts are filed under the declaration, not under the goal.
Receipts(c, p, v, reach) == {Declaration[g] : g \in Audited(c, p, v, reach)}

\* Mutant: prerequisites are looked up among the receipts.
CreditedByReceipt(c, v, receipts) ==
    {g \in {Ladder[v][i] : i \in DOMAIN Ladder[v]} :
        /\ Declaration[g] \in receipts \cap Clean[c]
        /\ \A d \in DependsOn[g] : Declaration[d] \in receipts}

\* A goal is accepted after its prerequisites.
WithGoal(c, receipts, g, accepted) ==
    IF /\ Declaration[g] \in receipts \cap Clean[c]
       /\ DependsOn[g] \subseteq accepted
    THEN accepted \cup {g} ELSE accepted

\* Goals are credited in the order of the configuration.
AcceptedUpTo(c, v, receipts) ==
    LET accepted[i \in 0 .. Len(Ladder[v])] ==
            IF i = 0 THEN {} ELSE WithGoal(c, receipts, Ladder[v][i], accepted[i - 1])
    IN  accepted

Credited(c, v, receipts) == AcceptedUpTo(c, v, receipts)[Len(Ladder[v])]

RunKernel(c, p, v, reach) ==
    IF c \notin Legal \/ reach = 0 \/ p \notin Elaborates[c]
    THEN {}
    ELSE Credited(c, v, Receipts(c, p, v, reach))

\* The reference: the largest set of goals that stand on their own proofs and
\* contains the prerequisites of its members.
LargestClosed(c, p, v, reach) ==
    LET sound == {g \in Audited(c, p, v, reach) : Declaration[g] \in Clean[c]}
    IN  UNION {S \in SUBSET sound : \A g \in S : DependsOn[g] \subseteq S}

FullBudget(v) == Len(Ladder[v]) + 1
===============================================================================
