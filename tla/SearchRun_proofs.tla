--------------------------- MODULE SearchRun_proofs ---------------------------
(***************************************************************************)
(* Theorems about SearchRun, for any ladders, candidates, generations and  *)
(* edits: what the evaluator accepts is the largest set it may accept,     *)
(* receipts tell their project, a completed run verifies and, undisturbed, *)
(* replays, and a best directory survives its refreshes.                   *)
(*                                                                         *)
(* The first rests on what the loop of run_kernel computes (Accepts), by   *)
(* induction along the ladder.  The others are inductive together with the *)
(* order of versions in time (VersionsInv), with every verdict being what  *)
(* run_kernel makes of the inputs it ran on (VerdictInv), with nothing     *)
(* being under way after a normal return of the runner (QuietInv), and     *)
(* with what is where during a refresh (BestInv).                          *)
(***************************************************************************)
EXTENDS SearchRun, FiniteSetTheorems, WellFoundedInduction, TLAPS

\* A set of numbers has a least element.
LEMMA Least == ASSUME NEW T, T \subseteq Nat, T # {}
               PROVE  \E x \in T : \A y \in T : x <= y
<1> DEFINE R == {ss \in Nat \X Nat : ss[1] < ss[2]}
<1>1. IsWellFoundedOn(R, Nat)
  BY NatLessThanWellFounded DEF OpToRel
<1>2. PICK x \in T : \A y \in T : ~ (<<y, x>> \in R)
  <2> HIDE DEF R
  <2>1. QED
    BY <1>1, WFMin, Zenon
<1>3. ASSUME NEW y \in T
      PROVE  x <= y
  <2>1. x \in Nat /\ y \in Nat /\ <<y, x>> \in Nat \X Nat
    OBVIOUS
  <2>2. ~ (y < x)
    BY <1>2, <2>1
  <2>3. QED
    BY <2>1, <2>2
<1>4. QED
  BY <1>3

-------------------------------------------------------------------------------
(* The loop of run_kernel.                                                 *)

\* What the loop has accepted after i goals satisfies its equations.
LEMMA LoopDefined ==
    ASSUME NEW c, NEW v \in Versions, NEW receipts
    PROVE  LET accepted == AcceptedUpTo(c, v, receipts)
           IN  /\ accepted[0] = {}
               /\ \A i \in 1 .. Len(Ladder[v]) :
                     accepted[i] = WithGoal(c, receipts, Ladder[v][i], accepted[i - 1])
<1> DEFINE n == Len(Ladder[v])
           Loop(f, m) == f = [i \in 0 .. m |-> IF i = 0 THEN {}
                                ELSE WithGoal(c, receipts, Ladder[v][i], f[i - 1])]
           T == {m \in Nat : ~ \E f : Loop(f, m)}
<1>0. n \in Nat
  BY ConfigAssumption DEF WellFormed
<1>1. T = {}
  <2> SUFFICES ASSUME T # {}
               PROVE  FALSE
    OBVIOUS
  <2>1. PICK m \in T : \A k \in T : m <= k
    <3>1. T \subseteq Nat
      OBVIOUS
    <3> HIDE DEF T
    <3>2. QED
      BY <3>1, Least
  <2>2. m \in Nat /\ ~ \E f : Loop(f, m)
    OBVIOUS
  <2>3. CASE m = 0
    <3> DEFINE f == [i \in 0 .. 0 |-> {}]
    <3>1. \A i \in 0 .. 0 : i = 0
      OBVIOUS
    <3>2. f = [i \in 0 .. 0 |-> IF i = 0 THEN {}
                  ELSE WithGoal(c, receipts, Ladder[v][i], f[i - 1])]
      <4> HIDE DEF WithGoal
      <4>1. QED
        BY <3>1
    <3>3. Loop(f, m)
      <4> HIDE DEF f, WithGoal
      <4>1. QED
        BY <2>3, <3>2
    <3> HIDE DEF f
    <3>4. QED
      BY <2>2, <3>3
  <2>4. CASE m # 0
    <3>1. m - 1 \in Nat /\ m - 1 \notin T
      <4> HIDE DEF T
      <4>1. QED
        BY <2>1, <2>2, <2>4
    <3>2. PICK f : Loop(f, m - 1)
      BY <3>1
    <3> DEFINE g == [i \in 0 .. m |->
                        IF i = m THEN WithGoal(c, receipts, Ladder[v][m], f[m - 1]) ELSE f[i]]
    <3>3. ASSUME NEW i \in 0 .. m
          PROVE  g[i] = IF i = 0 THEN {} ELSE WithGoal(c, receipts, Ladder[v][i], g[i - 1])
      <4> HIDE DEF WithGoal
      <4>1. i = m => i - 1 = m - 1 /\ i # 0 /\ i - 1 # m /\ i - 1 \in 0 .. m
        BY <2>2, <2>4
      <4>2. i # m => i \in 0 .. m - 1 /\ (i # 0 => i - 1 \in 0 .. m /\ i - 1 # m)
        BY <2>2
      <4>3. \A k \in 0 .. m - 1 : f[k] = IF k = 0 THEN {}
                                ELSE WithGoal(c, receipts, Ladder[v][k], f[k - 1])
        BY <3>2
      <4>4. CASE i = m
        BY <4>1, <4>4
      <4>5. CASE i # m
        BY <4>2, <4>3, <4>5
      <4>6. QED
        BY <4>4, <4>5
    <3>4. Loop(g, m)
      <4> HIDE DEF WithGoal
      <4>1. QED
        BY <3>3
    <3> HIDE DEF g
    <3>5. QED
      BY <2>2, <3>4
  <2>5. QED
    BY <2>3, <2>4
<1>2. PICK f : Loop(f, n)
  BY <1>0, <1>1
<1> DEFINE a == AcceptedUpTo(c, v, receipts)
<1>3. a = [i \in 0 .. n |-> IF i = 0 THEN {}
                            ELSE WithGoal(c, receipts, Ladder[v][i], a[i - 1])]
  BY <1>2, Zenon DEF AcceptedUpTo
<1> HIDE DEF a, WithGoal
<1>4. \A i \in 0 .. n : a[i] = IF i = 0 THEN {}
                                ELSE WithGoal(c, receipts, Ladder[v][i], a[i - 1])
  BY <1>3
<1>5. a[0] = {} /\ \A i \in 1 .. n : a[i] = WithGoal(c, receipts, Ladder[v][i], a[i - 1])
  <2>1. 0 \in 0 .. n /\ \A i \in 1 .. n : i \in 0 .. n /\ i # 0
    BY <1>0
  <2>2. QED
    BY <1>4, <2>1
<1>6. QED
  BY <1>5 DEF a

Goals(v) == {Ladder[v][i] : i \in 1 .. Len(Ladder[v])}

LEMMA LadderFacts ==
    ASSUME NEW v \in Versions
    PROVE  /\ Len(Ladder[v]) \in Nat
           /\ Goals(v) \subseteq GoalNames
           /\ \A i \in 1 .. Len(Ladder[v]) :
                 /\ Ladder[v][i] \in GoalNames
                 /\ DependsOn[Ladder[v][i]] \subseteq {Ladder[v][j] : j \in 1 .. i - 1}
<1>1. WellFormed(Ladder[v])
  BY ConfigAssumption
<1>2. Ladder[v] \in Seq(GoalNames)
  BY <1>1 DEF WellFormed
<1>3. DOMAIN Ladder[v] = 1 .. Len(Ladder[v]) /\ Len(Ladder[v]) \in Nat
  BY <1>2
<1>4. ASSUME NEW i \in 1 .. Len(Ladder[v])
      PROVE  /\ Ladder[v][i] \in GoalNames
             /\ DependsOn[Ladder[v][i]] \subseteq {Ladder[v][j] : j \in 1 .. i - 1}
  BY <1>1, <1>2, <1>3 DEF WellFormed
<1>5. QED
  BY <1>3, <1>4 DEF Goals

\* After i goals: goals of the ladder that pass, with their prerequisites, and all of
\* any set S of passing goals that contains its prerequisites.
LEMMA LoopAccepts ==
    ASSUME NEW c, NEW v \in Versions, NEW receipts,
           NEW S, \A g \in S : /\ Declaration[g] \in receipts \cap Clean[c]
                              /\ DependsOn[g] \subseteq S
    PROVE  LET accepted == AcceptedUpTo(c, v, receipts)
           IN  \A i \in 0 .. Len(Ladder[v]) :
                  /\ accepted[i] \subseteq {Ladder[v][j] : j \in 1 .. i}
                  /\ \A g \in accepted[i] : /\ Declaration[g] \in receipts \cap Clean[c]
                                            /\ DependsOn[g] \subseteq accepted[i]
                  /\ S \cap {Ladder[v][j] : j \in 1 .. i} \subseteq accepted[i]
<1> DEFINE n == Len(Ladder[v])
           a == AcceptedUpTo(c, v, receipts)
           First(i) == {Ladder[v][j] : j \in 1 .. i}
           Sub(i) == a[i] \subseteq First(i)
           Closed(i) == \A g \in a[i] : /\ Declaration[g] \in receipts \cap Clean[c]
                                       /\ DependsOn[g] \subseteq a[i]
           Sup(i) == S \cap First(i) \subseteq a[i]
           T == {i \in 0 .. n : ~ (Sub(i) /\ Closed(i) /\ Sup(i))}
<1>1. /\ a[0] = {}
      /\ \A i \in 1 .. n : a[i] = WithGoal(c, receipts, Ladder[v][i], a[i - 1])
  BY LoopDefined
<1>2. n \in Nat /\ \A i \in 1 .. n : DependsOn[Ladder[v][i]] \subseteq First(i - 1)
  BY LadderFacts
<1> HIDE DEF a
<1>3. T = {}
  <2> SUFFICES ASSUME T # {}
               PROVE  FALSE
    OBVIOUS
  <2>1. PICK i \in T : \A k \in T : i <= k
    <3>1. T \subseteq Nat
      BY <1>2
    <3> HIDE DEF T
    <3>2. QED
      BY <3>1, Least
  <2>2. i \in 0 .. n /\ ~ (Sub(i) /\ Closed(i) /\ Sup(i))
    OBVIOUS
  <2>3. CASE i = 0
    <3>1. First(0) = {}
      OBVIOUS
    <3>2. Sub(0) /\ Closed(0) /\ Sup(0)
      BY <1>1, <3>1
    <3>3. QED
      BY <2>2, <2>3, <3>2
  <2>4. CASE i # 0
    <3>1. i \in 1 .. n /\ i - 1 \in 0 .. n /\ ~ (i <= i - 1)
      BY <1>2, <2>2, <2>4
    <3>2. Sub(i - 1) /\ Closed(i - 1) /\ Sup(i - 1)
      <4>1. i - 1 \notin T
        <5> HIDE DEF T
        <5>1. QED
          BY <2>1, <3>1
      <4>2. QED
        BY <3>1, <4>1
    <3> DEFINE g == Ladder[v][i]
    <3>3. First(i) = First(i - 1) \cup {g}
      <4>1. 1 .. i = (1 .. i - 1) \cup {i}
        BY <3>1
      <4>2. QED
        BY <4>1
    <3>4. a[i] = WithGoal(c, receipts, g, a[i - 1]) /\ DependsOn[g] \subseteq First(i - 1)
      BY <1>1, <1>2, <3>1
    <3> HIDE DEF First, g
    <3>5. Sub(i) /\ Closed(i)
      BY <3>2, <3>3, <3>4 DEF WithGoal
    <3>6. Sup(i)
      <4>1. CASE g \in S
        <5>1. DependsOn[g] \subseteq a[i - 1]
          BY <3>2, <3>4, <4>1
        <5>2. a[i] = a[i - 1] \cup {g}
          BY <3>4, <4>1, <5>1 DEF WithGoal
        <5>3. QED
          BY <3>2, <3>3, <5>2
      <4>2. CASE g \notin S
        BY <3>2, <3>3, <3>4, <4>2 DEF WithGoal
      <4>3. QED
        BY <4>1, <4>2
    <3>7. QED
      BY <2>2, <3>5, <3>6
  <2>5. QED
    BY <2>3, <2>4
<1>4. ASSUME NEW i \in 0 .. n
      PROVE  Sub(i) /\ Closed(i) /\ Sup(i)
  BY <1>3
<1>5. QED
  BY <1>4 DEF a

\* What LoopAccepts says of the whole ladder.
LEMMA CreditedAccepts ==
    ASSUME NEW c, NEW v \in Versions, NEW receipts,
           NEW S, \A g \in S : /\ Declaration[g] \in receipts \cap Clean[c]
                              /\ DependsOn[g] \subseteq S
    PROVE  LET accepted == Credited(c, v, receipts)
           IN  /\ accepted \subseteq Goals(v)
               /\ \A g \in accepted : /\ Declaration[g] \in receipts \cap Clean[c]
                                      /\ DependsOn[g] \subseteq accepted
               /\ S \cap Goals(v) \subseteq accepted
<1> DEFINE n == Len(Ladder[v])
           a == AcceptedUpTo(c, v, receipts)
<1>1. \A i \in 0 .. n :
         /\ a[i] \subseteq {Ladder[v][j] : j \in 1 .. i}
         /\ \A g \in a[i] : /\ Declaration[g] \in receipts \cap Clean[c]
                            /\ DependsOn[g] \subseteq a[i]
         /\ S \cap {Ladder[v][j] : j \in 1 .. i} \subseteq a[i]
  BY LoopAccepts, Zenon
<1>2. n \in 0 .. n
  BY LadderFacts
<1>3. a[n] = Credited(c, v, receipts)
  BY DEF Credited
<1> HIDE DEF a
<1>4. QED
  BY <1>1, <1>2, <1>3 DEF Goals

LEMMA CreditedIsClosed ==
    ASSUME NEW c, NEW v \in Versions, NEW receipts
    PROVE  LET accepted == Credited(c, v, receipts)
           IN  /\ accepted \subseteq Goals(v)
               /\ \A g \in accepted : /\ Declaration[g] \in receipts \cap Clean[c]
                                      /\ DependsOn[g] \subseteq accepted
<1>1. PICK S : S = {}
  OBVIOUS
<1>2. \A g \in S : /\ Declaration[g] \in receipts \cap Clean[c]
                   /\ DependsOn[g] \subseteq S
  BY <1>1
<1>3. QED
  BY <1>2, CreditedAccepts, Zenon

\* run_kernel accepts goals of the configuration only.
LEMMA KernelAcceptsGoals ==
    ASSUME NEW c, NEW p, NEW v \in Versions, NEW reach
    PROVE  RunKernel(c, p, v, reach) \subseteq Goals(v)
<1>1. ASSUME NEW receipts
      PROVE  Credited(c, v, receipts) \subseteq Goals(v)
  BY CreditedIsClosed, Zenon
<1>2. QED
  BY <1>1 DEF RunKernel

\* Where no two goals share a declaration, run_kernel computes the reference.
LEMMA KernelIsLargestClosed ==
    ASSUME NEW c, NEW p, NEW v \in Versions, NEW reach \in Reaches(v), reach # 0,
           \A g, h \in GoalNames : Declaration[g] = Declaration[h] => g = h
    PROVE  Credited(c, v, Receipts(c, p, v, reach)) = LargestClosed(c, p, v, reach)
<1> DEFINE n == Len(Ladder[v])
           receipts == Receipts(c, p, v, reach)
           accepted == Credited(c, v, receipts)
           audited == Audited(c, p, v, reach)
           sound == {g \in audited : Declaration[g] \in Clean[c]}
<1>1. n \in Nat /\ reach \in 1 .. n + 1 /\ n \in 0 .. n
  BY LadderFacts DEF Reaches
<1>2. audited \subseteq Goals(v) /\ Goals(v) \subseteq GoalNames
  <2>1. 1 .. reach - 1 \subseteq 1 .. n
    BY <1>1
  <2>2. audited \subseteq Goals(v)
    BY <2>1 DEF Audited, Goals
  <2>3. QED
    BY <2>2, LadderFacts
<1>3. ASSUME NEW g \in GoalNames
      PROVE  Declaration[g] \in receipts <=> g \in audited
  BY <1>2 DEF Receipts
<1>4. LargestClosed(c, p, v, reach)
        = UNION {S \in SUBSET sound : \A g \in S : DependsOn[g] \subseteq S}
  BY DEF LargestClosed
<1>5. ASSUME NEW S \in SUBSET sound, \A g \in S : DependsOn[g] \subseteq S
      PROVE  S \subseteq accepted
  <2>1. \A g \in S : Declaration[g] \in receipts \cap Clean[c] /\ DependsOn[g] \subseteq S
    BY <1>2, <1>3, <1>5
  <2> HIDE DEF receipts
  <2>2. S \cap Goals(v) \subseteq accepted
    BY <2>1, CreditedAccepts, Zenon
  <2>3. QED
    BY <1>2, <2>2
<1>6. accepted \in SUBSET sound /\ \A g \in accepted : DependsOn[g] \subseteq accepted
  <2>1. /\ accepted \subseteq Goals(v)
        /\ \A g \in accepted : /\ Declaration[g] \in receipts \cap Clean[c]
                               /\ DependsOn[g] \subseteq accepted
    <3> HIDE DEF receipts
    <3>1. QED
      BY CreditedIsClosed, Zenon
  <2> HIDE DEF accepted, receipts, audited
  <2>2. QED
    BY <2>1, <1>2, <1>3
<1> HIDE DEF accepted, sound
<1>7. accepted = LargestClosed(c, p, v, reach)
  BY <1>4, <1>5, <1>6
<1>8. QED
  BY <1>7 DEF accepted
-------------------------------------------------------------------------------
(* What a step leaves alone. *)

LEMMA EvalSteps ==
    [Next]_vars => \/ \E g \in Generations, c \in Candidates : Propose(g, c)
                   \/ CheckProject \/ WriteResults \/ EvaluatorLost \/ OrphanEnds
                   \/ eval.at = "checked" /\ \E reach \in Reaches(eval.config) : Judge(reach)
                   \/ \E parent \in {None} \cup Generations : StoreProgram(parent)
                   \/ UNCHANGED evalVars
<1> SUFFICES ASSUME [Next]_vars
             PROVE  \/ \E g \in Generations, c \in Candidates : Propose(g, c)
                    \/ CheckProject \/ WriteResults \/ EvaluatorLost \/ OrphanEnds
                    \/ eval.at = "checked" /\ \E reach \in Reaches(eval.config) : Judge(reach)
                    \/ \E parent \in {None} \cup Generations : StoreProgram(parent)
                    \/ UNCHANGED evalVars
  OBVIOUS
<1>1. CASE UNCHANGED vars
  BY <1>1 DEF vars
<1>2. CASE \E f \in {"project", "config"} : Edit(f)
  BY <1>2 DEF Edit
<1>3. CASE BuildRuntime \/ CreateDirectory \/ CopyInputs \/ RunnerReturns \/ RunnerRaises
  BY <1>3 DEF BuildRuntime, CreateDirectory, CopyInputs, RunnerReturns, RunnerRaises
<1>4. CASE StageBest \/ MoveAway \/ PlaceBest \/ DiscardPrevious \/ RefreshFails
  BY <1>4 DEF StageBest, MoveAway, PlaceBest, DiscardPrevious, RefreshFails
<1>5. CASE WriteLineage \/ RecordLineage \/ LineageRaises \/ AppendFinished \/ TakeInventory
           \/ ReplaceManifest \/ FinalizeCut \/ Killed \/ Rest
  BY <1>5 DEF WriteLineage, RecordLineage, LineageRaises, AppendFinished, TakeInventory,
              ReplaceManifest, FinalizeCut, Killed, Rest, vars
<1>6. QED
  BY <1>1, <1>2, <1>3, <1>4, <1>5 DEF Next

LEMMA RunSteps ==
    [Next]_vars => \/ BuildRuntime \/ CreateDirectory \/ CopyInputs \/ RunnerReturns
                   \/ RunnerRaises \/ WriteLineage \/ RecordLineage \/ LineageRaises
                   \/ AppendFinished \/ TakeInventory \/ ReplaceManifest
                   \/ FinalizeCut \/ Killed \/ UNCHANGED runVars
<1> SUFFICES ASSUME [Next]_vars
             PROVE  \/ BuildRuntime \/ CreateDirectory \/ CopyInputs \/ RunnerReturns
                    \/ RunnerRaises \/ WriteLineage \/ RecordLineage \/ LineageRaises
                    \/ AppendFinished \/ TakeInventory \/ ReplaceManifest
                    \/ FinalizeCut \/ Killed \/ UNCHANGED runVars
  OBVIOUS
<1>1. CASE UNCHANGED vars \/ Rest
  BY <1>1 DEF Rest, vars
<1>2. CASE \/ \E f \in {"project", "config"} : Edit(f)
           \/ \E g \in Generations, c \in Candidates : Propose(g, c)
           \/ \E parent \in {None} \cup Generations : StoreProgram(parent)
           \/ eval.at = "checked" /\ \E reach \in Reaches(eval.config) : Judge(reach)
  BY <1>2 DEF Edit, Propose, StoreProgram, Judge
<1>3. CASE CheckProject \/ WriteResults \/ EvaluatorLost \/ OrphanEnds
  BY <1>3 DEF CheckProject, WriteResults, EvaluatorLost, OrphanEnds
<1>4. CASE StageBest \/ MoveAway \/ PlaceBest \/ DiscardPrevious \/ RefreshFails
  BY <1>4 DEF StageBest, MoveAway, PlaceBest, DiscardPrevious, RefreshFails
<1>5. QED
  BY <1>1, <1>2, <1>3, <1>4 DEF Next

LEMMA BestSteps ==
    [Next]_vars => \/ \E parent \in {None} \cup Generations : StoreProgram(parent)
                   \/ StageBest \/ MoveAway \/ PlaceBest \/ DiscardPrevious
                   \/ RefreshFails \/ UNCHANGED best
<1> SUFFICES ASSUME [Next]_vars
             PROVE  \/ \E parent \in {None} \cup Generations : StoreProgram(parent)
                    \/ StageBest \/ MoveAway \/ PlaceBest \/ DiscardPrevious
                    \/ RefreshFails \/ UNCHANGED best
  OBVIOUS
<1>1. CASE UNCHANGED vars \/ Rest
  BY <1>1 DEF Rest, vars
<1>2. CASE \/ \E f \in {"project", "config"} : Edit(f)
           \/ \E g \in Generations, c \in Candidates : Propose(g, c)
           \/ eval.at = "checked" /\ \E reach \in Reaches(eval.config) : Judge(reach)
  BY <1>2 DEF Edit, Propose, Judge
<1>3. CASE CheckProject \/ WriteResults \/ EvaluatorLost \/ OrphanEnds
  BY <1>3 DEF CheckProject, WriteResults, EvaluatorLost, OrphanEnds
<1>4. CASE BuildRuntime \/ CreateDirectory \/ CopyInputs \/ RunnerReturns \/ RunnerRaises
  BY <1>4 DEF BuildRuntime, CreateDirectory, CopyInputs, RunnerReturns, RunnerRaises
<1>5. CASE WriteLineage \/ RecordLineage \/ LineageRaises \/ AppendFinished \/ TakeInventory
           \/ ReplaceManifest \/ FinalizeCut \/ Killed
  BY <1>5 DEF WriteLineage, RecordLineage, LineageRaises, AppendFinished, TakeInventory,
              ReplaceManifest, FinalizeCut, Killed
<1>6. QED
  BY <1>1, <1>2, <1>3, <1>4, <1>5 DEF Next

\* The inputs change by an edit only, and an edit is a later version.
LEMMA DiskSteps ==
    [Next]_vars => UNCHANGED disk \/ \E f \in {"project", "config"} : Edit(f)
<1> SUFFICES ASSUME [Next]_vars
             PROVE  UNCHANGED disk \/ \E f \in {"project", "config"} : Edit(f)
  OBVIOUS
<1>1. CASE UNCHANGED vars \/ Rest
  BY <1>1 DEF Rest, vars
<1>2. CASE \/ \E g \in Generations, c \in Candidates : Propose(g, c)
           \/ \E parent \in {None} \cup Generations : StoreProgram(parent)
           \/ eval.at = "checked" /\ \E reach \in Reaches(eval.config) : Judge(reach)
  BY <1>2 DEF Propose, StoreProgram, Judge
<1>3. CASE CheckProject \/ WriteResults \/ EvaluatorLost \/ OrphanEnds
  BY <1>3 DEF CheckProject, WriteResults, EvaluatorLost, OrphanEnds
<1>4. CASE BuildRuntime \/ CreateDirectory \/ CopyInputs \/ RunnerReturns \/ RunnerRaises
  BY <1>4 DEF BuildRuntime, CreateDirectory, CopyInputs, RunnerReturns, RunnerRaises
<1>5. CASE WriteLineage \/ RecordLineage \/ LineageRaises \/ AppendFinished \/ TakeInventory
           \/ ReplaceManifest \/ FinalizeCut \/ Killed
  BY <1>5 DEF WriteLineage, RecordLineage, LineageRaises, AppendFinished, TakeInventory,
              ReplaceManifest, FinalizeCut, Killed
<1>6. CASE StageBest \/ MoveAway \/ PlaceBest \/ DiscardPrevious \/ RefreshFails
  BY <1>6 DEF StageBest, MoveAway, PlaceBest, DiscardPrevious, RefreshFails
<1>7. QED
  BY <1>1, <1>2, <1>3, <1>4, <1>5, <1>6 DEF Next
-------------------------------------------------------------------------------
(* Verdicts and versions. *)

\* The versions on disk only go up.
DiskOK == disk \in [project : Versions, config : Versions]

\* accepted is what run_kernel makes of the inputs it ran on; a refused project
\* has no run.
IsVerdict(c, ran, used, reach, accepted) ==
    IF ran = None THEN accepted = {}
    ELSE /\ ran \in Versions /\ reach \in Reaches(used)
         /\ accepted = RunKernel(c, ran, used, reach)

EvalOK ==
    /\ eval.at \in {"idle", "loaded", "checked", "judged", "done"}
    /\ eval.at # "idle" => /\ eval.gen \in Generations
                           /\ candidate[eval.gen] \in Candidates
    /\ eval.at \in {"loaded", "checked", "judged"} => eval.config \in Versions
    /\ eval.at = "judged" => IsVerdict(candidate[eval.gen], eval.ran, eval.config,
                                       eval.reach, eval.accepted)

ReceiptsOK ==
    \A g \in Generations : receipt[g] # None =>
       /\ candidate[g] \in Candidates
       /\ receipt[g].used \in Versions
       /\ IsVerdict(candidate[g], receipt[g].ran, receipt[g].used, receipt[g].reach,
                    receipt[g].accepted)

\* The two files of a generation, the evaluator's verdict and its receipts.
VerdictInv == /\ DiskOK
              /\ candidate \in [Generations -> Candidates \cup {None}]
              /\ DOMAIN receipt = Generations
              /\ EvalOK
              /\ ReceiptsOK

LEMMA VerdictInit == Init => VerdictInv
<1> SUFFICES ASSUME Init
             PROVE  VerdictInv
  OBVIOUS
<1>1. DiskOK
  BY RunAssumption DEF Init, DiskOK
<1>2. /\ candidate \in [Generations -> Candidates \cup {None}]
      /\ DOMAIN receipt = Generations
  BY DEF Init
<1>3. EvalOK
  BY DEF Init, EvalOK, NoEval
<1>4. ReceiptsOK
  BY DEF Init, ReceiptsOK
<1>5. QED
  BY <1>1, <1>2, <1>3, <1>4 DEF VerdictInv

LEMMA DiskStep == DiskOK /\ [Next]_vars => /\ DiskOK'
                                           /\ disk'.project >= disk.project
<1> SUFFICES ASSUME DiskOK, [Next]_vars
             PROVE  DiskOK' /\ disk'.project >= disk.project
  OBVIOUS
<1>0. Versions \subseteq Nat
  BY ConfigAssumption
<1>1. disk.project \in Versions /\ disk.config \in Versions
      /\ disk.project \in Nat /\ disk.config \in Nat
  BY <1>0 DEF DiskOK
<1>2. CASE UNCHANGED disk
  BY <1>1, <1>2 DEF DiskOK
<1>3. CASE Edit("project")
  <2>1. disk' = [disk EXCEPT !.project = disk.project + 1] /\ disk.project + 1 \in Versions
    BY <1>3 DEF Edit
  <2>2. disk' = [project |-> disk.project + 1, config |-> disk.config]
    BY <1>1, <2>1 DEF DiskOK
  <2>3. QED
    BY <1>1, <2>1, <2>2 DEF DiskOK
<1>4. CASE Edit("config")
  <2>1. disk' = [disk EXCEPT !.config = disk.config + 1] /\ disk.config + 1 \in Versions
    BY <1>4 DEF Edit
  <2>2. disk' = [project |-> disk.project, config |-> disk.config + 1]
    BY <1>1, <2>1 DEF DiskOK
  <2>3. QED
    BY <1>1, <2>1, <2>2 DEF DiskOK
<1>5. QED
  BY <1>2, <1>3, <1>4, DiskSteps

\* A proposal writes the candidate of a generation that has no receipt.
LEMMA VerdictStep == VerdictInv /\ [Next]_vars => VerdictInv'
<1> SUFFICES ASSUME VerdictInv, [Next]_vars
             PROVE  VerdictInv'
  OBVIOUS
<1>0. None \notin Candidates
  BY RunAssumption
<1> USE DEF VerdictInv
<1>1. DiskOK'
  BY DiskStep
<1>2. ASSUME NEW g \in Generations, NEW c \in Candidates, Propose(g, c)
      PROVE  VerdictInv'
  <2>1. /\ candidate' \in [Generations -> Candidates \cup {None}]
        /\ candidate'[g] = c /\ candidate[g] = None
        /\ \A h \in Generations : h # g => candidate'[h] = candidate[h]
    BY <1>2 DEF Propose
  <2>2. DOMAIN receipt' = Generations
    BY <1>2 DEF Propose
  <2>3. EvalOK'
    BY <1>2, <2>1 DEF Propose, EvalOK, DiskOK
  <2>4. ReceiptsOK'
    <3>1. ASSUME NEW h \in Generations, receipt[h] # None
          PROVE  candidate'[h] = candidate[h]
      BY <1>0, <2>1, <3>1 DEF ReceiptsOK
    <3>2. receipt' = receipt
      BY <1>2 DEF Propose
    <3>3. QED
      BY <3>1, <3>2 DEF ReceiptsOK
  <2>5. QED
    BY <1>1, <2>1, <2>2, <2>3, <2>4
<1>3. CASE CheckProject
  <2>1. UNCHANGED <<candidate, receipt>>
    BY <1>3 DEF CheckProject
  <2>2. EvalOK'
    BY <1>3, <2>1 DEF CheckProject, EvalOK, IsVerdict
  <2>3. ReceiptsOK'
    BY <2>1 DEF ReceiptsOK
  <2>4. QED
    BY <1>1, <2>1, <2>2, <2>3
<1>4. ASSUME eval.at = "checked", NEW reach \in Reaches(eval.config), Judge(reach)
      PROVE  VerdictInv'
  <2>1. UNCHANGED <<candidate, receipt>>
    BY <1>4 DEF Judge
  <2>2. EvalOK'
    <3>1. eval' = [at |-> "judged", gen |-> eval.gen, config |-> eval.config,
                   ran |-> disk.project, reach |-> reach,
                   accepted |-> RunKernel(candidate[eval.gen], disk.project,
                                          eval.config, reach)]
      BY <1>4 DEF Judge
    <3>2. disk.project \in Versions /\ None \notin Versions
      BY RunAssumption, ConfigAssumption DEF DiskOK
    <3>3. QED
      BY <1>4, <2>1, <3>1, <3>2 DEF EvalOK, IsVerdict
  <2>3. ReceiptsOK'
    BY <2>1 DEF ReceiptsOK
  <2>4. QED
    BY <1>1, <2>1, <2>2, <2>3
<1>5. CASE WriteResults
  <2>1. /\ candidate' = candidate
        /\ eval.gen \in Generations
        /\ DOMAIN receipt' = Generations
        /\ receipt'[eval.gen] = [inputs |-> disk.project, configuration |-> disk.config,
              accepted |-> eval.accepted,
              ran |-> eval.ran, reach |-> eval.reach, used |-> eval.config]
        /\ \A h \in Generations : h # eval.gen => receipt'[h] = receipt[h]
    BY <1>5 DEF WriteResults, EvalOK
  <2>2. EvalOK'
    BY <1>5, <2>1 DEF WriteResults, EvalOK
  <2>3. ReceiptsOK'
    <3>1. /\ candidate[eval.gen] \in Candidates
          /\ eval.config \in Versions
          /\ IsVerdict(candidate[eval.gen], eval.ran, eval.config, eval.reach,
                       eval.accepted)
      BY <1>5 DEF WriteResults, EvalOK
    <3> HIDE DEF IsVerdict
    <3>2. ASSUME NEW h \in Generations, receipt'[h] # None
          PROVE  /\ candidate[h] \in Candidates
                 /\ receipt'[h].used \in Versions
                 /\ IsVerdict(candidate[h], receipt'[h].ran, receipt'[h].used,
                              receipt'[h].reach, receipt'[h].accepted)
      <4>1. CASE h = eval.gen
        BY <2>1, <3>1, <4>1
      <4>2. CASE h # eval.gen
        BY <2>1, <3>2, <4>2 DEF ReceiptsOK
      <4>3. QED
        BY <4>1, <4>2
    <3>3. QED
      BY <2>1, <3>2 DEF ReceiptsOK, IsVerdict
  <2>4. QED
    BY <1>1, <2>1, <2>2, <2>3
<1>6. CASE \/ EvaluatorLost \/ OrphanEnds
           \/ \E parent \in {None} \cup Generations : StoreProgram(parent)
  <2>1. UNCHANGED <<candidate, receipt>> /\ eval' \in {NoEval, [at |-> "done", gen |-> eval.gen]}
        /\ eval.at # "idle"
    BY <1>6 DEF EvaluatorLost, OrphanEnds, StoreProgram
  <2>2. EvalOK'
    BY <2>1 DEF EvalOK, NoEval
  <2>3. ReceiptsOK'
    BY <2>1 DEF ReceiptsOK
  <2>4. QED
    BY <1>1, <2>1, <2>2, <2>3
<1>7. CASE UNCHANGED evalVars
  <2>1. UNCHANGED <<candidate, receipt, eval>>
    BY <1>7 DEF evalVars
  <2>2. EvalOK'
    BY <2>1 DEF EvalOK
  <2>3. ReceiptsOK'
    BY <2>1 DEF ReceiptsOK
  <2>4. QED
    BY <1>1, <2>1, <2>2, <2>3
<1>8. QED
  BY <1>2, <1>3, <1>4, <1>5, <1>6, <1>7, EvalSteps

LEMMA VerdictsHold == Spec => []VerdictInv
<1>1. QED
  BY VerdictInit, VerdictStep, PTL DEF Spec

\* Where the configuration gives every goal a declaration of its own, what the
\* evaluator credits is the largest set it may credit.
THEOREM CreditIsLargestClosed ==
    ASSUME \A g, h \in GoalNames : Declaration[g] = Declaration[h] => g = h
    PROVE  Spec => []AcceptedIsLargestClosed
<1>1. ASSUME VerdictInv, NEW g \in Generations, receipt[g] # None, receipt[g].ran # None
      PROVE  receipt[g].accepted =
                IF candidate[g] \in Legal /\ receipt[g].reach > 0
                   /\ receipt[g].ran \in Elaborates[candidate[g]]
                THEN LargestClosed(candidate[g], receipt[g].ran, receipt[g].used,
                                   receipt[g].reach)
                ELSE {}
  <2> DEFINE c == candidate[g]
             p == receipt[g].ran
             v == receipt[g].used
             reach == receipt[g].reach
  <2>1. /\ v \in Versions /\ reach \in Reaches(v)
        /\ receipt[g].accepted = RunKernel(c, p, v, reach)
    BY <1>1 DEF VerdictInv, ReceiptsOK, IsVerdict
  <2>2. reach \in Nat
    BY <2>1, LadderFacts DEF Reaches
  <2> HIDE DEF c, p, v, reach
  <2>3. reach # 0 => Credited(c, v, Receipts(c, p, v, reach)) = LargestClosed(c, p, v, reach)
    BY <2>1, KernelIsLargestClosed
  <2>4. receipt[g].accepted = IF c \in Legal /\ reach > 0 /\ p \in Elaborates[c]
                              THEN LargestClosed(c, p, v, reach) ELSE {}
    BY <2>1, <2>2, <2>3 DEF RunKernel
  <2>5. QED
    BY <2>4 DEF c, p, v, reach
<1>2. VerdictInv => AcceptedIsLargestClosed
  BY <1>1 DEF AcceptedIsLargestClosed
<1>3. QED
  BY <1>2, VerdictsHold, PTL

\* In time, the project of the run's start, the one that Lean read and the one that
\* the receipt records follow each other.
VersionsInv ==
    /\ expected # None => expected \in Versions /\ expected <= disk.project
    /\ pc = "configured" => expected = None
    /\ eval.at = "checked" => expected # None
    /\ eval.at = "judged" /\ eval.ran # None =>
          expected # None /\ expected <= eval.ran /\ eval.ran <= disk.project
    /\ \A g \in Generations : receipt[g] # None /\ receipt[g].ran # None =>
          expected # None /\ expected <= receipt[g].ran
          /\ receipt[g].ran <= receipt[g].inputs

LEMMA VersionsInit == Init => VersionsInv
  BY DEF Init, VersionsInv, NoEval

LEMMA VersionsStep == VerdictInv /\ VersionsInv /\ [Next]_vars => VersionsInv'
<1> SUFFICES ASSUME VerdictInv, VersionsInv, [Next]_vars
             PROVE  VersionsInv'
  OBVIOUS
<1>0. /\ Versions \subseteq Nat /\ None \notin Nat
      /\ disk.project \in Versions /\ DiskOK' /\ disk'.project >= disk.project
  <2>1. DiskOK' /\ disk'.project >= disk.project
    BY DiskStep DEF VerdictInv
  <2>2. QED
    BY <2>1, ConfigAssumption, RunAssumption DEF VerdictInv, DiskOK
<1>1. disk'.project \in Versions /\ disk'.project \in Nat /\ disk.project \in Nat
      /\ disk.project <= disk'.project
  BY <1>0 DEF DiskOK
<1>2. ASSUME NEW g \in Generations, NEW c \in Candidates, Propose(g, c)
      PROVE  VersionsInv'
  BY <1>2 DEF Propose, VersionsInv, runVars
<1>3. CASE CheckProject
  BY <1>0, <1>3 DEF CheckProject, VersionsInv, runVars
<1>4. ASSUME eval.at = "checked", NEW reach \in Reaches(eval.config), Judge(reach)
      PROVE  VersionsInv'
  <2>1. /\ UNCHANGED <<disk, pc, expected, receipt>>
        /\ eval' = [at |-> "judged", gen |-> eval.gen, config |-> eval.config,
                    ran |-> disk.project, reach |-> reach,
                    accepted |-> RunKernel(candidate[eval.gen], disk.project,
                                           eval.config, reach)]
    BY <1>4 DEF Judge, runVars
  <2>2. eval'.at = "judged" /\ eval'.ran = disk.project
    BY <2>1
  <2>3. QED
    BY <1>0, <1>4, <2>1, <2>2 DEF VersionsInv
<1>5. CASE WriteResults
  <2>1. /\ UNCHANGED <<disk, pc, expected>>
        /\ eval'.at = "done"
        /\ eval.at = "judged" /\ eval.gen \in Generations
        /\ receipt'[eval.gen] = [inputs |-> disk.project, configuration |-> disk.config,
              accepted |-> eval.accepted,
              ran |-> eval.ran, reach |-> eval.reach, used |-> eval.config]
        /\ \A h \in Generations : h # eval.gen => receipt'[h] = receipt[h]
    BY <1>5 DEF WriteResults, EvalOK, VerdictInv, runVars
  <2>2. /\ receipt'[eval.gen].inputs = disk.project
        /\ receipt'[eval.gen].ran = eval.ran
    BY <2>1
  <2>3. ASSUME NEW g \in Generations, receipt'[g] # None, receipt'[g].ran # None
        PROVE  expected # None /\ expected <= receipt'[g].ran
               /\ receipt'[g].ran <= receipt'[g].inputs
    <3>1. CASE g = eval.gen
      BY <2>1, <2>2, <2>3, <3>1 DEF VersionsInv
    <3>2. CASE g # eval.gen
      BY <2>1, <2>3, <3>2 DEF VersionsInv
    <3>3. QED
      BY <3>1, <3>2
  <2>4. QED
    BY <2>1, <2>3 DEF VersionsInv
<1>6. CASE \/ EvaluatorLost \/ OrphanEnds
           \/ \E parent \in {None} \cup Generations : StoreProgram(parent)
  <2>1. CASE EvaluatorLost \/ OrphanEnds
    BY <2>1 DEF EvaluatorLost, OrphanEnds, NoEval, runVars, VersionsInv
  <2>2. ASSUME NEW parent \in {None} \cup Generations, StoreProgram(parent)
        PROVE  VersionsInv'
    BY <2>2 DEF StoreProgram, NoEval, runVars, VersionsInv
  <2>3. QED
    BY <1>6, <2>1, <2>2
<1>7. CASE UNCHANGED evalVars
  <2>1. UNCHANGED <<receipt, eval>>
    BY <1>7 DEF evalVars
  <2>2. CASE BuildRuntime
    <3>1. expected = None /\ expected' = disk.project /\ disk' = disk /\ pc' = "built"
      BY <2>2 DEF BuildRuntime, VersionsInv
    <3>2. QED
      BY <1>0, <2>1, <3>1 DEF VersionsInv
  <2>3. CASE expected' = expected /\ (pc' = "configured" => pc = "configured")
    <3>1. expected # None => expected \in Nat /\ expected <= disk'.project
      <4> DEFINE old == disk.project
                 new == disk'.project
      <4>1. expected # None => expected \in Nat /\ expected <= old
        BY <1>0 DEF VersionsInv
      <4>2. old \in Nat /\ new \in Nat /\ old <= new
        BY <1>1
      <4> HIDE DEF old, new
      <4>3. expected # None => expected \in Nat /\ expected <= new
        BY <4>1, <4>2
      <4>4. QED
        BY <4>3 DEF new
    <3>2. eval.at = "judged" /\ eval.ran # None => eval.ran <= disk'.project
      <4> DEFINE old == disk.project
                 new == disk'.project
                 ran == eval.ran
      <4>1. eval.at = "judged" /\ ran # None => ran \in Nat /\ ran <= old
        BY <1>0 DEF VersionsInv, VerdictInv, EvalOK, IsVerdict
      <4>2. old \in Nat /\ new \in Nat /\ old <= new
        BY <1>1
      <4> HIDE DEF old, new, ran
      <4>3. eval.at = "judged" /\ ran # None => ran <= new
        BY <4>1, <4>2
      <4>4. QED
        BY <4>3 DEF new, ran
    <3>3. QED
      BY <2>1, <2>3, <3>1, <3>2 DEF VersionsInv
  <2>4. BuildRuntime \/ (expected' = expected /\ (pc' = "configured" => pc = "configured"))
    BY RunSteps DEF CreateDirectory, CopyInputs, RunnerReturns, RunnerRaises, WriteLineage,
                    RecordLineage, LineageRaises, AppendFinished, TakeInventory,
                    ReplaceManifest, FinalizeCut, Killed, runVars
  <2>5. QED
    BY <2>2, <2>3, <2>4
<1>8. QED
  BY <1>2, <1>3, <1>4, <1>5, <1>6, <1>7, EvalSteps

\* A receipt that records the project of the run's start was judged on it, although
\* the hash is taken before and after Lean and not while it reads.
THEOREM ReceiptsTell == Spec => []ReceiptsTellTheirProject
<1>1. VerdictInv /\ VersionsInv => ReceiptsTellTheirProject
  <2> SUFFICES ASSUME VerdictInv, VersionsInv, NEW g \in Generations,
                      receipt[g] # None, receipt[g].accepted # {},
                      receipt[g].inputs = expected
               PROVE  receipt[g].ran = expected
    BY DEF ReceiptsTellTheirProject
  <2>1. receipt[g].ran # None /\ receipt[g].ran \in Nat
    BY ConfigAssumption DEF VerdictInv, ReceiptsOK, IsVerdict
  <2>2. expected \in Nat /\ expected <= receipt[g].ran /\ receipt[g].ran <= expected
    BY <2>1, ConfigAssumption DEF VersionsInv
  <2>3. QED
    BY <2>1, <2>2
<1>2. Spec => [](VerdictInv /\ VersionsInv)
  BY VerdictInit, VerdictStep, VersionsInit, VersionsStep, PTL DEF Spec
<1>3. QED
  BY <1>1, <1>2, PTL
-------------------------------------------------------------------------------
(* After a normal return of the runner. *)

Finalization == {"lineage", "recording", "finalizing", "counting", "writing", "ended"}

\* Nobody else writes to the run directory.
Quiet == outcome = "completed" /\ pc \in Finalization

LineageHolds ==
    lineage # None => \A n \in lineage.nodes : /\ candidate[n.gen] = n.candidate
                                               /\ receipt[n.gen] = n.receipt

QuietInv ==
    /\ pc \in {"configured", "built", "copying", "searching", "lineage"} => lineage = None
    /\ pc \in {"copying", "searching"} \cup Finalization =>
          snapshot \in [project : Versions, config : Versions]
    /\ Quiet => eval.at = "idle" /\ best.at = "idle"
    /\ Quiet => LineageHolds
    /\ Quiet /\ pc = "writing" => inventory = Files
    /\ pc = "ended" => manifest.status = outcome
    /\ manifest.status = "completed" => /\ Quiet /\ pc = "ended"
                                        /\ manifest.inventory = Files

LEMMA QuietInit == Init => QuietInv
  BY DEF Init, QuietInv, Quiet, Finalization

\* The evaluator and the refresh of the best directory are over: what they write
\* stands from now on.
LEMMA QuietSteps ==
    QuietInv /\ Quiet /\ [Next]_vars => UNCHANGED <<evalVars, best>>
<1> SUFFICES ASSUME QuietInv, Quiet, [Next]_vars
             PROVE  UNCHANGED evalVars /\ UNCHANGED best
  OBVIOUS
<1>1. eval.at = "idle" /\ pc # "searching"
  BY DEF QuietInv, Quiet, Finalization
<1>2. UNCHANGED evalVars
  BY <1>1, EvalSteps DEF Propose, CheckProject, WriteResults, EvaluatorLost, OrphanEnds,
                         StoreProgram
<1>3. UNCHANGED best
  BY <1>1, BestSteps DEF StoreProgram, StageBest, MoveAway, PlaceBest, DiscardPrevious,
                         RefreshFails
<1>4. QED
  BY <1>2, <1>3

LEMMA FilesFrame ==
    UNCHANGED <<evalVars, best, events, snapshot, lineage>> => Files' = Files
  BY DEF evalVars, Files

LEMMA QuietStep == VerdictInv /\ QuietInv /\ [Next]_vars => QuietInv'
<1> SUFFICES ASSUME VerdictInv, QuietInv, [Next]_vars
             PROVE  QuietInv'
  OBVIOUS
<1> USE DEF QuietInv, Quiet, Finalization
<1>1. CASE BuildRuntime
  BY <1>1 DEF BuildRuntime
<1>2. CASE CreateDirectory
  BY <1>2 DEF CreateDirectory, VerdictInv, DiskOK
<1>3. CASE CopyInputs
  BY <1>3 DEF CopyInputs
<1>4. CASE RunnerReturns
  <2>1. LineageHolds'
    BY <1>4 DEF RunnerReturns, LineageHolds
  <2>2. QED
    BY <1>4, <2>1 DEF RunnerReturns, evalVars
<1>5. CASE RunnerRaises
  BY <1>5 DEF RunnerRaises
<1>6. CASE WriteLineage
  <2>1. /\ pc = "lineage" /\ pc' \in {"finalizing", "recording"}
        /\ UNCHANGED <<outcome, snapshot, manifest, candidate, receipt, eval, best>>
    BY <1>6 DEF WriteLineage, evalVars
  <2>2. CASE programs = <<>>
    BY <1>6, <2>1, <2>2 DEF WriteLineage, LineageHolds
  <2>3. CASE programs # <<>>
    <3>1. lineage' = [nodes |-> {Node(programs[i]) : i \in DOMAIN programs},
                      path |-> AncestorPath]
      BY <1>6, <2>3 DEF WriteLineage
    <3>2. \A n \in lineage'.nodes : /\ candidate[n.gen] = n.candidate
                                    /\ receipt[n.gen] = n.receipt
      BY <3>1 DEF Node
    <3>3. LineageHolds'
      BY <2>1, <3>2 DEF LineageHolds
    <3>4. QED
      BY <2>1, <3>3
  <2>4. QED
    BY <2>2, <2>3
<1>7. CASE RecordLineage
  <2>1. LineageHolds => LineageHolds'
    BY <1>7 DEF RecordLineage, LineageHolds, evalVars
  <2>2. QED
    BY <1>7, <2>1 DEF RecordLineage, evalVars
<1>8. CASE LineageRaises
  <2>1. LineageHolds => LineageHolds'
    BY <1>8 DEF LineageRaises, LineageHolds, evalVars
  <2>2. QED
    BY <1>8, <2>1 DEF LineageRaises, evalVars
<1>9. CASE AppendFinished
  <2>1. LineageHolds => LineageHolds'
    BY <1>9 DEF AppendFinished, LineageHolds, evalVars
  <2>2. QED
    BY <1>9, <2>1 DEF AppendFinished, evalVars
<1>10. CASE TakeInventory
  <2>1. LineageHolds => LineageHolds'
    BY <1>10 DEF TakeInventory, LineageHolds, evalVars
  <2>2. Files' = Files
    BY <1>10, FilesFrame DEF TakeInventory
  <2>3. /\ pc = "counting" /\ pc' = "writing" /\ inventory' = Files'
        /\ UNCHANGED <<outcome, snapshot, manifest, eval, best>>
    BY <1>10, <2>2 DEF TakeInventory, evalVars
  <2>4. QED
    BY <2>1, <2>3
<1>11. CASE ReplaceManifest
  <2>1. LineageHolds => LineageHolds'
    BY <1>11 DEF ReplaceManifest, LineageHolds, evalVars
  <2>2. Files' = Files
    BY <1>11, FilesFrame DEF ReplaceManifest
  <2>3. manifest'.status = outcome /\ manifest'.inventory = inventory
    BY <1>11 DEF ReplaceManifest
  <2>4. QED
    BY <1>11, <2>1, <2>2, <2>3 DEF ReplaceManifest, evalVars
<1>12. CASE FinalizeCut
  BY <1>12 DEF FinalizeCut
<1>13. CASE Killed
  BY <1>13 DEF Killed
<1>14. CASE UNCHANGED runVars
  <2>1. UNCHANGED <<pc, outcome, snapshot, manifest, events, lineage, inventory>>
    BY <1>14 DEF runVars
  <2>2. CASE Quiet
    <3>1. UNCHANGED <<evalVars, best>>
      BY <2>2, QuietSteps
    <3>2. Files' = Files
      BY <2>1, <3>1, FilesFrame
    <3>3. LineageHolds => LineageHolds'
      BY <2>1, <3>1 DEF LineageHolds, evalVars
    <3>4. QED
      BY <2>1, <3>1, <3>2, <3>3 DEF evalVars
  <2>3. CASE ~Quiet
    BY <2>1, <2>3
  <2>4. QED
    BY <2>2, <2>3
<1>15. QED
  BY <1>1, <1>2, <1>3, <1>4, <1>5, <1>6, <1>7, <1>8, <1>9, <1>10, <1>11, <1>12, <1>13,
     <1>14, RunSteps

LEMMA QuietHolds == Spec => [](VerdictInv /\ QuietInv)
<1>1. QED
  BY VerdictInit, VerdictStep, QuietInit, QuietStep, PTL DEF Spec

\* The inventory of a completed run is the directory, from the moment the manifest is
\* replaced and for good.
THEOREM CompletedVerifies == Spec => []CompletedRunVerifies
<1>1. QuietInv => CompletedRunVerifies
  BY DEF QuietInv, CompletedRunVerifies
<1>2. QED
  BY <1>1, QuietHolds, PTL

\* Where every evaluation ran on the snapshot with the time it needed, replay finds
\* what it found.
THEOREM UndisturbedReplays == Spec => []UndisturbedRunReplays
<1>1. VerdictInv /\ QuietInv => UndisturbedRunReplays
  <2> SUFFICES ASSUME VerdictInv, QuietInv,
                      pc = "ended", outcome = "completed", lineage # None,
                      \A g \in Generations : receipt[g] # None =>
                         /\ receipt[g].ran = snapshot.project
                         /\ receipt[g].used = snapshot.config
                         /\ receipt[g].reach = FullBudget(snapshot.config)
               PROVE  ReplayAccepts
    BY DEF UndisturbedRunReplays
  <2>1. manifest.status = "completed" /\ manifest.inventory = Files
    BY DEF QuietInv, Quiet, Finalization
  <2>2. LineageProblems = {}
    BY DEF QuietInv, Quiet, Finalization, LineageHolds, LineageProblems
  <2>3. FreshProblems = {}
    <3>1. snapshot.project \in Versions /\ None \notin Versions
      BY ConfigAssumption, RunAssumption DEF QuietInv, Finalization
    <3>2. ASSUME NEW g \in Generations, receipt[g] # None
          PROVE  Fresh(g) = receipt[g].accepted
      BY <3>1, <3>2 DEF Fresh, VerdictInv, ReceiptsOK, IsVerdict
    <3>3. QED
      BY <3>2 DEF FreshProblems
  <2>4. QED
    BY <2>1, <2>2, <2>3 DEF ReplayAccepts, InventoryHolds
<1>2. QED
  BY <1>1, QuietHolds, PTL
-------------------------------------------------------------------------------
(* The best directory. *)

\* Among finitely many generations one has the highest number, the earliest of those.
LEMMA TopExists ==
    ASSUME NEW T, T \subseteq Nat, IsFiniteSet(T), T # {},
           NEW f \in [T -> Nat]
    PROVE  \E g \in T : \A h \in T : f[g] > f[h] \/ (f[g] = f[h] /\ g <= h)
<1> DEFINE Top(S, g) == \A h \in S : f[g] > f[h] \/ (f[g] = f[h] /\ g <= h)
           Bad(S) == S # {} /\ ~ \E g \in S : Top(S, g)
           Sizes == {n \in Nat : \E S \in SUBSET T : Cardinality(S) = n /\ Bad(S)}
<1>1. Sizes = {}
  <2> SUFFICES ASSUME Sizes # {}
               PROVE  FALSE
    OBVIOUS
  <2>1. PICK n \in Sizes : \A k \in Sizes : n <= k
    <3>1. Sizes \subseteq Nat
      OBVIOUS
    <3> HIDE DEF Sizes
    <3>2. QED
      BY <3>1, Least
  <2>2. PICK S \in SUBSET T : Cardinality(S) = n /\ Bad(S)
    OBVIOUS
  <2>3. PICK x \in S : TRUE
    BY <2>2
  <2> DEFINE R == S \ {x}
  <2>4. /\ IsFiniteSet(S) /\ R \in SUBSET T /\ S = R \cup {x} /\ x \in T /\ x \notin R
        /\ Cardinality(R) = n - 1
    <3>1. IsFiniteSet(S)
      BY FS_Subset
    <3>2. Cardinality(R) = n - 1
      BY <2>2, <2>3, <3>1, FS_RemoveElement
    <3>3. QED
      BY <2>3, <3>1, <3>2
  <2>5. n \in Nat /\ n - 1 \notin Sizes /\ n - 1 \in Nat
    <3>1. n \in Nat /\ Cardinality(R) \in Nat
      BY <2>4, FS_Subset, FS_CardinalityType
    <3>2. ~ (n <= n - 1)
      BY <3>1
    <3> HIDE DEF Sizes
    <3>3. QED
      BY <2>1, <2>4, <3>1, <3>2
  <2>6. ~ Bad(R)
    <3> HIDE DEF R, Bad
    <3>1. QED
      BY <2>4, <2>5
  <2> HIDE DEF R
  <2>7. CASE R = {}
    <3>1. \A h \in S : h = x
      BY <2>4, <2>7
    <3>2. x \in Nat /\ f[x] \in Nat
      BY <2>4
    <3>3. QED
      BY <2>2, <2>3, <3>1, <3>2
  <2>8. CASE R # {}
    <3>1. PICK g \in R : Top(R, g)
      BY <2>6, <2>8
    <3>2. /\ g \in Nat /\ x \in Nat /\ f[g] \in Nat /\ f[x] \in Nat
          /\ \A h \in R : h \in Nat /\ f[h] \in Nat
      BY <2>4
    <3>3. CASE f[g] > f[x] \/ (f[g] = f[x] /\ g <= x)
      <4>1. Top(S, g)
        BY <2>4, <3>1, <3>3
      <4>2. QED
        BY <2>2, <2>4, <4>1
    <3>4. CASE ~ (f[g] > f[x] \/ (f[g] = f[x] /\ g <= x))
      <4>1. f[x] > f[g] \/ (f[x] = f[g] /\ x <= g)
        BY <3>2, <3>4
      <4>2. ASSUME NEW h \in R
            PROVE  f[x] > f[h] \/ (f[x] = f[h] /\ x <= h)
        <5>1. f[g] > f[h] \/ (f[g] = f[h] /\ g <= h)
          BY <3>1
        <5>2. h \in Nat /\ f[h] \in Nat
          BY <3>2
        <5>3. QED
          BY <3>2, <4>1, <5>1, <5>2
      <4>3. Top(S, x)
        BY <2>4, <3>2, <4>2
      <4>4. QED
        BY <2>2, <2>3, <4>3
    <3>5. QED
      BY <3>3, <3>4
  <2>9. QED
    BY <2>7, <2>8
<1>2. Cardinality(T) \in Nat
  BY FS_CardinalityType
<1>3. ~ Bad(T)
  <2> HIDE DEF Bad
  <2>1. QED
    BY <1>1, <1>2
<1>4. QED
  BY <1>3

LEMMA CreditIsFinite ==
    ASSUME ReceiptsOK, NEW g \in Generations
    PROVE  IsFiniteSet(Credit(g))
<1>1. CASE receipt[g] = None \/ receipt[g].ran = None
  <2>1. Credit(g) = {}
    BY <1>1 DEF Credit, ReceiptsOK, IsVerdict
  <2>2. QED
    BY <2>1, FS_EmptySet
<1>2. CASE receipt[g] # None /\ receipt[g].ran # None
  <2> DEFINE v == receipt[g].used
  <2>1. v \in Versions
        /\ Credit(g) = RunKernel(candidate[g], receipt[g].ran, v, receipt[g].reach)
    BY <1>2 DEF Credit, ReceiptsOK, IsVerdict
  <2> HIDE DEF v
  <2>2. Credit(g) \subseteq Goals(v)
    BY <2>1, KernelAcceptsGoals
  <2>3. IsFiniteSet(Goals(v))
    <3>1. Ladder[v] \in Seq(GoalNames)
      BY <2>1, ConfigAssumption DEF WellFormed
    <3>2. Ladder[v] \in Seq(Goals(v))
      BY <3>1 DEF Goals
    <3>3. \A s \in Goals(v) : \E n \in 1 .. Len(Ladder[v]) : Ladder[v][n] = s
      BY DEF Goals
    <3>4. QED
      BY <3>2, <3>3 DEF IsFiniteSet
  <2>4. QED
    BY <2>2, <2>3, FS_Subset
<1>3. QED
  BY <1>1, <1>2

\* The rows of the database belong to generations.
ProgramsOK == programs \in Seq([gen : Generations, parent : {None} \cup Generations])

LEMMA TopIsAGeneration ==
    ASSUME ReceiptsOK, ProgramsOK, Correct # {}
    PROVE  TopProgram \in Generations /\ TopProgram # None
<1>1. Correct \subseteq Generations
  <2>1. ASSUME NEW i \in DOMAIN programs
        PROVE  programs[i].gen \in Generations
    <3>1. programs[i] \in [gen : Generations, parent : {None} \cup Generations]
      <4> DEFINE Rows == [gen : Generations, parent : {None} \cup Generations]
      <4>1. programs \in Seq(Rows)
        BY DEF ProgramsOK
      <4> HIDE DEF Rows
      <4>2. programs[i] \in Rows
        BY <4>1
      <4>3. QED
        BY <4>2 DEF Rows
    <3>2. QED
      BY <3>1
  <2>2. QED
    BY <2>1 DEF Correct
<1>2. Generations \subseteq Nat /\ None \notin Nat /\ IsFiniteSet(Generations)
  <2>1. IsFiniteSet(1 .. MaxGenerations)
    BY RunAssumption, FS_Interval
  <2>2. QED
    BY <2>1, RunAssumption DEF Generations
<1>3. Correct \subseteq Nat /\ IsFiniteSet(Correct)
  BY <1>1, <1>2, FS_Subset
<1> DEFINE f == [g \in Correct |-> Cardinality(Credit(g))]
<1>4. f \in [Correct -> Nat]
  <2>1. ASSUME NEW g \in Correct
        PROVE  Cardinality(Credit(g)) \in Nat
    <3>1. IsFiniteSet(Credit(g))
      BY <1>1, CreditIsFinite
    <3>2. QED
      BY <3>1, FS_CardinalityType
  <2>2. QED
    BY <2>1
<1>5. \E g \in Correct : \A h \in Correct : f[g] > f[h] \/ (f[g] = f[h] /\ g <= h)
  <2> HIDE DEF f
  <2>1. QED
    BY <1>3, <1>4, TopExists
<1>6. \E g \in Correct : \A h \in Correct :
         \/ Cardinality(Credit(g)) > Cardinality(Credit(h))
         \/ Cardinality(Credit(g)) = Cardinality(Credit(h)) /\ g <= h
  BY <1>5
<1>7. TopProgram \in Correct
  BY <1>6 DEF TopProgram
<1>8. QED
  BY <1>1, <1>2, <1>7

Place == {None} \cup Generations

\* What is where at each point of a refresh.
BestInv ==
    /\ best \in [at : {"idle", "staged", "moved", "placed"}, dest : Place,
                 previous : Place, staging : Place, debris : BOOLEAN,
                 program : Place, due : BOOLEAN]
    /\ best.at \in {"idle", "staged"} => best.previous = None
    /\ best.at \in {"staged", "moved"} => best.staging # None
    /\ best.at = "placed" => best.dest # None

RefreshInv == VerdictInv /\ ProgramsOK /\ BestInv

LEMMA RefreshInit == Init => RefreshInv
<1> SUFFICES ASSUME Init
             PROVE  RefreshInv
  OBVIOUS
<1>1. ProgramsOK
  BY DEF Init, ProgramsOK
<1>2. BestInv
  BY DEF Init, NoBest, BestInv, Place
<1>3. QED
  BY <1>1, <1>2, VerdictInit DEF RefreshInv

LEMMA ProgramsStep == VerdictInv /\ ProgramsOK /\ [Next]_vars => ProgramsOK'
<1> SUFFICES ASSUME VerdictInv, ProgramsOK, [Next]_vars
             PROVE  ProgramsOK'
  OBVIOUS
<1>1. ASSUME NEW parent \in {None} \cup Generations, StoreProgram(parent)
      PROVE  ProgramsOK'
  <2>1. programs' = Append(programs, [gen |-> eval.gen, parent |-> parent])
        /\ eval.at = "done"
    BY <1>1 DEF StoreProgram
  <2>2. eval.gen \in Generations
    BY <2>1 DEF VerdictInv, EvalOK
  <2>3. [gen |-> eval.gen, parent |-> parent]
           \in [gen : Generations, parent : {None} \cup Generations]
    BY <2>2
  <2>4. QED
    BY <2>1, <2>3 DEF ProgramsOK
<1>2. CASE UNCHANGED programs
  BY <1>2 DEF ProgramsOK
<1>3. (\E parent \in {None} \cup Generations : StoreProgram(parent)) \/ UNCHANGED programs
  BY EvalSteps DEF Propose, CheckProject, WriteResults, EvaluatorLost, OrphanEnds, Judge,
                   evalVars
<1>4. QED
  BY <1>1, <1>2, <1>3

\* The action that BestSurvives is about.
KeepsBest == (best.dest # None \/ best.previous # None) =>
                /\ best'.dest # None \/ best'.previous # None
                /\ best'.at = "idle" => best'.dest # None

LEMMA BestStep == RefreshInv /\ [Next]_vars => BestInv' /\ KeepsBest
<1> SUFFICES ASSUME RefreshInv, [Next]_vars
             PROVE  BestInv' /\ KeepsBest
  OBVIOUS
<1>0. BestInv /\ ReceiptsOK /\ ProgramsOK
  BY DEF RefreshInv, VerdictInv
<1>1. ASSUME NEW parent \in {None} \cup Generations, StoreProgram(parent)
      PROVE  BestInv' /\ KeepsBest
  <2>1. best' = [best EXCEPT !.due = TRUE]
    BY <1>1 DEF StoreProgram
  <2>2. QED
    BY <1>0, <2>1 DEF BestInv, KeepsBest
<1>2. CASE StageBest
  <2>1. CASE best' = [best EXCEPT !.due = FALSE]
    BY <1>0, <2>1 DEF BestInv, KeepsBest
  <2>2. CASE Correct # {} /\ best.at = "idle"
             /\ best' = [best EXCEPT !.due = FALSE, !.at = "staged", !.staging = TopProgram]
    <3>1. TopProgram \in Place /\ TopProgram # None
      BY <1>0, <2>2, TopIsAGeneration DEF Place
    <3> HIDE DEF Place
    <3>2. QED
      BY <1>0, <2>2, <3>1 DEF BestInv, KeepsBest
  <2>3. CASE best' = [best EXCEPT !.due = FALSE, !.debris = TRUE]
    BY <1>0, <2>3 DEF BestInv, KeepsBest
  <2>4. QED
    BY <1>2, <2>1, <2>2, <2>3, Zenon DEF StageBest
<1>3. CASE MoveAway
  BY <1>0, <1>3 DEF MoveAway, BestInv, KeepsBest, Place
<1>4. CASE PlaceBest
  BY <1>0, <1>4 DEF PlaceBest, BestInv, KeepsBest, Place
<1>5. CASE DiscardPrevious
  BY <1>0, <1>5 DEF DiscardPrevious, BestInv, KeepsBest, Place
<1>6. CASE RefreshFails
  BY <1>0, <1>6 DEF RefreshFails, BestInv, KeepsBest, Place
<1>7. CASE UNCHANGED best
  BY <1>0, <1>7 DEF BestInv, KeepsBest
<1>8. QED
  BY <1>1, <1>2, <1>3, <1>4, <1>5, <1>6, <1>7, BestSteps

\* No moment, and no failure, between the renames of a refresh leaves the run without a
\* best directory once there was one.
THEOREM BestStays == Spec => BestSurvives
<1>1. RefreshInv /\ [Next]_vars => RefreshInv'
  BY VerdictStep, ProgramsStep, BestStep DEF RefreshInv
<1>2. RefreshInv /\ [Next]_vars => [KeepsBest]_vars
  BY BestStep
<1>3. Spec => [][KeepsBest]_vars
  BY <1>1, <1>2, RefreshInit, PTL DEF Spec
<1>4. [KeepsBest]_vars = [(best.dest # None \/ best.previous # None) =>
                            /\ best'.dest # None \/ best'.previous # None
                            /\ best'.at = "idle" => best'.dest # None]_vars
  BY DEF KeepsBest
<1>5. QED
  BY <1>3, <1>4, PTL DEF BestSurvives, KeepsBest
===============================================================================
