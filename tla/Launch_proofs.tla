----------------------------- MODULE Launch_proofs -----------------------------
(***************************************************************************)
(* Theorems about Launch, for any number of invocations side by side, any  *)
(* requests, machines and faults: what a runner may spend was agreed to,   *)
(* but for the rounding of a printed amount; a receipt that says ok belongs *)
(* to a campaign with goals, but for a runner that only checks; what a     *)
(* plan builds on stands; and where doctor says READY nothing stops a      *)
(* launch, but for the rounding of the free space.                         *)
(***************************************************************************)
EXTENDS Launch, SequenceTheorems, FiniteSetTheorems, WellFoundedInduction, TLAPS

Lacks(s, f) == ~HasFlag(s, f)

\* The flag f is given in s, once, with the value v.
Gives(s, f, v) == \E n \in DOMAIN s : /\ s[n].flag = f /\ s[n].value = v
                                      /\ \A m \in DOMAIN s : s[m].flag = f => m = n

Once(s, f) == \A m, n \in DOMAIN s : s[m].flag = f /\ s[n].flag = f => m = n

\* Wherever f is given in s, its value is one of V.
ValuesIn(s, f, V) == \A n \in DOMAIN s : s[n].flag = f => s[n].value \in V

-------------------------------------------------------------------------------
(* The inductive invariant.                                                *)

Ended == {"reporting", "opened", "written", "ended", "dead"}
Phases == {"idle", "begun", "loaded", "listed", "planned", "granted", "running",
           "configured", "emptied"} \cup Ended

Completed(d) == campaigns[d] # None /\ campaigns[d].status = "completed"

Table(f) == f = [i \in Invocations |-> f[i]]

\* The variables that are functions, and what the session of an invocation holds.
LaunchTypeOK ==
    /\ pc \in [Invocations -> Phases]
    /\ job \in [Invocations -> Requests \cup {None}]
    /\ runner \in [Invocations -> Runners \cup {None}]
    /\ campaigns \in [Directories -> Campaign \cup {None}]
    /\ Table(settings) /\ Table(plan) /\ Table(result) /\ Table(listed) /\ Table(draft)
    /\ Readable(local) /\ started \in Seq(Directories)

SessionInv(i) ==
    /\ pc[i] \in {"idle", "begun", "loaded", "listed"} => plan[i] = None
    /\ pc[i] # "idle" => job[i] \in Requests
    /\ pc[i] \in {"loaded", "listed"} =>
          settings[i].limit \in Nat /\ settings[i].route \in Seq(Int) \cup {None}
    /\ pc[i] \in {"configured", "emptied"} => job[i].task = "configure" /\ Readable(draft[i])
    /\ result[i] # None => pc[i] \in Ended
    /\ runner[i] # None => pc[i] \in {"running"} \cup Ended

\* What was read of the manifests stays true: a campaign is completed for good.
ListedInv(i) == pc[i] = "listed" =>
    /\ ~CostRefused(settings[i].limit, job[i].arguments)
    /\ ~ScheduleRefused(WithModel(settings[i].route, job[i].arguments))
    /\ \A d \in DOMAIN listed[i] :
          d \in Directories /\ (listed[i][d] = "completed" => Completed(d))

Agreed(i) == job[i].consent \in {"yes", "terminal"}

\* What a command costs that a plan hands over, for these arguments.
Affordable(p, arguments) ==
    LET spend == Parsed(p.command, Workflow.cost)[1] * Chunks(p.command)
    IN  /\ spend \in Nat /\ p.ceiling \in Nat
        /\ spend <= p.ceiling + p.ceiling \div 200000
        /\ HasFlag(arguments, Workflow.cost) \/ Printed(p.perChunk) = {p.perChunk} =>
              spend <= p.ceiling
        /\ spend > 0 => p.ceiling > 0

WithinCeiling(i) ==
    ~RepeatsAFlag(job[i].arguments) /\ Workflow.cost # None =>
        Affordable(plan[i], job[i].arguments)

PlanInv(i) ==
    plan[i] # None \/ pc[i] \in {"planned", "granted", "running"} \/ runner[i] # None =>
        /\ Workflow.results # None =>
              /\ Directory(i) \in Directories
              /\ Lacks(job[i].arguments, Workflow.results) => Directory(i) = i
        /\ WithinCeiling(i)
        /\ plan[i].inherited # None => /\ plan[i].inherited \in Directories
                                       /\ Completed(plan[i].inherited)
                                       /\ campaigns[plan[i].inherited].lineage = "complete"

ConsentInv(i) == pc[i] = "granted" \/ runner[i] # None => ~Spends(i) \/ Agreed(i)

\* A runner that searches has its directory for itself.
RunnerInv(i) ==
    /\ runner[i] = "searching" =>
          /\ Workflow.results # None
          /\ campaigns[Directory(i)] # None /\ campaigns[Directory(i)].status = "running"
          /\ \A j \in Invocations :
                runner[j] = "searching" /\ Directory(j) = Directory(i) => j = i
    /\ runner[i] = "succeeded" =>
          Workflow.results = None \/ ChecksOnly(plan[i].command) \/ Completed(Directory(i))

\* A run that searches, where the launcher looks for its campaign.
Searches(i) == /\ Workflow.results # None /\ Lacks(job[i].arguments, Workflow.results)
               /\ ~ChecksOnly(plan[i].command)

ResultInv(i) ==
    result[i] = "ok" /\ job[i].task = "run" /\ Searches(i) => Completed(i) /\ campaigns[i].goals

\* A file belongs to the task of the invocation that it is named after, and so does
\* whoever writes to it.
FilesOf(f) == \A t \in Tasks :
    f[t] # None => f[t] \in Invocations /\ pc[f[t]] # "idle" /\ job[f[t]].task = t

ReceiptInv ==
    /\ staged \in [Tasks -> Invocations \cup {None}] /\ FilesOf(staged)
    /\ filed \in [Tasks -> Invocations \cup {None}] /\ FilesOf(filed)
    /\ handle \in [Invocations -> Invocations \cup {None}]
    /\ inodes \in [Invocations -> Invocations \cup {Empty, Mixed}]
    /\ \A i \in Invocations :
          /\ pc[i] \in {"opened", "written"} => handle[i] # None
          /\ handle[i] # None => /\ pc[i] \in {"opened", "written", "ended", "dead"}
                                 /\ pc[handle[i]] # "idle"
                                 /\ job[i].task = job[handle[i]].task
          /\ inodes[i] \in Invocations => handle[inodes[i]] = i

LaunchInv == /\ LaunchTypeOK /\ ReceiptInv
             /\ \A i \in Invocations :
                   /\ SessionInv(i) /\ ListedInv(i) /\ PlanInv(i) /\ ConsentInv(i)
                   /\ RunnerInv(i) /\ ResultInv(i)

-------------------------------------------------------------------------------
(* Flags of a command.                                                     *)

LEMMA CommandFacts ==
    ASSUME NEW s \in Arguments
    PROVE  /\ Len(s) \in Nat /\ DOMAIN s = 1 .. Len(s)
           /\ \A n \in DOMAIN s : s[n].flag \in STRING /\ s[n].value \in Seq(Int)
<1> DEFINE A == [flag : STRING, value : Seq(Int)]
<1>1. s \in Seq(A)
  BY DEF Arguments
<1>2. \A a \in A : a.flag \in STRING /\ a.value \in Seq(Int)
  OBVIOUS
<1> HIDE DEF A
<1>3. Len(s) \in Nat /\ DOMAIN s = 1 .. Len(s) /\ s \in [1 .. Len(s) -> A]
  BY <1>1, LenProperties
<1>4. QED
  BY <1>2, <1>3

LEMMA ArgFacts ==
    ASSUME NEW f \in STRING, NEW v \in Seq(Int)
    PROVE  /\ Arg(f, v) \in [flag : STRING, value : Seq(Int)]
           /\ Arg(f, v).flag = f /\ Arg(f, v).value = v
  BY DEF Arg

\* The smallest and the largest element of a set of indices.
LEMMA Least == ASSUME NEW T, T \subseteq Nat, T # {}
               PROVE  Min(T) \in T /\ \A y \in T : Min(T) <= y
<1> DEFINE R == {ss \in Nat \X Nat : ss[1] < ss[2]}
<1>1. IsWellFoundedOn(R, Nat)
  BY NatLessThanWellFounded DEF OpToRel
<1>2. PICK x \in T : \A y \in T : ~ (<<y, x>> \in R)
  <2> HIDE DEF R
  <2>1. QED
    BY <1>1, WFMin, Zenon
<1>3. ASSUME NEW y \in T PROVE x <= y
  <2>1. x \in Nat /\ y \in Nat /\ <<y, x>> \in Nat \X Nat
    OBVIOUS
  <2>2. ~ (y < x)
    BY <1>2, <2>1
  <2>3. QED
    BY <2>1, <2>2
<1>4. QED
  BY <1>3 DEF Min

LEMMA Greatest == ASSUME NEW n \in Nat, NEW T, T \subseteq 1 .. n, T # {}
                  PROVE  Max(T) \in T /\ \A y \in T : y <= Max(T)
<1> DEFINE U == {n - x : x \in T}
<1>1. \A x \in T : x \in Nat /\ x <= n /\ n - x \in Nat
  OBVIOUS
<1>2. Min(U) \in U /\ \A y \in U : Min(U) <= y
  <2>1. U \subseteq Nat /\ U # {}
    BY <1>1
  <2> HIDE DEF U
  <2>2. QED
    BY <2>1, Least
<1>3. PICK x \in T : Min(U) = n - x
  BY <1>2
<1>4. ASSUME NEW y \in T PROVE x >= y
  <2>1. n - x <= n - y
    BY <1>2, <1>3
  <2>2. QED
    BY <1>1, <2>1
<1>5. Max(T) \in T /\ \A y \in T : Max(T) >= y
  BY <1>4 DEF Max
<1>6. QED
  BY <1>1, <1>5

LEMMA FirstValue ==
    ASSUME NEW s \in Arguments, NEW f
    PROVE  /\ Lacks(s, f) => FlagValue(s, f) = None
           /\ HasFlag(s, f) => \E n \in DOMAIN s : s[n].flag = f /\ FlagValue(s, f) = s[n].value
<1> DEFINE I == {n \in 1 .. Len(s) : s[n].flag = f}
<1>1. Len(s) \in Nat /\ DOMAIN s = 1 .. Len(s)
  BY CommandFacts
<1>2. ASSUME HasFlag(s, f)
      PROVE  \E n \in DOMAIN s : s[n].flag = f /\ FlagValue(s, f) = s[n].value
  <2>1. I # {} /\ I \subseteq Nat
    BY <1>1, <1>2 DEF HasFlag
  <2>2. Min(I) \in I
    BY <2>1, Least
  <2>3. FlagValue(s, f) = s[Min(I)].value
    BY <1>2, <2>1 DEF FlagValue, SelectInSeq
  <2>4. QED
    BY <1>1, <2>2, <2>3
<1>3. QED
  BY <1>2 DEF FlagValue, Lacks

LEMMA LastValue ==
    ASSUME NEW s \in Arguments, NEW f, HasFlag(s, f)
    PROVE  \E n \in DOMAIN s : /\ s[n].flag = f /\ Parsed(s, f) = s[n].value
                               /\ \A m \in DOMAIN s : s[m].flag = f => m <= n
<1> DEFINE I == {n \in 1 .. Len(s) : s[n].flag = f}
<1>1. Len(s) \in Nat /\ DOMAIN s = 1 .. Len(s)
  BY CommandFacts
<1>2. I # {} /\ I \subseteq 1 .. Len(s)
  BY <1>1 DEF HasFlag
<1>3. Max(I) \in I /\ \A y \in I : y <= Max(I)
  BY <1>1, <1>2, Greatest
<1>4. Parsed(s, f) = s[Max(I)].value
  BY <1>2 DEF Parsed, SelectLastInSeq
<1>5. QED
  BY <1>1, <1>3, <1>4

\* A flag that is given once has one value for everybody who reads the command.
LEMMA OneValue ==
    ASSUME NEW s \in Arguments, NEW f, NEW v, Gives(s, f, v)
    PROVE  HasFlag(s, f) /\ FlagValue(s, f) = v /\ Parsed(s, f) = v
<1>1. HasFlag(s, f)
  BY DEF Gives, HasFlag
<1>2. QED
  BY <1>1, FirstValue, LastValue DEF Gives

LEMMA GivenOnce ==
    ASSUME NEW s \in Arguments, NEW f, Once(s, f)
    PROVE  Lacks(s, f) \/ \E v \in Seq(Int) : Gives(s, f, v)
  BY CommandFacts DEF Once, Lacks, HasFlag, Gives

LEMMA ParsedIn ==
    ASSUME NEW s \in Arguments, NEW f, HasFlag(s, f), NEW V, ValuesIn(s, f, V)
    PROVE  Parsed(s, f) \in V
  BY LastValue DEF ValuesIn

\* What a command says of a flag when another argument is added.
LEMMA Appended ==
    ASSUME NEW s \in Arguments, NEW a \in [flag : STRING, value : Seq(Int)], NEW f
    PROVE  /\ Append(s, a) \in Arguments
           /\ \A v : Gives(s, f, v) /\ a.flag # f => Gives(Append(s, a), f, v)
           /\ Lacks(s, f) /\ a.flag = f => Gives(Append(s, a), f, a.value)
           /\ Lacks(Append(s, a), f) <=> Lacks(s, f) /\ a.flag # f
           /\ \A V : ValuesIn(s, f, V) /\ (a.flag = f => a.value \in V)
                        => ValuesIn(Append(s, a), f, V)
<1> DEFINE t == Append(s, a)
<1>1. Len(s) \in Nat /\ DOMAIN s = 1 .. Len(s)
  BY CommandFacts
<1>2. /\ t \in Arguments /\ DOMAIN t = 1 .. Len(s) + 1
      /\ t[Len(s) + 1] = a /\ \A n \in 1 .. Len(s) : t[n] = s[n]
  BY <1>1, AppendProperties DEF Arguments
<1> HIDE DEF t
<1>3. \A n \in DOMAIN t : n \in DOMAIN s \/ n = Len(s) + 1
  BY <1>1, <1>2
<1>4. DOMAIN s \subseteq DOMAIN t /\ Len(s) + 1 \in DOMAIN t
  BY <1>1, <1>2
<1>5. \A v : Gives(s, f, v) /\ a.flag # f => Gives(t, f, v)
  BY <1>1, <1>2, <1>3, <1>4 DEF Gives
<1>6. Lacks(s, f) /\ a.flag = f => Gives(t, f, a.value)
  BY <1>1, <1>2, <1>3, <1>4 DEF Lacks, HasFlag, Gives
<1>7. Lacks(t, f) <=> Lacks(s, f) /\ a.flag # f
  BY <1>1, <1>2, <1>3, <1>4 DEF Lacks, HasFlag
<1>8. \A V : ValuesIn(s, f, V) /\ (a.flag = f => a.value \in V) => ValuesIn(t, f, V)
  BY <1>1, <1>2, <1>3, <1>4 DEF ValuesIn
<1>9. QED
  BY <1>2, <1>5, <1>6, <1>7, <1>8 DEF t

\* t is s, where w may have been added as the value of g: what else s says of a flag
\* stands.
Extension(s, t, g, w) ==
    /\ t \in Arguments
    /\ \A f :
          /\ \A v : Gives(s, f, v) => Gives(t, f, v)
          /\ Lacks(s, f) /\ f # g => Lacks(t, f)
          /\ \A V : ValuesIn(s, f, V) /\ (f = g => w \in V) => ValuesIn(t, f, V)

LEMMA SuppliedKeeps ==
    ASSUME NEW s \in Arguments, NEW g \in STRING \cup {None}, NEW w \in Seq(Int) \cup {None}
    PROVE  Extension(s, Supplied(s, g, w), g, w)
<1> SUFFICES ASSUME NEW f
    PROVE  /\ Supplied(s, g, w) \in Arguments
           /\ \A v : Gives(s, f, v) => Gives(Supplied(s, g, w), f, v)
           /\ Lacks(s, f) /\ f # g => Lacks(Supplied(s, g, w), f)
           /\ \A V : ValuesIn(s, f, V) /\ (f = g => w \in V)
                        => ValuesIn(Supplied(s, g, w), f, V)
  BY DEF Extension
<1>1. CASE g = None \/ w = None \/ HasFlag(s, g)
  BY <1>1 DEF Supplied
<1>2. CASE g # None /\ w # None /\ Lacks(s, g)
  <2> DEFINE a == Arg(g, w)
  <2>1. a \in [flag : STRING, value : Seq(Int)] /\ a.flag = g /\ a.value = w
    BY <1>2, ArgFacts
  <2>2. Supplied(s, g, w) = Append(s, a)
    BY <1>2 DEF Supplied, Lacks
  <2>3. ASSUME NEW v, Gives(s, f, v) PROVE f # g
    BY <1>2, <2>3, OneValue DEF Lacks
  <2> DEFINE t == Append(s, a)
  <2> HIDE DEF a
  <2>4. /\ t \in Arguments
        /\ \A v : Gives(s, f, v) /\ g # f => Gives(t, f, v)
        /\ Lacks(t, f) <=> Lacks(s, f) /\ g # f
        /\ \A V : ValuesIn(s, f, V) /\ (g = f => w \in V) => ValuesIn(t, f, V)
    BY <2>1, Appended
  <2> HIDE DEF t
  <2>5. Supplied(s, g, w) = t
    BY <2>2 DEF t
  <2>6. QED
    BY <2>3, <2>4, <2>5 DEF Lacks
<1>3. QED
  BY <1>1, <1>2 DEF Lacks

LEMMA SuppliedGives ==
    ASSUME NEW s \in Arguments, NEW f \in STRING, NEW w \in Seq(Int), f # None, w # None
    PROVE  /\ Lacks(s, f) => Gives(Supplied(s, f, w), f, w)
           /\ HasFlag(Supplied(s, f, w), f)
<1>1. ASSUME Lacks(s, f) PROVE Gives(Supplied(s, f, w), f, w)
  <2> DEFINE a == Arg(f, w)
  <2>1. Supplied(s, f, w) = Append(s, a)
    BY <1>1 DEF Supplied, Lacks
  <2>2. a \in [flag : STRING, value : Seq(Int)] /\ a.flag = f /\ a.value = w
    BY ArgFacts
  <2> HIDE DEF a
  <2>3. Gives(Append(s, a), f, w)
    BY <1>1, <2>2, Appended
  <2>4. QED
    BY <2>1, <2>3
<1>2. HasFlag(s, f) => HasFlag(Supplied(s, f, w), f)
  BY DEF Supplied
<1>3. QED
  BY <1>1, <1>2 DEF Lacks, Gives, HasFlag

\* The command of the workflow says nothing of the flags that matter here.
Free(f) == Lacks(Workflow.command, f)

LEMMA GivenFacts ==
    ASSUME NEW arguments \in Arguments, NEW f, Free(f)
    PROVE  /\ Given(arguments) \in Arguments
           /\ Once(arguments, f) => Once(Given(arguments), f)
           /\ \A v : Gives(arguments, f, v) => Gives(Given(arguments), f, v)
           /\ Lacks(arguments, f) => Lacks(Given(arguments), f)
           /\ \A V : ValuesIn(arguments, f, V) => ValuesIn(Given(arguments), f, V)
<1> DEFINE c == Workflow.command
           t == c \o arguments
<1>1. c \in Arguments
  BY PlanAssumption
<1>2. /\ Len(c) \in Nat /\ DOMAIN c = 1 .. Len(c)
      /\ Len(arguments) \in Nat /\ DOMAIN arguments = 1 .. Len(arguments)
  BY <1>1, CommandFacts
<1>3. /\ t \in Arguments /\ Len(t) = Len(c) + Len(arguments)
      /\ \A n \in 1 .. Len(t) : t[n] = IF n <= Len(c) THEN c[n] ELSE arguments[n - Len(c)]
  BY <1>1, ConcatProperties DEF Arguments
<1>4. DOMAIN t = 1 .. Len(t)
  BY <1>3, CommandFacts
<1> HIDE DEF c, t
<1>5. \A n \in DOMAIN c : c[n].flag # f
  BY DEF Free, Lacks, HasFlag, c
<1>6. ASSUME NEW n \in DOMAIN t, t[n].flag = f
      PROVE  n - Len(c) \in DOMAIN arguments /\ t[n] = arguments[n - Len(c)] /\ n \in Nat
  BY <1>2, <1>3, <1>4, <1>5, <1>6
<1>7. \A m \in DOMAIN arguments : m + Len(c) \in DOMAIN t /\ t[m + Len(c)] = arguments[m]
  BY <1>2, <1>3, <1>4
<1>8. Once(arguments, f) => Once(t, f)
  <2> SUFFICES ASSUME Once(arguments, f),
                      NEW m \in DOMAIN t, NEW n \in DOMAIN t, t[m].flag = f, t[n].flag = f
               PROVE  m = n
    BY DEF Once
  <2>1. m - Len(c) = n - Len(c) /\ m \in Nat /\ n \in Nat
    BY <1>6 DEF Once
  <2>2. QED
    BY <1>2, <2>1
<1>9. ASSUME NEW v, Gives(arguments, f, v) PROVE Gives(t, f, v)
  <2>1. PICK n \in DOMAIN arguments : /\ arguments[n].flag = f /\ arguments[n].value = v
                                     /\ \A m \in DOMAIN arguments : arguments[m].flag = f => m = n
    BY <1>9 DEF Gives
  <2>2. \A m \in DOMAIN t : t[m].flag = f => m = n + Len(c)
    BY <1>2, <1>6, <2>1
  <2>3. QED
    BY <1>7, <2>1, <2>2 DEF Gives
<1>10. Lacks(arguments, f) => Lacks(t, f)
  BY <1>6 DEF Lacks, HasFlag
<1>11. \A V : ValuesIn(arguments, f, V) => ValuesIn(t, f, V)
  BY <1>6 DEF ValuesIn
<1>12. Given(arguments) = t
  BY DEF Given, c, t
<1>13. QED
  BY <1>3, <1>8, <1>9, <1>10, <1>11, <1>12

\* The loop of build_plan over the defaults, a recursive function.
Filling(c, n, g) ==
    g = [k \in 0 .. n |->
            IF k = 0 THEN c
            ELSE IF HasFlag(g[k - 1], Workflow.defaults[k].flag) THEN g[k - 1]
            ELSE Append(g[k - 1], Workflow.defaults[k])]

\* There is such a function, for every number of defaults.
LEMMA FillingExists ==
    ASSUME NEW c, NEW n \in Nat
    PROVE  \E g : Filling(c, n, g)
<1> DEFINE T == {k \in Nat : ~ \E g : Filling(c, k, g)}
<1>1. T = {}
  <2>1. SUFFICES ASSUME T # {} PROVE FALSE
    OBVIOUS
  <2>2. PICK m \in T : \A y \in T : m <= y
    <3>1. T \subseteq Nat
      OBVIOUS
    <3> HIDE DEF T
    <3>2. QED
      BY <2>1, <3>1, Least
  <2>3. m \in Nat /\ ~ \E g : Filling(c, m, g)
    OBVIOUS
  <2>4. CASE m = 0
    <3> DEFINE g == [k \in 0 .. 0 |-> c]
    <3>1. g = [k \in 0 .. 0 |->
                 IF k = 0 THEN c
                 ELSE IF HasFlag(g[k - 1], Workflow.defaults[k].flag) THEN g[k - 1]
                 ELSE Append(g[k - 1], Workflow.defaults[k])]
      OBVIOUS
    <3>2. QED
      BY <2>3, <2>4, <3>1 DEF Filling
  <2>5. CASE m # 0
    <3>1. m - 1 \in Nat /\ m - 1 \notin T
      BY <2>2, <2>3, <2>5
    <3>2. PICK h : Filling(c, m - 1, h)
      BY <3>1
    <3> DEFINE d == Workflow.defaults
               Next1(x, k) == IF HasFlag(x, d[k].flag) THEN x ELSE Append(x, d[k])
               g == [k \in 0 .. m |-> IF k = m THEN Next1(h[m - 1], m) ELSE h[k]]
    <3>3. \A k \in 0 .. m - 1 : h[k] = IF k = 0 THEN c ELSE Next1(h[k - 1], k)
      BY <3>2 DEF Filling
    <3> HIDE DEF Next1
    <3>4. \A k \in 0 .. m : g[k] = IF k = 0 THEN c ELSE Next1(g[k - 1], k)
      BY <2>3, <2>5, <3>3
    <3>5. g = [k \in 0 .. m |-> IF k = 0 THEN c ELSE Next1(g[k - 1], k)]
      BY <3>4
    <3>6. Filling(c, m, g)
      BY <3>5 DEF Filling, Next1
    <3>7. QED
      BY <2>3, <3>6
  <2>6. QED
    BY <2>4, <2>5
<1>2. QED
  BY <1>1

\* What holds of a command and survives the addition of a default that is missing
\* holds of the command with the defaults.
LEMMA DefaultsFill ==
    ASSUME NEW arguments \in Arguments
    PROVE  \E g : /\ Filling(Given(arguments), Len(Workflow.defaults), g)
                  /\ WithDefaults(arguments) = g[Len(Workflow.defaults)]
<1> DEFINE d == Workflow.defaults
           c == Given(arguments)
           g == CHOOSE g : g = [k \in 0 .. Len(d) |->
                   IF k = 0 THEN c
                   ELSE IF HasFlag(g[k - 1], d[k].flag) THEN g[k - 1]
                   ELSE Append(g[k - 1], d[k])]
<1>1. Len(d) \in Nat
  BY PlanAssumption, CommandFacts
<1>2. \E f : Filling(c, Len(d), f)
  BY <1>1, FillingExists
<1>3. Filling(c, Len(d), g)
  BY <1>2 DEF Filling
<1>4. WithDefaults(arguments) = g[Len(d)]
  BY DEF WithDefaults
<1>5. QED
  BY <1>3, <1>4

\* The properties of a command that the defaults leave alone.
LEMMA DefaultsKeep ==
    ASSUME NEW arguments \in Arguments, NEW f, Free(f),
           NEW c, c = WithDefaults(arguments)
    PROVE  /\ c \in Arguments
           /\ Once(arguments, f) => Once(c, f)
           /\ Lacks(Workflow.defaults, f) =>
                /\ \A v : Gives(arguments, f, v) => Gives(c, f, v)
                /\ Lacks(arguments, f) => Lacks(c, f)
                /\ \A V : ValuesIn(arguments, f, V) => ValuesIn(c, f, V)
<1> DEFINE d == Workflow.defaults
           b == Given(arguments)
           Good(s) ==
              /\ s \in Arguments
              /\ Once(arguments, f) => Once(s, f)
              /\ Lacks(d, f) =>
                   /\ \A v : Gives(arguments, f, v) => Gives(s, f, v)
                   /\ Lacks(arguments, f) => Lacks(s, f)
                   /\ \A V : ValuesIn(arguments, f, V) => ValuesIn(s, f, V)
<1>1. /\ d \in Arguments /\ Len(d) \in Nat /\ DOMAIN d = 1 .. Len(d)
      /\ \A k \in DOMAIN d : d[k] \in [flag : STRING, value : Seq(Int)]
  <2>1. d \in Arguments
    BY PlanAssumption
  <2>2. Len(d) \in Nat /\ DOMAIN d = 1 .. Len(d)
    BY <2>1, CommandFacts
  <2>3. \A k \in 1 .. Len(d) : d[k] \in [flag : STRING, value : Seq(Int)]
    BY <2>1, ElementOfSeq DEF Arguments
  <2>4. QED
    BY <2>1, <2>2, <2>3
<1>2. PICK g : Filling(b, Len(d), g) /\ WithDefaults(arguments) = g[Len(d)]
  BY DefaultsFill
<1>3. Good(b)
  BY GivenFacts
<1>4. ASSUME NEW s, Good(s), NEW k \in DOMAIN d
      PROVE  Good(IF HasFlag(s, d[k].flag) THEN s ELSE Append(s, d[k]))
  <2> DEFINE a == d[k]
             t == Append(s, a)
  <2>1. a \in [flag : STRING, value : Seq(Int)]
    BY <1>1
  <2>2. /\ t \in Arguments
        /\ \A v : Gives(s, f, v) /\ a.flag # f => Gives(t, f, v)
        /\ Lacks(s, f) /\ a.flag = f => Gives(t, f, a.value)
        /\ Lacks(t, f) <=> Lacks(s, f) /\ a.flag # f
        /\ \A V : ValuesIn(s, f, V) /\ (a.flag = f => a.value \in V) => ValuesIn(t, f, V)
    <3> HIDE DEF a
    <3>1. QED
      BY <1>4, <2>1, Appended
  <2>3. Lacks(d, f) => a.flag # f
    BY DEF Lacks, HasFlag
  <2> HIDE DEF a, t
  <2>4. ASSUME Lacks(s, a.flag), Once(arguments, f) PROVE Once(t, f)
    <3>1. Lacks(s, f) \/ \E v \in Seq(Int) : Gives(s, f, v)
      BY <1>4, <2>4, GivenOnce
    <3>2. ASSUME NEW v, Gives(s, f, v) PROVE Once(t, f)
      <4>1. a.flag # f
        BY <1>4, <2>4, <3>2, OneValue DEF Lacks
      <4>2. Gives(t, f, v)
        BY <2>2, <3>2, <4>1
      <4>3. QED
        BY <4>2 DEF Gives, Once
    <3>3. ASSUME Lacks(s, f) PROVE Once(t, f)
      <4>1. Gives(t, f, a.value) \/ Lacks(t, f)
        BY <2>2, <3>3
      <4>2. QED
        BY <4>1 DEF Gives, Lacks, HasFlag, Once
    <3>4. QED
      BY <3>1, <3>2, <3>3
  <2>5. Lacks(s, a.flag) => Good(t)
    BY <1>4, <2>2, <2>3, <2>4
  <2> HIDE DEF Good
  <2>6. QED
    BY <1>4, <2>5 DEF Lacks, a, t
<1> HIDE DEF Good
<1> DEFINE T == {k \in 0 .. Len(d) : ~Good(g[k])}
<1>5. T = {}
  <2>1. SUFFICES ASSUME T # {} PROVE FALSE
    OBVIOUS
  <2>2. PICK m \in T : \A y \in T : m <= y
    <3>1. T \subseteq Nat
      BY <1>1
    <3> HIDE DEF T
    <3>2. QED
      BY <2>1, <3>1, Least
  <2>3. m \in 0 .. Len(d) /\ ~Good(g[m])
    OBVIOUS
  <2>4. CASE m = 0
    <3>1. g[0] = b
      BY <1>1, <1>2 DEF Filling
    <3>2. QED
      BY <1>3, <2>3, <2>4, <3>1
  <2>5. CASE m # 0
    <3>1. m - 1 \in 0 .. Len(d) /\ m \in DOMAIN d
      BY <1>1, <2>3, <2>5
    <3>2. Good(g[m - 1])
      <4>1. m - 1 \notin T
        BY <2>2, <2>3, <3>1
      <4>2. QED
        BY <3>1, <4>1
    <3>3. g[m] = IF HasFlag(g[m - 1], d[m].flag) THEN g[m - 1] ELSE Append(g[m - 1], d[m])
      BY <1>2, <2>3, <2>5 DEF Filling
    <3>4. QED
      BY <1>4, <2>3, <3>1, <3>2, <3>3
  <2>6. QED
    BY <2>4, <2>5
<1>6. Good(c)
  <2>1. Len(d) \in 0 .. Len(d)
    BY <1>1
  <2>2. Good(g[Len(d)])
    BY <1>5, <2>1
  <2>3. QED
    BY <1>2, <2>2
<1>7. QED
  BY <1>6 DEF Good

-------------------------------------------------------------------------------
(* The plan.                                                               *)

\* The flags of a schedule.
Asking == {"--spotlight"} \cup IF Workflow.schedule = None THEN {} ELSE {Workflow.schedule.flag}

LEMMA FlagFacts ==
    /\ Workflow.results \in STRING \cup {None} /\ Free(Workflow.results)
    /\ Lacks(Workflow.defaults, Workflow.results)
    /\ Workflow.cost \in STRING \cup {None} /\ Workflow.model \in STRING \cup {None}
    /\ Workflow.cost # None => /\ Free(Workflow.cost) /\ Lacks(Workflow.defaults, Workflow.cost)
                               /\ Workflow.cost # Workflow.results
                               /\ Workflow.cost # Workflow.model
    /\ Workflow.results # None => Workflow.results # Workflow.model
    /\ \A f \in Asking : /\ Lacks(Workflow.command, f)
                         /\ f \notin {Workflow.cost, Workflow.results, Workflow.model}
    /\ "--spotlight" \in Asking
    /\ Workflow.schedule # None => Workflow.schedule.flag \in Asking
  BY PlanAssumption DEF Free, Lacks, Asking

LEMMA AmountFacts ==
    ASSUME NEW limit \in Nat, NEW arguments \in Arguments, ~CostRefused(limit, arguments)
    PROVE  /\ Workflow.cost = None => PerChunk(limit, arguments) = None
           /\ Workflow.cost # None =>
                /\ PerChunk(limit, arguments) \in Nat
                /\ HasFlag(arguments, Workflow.cost) =>
                      FlagValue(arguments, Workflow.cost) = <<PerChunk(limit, arguments)>>
<1> DEFINE v == FlagValue(arguments, Workflow.cost)
<1>1. CASE Workflow.cost = None
  BY <1>1 DEF PerChunk
<1>2. CASE Workflow.cost # None /\ Lacks(arguments, Workflow.cost)
  BY <1>2, FirstValue DEF PerChunk, Lacks
<1>3. CASE Workflow.cost # None /\ HasFlag(arguments, Workflow.cost)
  <2>1. PICK amount \in 0 .. limit : v = <<amount>>
    <3>1. Len(v) = 1 /\ v[1] \in 0 .. limit
      BY <1>3 DEF CostRefused
    <3>2. v \in Seq(Int)
      BY <1>3, FirstValue, CommandFacts
    <3> HIDE DEF v
    <3>3. v = <<v[1]>>
      BY <3>1, <3>2
    <3>4. QED
      BY <3>1, <3>3
  <2>2. v # None
    <3>1. v \in Seq(Int)
      BY <2>1
    <3>2. QED
      BY <3>1, PlanAssumption
  <2>3. PerChunk(limit, arguments) = amount /\ amount \in Nat
    BY <1>3, <2>1, <2>2 DEF PerChunk
  <2>4. QED
    BY <1>3, <2>1, <2>3
<1>4. QED
  BY <1>1, <1>2, <1>3 DEF Lacks

\* The amount that the user gave, or the limit as it is printed.
Handed(s, arguments, printed) ==
    IF HasFlag(arguments, Workflow.cost) THEN PerChunk(s.limit, arguments) ELSE printed

\* What build_plan hands over, c: the amount, the directory, and the schedule as it was
\* read from base.
HandsOver(s, arguments, dir, printed, base, c) ==
    /\ base \in Arguments /\ c \in Arguments
    /\ Workflow.results # None =>
         /\ HasFlag(c, Workflow.results)
         /\ Lacks(arguments, Workflow.results) => Parsed(c, Workflow.results) = dir
         /\ \A V : ValuesIn(arguments, Workflow.results, V) /\ dir \in V =>
                      Parsed(c, Workflow.results) \in V
    /\ Workflow.cost # None /\ Once(arguments, Workflow.cost) =>
         Parsed(c, Workflow.cost) = <<Handed(s, arguments, printed)>>
    /\ \A f \in Asking : Once(arguments, f) =>
         /\ Once(base, f)
         /\ Lacks(base, f) => Lacks(c, f)
         /\ \A v : Gives(base, f, v) => Gives(c, f, v)

LEMMA PlanCommand ==
    ASSUME NEW s, s.limit \in Nat, s.route \in Seq(Int) \cup {None},
           NEW arguments \in Arguments, ~CostRefused(s.limit, arguments),
           NEW dir \in Seq(Int), NEW inherited, NEW printed \in Int
    PROVE  HandsOver(s, arguments, dir, printed, WithModel(s.route, arguments),
                     Plan(s, arguments, dir, inherited, printed).command)
<1> DEFINE base == WithModel(s.route, arguments)
           c == Plan(s, arguments, dir, inherited, printed).command
<1> DEFINE full == WithDefaults(arguments)
           perChunk == PerChunk(s.limit, arguments)
           cost == IF perChunk = None THEN None ELSE <<printed>>
           mid == Supplied(base, Workflow.cost, cost)
           res == Workflow.results
<1>1. base = Supplied(full, Workflow.model, s.route)
  BY DEF WithModel
<1>2. c = Supplied(mid, res, dir)
  BY DEF Plan
<1> HIDE DEF base, c
<1>3. cost \in Seq(Int) \cup {None}
  <2>1. <<printed>> \in Seq(Int)
    OBVIOUS
  <2>2. QED
    BY <2>1
<1>4. dir # None
  BY PlanAssumption
<1>5. res \in STRING \cup {None}
  BY FlagFacts
<1>6. full \in Arguments
  BY FlagFacts, DefaultsKeep
<1> HIDE DEF full
<1>7. base \in Arguments /\ Extension(full, base, Workflow.model, s.route)
  <2>1. Extension(full, base, Workflow.model, s.route)
    <3>1. Workflow.model \in STRING \cup {None}
      BY FlagFacts
    <3>2. QED
      BY <1>1, <1>6, <3>1, SuppliedKeeps
  <2>2. QED
    BY <2>1 DEF Extension
<1> HIDE DEF cost, mid
<1>8. mid \in Arguments /\ Extension(base, mid, Workflow.cost, cost)
  <2>1. Extension(base, mid, Workflow.cost, cost)
    <3>1. Workflow.cost \in STRING \cup {None}
      BY FlagFacts
    <3>2. QED
      BY <1>3, <1>7, <3>1, SuppliedKeeps DEF mid
  <2>2. QED
    BY <2>1 DEF Extension
<1> HIDE DEF perChunk
<1>9. c \in Arguments /\ Extension(mid, c, res, dir) /\ (res # None => HasFlag(c, res))
  <2>1. Extension(mid, c, res, dir)
    BY <1>2, <1>5, <1>8, SuppliedKeeps
  <2>2. res # None => HasFlag(c, res)
    BY <1>2, <1>4, <1>5, <1>8, SuppliedGives
  <2>3. QED
    BY <2>1, <2>2 DEF Extension
<1>10. res # None => res # Workflow.model /\ res # Workflow.cost
  BY FlagFacts
<1>11. ASSUME res # None, Lacks(arguments, res) PROVE Parsed(c, res) = dir
  <2>1. Lacks(full, res)
    BY <1>11, FlagFacts, DefaultsKeep DEF full
  <2>2. Lacks(base, res)
    BY <1>7, <1>10, <1>11, <2>1 DEF Extension
  <2>3. Lacks(mid, res)
    BY <1>8, <1>10, <1>11, <2>2 DEF Extension
  <2>4. Gives(c, res, dir)
    BY <1>2, <1>4, <1>5, <1>8, <1>11, <2>3, SuppliedGives
  <2>5. QED
    BY <1>9, <2>4, OneValue
<1>12. ASSUME res # None, NEW V, ValuesIn(arguments, res, V), dir \in V
       PROVE  Parsed(c, res) \in V
  <2>1. ValuesIn(full, res, V)
    BY <1>12, FlagFacts, DefaultsKeep DEF full
  <2>2. ValuesIn(base, res, V)
    BY <1>7, <1>10, <1>12, <2>1 DEF Extension
  <2>3. ValuesIn(mid, res, V)
    BY <1>8, <1>10, <1>12, <2>2 DEF Extension
  <2>4. ValuesIn(c, res, V)
    BY <1>9, <1>12, <2>3 DEF Extension
  <2>5. QED
    BY <1>9, <1>12, <2>4, ParsedIn
<1>13. ASSUME Workflow.cost # None, Once(arguments, Workflow.cost)
       PROVE  Parsed(c, Workflow.cost) = <<Handed(s, arguments, printed)>>
  <2> DEFINE f == Workflow.cost
  <2>1. f \in STRING /\ Free(f) /\ Lacks(Workflow.defaults, f) /\ f # res /\ f # Workflow.model
    BY <1>13, FlagFacts
  <2>2. cost = <<printed>> /\ cost \in Seq(Int) /\ cost # None
    <3>1. perChunk \in Nat /\ perChunk \in Int
      BY <1>13, AmountFacts DEF perChunk
    <3> HIDE DEF perChunk
    <3>2. <<printed>> \in Seq(Int)
      OBVIOUS
    <3>3. perChunk # None /\ <<printed>> # None
      BY <3>1, <3>2, PlanAssumption
    <3>4. QED
      BY <3>2, <3>3 DEF cost
  <2> HIDE DEF f
  <2>3. CASE Lacks(arguments, f)
    <3>1. Lacks(base, f)
      <4>1. Lacks(full, f)
        BY <2>1, <2>3, DefaultsKeep DEF full
      <4>2. QED
        BY <1>7, <2>1, <4>1 DEF Extension
    <3>2. Gives(mid, f, cost)
      BY <1>7, <1>13, <2>1, <2>2, <3>1, SuppliedGives DEF mid, f
    <3>3. Gives(c, f, cost)
      BY <1>9, <2>1, <3>2 DEF Extension
    <3>4. QED
      BY <1>9, <2>2, <2>3, <3>3, OneValue DEF f, Handed, Lacks
  <2>4. CASE HasFlag(arguments, f)
    <3>1. PICK v \in Seq(Int) : Gives(arguments, f, v)
      BY <1>13, <2>4, GivenOnce DEF Lacks, f
    <3>2. v = <<perChunk>>
      BY <1>13, <2>4, <3>1, OneValue, AmountFacts DEF f, perChunk
    <3>3. Gives(full, f, v)
      BY <2>1, <3>1, DefaultsKeep DEF full
    <3>4. Gives(base, f, v)
      BY <1>7, <2>1, <3>3 DEF Extension
    <3>5. Gives(mid, f, v)
      BY <1>8, <2>1, <3>4 DEF Extension
    <3>6. Gives(c, f, v)
      BY <1>9, <2>1, <3>5 DEF Extension
    <3>7. QED
      BY <1>9, <2>4, <3>2, <3>6, OneValue DEF f, Handed, perChunk
  <2>5. QED
    BY <2>3, <2>4 DEF Lacks
<1>14. ASSUME NEW f \in Asking, Once(arguments, f)
       PROVE  /\ Once(base, f)
              /\ Lacks(base, f) => Lacks(c, f)
              /\ \A v : Gives(base, f, v) => Gives(c, f, v)
  <2>1. Free(f) /\ f \notin {Workflow.cost, res, Workflow.model}
    BY <1>14, FlagFacts DEF Free
  <2>2. Once(full, f)
    BY <1>14, <2>1, DefaultsKeep DEF full
  <2>3. Once(base, f)
    <3>1. Lacks(full, f) \/ \E v \in Seq(Int) : Gives(full, f, v)
      BY <1>6, <2>2, GivenOnce
    <3>2. Lacks(base, f) \/ \E v \in Seq(Int) : Gives(base, f, v)
      BY <1>7, <1>14, <2>1, <3>1 DEF Extension
    <3>3. QED
      BY <3>2 DEF Lacks, HasFlag, Gives, Once
  <2>4. Lacks(base, f) => Lacks(mid, f)
    BY <1>8, <1>14, <2>1 DEF Extension
  <2>5. Lacks(mid, f) => Lacks(c, f)
    BY <1>9, <1>14, <2>1 DEF Extension
  <2>6. \A v : Gives(base, f, v) => Gives(mid, f, v)
    BY <1>8, <1>14 DEF Extension
  <2>7. \A v : Gives(mid, f, v) => Gives(c, f, v)
    BY <1>9, <1>14 DEF Extension
  <2>8. QED
    BY <2>3, <2>4, <2>5, <2>6, <2>7
<1>15. HandsOver(s, arguments, dir, printed, base, c)
  BY <1>7, <1>9, <1>11, <1>12, <1>13, <1>14 DEF HandsOver
<1>16. QED
  BY <1>15 DEF base, c

\* A schedule of chunks has a budget for each of them.
LEMMA ChunksCounted ==
    ASSUME NEW v \in Seq(Int), v # <<>>
    PROVE  /\ ParseSchedule("chunks", v) # None
           /\ ChunkCount(ParseSchedule("chunks", v)) \in Nat
           /\ Len(v) <= ChunkCount(ParseSchedule("chunks", v))
<1> DEFINE p == ParseSchedule("chunks", v)
           n == Len(v)
           E(i) == IF i % 2 = 1 THEN Epoch("solve", v[(i + 1) \div 2]) ELSE Epoch("expand", 0)
           e == [i \in 1 .. 2 * n |-> E(i)]
<1>1. n \in Nat /\ n # 0 /\ \A k \in 1 .. n : v[k] \in Int
  BY EmptySeq, LenProperties
<1>2. p.style = "chunks" /\ p.epochs = e /\ p = [style |-> "chunks", epochs |-> e]
  BY DEF ParseSchedule
<1> HIDE DEF n, p
<1>3. \A i \in 1 .. 2 * n : /\ E(i) \in [kind : Kinds, turns : Int]
                            /\ i % 2 = 1 => E(i).kind = "solve"
  <2>1. \A i \in 1 .. 2 * n : i % 2 = 1 => (i + 1) \div 2 \in 1 .. n
    BY <1>1
  <2>2. QED
    BY <1>1, <2>1 DEF Epoch, Kinds
<1> HIDE DEF E
<1>4. e \in Seq([kind : Kinds, turns : Int])
  BY <1>1, <1>3
<1>5. DOMAIN e = 1 .. 2 * n
  OBVIOUS
<1>6. p # None
  BY <1>2, <1>4, PlanAssumption DEF Styles
<1>7. IsFiniteSet(Solves(p)) /\ n <= Cardinality(Solves(p))
  <2>1. IsFiniteSet(1 .. 2 * n)
    BY <1>1, FS_Interval
  <2>2. Solves(p) \subseteq 1 .. 2 * n
    BY <1>2, <1>5 DEF Solves
  <2>3. IsFiniteSet(Solves(p))
    BY <2>1, <2>2, FS_Subset
  <2> DEFINE g == [k \in 1 .. n |-> 2 * k - 1]
  <2>4. \A k \in 1 .. n : 2 * k - 1 \in 1 .. 2 * n /\ (2 * k - 1) % 2 = 1
    BY <1>1
  <2>5. \A k \in 1 .. n : 2 * k - 1 \in Solves(p)
    BY <1>2, <1>3, <1>5, <2>4 DEF Solves
  <2>6. g \in Injection(1 .. n, Solves(p))
    BY <1>1, <2>5 DEF Injection, IsInjective
  <2>7. Cardinality(1 .. n) <= Cardinality(Solves(p))
    BY <2>3, <2>6, FS_Injection
  <2>8. Cardinality(1 .. n) = n
    BY <1>1, FS_Interval
  <2>9. QED
    BY <2>3, <2>7, <2>8
<1>8. Cardinality(Solves(p)) \in Nat
  BY <1>7, FS_CardinalityType
<1>9. Solves(p) # {}
  BY <1>1, <1>7, FS_EmptySet
<1>10. ChunkCount(p) = Cardinality(Solves(p))
  BY <1>2, <1>6, <1>9 DEF ChunkCount
<1>11. QED
  BY <1>1, <1>6, <1>7, <1>8, <1>10 DEF n, p

LEMMA TurnsCounted ==
    ASSUME NEW v \in Seq(Int), Parses("spotlight", v)
    PROVE  /\ v[1] \in Nat
           /\ ChunkCount(ParseSchedule("spotlight", v)) = v[1]
<1> DEFINE p == ParseSchedule("spotlight", v)
           e == Epoch("spotlight", v[1])
<1>1. Len(v) = 1 /\ v[1] \in Nat
  <2>1. Len(v) = 1 /\ DOMAIN v = 1 .. Len(v)
    BY LenProperties DEF Parses
  <2>2. QED
    BY <2>1 DEF Parses
<1>2. p = [style |-> "spotlight", epochs |-> <<e>>] /\ e.turns = v[1]
  BY DEF ParseSchedule, Epoch
<1>3. e \in [kind : Kinds, turns : Int]
  BY <1>1 DEF Epoch, Kinds
<1> HIDE DEF e, p
<1>4. <<e>> \in Seq([kind : Kinds, turns : Int]) /\ <<e>>[1] = e
  BY <1>3
<1>5. p # None
  <2> DEFINE q == <<e>>
  <2>1. q \in Seq([kind : Kinds, turns : Int]) /\ p = [style |-> "spotlight", epochs |-> q]
    BY <1>2, <1>4
  <2> HIDE DEF q
  <2>2. QED
    BY <2>1, PlanAssumption DEF Styles
<1>6. ChunkCount(p) = v[1]
  BY <1>2, <1>4, <1>5 DEF ChunkCount
<1>7. QED
  BY <1>1, <1>6 DEF p

LEMMA StepsCounted ==
    ASSUME NEW v \in Seq(Int), Parses("steps", v)
    PROVE  ChunkCount(ParseSchedule("steps", v)) = 1
<1> DEFINE p == ParseSchedule("steps", v)
           e == Epoch("solve", v[1])
<1>1. p = [style |-> "steps", epochs |-> <<e>>] /\ e.kind = "solve"
  BY DEF ParseSchedule, Epoch
<1> HIDE DEF e, p
<1>2. DOMAIN <<e>> = 1 .. 1 /\ <<e>>[1] = e
  OBVIOUS
<1>3. Solves(p) = {1}
  BY <1>1, <1>2 DEF Solves
<1>4. Cardinality(Solves(p)) = 1
  BY <1>3, FS_Singleton
<1>5. ChunkCount(p) = 1
  BY <1>1, <1>3, <1>4 DEF ChunkCount
<1>6. QED
  BY <1>5 DEF p

\* A runner has as many chunks as the plan has counted, or fewer: the last say of an
\* argument is the first where it is the only one.
LEMMA ChunksPlanned ==
    ASSUME NEW base \in Arguments, NEW c \in Arguments, ~ScheduleRefused(base),
           \A f \in Asking : /\ Once(base, f) /\ (Lacks(base, f) => Lacks(c, f))
                             /\ \A v : Gives(base, f, v) => Gives(c, f, v)
    PROVE  /\ Chunks(c) \in Nat /\ ChunkCount(Schedule(base)) \in Nat
           /\ Chunks(c) <= ChunkCount(Schedule(base))
<1> DEFINE spot == "--spotlight"
           flag == Workflow.schedule.flag
           style == Workflow.schedule.style
<1>1. ASSUME NEW f \in Asking, HasFlag(base, f)
      PROVE  \E v \in Seq(Int) : /\ FlagValue(base, f) = v /\ v # None
                                 /\ HasFlag(c, f) /\ Parsed(c, f) = v
  <2>1. PICK v \in Seq(Int) : Gives(base, f, v)
    BY <1>1, GivenOnce DEF Lacks
  <2>2. v # None
    BY PlanAssumption
  <2>3. QED
    BY <2>1, <2>2, OneValue
<1>2. ASSUME NEW s \in Styles, NEW v \in Seq(Int), Asked(base) = [style |-> s, value |-> v]
      PROVE  Parses(s, v) /\ Schedule(base) = ParseSchedule(s, v)
  <2>1. Asked(base) # None
    BY <1>2, PlanAssumption
  <2>2. QED
    BY <1>2, <2>1 DEF ScheduleRefused, Schedule
<1>3. CASE HasFlag(base, spot)
  <2>1. spot \in Asking
    BY FlagFacts
  <2>2. PICK v \in Seq(Int) : /\ FlagValue(base, spot) = v /\ v # None
                              /\ HasFlag(c, spot) /\ Parsed(c, spot) = v
    BY <1>1, <1>3, <2>1
  <2>3. Asked(base) = [style |-> "spotlight", value |-> v]
    BY <2>2 DEF Asked
  <2>4. Parses("spotlight", v) /\ Schedule(base) = ParseSchedule("spotlight", v)
    BY <1>2, <2>3 DEF Styles
  <2>5. Chunks(c) = v[1]
    BY <2>2 DEF Chunks
  <2>6. QED
    BY <2>4, <2>5, TurnsCounted
<1>4. CASE Lacks(base, spot) /\ Workflow.schedule # None /\ HasFlag(base, flag)
  <2>1. flag \in Asking /\ spot \in Asking /\ style \in Styles
    BY <1>4, FlagFacts, PlanAssumption
  <2>2. PICK v \in Seq(Int) : /\ FlagValue(base, flag) = v /\ v # None
                              /\ HasFlag(c, flag) /\ Parsed(c, flag) = v
    BY <1>1, <1>4, <2>1
  <2>3. FlagValue(base, spot) = None
    BY <1>4, FirstValue
  <2>4. Lacks(c, spot)
    BY <1>4, <2>1
  <2>5. Asked(base) = [style |-> style, value |-> v]
    BY <1>4, <2>2, <2>3 DEF Asked
  <2>6. Parses(style, v) /\ Schedule(base) = ParseSchedule(style, v)
    BY <1>2, <2>1, <2>5
  <2>7. CASE style = "chunks"
    <3>1. v # <<>> /\ Chunks(c) = Len(v)
      BY <1>4, <2>2, <2>4, <2>6, <2>7 DEF Chunks, Lacks, Parses
    <3>2. QED
      BY <2>6, <2>7, <3>1, ChunksCounted, LenProperties
  <2>8. CASE style = "spotlight"
    <3>1. Chunks(c) = 1
      BY <1>4, <2>4, <2>8 DEF Chunks, Lacks
    <3>2. v[1] \in Nat /\ v[1] >= 1
      <4>1. Len(v) = 1 /\ DOMAIN v = 1 .. Len(v)
        BY <2>6, <2>8, LenProperties DEF Parses
      <4>2. QED
        BY <2>6, <2>8, <4>1 DEF Parses
    <3>3. QED
      BY <2>6, <2>8, <3>1, <3>2, TurnsCounted
  <2>9. CASE style = "steps"
    <3>1. Chunks(c) = 1
      BY <1>4, <2>4, <2>9 DEF Chunks, Lacks
    <3>2. QED
      BY <2>6, <2>9, <3>1, StepsCounted
  <2>10. QED
    BY <2>1, <2>7, <2>8, <2>9 DEF Styles
<1>5. CASE Lacks(base, spot) /\ ~(Workflow.schedule # None /\ HasFlag(base, flag))
  <2>1. Lacks(c, spot)
    BY <1>5, FlagFacts
  <2>2. ~(Workflow.schedule # None /\ HasFlag(c, flag))
    BY <1>5, FlagFacts DEF Lacks
  <2>3. Chunks(c) = 1
    BY <2>1, <2>2 DEF Chunks, Lacks
  <2>4. FlagValue(base, spot) = None
    BY <1>5, FirstValue
  <2>5. Schedule(base) = None
    BY <1>5, <2>4 DEF Schedule, Asked
  <2>6. QED
    BY <2>3, <2>5 DEF ChunkCount
<1>6. QED
  BY <1>3, <1>4, <1>5 DEF Lacks

\* Rounding to six digits adds at most a two hundred thousandth.
LEMMA PrintedFacts ==
    ASSUME NEW amount \in Nat, NEW m \in Printed(amount)
    PROVE  /\ m \in Nat /\ 200000 * (m - amount) <= amount
           /\ amount = 0 => m = 0
<1>1. PICK p \in PowersOfTen : /\ p = 1 \/ 100000 * p <= amount
                               /\ m \in Rounded(amount, p)
  BY DEF Printed
<1>2. p \in Nat /\ p > 0
  BY PlanAssumption
<1> DEFINE q == amount \div p
<1>3. q \in Nat
  BY <1>2
<1>4. m = p * q \/ m = p * q + p
  BY <1>1 DEF Rounded
<1>5. 2 * (m - amount) \in -p .. p
  BY <1>1 DEF Rounded
<1>6. p * q \in Nat
  <2> HIDE DEF q
  <2>1. QED
    BY <1>2, <1>3
<1> DEFINE k == p * q
<1> HIDE DEF q, k
<1>7. k \in Nat /\ (m = k \/ m = k + p)
  BY <1>4, <1>6 DEF k
<1>8. m \in Nat
  BY <1>2, <1>7
<1>9. CASE p = 1
  BY <1>5, <1>8, <1>9
<1>10. CASE 100000 * p <= amount
  BY <1>2, <1>5, <1>8, <1>10
<1>11. QED
  BY <1>1, <1>9, <1>10

\* What is printed of an amount.
Near(x, amount) == 200000 * (x - amount) <= amount /\ (amount = 0 => x = 0)

\* What is handed over, times the chunks, against the amount times the budgeted chunks.
Fits(x, chunks, amount, count) ==
    /\ x * chunks \in Nat /\ amount * count \in Nat
    /\ x * chunks <= amount * count + (amount * count) \div 200000
    /\ x <= amount => x * chunks <= amount * count
    /\ x * chunks > 0 => amount * count > 0

LEMMA SpendFacts ==
    ASSUME NEW x \in Nat, NEW amount \in Nat, NEW chunks \in Nat, NEW count \in Nat,
           Near(x, amount), chunks <= count
    PROVE  Fits(x, chunks, amount, count)
<1> USE DEF Near
<1>1. \A a, b, d \in Nat : b <= d => a * b \in Nat /\ a * d \in Nat /\ a * b <= a * d
  <2>1. SUFFICES ASSUME NEW a \in Nat, NEW b \in Nat, NEW d \in Nat, b <= d
                 PROVE  a * b \in Nat /\ a * d \in Nat /\ a * b <= a * d
    OBVIOUS
  <2>2. a * (d - b) >= 0 /\ a * d = a * b + a * (d - b)
    BY <2>1
  <2>3. QED
    BY <2>1, <2>2
<1>2. x * chunks \in Nat /\ x * count \in Nat /\ x * chunks <= x * count
  BY <1>1
<1>3. x <= amount => x * count <= amount * count
  <2>1. x <= amount => count * x <= count * amount
    BY <1>1
  <2>2. count * x = x * count /\ count * amount = amount * count
    OBVIOUS
  <2>3. QED
    BY <2>1, <2>2
<1>4. amount * count \in Nat
  BY <1>1
<1>5. 200000 * (x * count) <= 200001 * (amount * count)
  <2>1. 200000 * x \in Nat /\ 200001 * amount \in Nat /\ 200000 * x <= 200001 * amount
    OBVIOUS
  <2>2. count * (200000 * x) <= count * (200001 * amount)
    BY <1>1, <2>1
  <2>3. count * (200000 * x) = 200000 * (x * count)
    OBVIOUS
  <2>4. count * (200001 * amount) = 200001 * (amount * count)
    OBVIOUS
  <2>5. QED
    BY <2>2, <2>3, <2>4
<1> DEFINE u == x * chunks
           v == x * count
           w == amount * count
<1>6. u \in Nat /\ v \in Nat /\ w \in Nat /\ u <= v /\ 200000 * v <= 200001 * w
  BY <1>2, <1>4, <1>5
<1>7. x <= amount => u <= w
  BY <1>3, <1>6
<1>8. u > 0 => w > 0
  <2>1. CASE amount = 0
    <3>1. u = 0
      BY <2>1
    <3>2. QED
      BY <3>1
  <2>2. CASE count = 0
    <3>1. u = 0
      BY <2>2
    <3>2. QED
      BY <3>1
  <2>3. CASE amount > 0 /\ count > 0
    BY <2>3
  <2>4. QED
    BY <2>1, <2>2, <2>3
<1> HIDE DEF u, v, w
<1>9. u <= w + w \div 200000
  BY <1>6
<1>10. QED
  BY <1>6, <1>7, <1>8, <1>9 DEF u, w, Fits

\* The amount of each chunk, times the chunks, is what somebody is asked to agree to.
LEMMA PlanWithin ==
    ASSUME NEW s, s.limit \in Nat, s.route \in Seq(Int) \cup {None},
           NEW arguments \in Arguments, ~RepeatsAFlag(arguments), Workflow.cost # None,
           ~CostRefused(s.limit, arguments),
           ~ScheduleRefused(WithModel(s.route, arguments)),
           NEW dir \in Seq(Int), NEW inherited, NEW printed \in Printed(s.limit),
           NEW p, p = Plan(s, arguments, dir, inherited, printed)
    PROVE  Affordable(p, arguments)
<1> DEFINE base == WithModel(s.route, arguments)
           c == p.command
           perChunk == PerChunk(s.limit, arguments)
           handed == Handed(s, arguments, printed)
           count == ChunkCount(Schedule(base))
<1>1. \A f : Once(arguments, f)
  <2>1. SUFFICES ASSUME NEW f, NEW m \in DOMAIN arguments, NEW n \in DOMAIN arguments,
                        arguments[m].flag = f, arguments[n].flag = f, m # n
                 PROVE  FALSE
    BY DEF Once
  <2>2. m \in Nat /\ n \in Nat
    BY CommandFacts
  <2>3. QED
    BY <2>1, <2>2 DEF RepeatsAFlag
<1>2. perChunk \in Nat
  BY AmountFacts
<1>3. perChunk # None
  BY <1>2, PlanAssumption
<1>4. printed \in Nat /\ 200000 * (printed - s.limit) <= s.limit /\ (s.limit = 0 => printed = 0)
  BY PrintedFacts
<1>5. /\ handed \in Nat /\ 200000 * (handed - perChunk) <= perChunk
      /\ perChunk = 0 => handed = 0
      /\ HasFlag(arguments, Workflow.cost) \/ Printed(perChunk) = {perChunk} => handed <= perChunk
  <2>1. CASE HasFlag(arguments, Workflow.cost)
    <3>1. handed = perChunk
      BY <2>1 DEF Handed
    <3> HIDE DEF handed, perChunk
    <3>2. QED
      BY <1>2, <3>1
  <2>2. CASE ~HasFlag(arguments, Workflow.cost)
    <3>1. handed = printed
      BY <2>2 DEF Handed
    <3>2. perChunk = s.limit
      BY <2>2 DEF PerChunk, FlagValue
    <3> HIDE DEF handed, perChunk
    <3>3. Printed(perChunk) = {perChunk} => handed = perChunk
      BY <3>1, <3>2
    <3>4. QED
      BY <1>2, <1>4, <2>2, <3>1, <3>2, <3>3
  <2>3. QED
    BY <2>1, <2>2
<1> HIDE DEF c, perChunk, handed
<1>6. p.ceiling = perChunk * count /\ p.perChunk = perChunk
  BY <1>3 DEF Plan, Aggregate, perChunk
<1> HIDE DEF count
<1>7. /\ base \in Arguments /\ c \in Arguments
      /\ Workflow.cost # None /\ Once(arguments, Workflow.cost) =>
           Parsed(c, Workflow.cost) = <<handed>>
      /\ \A f \in Asking : Once(arguments, f) =>
           /\ Once(base, f)
           /\ Lacks(base, f) => Lacks(c, f)
           /\ \A v : Gives(base, f, v) => Gives(c, f, v)
  <2>1. HandsOver(s, arguments, dir, printed, base, Plan(s, arguments, dir, inherited, printed).command)
    BY <1>4, PlanCommand
  <2>2. QED
    BY <2>1 DEF HandsOver, c, handed
<1>8. Parsed(c, Workflow.cost)[1] = handed
  BY <1>1, <1>7
<1>9. Chunks(c) \in Nat /\ count \in Nat /\ Chunks(c) <= count
  <2> HIDE DEF base
  <2>1. ~ScheduleRefused(base)
    BY DEF base
  <2>2. QED
    BY <1>1, <1>7, <2>1, ChunksPlanned DEF count
<1>10. /\ handed * Chunks(c) \in Nat /\ perChunk * count \in Nat
       /\ handed * Chunks(c) <= perChunk * count + (perChunk * count) \div 200000
       /\ handed <= perChunk => handed * Chunks(c) <= perChunk * count
       /\ handed * Chunks(c) > 0 => perChunk * count > 0
  <2> DEFINE chunks == Chunks(c)
  <2>1. chunks \in Nat /\ count \in Nat /\ chunks <= count
    BY <1>9
  <2> HIDE DEF chunks
  <2>2. /\ handed \in Nat /\ perChunk \in Nat
        /\ Near(handed, perChunk)
    BY <1>2, <1>5 DEF Near
  <2>3. Fits(handed, chunks, perChunk, count)
    BY <2>1, <2>2, SpendFacts, Zenon
  <2>4. QED
    BY <2>3 DEF chunks, Fits
<1>11. QED
  BY <1>5, <1>6, <1>8, <1>10 DEF Affordable, c

\* The directory is the one that the user chose, or the one that was allocated.
Place(command) == Parsed(command, Workflow.results)[1]

LEMMA PlanDirectory ==
    ASSUME NEW s, s.limit \in Nat, s.route \in Seq(Int) \cup {None},
           NEW r \in Requests, ~CostRefused(s.limit, r.arguments),
           NEW i \in Invocations, NEW inherited, NEW printed \in Printed(s.limit),
           Workflow.results # None
    PROVE  /\ Place(Plan(s, r.arguments, <<i>>, inherited, printed).command) \in Directories
           /\ Lacks(r.arguments, Workflow.results) =>
                 Place(Plan(s, r.arguments, <<i>>, inherited, printed).command) = i
<1> DEFINE V == {<<x>> : x \in Directories}
           c == Plan(s, r.arguments, <<i>>, inherited, printed).command
<1>1. r.arguments \in Arguments /\ ValuesIn(r.arguments, Workflow.results, V)
  BY LaunchAssumption DEF ValuesIn
<1>2. <<i>> \in V /\ <<i>> \in Seq(Int) /\ printed \in Int
  BY LaunchAssumption, PrintedFacts DEF Directories
<1> HIDE DEF V, c
<1>3. /\ Lacks(r.arguments, Workflow.results) => Parsed(c, Workflow.results) = <<i>>
      /\ \A W : ValuesIn(r.arguments, Workflow.results, W) /\ <<i>> \in W =>
                   Parsed(c, Workflow.results) \in W
  <2>1. HandsOver(s, r.arguments, <<i>>, printed, WithModel(s.route, r.arguments), c)
    BY <1>1, <1>2, PlanCommand DEF c
  <2>2. QED
    BY <2>1 DEF HandsOver
<1>4. Parsed(c, Workflow.results) \in V
  BY <1>1, <1>2, <1>3
<1>5. QED
  BY <1>3, <1>4 DEF V, c, Place

LEMMA InheritedFacts ==
    ASSUME started \in Seq(Directories), NEW status, Inherited(status) # None
    PROVE  Inherited(status) \in Directories /\ Replayable(Inherited(status), status)
<1> DEFINE T == {n \in 1 .. Len(started) : Replayable(started[n], status)}
<1>1. Len(started) \in Nat /\ \A n \in 1 .. Len(started) : started[n] \in Directories
  BY LenProperties
<1>2. SelectLastInSeq(started, LAMBDA d : Replayable(d, status)) =
        IF T = {} THEN 0 ELSE Max(T)
  BY DEF SelectLastInSeq
<1>3. T # {} /\ Max(T) \in T
  <2>1. T # {}
    BY <1>2 DEF Inherited
  <2>2. T \subseteq 1 .. Len(started)
    OBVIOUS
  <2> HIDE DEF T
  <2>3. QED
    BY <1>1, <2>1, <2>2, Greatest
<1>4. Inherited(status) = started[Max(T)]
  <2>1. Max(T) # 0
    BY <1>1, <1>3
  <2>2. QED
    BY <1>2, <1>3, <2>1 DEF Inherited
<1>5. QED
  BY <1>1, <1>3, <1>4

-------------------------------------------------------------------------------
(* One step of one invocation.                                             *)

\* g is f but for i.
Moved(g, f, i, x) == Table(g) /\ g[i] = x /\ \A j \in Invocations \ {i} : g[j] = f[j]

LEMMA Updated ==
    ASSUME NEW f, Table(f), NEW i \in Invocations, NEW x
    PROVE  Moved([f EXCEPT ![i] = x], f, i, x)
  BY DEF Moved, Table

LEMMA TypedTables ==
    ASSUME LaunchTypeOK
    PROVE  /\ Table(pc) /\ Table(job) /\ Table(settings) /\ Table(plan) /\ Table(result)
           /\ Table(listed) /\ Table(draft) /\ Table(runner)
  BY DEF LaunchTypeOK, Table

\* The other invocations do nothing.
OthersRest(i) ==
    \A j \in Invocations \ {i} :
        /\ pc'[j] = pc[j] /\ job'[j] = job[j] /\ settings'[j] = settings[j]
        /\ plan'[j] = plan[j] /\ result'[j] = result[j] /\ listed'[j] = listed[j]
        /\ draft'[j] = draft[j] /\ runner'[j] = runner[j]

\* Only the runner of i writes to a campaign, and none that is completed.
CampaignsOf(i) ==
    /\ \A d \in Directories : Completed(d) => campaigns'[d] = campaigns[d]
    /\ \A j \in Invocations \ {i} :
          runner[j] = "searching" => campaigns'[Directory(j)] = campaigns[Directory(j)]
    /\ runner'[i] = "searching" => \/ runner[i] = "searching" /\ plan'[i] = plan[i]
                                   \/ campaigns[Directory(i)'] = None

InvocationInv(i) == /\ SessionInv(i) /\ ListedInv(i) /\ PlanInv(i) /\ ConsentInv(i)
                    /\ RunnerInv(i) /\ ResultInv(i)

LEMMA OthersKeep ==
    ASSUME LaunchInv, LaunchTypeOK', NEW i \in Invocations, OthersRest(i), CampaignsOf(i),
           NEW j \in Invocations, j # i
    PROVE  InvocationInv(j)'
<1>1. /\ pc'[j] = pc[j] /\ job'[j] = job[j] /\ settings'[j] = settings[j]
      /\ plan'[j] = plan[j] /\ result'[j] = result[j] /\ listed'[j] = listed[j]
      /\ draft'[j] = draft[j] /\ runner'[j] = runner[j]
  BY DEF OthersRest
<1>2. SessionInv(j) /\ ListedInv(j) /\ PlanInv(j) /\ ConsentInv(j) /\ RunnerInv(j) /\ ResultInv(j)
  BY DEF LaunchInv
<1>3. \A d \in Directories : Completed(d) => Completed(d)' /\ campaigns'[d] = campaigns[d]
  BY DEF CampaignsOf, Completed
<1>4. Directory(j)' = Directory(j)
  BY <1>1 DEF Directory
<1>5. SessionInv(j)'
  BY <1>1, <1>2 DEF SessionInv
<1>6. ListedInv(j)'
  BY <1>1, <1>2, <1>3 DEF ListedInv
<1>7. WithinCeiling(j) => WithinCeiling(j)'
  BY <1>1 DEF WithinCeiling
<1>8. PlanInv(j)'
  BY <1>1, <1>2, <1>3, <1>4, <1>7 DEF PlanInv
<1>9. ConsentInv(j)'
  BY <1>1, <1>2 DEF ConsentInv, Spends, Agreed
<1>10. RunnerInv(j)'
  <2>1. ASSUME runner[j] = "searching"
        PROVE  /\ campaigns'[Directory(j)] # None
               /\ campaigns'[Directory(j)].status = "running"
    BY <1>2, <2>1 DEF CampaignsOf, RunnerInv
  <2>2. ASSUME runner[j] = "searching", NEW k \in Invocations, runner'[k] = "searching",
               Directory(k)' = Directory(j)
        PROVE  k = j
    <3>1. CASE k = i
      <4>1. campaigns[Directory(j)] # None
        BY <1>2, <2>2 DEF RunnerInv
      <4>2. runner[i] = "searching" /\ plan'[i] = plan[i]
        BY <2>2, <3>1, <4>1 DEF CampaignsOf, Directory
      <4>3. Directory(i)' = Directory(i)
        BY <4>2 DEF Directory
      <4>4. QED
        BY <1>2, <2>2, <3>1, <4>2, <4>3 DEF RunnerInv
    <3>2. CASE k # i
      <4>1. runner[k] = "searching" /\ Directory(k)' = Directory(k)
        BY <2>2, <3>2 DEF OthersRest, Directory
      <4>2. QED
        BY <1>2, <2>2, <4>1 DEF RunnerInv
    <3>3. QED
      BY <3>1, <3>2
  <2>3. runner[j] = "succeeded" =>
          Workflow.results = None \/ ChecksOnly(plan'[j].command) \/ Completed(Directory(j))'
    <3>1. runner[j] = "succeeded" /\ Workflow.results # None => Directory(j) \in Directories
      BY <1>2, LaunchAssumption DEF PlanInv, Runners
    <3>2. QED
      BY <1>1, <1>2, <1>3, <1>4, <3>1 DEF RunnerInv, Completed
  <2>4. runner[j] = "searching" => Workflow.results # None
    BY <1>2 DEF RunnerInv
  <2>5. QED
    BY <1>1, <1>4, <2>1, <2>2, <2>3, <2>4 DEF RunnerInv
<1>11. ResultInv(j)'
  <2>1. j \in Directories
    BY DEF Directories
  <2>2. QED
    BY <1>1, <1>2, <1>3, <2>1 DEF ResultInv, Searches
<1>12. QED
  BY <1>5, <1>6, <1>8, <1>9, <1>10, <1>11 DEF InvocationInv

\* Receipts stay as they are while an invocation does something else.
LEMMA ReceiptsRest ==
    ASSUME LaunchInv, UNCHANGED receiptVars, NEW i \in Invocations, OthersRest(i),
           pc'[i] # "idle", pc[i] # "idle" => job'[i] = job[i],
           pc'[i] \in {"opened", "written"} => pc'[i] = pc[i],
           pc[i] \in {"opened", "written", "ended", "dead"} =>
              pc'[i] \in {"opened", "written", "ended", "dead"}
    PROVE  ReceiptInv'
<1>1. \A j \in Invocations : /\ pc[j] # "idle" => pc'[j] # "idle" /\ job'[j] = job[j]
                             /\ pc'[j] \in {"opened", "written"} => pc'[j] = pc[j]
                             /\ pc[j] \in {"opened", "written", "ended", "dead"} =>
                                   pc'[j] \in {"opened", "written", "ended", "dead"}
  BY DEF OthersRest
<1>2. ReceiptInv
  BY DEF LaunchInv
<1>3. staged' = staged /\ filed' = filed /\ inodes' = inodes /\ handle' = handle
  BY DEF receiptVars
<1>4. FilesOf(staged)' /\ FilesOf(filed)'
  BY <1>1, <1>2, <1>3 DEF ReceiptInv, FilesOf
<1>5. \A j \in Invocations :
          /\ pc'[j] \in {"opened", "written"} => handle[j] # None
          /\ handle[j] # None => /\ pc'[j] \in {"opened", "written", "ended", "dead"}
                                 /\ pc'[handle[j]] # "idle"
                                 /\ job'[j].task = job'[handle[j]].task
  <2>1. \A j \in Invocations : handle[j] # None => handle[j] \in Invocations
    BY <1>2 DEF ReceiptInv
  <2>2. QED
    BY <1>1, <1>2, <2>1 DEF ReceiptInv
<1>6. QED
  BY <1>2, <1>3, <1>4, <1>5 DEF ReceiptInv

\* A step of i whose campaigns stay as they are, but for its runner's.
LEMMA OneSteps ==
    ASSUME LaunchInv, LaunchTypeOK', ReceiptInv',
           NEW i \in Invocations, OthersRest(i), CampaignsOf(i), InvocationInv(i)'
    PROVE  LaunchInv'
<1>1. \A j \in Invocations : InvocationInv(j)'
  BY OthersKeep
<1>2. QED
  BY <1>1 DEF LaunchInv, InvocationInv

\* What an invocation that neither plans nor starts a runner leaves true of itself.
LEMMA SelfKeeps ==
    ASSUME LaunchInv, NEW i \in Invocations, pc[i] # "idle",
           job'[i] = job[i], plan'[i] = plan[i], runner'[i] = runner[i],
           OthersRest(i), UNCHANGED campaigns,
           pc'[i] \in {"planned", "granted", "running"} =>
              pc[i] \in {"planned", "granted", "running"},
           pc'[i] = "granted" => pc[i] = "granted"
    PROVE  PlanInv(i)' /\ ConsentInv(i)' /\ RunnerInv(i)'  /\ CampaignsOf(i)
<1>1. PlanInv(i) /\ ConsentInv(i) /\ RunnerInv(i)
  BY DEF LaunchInv
<1>2. \A j \in Invocations : Directory(j)' = Directory(j) /\ runner'[j] = runner[j]
  BY DEF OthersRest, Directory
<1>3. WithinCeiling(i) => WithinCeiling(i)'
  BY DEF WithinCeiling
<1>4. PlanInv(i)'
  BY <1>1, <1>2, <1>3 DEF PlanInv, Completed
<1>5. ConsentInv(i)'
  BY <1>1 DEF ConsentInv, Spends, Agreed
<1>6. RunnerInv(i)'
  BY <1>1, <1>2 DEF RunnerInv, Completed
<1>7. CampaignsOf(i)
  BY DEF CampaignsOf
<1>8. QED
  BY <1>4, <1>5, <1>6, <1>7

-------------------------------------------------------------------------------
(* One lemma for each action.                                              *)

LEMMA LaunchStart == Init => LaunchInv
<1> SUFFICES ASSUME Init PROVE LaunchInv
  OBVIOUS
<1>1. LaunchTypeOK
  BY LaunchAssumption DEF Init, LaunchTypeOK, Phases, Table
<1>2. ReceiptInv
  BY LaunchAssumption DEF Init, ReceiptInv, FilesOf, Empty, Mixed
<1>3. ASSUME NEW i \in Invocations PROVE InvocationInv(i)
  <2>1. /\ pc[i] = "idle" /\ result[i] = None /\ plan[i] = None /\ runner[i] = None
    BY <1>3 DEF Init
  <2>2. None # "searching" /\ None # "succeeded" /\ None # "ok"
    BY LaunchAssumption DEF Runners, Results
  <2>3. QED
    BY <2>1, <2>2 DEF InvocationInv, SessionInv, ListedInv, PlanInv, ConsentInv, RunnerInv,
                      ResultInv
<1>4. QED
  BY <1>1, <1>2, <1>3 DEF LaunchInv, InvocationInv

LEMMA BeginStep ==
    ASSUME LaunchInv, NEW i \in Invocations, NEW r \in Requests, Begin(i, r)
    PROVE  LaunchInv'
<1>1. LaunchTypeOK /\ pc[i] = "idle" /\ InvocationInv(i)
  BY DEF LaunchInv, InvocationInv, Begin
<1>2. Moved(job', job, i, r) /\ Moved(pc', pc, i, "begun")
  BY <1>1, TypedTables, Updated DEF Begin, Goto
<1>3. /\ plan' = plan /\ runner' = runner /\ settings' = settings /\ campaigns' = campaigns
      /\ result' = result /\ listed' = listed /\ draft' = draft /\ local' = local
      /\ started' = started /\ UNCHANGED receiptVars
  BY DEF Begin, runVars
<1>4. LaunchTypeOK'
  BY <1>1, <1>2, <1>3 DEF LaunchTypeOK, Moved, Table, Phases, Begin, Goto
<1>5. OthersRest(i)
  BY <1>2, <1>3 DEF OthersRest, Moved
<1>6. plan[i] = None /\ runner[i] = None /\ result[i] = None
  BY <1>1 DEF InvocationInv, SessionInv, Ended
<1>7. InvocationInv(i)'
  <2>1. None # "searching" /\ None # "succeeded" /\ None # "ok"
    BY LaunchAssumption DEF Runners, Results
  <2>2. /\ pc'[i] = "begun" /\ job'[i] = r /\ plan'[i] = None /\ runner'[i] = None
        /\ result'[i] = None
    BY <1>2, <1>3, <1>6 DEF Moved
  <2>3. QED
    BY <2>1, <2>2 DEF InvocationInv, SessionInv, ListedInv, PlanInv, ConsentInv, RunnerInv,
                      ResultInv
<1>8. CampaignsOf(i)
  BY <1>1, <1>3, <1>6, LaunchAssumption
     DEF LaunchInv, Completed, CampaignsOf, Runners
<1>9. ReceiptInv'
  BY <1>1, <1>2, <1>3, <1>5, ReceiptsRest DEF Moved
<1>10. QED
  BY <1>4, <1>5, <1>7, <1>8, <1>9, OneSteps

\* A step that leaves the plan, the runner and the receipts alone.
LEMMA QuietStep ==
    ASSUME LaunchInv, LaunchTypeOK', NEW i \in Invocations, OthersRest(i),
           UNCHANGED <<job, plan, runner, campaigns, receiptVars>>,
           pc[i] \notin {"idle", "opened", "written", "ended", "dead"},
           pc'[i] \notin {"idle", "opened", "written", "planned", "granted", "running"},
           SessionInv(i)', ListedInv(i)', ResultInv(i)'
    PROVE  LaunchInv'
<1>1. job'[i] = job[i] /\ plan'[i] = plan[i] /\ runner'[i] = runner[i]
  OBVIOUS
<1>2. PlanInv(i)' /\ ConsentInv(i)' /\ RunnerInv(i)'  /\ CampaignsOf(i)
  BY <1>1, SelfKeeps
<1>3. ReceiptInv'
  BY <1>1, ReceiptsRest
<1>4. QED
  BY <1>2, <1>3, OneSteps DEF InvocationInv

\* An invocation that ends with another result than ok has nothing more to say.
LEMMA FinishStep ==
    ASSUME LaunchInv, NEW i \in Invocations, NEW r, Finish(i, r),
           r = "ok" /\ job[i].task = "run" /\ Searches(i) =>
               Completed(i) /\ campaigns[i].goals,
           pc[i] \in {"begun", "loaded", "listed", "planned", "granted", "running",
                      "configured", "emptied"},
           Readable(local)',
           UNCHANGED <<job, settings, plan, listed, draft, runner, campaigns, started, receiptVars>>
    PROVE  LaunchInv'
<1>1. LaunchTypeOK /\ InvocationInv(i)
  BY DEF LaunchInv, InvocationInv
<1>2. Moved(result', result, i, r) /\ Moved(pc', pc, i, "reporting")
  BY <1>1, TypedTables, Updated DEF Finish, Goto
<1>3. LaunchTypeOK'
  BY <1>1, <1>2 DEF LaunchTypeOK, Moved, Table, Phases, Ended, Finish, Goto
<1>4. OthersRest(i)
  BY <1>2 DEF OthersRest, Moved
<1>5. pc'[i] = "reporting" /\ result'[i] = r
  BY <1>2 DEF Moved
<1>6. SessionInv(i)' /\ ListedInv(i)' /\ ResultInv(i)'
  BY <1>1, <1>5 DEF InvocationInv, SessionInv, ListedInv, ResultInv, Searches, Ended, Completed
<1>7. QED
  BY <1>3, <1>4, <1>5, <1>6, QuietStep

LEMMA LoadStep ==
    ASSUME LaunchInv, NEW i \in Invocations, Load(i)
    PROVE  LaunchInv'
<1>1. LaunchTypeOK /\ pc[i] = "begun" /\ InvocationInv(i)
  BY DEF LaunchInv, InvocationInv, Load
<1>2. /\ plan' = plan /\ runner' = runner /\ job' = job /\ campaigns' = campaigns
      /\ listed' = listed /\ draft' = draft /\ local' = local
      /\ started' = started /\ UNCHANGED receiptVars
  BY DEF Load, runVars
<1>3. plan[i] = None /\ job[i] \in Requests /\ result[i] = None /\ Readable(local)
  BY <1>1 DEF InvocationInv, SessionInv, Ended, LaunchTypeOK
<1>4. CASE Loads(local)
  <2> DEFINE loaded == LoadSettings(local)
  <2>1. Moved(settings', settings, i, loaded) /\ Moved(pc', pc, i, "loaded") /\ result' = result
    BY <1>1, <1>4, TypedTables, Updated DEF Load, Goto
  <2>2. loaded.limit \in Nat /\ loaded.route \in Seq(Int) \cup {None}
    BY <1>3, <1>4, PlanAssumption DEF Readable, LoadSettings, Loads, Merged, Keys
  <2> HIDE DEF loaded
  <2>3. LaunchTypeOK'
    BY <1>1, <1>2, <1>4, <2>1 DEF LaunchTypeOK, Moved, Table, Phases, Load, Goto
  <2>4. OthersRest(i)
    BY <1>2, <2>1 DEF OthersRest, Moved
  <2>5. pc'[i] = "loaded" /\ settings'[i] = loaded /\ result'[i] = None
    BY <1>3, <2>1 DEF Moved
  <2>6. SessionInv(i)' /\ ListedInv(i)' /\ ResultInv(i)'
    BY <1>1, <1>2, <1>3, <2>2, <2>5, LaunchAssumption
       DEF InvocationInv, SessionInv, ListedInv, ResultInv, Ended, Results
  <2>7. QED
    BY <1>1, <1>2, <2>3, <2>4, <2>5, <2>6, QuietStep
<1>5. CASE ~Loads(local)
  <2>1. Finish(i, "validation") /\ settings' = settings
    BY <1>5 DEF Load
  <2>2. QED
    BY <1>1, <1>2, <1>3, <2>1, FinishStep
<1>6. QED
  BY <1>4, <1>5

LEMMA ValidateStep ==
    ASSUME LaunchInv, NEW i \in Invocations, Validate(i)
    PROVE  LaunchInv'
<1> DEFINE refusal == Refusal(settings[i], machine, job[i].arguments)
<1>1. /\ LaunchTypeOK /\ pc[i] = "loaded" /\ InvocationInv(i) /\ Readable(local)
  BY DEF LaunchInv, InvocationInv, Validate, LaunchTypeOK
<1>2. /\ plan' = plan /\ runner' = runner /\ job' = job /\ campaigns' = campaigns
      /\ settings' = settings /\ draft' = draft /\ local' = local
      /\ started' = started /\ UNCHANGED receiptVars
  BY DEF Validate, runVars
<1>3. CASE refusal # None
  <2>1. Finish(i, refusal) /\ listed' = listed
    BY <1>3 DEF Validate
  <2>2. refusal # "ok"
    BY LaunchAssumption DEF Refusal, MachineRefusal, Results
  <2>3. QED
    BY <1>1, <1>2, <2>1, <2>2, FinishStep
<1>4. CASE refusal = None
  <2>1. Moved(listed', listed, i, Discovered) /\ Moved(pc', pc, i, "listed") /\ result' = result
    BY <1>1, <1>4, TypedTables, Updated DEF Validate, Goto
  <2>2. LaunchTypeOK'
    BY <1>1, <1>2, <1>4, <2>1 DEF LaunchTypeOK, Moved, Table, Phases, Validate, Goto
  <2>3. OthersRest(i)
    BY <1>2, <2>1 DEF OthersRest, Moved
  <2>4. pc'[i] = "listed" /\ listed'[i] = Discovered
    BY <2>1 DEF Moved
  <2>5. /\ ~CostRefused(settings[i].limit, job[i].arguments)
        /\ ~ScheduleRefused(WithModel(settings[i].route, job[i].arguments))
    BY <1>4, LaunchAssumption DEF Refusal, Results
  <2>6. \A d \in DOMAIN Discovered :
            d \in Directories /\ (Discovered[d] = "completed" => Completed(d))
    BY DEF Discovered, HasManifest, Completed
  <2>7. SessionInv(i)' /\ ListedInv(i)' /\ ResultInv(i)'
    BY <1>1, <1>2, <2>1, <2>4, <2>5, <2>6
       DEF InvocationInv, SessionInv, ListedInv, ResultInv, Searches, Ended, Completed
  <2>8. QED
    BY <1>1, <1>2, <2>2, <2>3, <2>4, <2>7, QuietStep
<1>5. QED
  BY <1>3, <1>4

LEMMA BuildPlanStep ==
    ASSUME LaunchInv, NEW i \in Invocations, BuildPlan(i)
    PROVE  LaunchInv'
<1> DEFINE s == settings[i]
           r == job[i]
           h == Inherited(listed[i])
<1>1. LaunchTypeOK /\ pc[i] = "listed" /\ InvocationInv(i)
  BY DEF LaunchInv, InvocationInv, BuildPlan
<1>2. /\ runner' = runner /\ job' = job /\ campaigns' = campaigns
      /\ settings' = settings /\ draft' = draft /\ local' = local /\ result' = result
      /\ started' = started /\ UNCHANGED receiptVars
  BY DEF BuildPlan, runVars
<1> PICK printed \in Printed(s.limit) : plan' = [plan EXCEPT ![i] =
                                                Plan(s, r.arguments, <<i>>, h, printed)]
  BY DEF BuildPlan
<1> DEFINE p == Plan(s, r.arguments, <<i>>, h, printed)
<1>3. /\ Moved(plan', plan, i, p) /\ Moved(pc', pc, i, "planned")
      /\ Moved(listed', listed, i, None)
  <2> HIDE DEF p
  <2>1. plan' = [plan EXCEPT ![i] = p]
    BY DEF p
  <2>2. Table(plan)
    BY <1>1, TypedTables
  <2>3. Moved([plan EXCEPT ![i] = p], plan, i, p)
    BY <2>2, Updated, Zenon
  <2>4. Moved(plan', plan, i, p)
    BY <2>1, <2>3, Zenon
  <2>5. QED
    BY <1>1, <2>4, TypedTables, Updated DEF BuildPlan, Goto
<1>4. LaunchTypeOK'
  BY <1>1, <1>2, <1>3 DEF LaunchTypeOK, Moved, Table, Phases, BuildPlan, Goto
<1>5. OthersRest(i)
  BY <1>2, <1>3 DEF OthersRest, Moved
<1>6. pc'[i] = "planned" /\ plan'[i] = p
  BY <1>3 DEF Moved
<1>7. /\ s.limit \in Nat /\ s.route \in Seq(Int) \cup {None} /\ r \in Requests
      /\ r.arguments \in Arguments /\ <<i>> \in Seq(Int)
      /\ ~CostRefused(s.limit, r.arguments)
      /\ ~ScheduleRefused(WithModel(s.route, r.arguments))
      /\ runner[i] = None /\ result[i] = None
  BY <1>1, LaunchAssumption DEF InvocationInv, SessionInv, ListedInv, Ended
<1> HIDE DEF s, r
<1>8. Workflow.results # None =>
        /\ Directory(i)' \in Directories
        /\ Lacks(r.arguments, Workflow.results) => Directory(i)' = i
  <2>1. Directory(i)' = Parsed(Plan(s, r.arguments, <<i>>, h, printed).command, Workflow.results)[1]
    BY <1>6 DEF Directory
  <2> HIDE DEF h
  <2> DEFINE d == Place(Plan(s, r.arguments, <<i>>, h, printed).command)
  <2>2. ASSUME Workflow.results # None
        PROVE  d \in Directories /\ (Lacks(r.arguments, Workflow.results) => d = i)
    BY <1>7, <2>2, PlanDirectory
  <2> HIDE DEF d
  <2>3. Directory(i)' = d
    BY <2>1 DEF d, Place
  <2>4. QED
    BY <2>2, <2>3
<1>9. WithinCeiling(i)'
  <2>1. SUFFICES ASSUME ~RepeatsAFlag(r.arguments), Workflow.cost # None
                 PROVE  Affordable(p, r.arguments)
    BY <1>2, <1>6 DEF WithinCeiling, r
  <2>2. QED
    BY <1>7, <2>1, PlanWithin
<1>10. h # None => /\ h \in Directories /\ Completed(h) /\ campaigns[h].lineage = "complete"
  <2>1. started \in Seq(Directories)
    BY <1>1 DEF LaunchTypeOK
  <2>2. h # None => h \in Directories /\ Replayable(h, listed[i])
    BY <2>1, InheritedFacts
  <2> HIDE DEF h
  <2>3. \A d \in DOMAIN listed[i] : listed[i][d] = "completed" => Completed(d)
    BY <1>1 DEF InvocationInv, ListedInv
  <2>4. QED
    BY <2>2, <2>3 DEF Replayable
<1>11. p.inherited = h
  BY DEF Plan
<1> HIDE DEF p, h
<1>12. PlanInv(i)'
  BY <1>2, <1>6, <1>8, <1>9, <1>10, <1>11 DEF PlanInv, Completed, r
<1>13. SessionInv(i)' /\ ListedInv(i)' /\ ConsentInv(i)' /\ RunnerInv(i)' /\ ResultInv(i)'
  BY <1>1, <1>2, <1>6, <1>7, LaunchAssumption
     DEF InvocationInv, SessionInv, ListedInv, ConsentInv, RunnerInv, ResultInv, Runners, Results
<1>14. CampaignsOf(i)
  BY <1>1, <1>2, <1>7, LaunchAssumption DEF CampaignsOf, Completed, Runners
<1>15. ReceiptInv'
  BY <1>1, <1>2, <1>5, <1>6, ReceiptsRest
<1>16. QED
  BY <1>4, <1>5, <1>12, <1>13, <1>14, <1>15, OneSteps DEF InvocationInv

LEMMA SelfCheckStep ==
    ASSUME LaunchInv, NEW i \in Invocations, SelfCheck(i)
    PROVE  LaunchInv'
<1>1. pc[i] = "planned" /\ job[i].task = "plan" /\ Readable(local)
  BY DEF SelfCheck, LaunchInv, LaunchTypeOK
<1>2. PICK verdict : Finish(i, verdict)
  BY DEF SelfCheck
<1>3. UNCHANGED <<local, job, settings, plan, listed, draft, runner, campaigns, started,
                  receiptVars>>
  BY DEF SelfCheck, runVars
<1>4. QED
  BY <1>1, <1>2, <1>3, FinishStep

LEMMA AuthorizeStep ==
    ASSUME LaunchInv, NEW i \in Invocations, Authorize(i)
    PROVE  LaunchInv'
<1>1. LaunchTypeOK /\ pc[i] = "planned" /\ InvocationInv(i) /\ Readable(local)
  BY DEF LaunchInv, InvocationInv, Authorize, LaunchTypeOK
<1>2. UNCHANGED <<local, job, settings, plan, listed, draft, runner, campaigns, started,
                  receiptVars>>
  BY DEF Authorize, runVars
<1>3. CASE Finish(i, "cancelled") \/ Finish(i, "usage")
  BY <1>1, <1>2, <1>3, FinishStep
<1>4. CASE (~Spends(i) \/ Agreed(i)) /\ Goto(i, "granted") /\ UNCHANGED result
  <2>1. Moved(pc', pc, i, "granted") /\ result' = result
    BY <1>1, <1>4, TypedTables, Updated DEF Goto
  <2>2. LaunchTypeOK'
    BY <1>1, <1>2, <1>4, <2>1 DEF LaunchTypeOK, Moved, Table, Phases, Goto
  <2>3. OthersRest(i)
    BY <1>2, <2>1 DEF OthersRest, Moved
  <2>4. pc'[i] = "granted" /\ result[i] = None /\ runner[i] = None
    BY <1>1, <2>1 DEF Moved, InvocationInv, SessionInv, Ended
  <2>5. WithinCeiling(i) => WithinCeiling(i)'
    BY <1>2 DEF WithinCeiling
  <2>6. PlanInv(i)'
    BY <1>1, <1>2, <2>4, <2>5 DEF InvocationInv, PlanInv, Completed, Directory
  <2>7. ConsentInv(i)'
    BY <1>2, <1>4 DEF ConsentInv, Spends, Agreed
  <2>8. SessionInv(i)' /\ ListedInv(i)' /\ RunnerInv(i)' /\ ResultInv(i)'
    BY <1>1, <1>2, <2>1, <2>4, LaunchAssumption
       DEF InvocationInv, SessionInv, ListedInv, RunnerInv, ResultInv, Runners, Results
  <2>9. CampaignsOf(i)
    BY <1>1, <1>2, <2>4, LaunchAssumption DEF CampaignsOf, Completed, Runners
  <2>10. ReceiptInv'
    BY <1>1, <1>2, <2>3, <2>4, ReceiptsRest
  <2>11. QED
    BY <2>2, <2>3, <2>6, <2>7, <2>8, <2>9, <2>10, OneSteps DEF InvocationInv
<1>5. QED
  BY <1>3, <1>4 DEF Authorize, Agreed

LEMMA SpawnStep ==
    ASSUME LaunchInv, NEW i \in Invocations, Spawn(i)
    PROVE  LaunchInv'
<1>1. LaunchTypeOK /\ pc[i] = "granted" /\ InvocationInv(i) /\ Readable(local)
  BY DEF LaunchInv, InvocationInv, Spawn, LaunchTypeOK
<1>2. UNCHANGED <<local, job, settings, plan, listed, draft, campaigns, started, receiptVars>>
  BY DEF Spawn
<1>3. CASE Unexecutable(i) # None
  <2>1. Finish(i, Unexecutable(i)) /\ runner' = runner
    BY <1>3 DEF Spawn
  <2>2. Unexecutable(i) # "ok"
    BY LaunchAssumption DEF Unexecutable, Results
  <2>3. QED
    BY <1>1, <1>2, <2>1, <2>2, FinishStep
<1>4. CASE Unexecutable(i) = None
  <2>1. /\ Moved(pc', pc, i, "running") /\ Moved(runner', runner, i, "starting")
        /\ result' = result
    BY <1>1, <1>4, TypedTables, Updated DEF Spawn, Goto
  <2>2. LaunchTypeOK'
    BY <1>1, <1>2, <1>4, <2>1 DEF LaunchTypeOK, Moved, Table, Phases, Runners, Spawn, Goto
  <2>3. OthersRest(i)
    BY <1>2, <2>1 DEF OthersRest, Moved
  <2>4. pc'[i] = "running" /\ result[i] = None /\ runner'[i] = "starting"
    BY <1>1, <2>1 DEF Moved, InvocationInv, SessionInv, Ended
  <2>5. WithinCeiling(i) => WithinCeiling(i)'
    BY <1>2 DEF WithinCeiling
  <2>6. PlanInv(i)' /\ ConsentInv(i)'
    BY <1>1, <1>2, <2>4, <2>5
       DEF InvocationInv, PlanInv, ConsentInv, Completed, Directory, Spends, Agreed
  <2>7. SessionInv(i)' /\ ListedInv(i)' /\ RunnerInv(i)' /\ ResultInv(i)'
    BY <1>1, <1>2, <2>1, <2>4, LaunchAssumption
       DEF InvocationInv, SessionInv, ListedInv, RunnerInv, ResultInv, Runners, Results
  <2>8. CampaignsOf(i)
    BY <1>1, <1>2, <2>4 DEF CampaignsOf, Completed
  <2>9. ReceiptInv'
    BY <1>1, <1>2, <2>3, <2>4, ReceiptsRest
  <2>10. QED
    BY <2>2, <2>3, <2>6, <2>7, <2>8, <2>9, OneSteps DEF InvocationInv
<1>5. QED
  BY <1>3, <1>4

\* A runner that succeeds in a search has completed its campaign, which is where the plan
\* put it.
LEMMA CollectStep ==
    ASSUME LaunchInv, NEW i \in Invocations, Collect(i)
    PROVE  LaunchInv'
<1>1. LaunchTypeOK /\ pc[i] = "running" /\ InvocationInv(i) /\ Readable(local)
  BY DEF LaunchInv, InvocationInv, Collect, LaunchTypeOK
<1>2. UNCHANGED <<local, job, settings, plan, listed, draft, runner, campaigns, started,
                  receiptVars>>
  BY DEF Collect, runVars
<1>3. Finish(i, StatusOf(i))
  BY DEF Collect
<1>4. ASSUME StatusOf(i) = "ok", Searches(i)
      PROVE  Completed(i) /\ campaigns[i].goals
  <2>1. runner[i] = "succeeded" /\ ~(Recorded(i) /\ ~campaigns[i].goals)
    BY <1>4 DEF StatusOf
  <2>2. Directory(i) = i
    BY <1>1, <1>4 DEF InvocationInv, PlanInv, Searches
  <2>3. Completed(i)
    BY <1>1, <1>4, <2>1, <2>2 DEF InvocationInv, RunnerInv, Searches
  <2>4. Recorded(i)
    BY <1>4, <2>3 DEF Recorded, HasManifest, Completed, Searches
  <2>5. QED
    BY <2>1, <2>3, <2>4
<1>5. QED
  BY <1>1, <1>2, <1>3, <1>4, FinishStep

LEMMA InterruptStep ==
    ASSUME LaunchInv, NEW i \in Invocations, Interrupt(i)
    PROVE  LaunchInv'
<1> DEFINE x == IF runner[i] \in {"starting", "searching"} THEN "failed" ELSE runner[i]
<1>1. /\ LaunchTypeOK /\ InvocationInv(i)
      /\ pc[i] \in {"begun", "loaded", "listed", "planned", "granted", "running", "configured",
                    "emptied"}
  BY DEF LaunchInv, InvocationInv, Interrupt
<1>2. UNCHANGED <<local, job, settings, plan, listed, draft, campaigns, started, receiptVars>>
  BY DEF Interrupt
<1>3. /\ Moved(pc', pc, i, "reporting") /\ Moved(result', result, i, "interrupted")
      /\ Moved(runner', runner, i, x)
  <2>1. runner' = [runner EXCEPT ![i] = x]
    BY DEF Interrupt
  <2> HIDE DEF x
  <2>2. Table(pc) /\ Table(result) /\ Table(runner)
    BY <1>1, TypedTables
  <2>3. Moved(pc', pc, i, "reporting") /\ Moved(result', result, i, "interrupted")
    BY <2>2, Updated DEF Interrupt, Finish, Goto
  <2>4. QED
    BY <2>1, <2>2, <2>3, Updated
<1>4. x \in Runners \cup {None}
  BY <1>1 DEF LaunchTypeOK, Runners
<1>5. LaunchTypeOK'
  <2> HIDE DEF x
  <2>1. runner' \in [Invocations -> Runners \cup {None}]
    BY <1>1, <1>3, <1>4 DEF LaunchTypeOK, Moved, Table
  <2>2. QED
    BY <1>1, <1>2, <1>3, <2>1 DEF LaunchTypeOK, Moved, Table, Phases, Ended, Interrupt, Finish, Goto
<1>6. OthersRest(i)
  BY <1>2, <1>3 DEF OthersRest, Moved
<1>7. /\ pc'[i] = "reporting" /\ result'[i] = "interrupted"
      /\ runner'[i] # None => runner[i] # None
      /\ runner'[i] # "searching" /\ (runner'[i] = "succeeded" => runner[i] = "succeeded")
  <2>1. /\ pc'[i] = "reporting" /\ result'[i] = "interrupted" /\ runner'[i] = x
    BY <1>3 DEF Moved
  <2>2. QED
    BY <2>1, LaunchAssumption DEF Runners
<1>8. WithinCeiling(i) => WithinCeiling(i)'
  BY <1>2 DEF WithinCeiling
<1>9. PlanInv(i)' /\ ConsentInv(i)' /\ RunnerInv(i)'
  BY <1>1, <1>2, <1>7, <1>8
     DEF InvocationInv, PlanInv, ConsentInv, RunnerInv, Completed, Directory, Spends, Agreed
<1>10. SessionInv(i)' /\ ListedInv(i)' /\ ResultInv(i)'
  BY <1>1, <1>2, <1>7 DEF InvocationInv, SessionInv, ListedInv, ResultInv, Ended
<1>11. CampaignsOf(i)
  BY <1>1, <1>2, <1>7 DEF CampaignsOf, Completed
<1>12. ReceiptInv'
  BY <1>1, <1>2, <1>6, <1>7, ReceiptsRest
<1>13. QED
  BY <1>5, <1>6, <1>9, <1>10, <1>11, <1>12, OneSteps DEF InvocationInv

LEMMA DiesStep ==
    ASSUME LaunchInv, NEW i \in Invocations, Dies(i)
    PROVE  LaunchInv'
<1>1. /\ LaunchTypeOK /\ InvocationInv(i) /\ pc[i] \notin {"idle", "ended", "dead"}
  BY DEF LaunchInv, InvocationInv, Dies
<1>2. UNCHANGED <<local, job, settings, plan, result, listed, draft, runner, campaigns, started,
                  receiptVars>>
  BY DEF Dies, runVars
<1>3. Moved(pc', pc, i, "dead")
  BY <1>1, TypedTables, Updated DEF Dies, Goto
<1>4. LaunchTypeOK'
  BY <1>1, <1>2, <1>3 DEF LaunchTypeOK, Moved, Table, Phases, Ended, Dies, Goto
<1>5. OthersRest(i)
  BY <1>2, <1>3 DEF OthersRest, Moved
<1>6. pc'[i] = "dead" /\ job'[i] = job[i] /\ plan'[i] = plan[i] /\ runner'[i] = runner[i]
  BY <1>2, <1>3 DEF Moved
<1>7. PlanInv(i)' /\ ConsentInv(i)' /\ RunnerInv(i)'  /\ CampaignsOf(i)
  BY <1>1, <1>2, <1>5, <1>6, SelfKeeps
<1>8. SessionInv(i)' /\ ListedInv(i)' /\ ResultInv(i)'
  BY <1>1, <1>2, <1>6 DEF InvocationInv, SessionInv, ListedInv, ResultInv, Searches, Ended, Completed
<1>9. ReceiptInv'
  BY <1>1, <1>2, <1>5, <1>6, ReceiptsRest
<1>10. QED
  BY <1>4, <1>5, <1>7, <1>8, <1>9, OneSteps DEF InvocationInv

\* A step of the runner of i: its campaign and its own state.
LEMMA RunnerStep ==
    ASSUME LaunchInv, NEW i \in Invocations, runner[i] # None,
           UNCHANGED <<local, invVars, receiptVars>>,
           NEW x \in Runners, Moved(runner', runner, i, x),
           runner' \in [Invocations -> Runners \cup {None}],
           campaigns' \in [Directories -> Campaign \cup {None}],
           started' \in Seq(Directories),
           CampaignsOf(i), RunnerInv(i)'
    PROVE  LaunchInv'
<1>1. /\ LaunchTypeOK /\ InvocationInv(i)
  BY DEF LaunchInv, InvocationInv
<1>2. UNCHANGED <<local, pc, job, settings, plan, result, listed, draft, receiptVars>>
  BY DEF invVars
<1>3. LaunchTypeOK'
  BY <1>1, <1>2 DEF LaunchTypeOK, Table
<1>4. OthersRest(i)
  BY <1>2 DEF OthersRest, Moved
<1>5. \A d \in Directories : Completed(d) => Completed(d)' /\ campaigns'[d] = campaigns[d]
  BY DEF CampaignsOf, Completed
<1>6. WithinCeiling(i) => WithinCeiling(i)'
  BY <1>2 DEF WithinCeiling
<1>7. PlanInv(i)'
  BY <1>1, <1>2, <1>5, <1>6 DEF InvocationInv, PlanInv, Directory
<1>8. SessionInv(i)' /\ ListedInv(i)' /\ ConsentInv(i)'
  BY <1>1, <1>2, <1>5 DEF InvocationInv, SessionInv, ListedInv, ConsentInv, Spends, Agreed
<1>9. ResultInv(i)'
  BY <1>1, <1>2, <1>5 DEF InvocationInv, ResultInv, Searches, Directories
<1>10. ReceiptInv'
  <2>1. pc[i] # "idle"
    BY <1>1 DEF InvocationInv, SessionInv, Ended
  <2>2. QED
    BY <1>2, <1>4, <2>1, ReceiptsRest
<1>11. QED
  BY <1>3, <1>4, <1>7, <1>8, <1>9, <1>10, OneSteps DEF InvocationInv

\* A runner that searches has a directory, and nobody else searches there.
LEMMA OwnDirectoryOf ==
    ASSUME LaunchInv, NEW i \in Invocations, Workflow.results # None, runner[i] # None
    PROVE  /\ Directory(i) \in Directories
           /\ campaigns[Directory(i)] = None \/ runner[i] = "searching" =>
                 \A j \in Invocations \ {i} :
                    runner[j] = "searching" => Directory(j) \in Directories \ {Directory(i)}
<1>1. \A j \in Invocations : RunnerInv(j) /\ PlanInv(j)
  BY DEF LaunchInv
<1>2. \A j \in Invocations : runner[j] # None => Directory(j) \in Directories
  BY <1>1 DEF PlanInv
<1>3. None # "searching"
  BY LaunchAssumption DEF Runners
<1>4. ASSUME campaigns[Directory(i)] = None \/ runner[i] = "searching",
             NEW j \in Invocations \ {i}, runner[j] = "searching"
      PROVE  Directory(j) # Directory(i)
  BY <1>1, <1>4 DEF RunnerInv
<1>5. QED
  BY <1>2, <1>3, <1>4

LEMMA RunnerEndsEarlyStep ==
    ASSUME LaunchInv, NEW i \in Invocations, RunnerEndsEarly(i)
    PROVE  LaunchInv'
<1>1. LaunchTypeOK /\ InvocationInv(i) /\ runner[i] # None
  BY LaunchAssumption DEF LaunchInv, InvocationInv, RunnerEndsEarly, Runners
<1>2. UNCHANGED <<local, invVars, receiptVars, campaigns, started>>
  BY DEF RunnerEndsEarly
<1>3. PICK end \in {"succeeded", "failed"} :
         /\ end = "succeeded" => Workflow.results = None \/ ChecksOnly(plan[i].command)
         /\ runner' = [runner EXCEPT ![i] = end]
  BY DEF RunnerEndsEarly
<1>4. Moved(runner', runner, i, end) /\ runner' \in [Invocations -> Runners \cup {None}]
  BY <1>1, <1>3, TypedTables, Updated DEF LaunchTypeOK, Runners
<1>5. CampaignsOf(i)
  BY <1>2, <1>4 DEF CampaignsOf, Moved
<1>6. RunnerInv(i)'
  BY <1>2, <1>3, <1>4 DEF RunnerInv, Moved, invVars
<1>7. QED
  BY <1>1, <1>2, <1>3, <1>4, <1>5, <1>6, RunnerStep DEF Runners, LaunchTypeOK

LEMMA RunnerStartsStep ==
    ASSUME LaunchInv, NEW i \in Invocations, RunnerStarts(i)
    PROVE  LaunchInv'
<1> DEFINE d == Directory(i)
<1>1. /\ LaunchTypeOK /\ InvocationInv(i) /\ runner[i] = "starting" /\ runner[i] # None
      /\ Workflow.results # None /\ campaigns[d] = None
  BY LaunchAssumption DEF LaunchInv, InvocationInv, RunnerStarts, Runners
<1>2. UNCHANGED <<local, invVars, receiptVars>>
  BY DEF RunnerStarts
<1>3. /\ d \in Directories
      /\ \A j \in Invocations \ {i} : runner[j] = "searching" => Directory(j) \in Directories \ {d}
  BY <1>1, OwnDirectoryOf
<1>4. \A j \in Invocations : Directory(j)' = Directory(j)
  BY <1>2 DEF Directory, invVars
<1>5. PICK status \in {"none", "running"} :
        /\ campaigns' = [campaigns EXCEPT ![d] =
                            [status |-> status, lineage |-> "none", goals |-> FALSE]]
        /\ started' = IF status = "none" THEN started ELSE Append(started, d)
        /\ runner' = [runner EXCEPT ![i] = IF status = "none" THEN "failed" ELSE "searching"]
  BY DEF RunnerStarts
<1> DEFINE new == [status |-> status, lineage |-> "none", goals |-> FALSE]
           x == IF status = "none" THEN "failed" ELSE "searching"
<1>6. /\ new \in Campaign /\ new # None /\ new.status = status
      /\ campaigns' = [campaigns EXCEPT ![d] = new]
  <2>1. new \in Campaign /\ new.status = status /\ campaigns' = [campaigns EXCEPT ![d] = new]
    BY <1>5 DEF Campaign
  <2> HIDE DEF new
  <2>2. QED
    BY <2>1, LaunchAssumption
<1> HIDE DEF d, new
<1>7. /\ x \in Runners /\ x # "succeeded" /\ (x = "searching" => status = "running")
      /\ Moved(runner', runner, i, x)
  <2>1. /\ runner' = [runner EXCEPT ![i] = x] /\ x \in Runners /\ x # "succeeded"
        /\ x = "searching" => status = "running"
    BY <1>5 DEF Runners
  <2> HIDE DEF x
  <2>2. QED
    BY <1>1, <2>1, TypedTables, Updated
<1> HIDE DEF x
<1>8. /\ runner' \in [Invocations -> Runners \cup {None}] /\ started' \in Seq(Directories)
      /\ campaigns' \in [Directories -> Campaign \cup {None}]
  <2>1. started' \in Seq(Directories)
    BY <1>1, <1>3, <1>5 DEF LaunchTypeOK
  <2>2. runner' \in [Invocations -> Runners \cup {None}]
    BY <1>1, <1>7 DEF LaunchTypeOK, Moved, Table
  <2>3. QED
    BY <1>1, <1>3, <1>6, <2>1, <2>2 DEF LaunchTypeOK
<1>9. campaigns'[d] = new /\ \A e \in Directories \ {d} : campaigns'[e] = campaigns[e]
  BY <1>1, <1>3, <1>6 DEF LaunchTypeOK
<1>10. CampaignsOf(i)
  <2>1. campaigns[Directory(i)'] = None
    BY <1>1, <1>4 DEF d
  <2>2. \A e \in Directories : Completed(e) => campaigns'[e] = campaigns[e]
    BY <1>1, <1>9 DEF Completed
  <2>3. QED
    BY <1>3, <1>9, <2>1, <2>2 DEF CampaignsOf
<1>11. RunnerInv(i)'
  <2>1. runner'[i] = x /\ \A j \in Invocations \ {i} : runner'[j] = runner[j]
    BY <1>7 DEF Moved
  <2>2. Directory(i)' = d
    BY <1>4 DEF d
  <2>3. \A j \in Invocations : runner'[j] = "searching" /\ Directory(j)' = d => j = i
    BY <1>3, <1>4, <2>1
  <2>4. QED
    BY <1>1, <1>6, <1>7, <1>9, <2>1, <2>2, <2>3 DEF RunnerInv
<1>12. QED
  BY <1>1, <1>2, <1>7, <1>8, <1>10, <1>11, RunnerStep

\* A runner that searches changes its campaign into new and goes on, or ends.
LEMMA SearchStep ==
    ASSUME LaunchInv, NEW i \in Invocations, runner[i] = "searching",
           UNCHANGED <<local, invVars, receiptVars, started>>,
           NEW new \in Campaign, campaigns' = [campaigns EXCEPT ![Directory(i)] = new],
           NEW x \in Runners, Moved(runner', runner, i, x),
           x = "searching" => new.status = "running",
           x = "succeeded" => new.status = "completed"
    PROVE  LaunchInv'
<1> DEFINE d == Directory(i)
<1>1. LaunchTypeOK /\ InvocationInv(i) /\ runner[i] # None /\ new # None
  BY LaunchAssumption DEF LaunchInv, InvocationInv, Runners
<1>2. Workflow.results # None /\ campaigns[d] # None /\ campaigns[d].status = "running"
  BY <1>1 DEF InvocationInv, RunnerInv
<1>3. /\ d \in Directories
      /\ \A j \in Invocations \ {i} : runner[j] = "searching" => Directory(j) \in Directories \ {d}
  BY <1>1, <1>2, OwnDirectoryOf
<1>4. (\A j \in Invocations : Directory(j)' = Directory(j)) /\ plan' = plan
  BY DEF Directory, invVars
<1>5. Directory(i)' = d
  BY <1>4
<1> HIDE DEF d
<1>6. /\ campaigns'[d] = new /\ \A e \in Directories \ {d} : campaigns'[e] = campaigns[e]
      /\ campaigns' \in [Directories -> Campaign \cup {None}]
  BY <1>1, <1>3 DEF LaunchTypeOK, d
<1>7. /\ runner' \in [Invocations -> Runners \cup {None}] /\ started' \in Seq(Directories)
      /\ runner'[i] = x /\ \A j \in Invocations \ {i} : runner'[j] = runner[j]
  BY <1>1 DEF LaunchTypeOK, Moved, Table
<1>8. CampaignsOf(i)
  <2>1. \A e \in Directories : Completed(e) => campaigns'[e] = campaigns[e]
    BY <1>2, <1>6 DEF Completed
  <2>2. QED
    BY <1>3, <1>4, <1>6, <2>1 DEF CampaignsOf
<1>9. RunnerInv(i)'
  <2>1. \A j \in Invocations : runner'[j] = "searching" /\ Directory(j)' = d => j = i
    BY <1>3, <1>4, <1>7
  <2>2. QED
    BY <1>1, <1>2, <1>5, <1>6, <1>7, <2>1 DEF RunnerInv, Completed
<1>10. QED
  BY <1>1, <1>6, <1>7, <1>8, <1>9, RunnerStep

LEMMA RunnerTracesStep ==
    ASSUME LaunchInv, NEW i \in Invocations, RunnerTraces(i)
    PROVE  LaunchInv'
<1> DEFINE d == Directory(i)
<1>1. LaunchTypeOK /\ InvocationInv(i) /\ runner[i] = "searching" /\ runner[i] # None
  BY LaunchAssumption DEF LaunchInv, InvocationInv, RunnerTraces, Runners
<1>2. UNCHANGED <<local, invVars, receiptVars, runner, started>>
  BY DEF RunnerTraces
<1>3. campaigns[d] # None /\ campaigns[d].status = "running" /\ d \in Directories
  BY <1>1, OwnDirectoryOf DEF InvocationInv, RunnerInv
<1> HIDE DEF d
<1>4. campaigns[d] \in Campaign
  BY <1>1, <1>3 DEF LaunchTypeOK
<1>5. PICK trace \in Traces :
        campaigns' = [campaigns EXCEPT ![d] = [campaigns[d] EXCEPT !.lineage = trace[1],
                                                                   !.goals = trace[2]]]
  BY <1>1, <1>3, <1>4 DEF RunnerTraces, d, LaunchTypeOK
<1> DEFINE a == trace[1]
           b == trace[2]
           c == campaigns[d]
           new == [c EXCEPT !.lineage = a, !.goals = b]
<1>6. a \in {"none", "partial", "complete"} /\ b \in BOOLEAN
  BY DEF Traces
<1>7. c \in Campaign /\ c.status = "running" /\ campaigns' = [campaigns EXCEPT ![d] = new]
  BY <1>3, <1>4, <1>5
<1> HIDE DEF a, b, c
<1>8. new \in Campaign /\ new.status = "running"
  BY <1>6, <1>7 DEF Campaign
<1> HIDE DEF new
<1>9. campaigns' = [campaigns EXCEPT ![Directory(i)] = new]
  BY <1>7 DEF d
<1>10. Moved(runner', runner, i, "searching") /\ "searching" \in Runners
  BY <1>1, <1>2 DEF Moved, LaunchTypeOK, Table, Runners
<1>11. QED
  BY <1>1, <1>2, <1>8, <1>9, <1>10, SearchStep

LEMMA RunnerEndsStep ==
    ASSUME LaunchInv, NEW i \in Invocations, RunnerEnds(i)
    PROVE  LaunchInv'
<1> DEFINE d == Directory(i)
<1>1. LaunchTypeOK /\ InvocationInv(i) /\ runner[i] = "searching" /\ runner[i] # None
  BY LaunchAssumption DEF LaunchInv, InvocationInv, RunnerEnds, Runners
<1>2. UNCHANGED <<local, invVars, receiptVars, started>>
  BY DEF RunnerEnds
<1>3. campaigns[d] # None /\ d \in Directories
  BY <1>1, OwnDirectoryOf DEF InvocationInv, RunnerInv
<1> HIDE DEF d
<1>4. campaigns[d] \in Campaign
  BY <1>1, <1>3 DEF LaunchTypeOK
<1>5. PICK status \in {"completed", "failed", "running"}, end \in {"succeeded", "failed"} :
        /\ end = "succeeded" => status = "completed"
        /\ campaigns' = [campaigns EXCEPT ![d] = [campaigns[d] EXCEPT !.status = status]]
        /\ runner' = [runner EXCEPT ![i] = end]
  BY <1>1, <1>3, <1>4 DEF RunnerEnds, d, LaunchTypeOK
<1> DEFINE c == campaigns[d]
           new == [c EXCEPT !.status = status]
<1>6. c \in Campaign /\ campaigns' = [campaigns EXCEPT ![d] = new]
  BY <1>4, <1>5
<1> HIDE DEF c
<1>7. new \in Campaign /\ new.status = status
  BY <1>6 DEF Campaign
<1> HIDE DEF new
<1>8. campaigns' = [campaigns EXCEPT ![Directory(i)] = new]
  BY <1>6 DEF d
<1>9. Moved(runner', runner, i, end) /\ end \in Runners /\ end # "searching"
  BY <1>1, <1>5, TypedTables, Updated DEF Runners
<1>10. QED
  BY <1>1, <1>2, <1>5, <1>7, <1>8, <1>9, SearchStep

\* What configure writes can be read again.
LEMMA ConfigureReadStep ==
    ASSUME LaunchInv, NEW i \in Invocations, ConfigureRead(i)
    PROVE  LaunchInv'
<1> DEFINE new == Overlaid(local, job[i].changes)
<1>1. /\ LaunchTypeOK /\ InvocationInv(i) /\ Readable(local)
      /\ pc[i] = "loaded" /\ job[i].task = "configure"
  BY DEF LaunchInv, InvocationInv, ConfigureRead, LaunchTypeOK
<1>2. UNCHANGED <<local, job, settings, plan, listed, runner, campaigns, started, receiptVars>>
  BY DEF ConfigureRead, runVars
<1>3. CASE ConfigureRefused(job[i].changes)
  <2>1. Finish(i, "usage") /\ draft' = draft
    BY <1>3 DEF ConfigureRead
  <2>2. QED
    BY <1>1, <1>2, <2>1, FinishStep
<1>4. CASE ~ConfigureRefused(job[i].changes)
  <2>1. job[i] \in Requests /\ Readable(job[i].changes)
    BY <1>1, LaunchAssumption DEF InvocationInv, SessionInv
  <2>2. Readable(new)
    <3> DEFINE changes == job[i].changes
    <3>1. Readable(changes) /\ new = Overlaid(local, changes)
      BY <2>1
    <3> HIDE DEF changes, new
    <3>2. QED
      BY <1>1, <3>1 DEF Readable, Overlaid, Keys
  <2> HIDE DEF new
  <2>3. Moved(draft', draft, i, new) /\ Moved(pc', pc, i, "configured") /\ result' = result
    BY <1>1, <1>4, TypedTables, Updated DEF ConfigureRead, Goto, new
  <2>4. LaunchTypeOK'
    BY <1>1, <1>2, <1>4, <2>3 DEF LaunchTypeOK, Moved, Table, Phases, ConfigureRead, Goto
  <2>5. OthersRest(i)
    BY <1>2, <2>3 DEF OthersRest, Moved
  <2>6. pc'[i] = "configured" /\ draft'[i] = new
    BY <2>3 DEF Moved
  <2>7. SessionInv(i)' /\ ListedInv(i)' /\ ResultInv(i)'
    BY <1>1, <1>2, <2>2, <2>3, <2>6
       DEF InvocationInv, SessionInv, ListedInv, ResultInv, Searches, Ended, Completed
  <2>8. QED
    BY <1>1, <1>2, <2>4, <2>5, <2>6, <2>7, QuietStep
<1>5. QED
  BY <1>3, <1>4

LEMMA ConfigureOpenStep ==
    ASSUME LaunchInv, NEW i \in Invocations, ConfigureOpen(i)
    PROVE  LaunchInv'
<1>1. LaunchTypeOK /\ InvocationInv(i) /\ pc[i] = "configured"
  BY DEF LaunchInv, InvocationInv, ConfigureOpen
<1>2. UNCHANGED <<job, settings, plan, result, listed, draft, runner, campaigns, started,
                  receiptVars>>
  BY DEF ConfigureOpen, runVars
<1>3. Readable(local)'
  BY DEF ConfigureOpen, NoOverrides, Readable, Keys
<1>4. Moved(pc', pc, i, "emptied")
  BY <1>1, TypedTables, Updated DEF ConfigureOpen, Goto
<1>5. LaunchTypeOK'
  BY <1>1, <1>2, <1>3, <1>4 DEF LaunchTypeOK, Moved, Table, Phases, ConfigureOpen, Goto
<1>6. OthersRest(i)
  BY <1>2, <1>4 DEF OthersRest, Moved
<1>7. pc'[i] = "emptied"
  BY <1>4 DEF Moved
<1>8. SessionInv(i)' /\ ListedInv(i)' /\ ResultInv(i)'
  BY <1>1, <1>2, <1>7 DEF InvocationInv, SessionInv, ListedInv, ResultInv, Searches, Ended, Completed
<1>9. QED
  BY <1>1, <1>2, <1>5, <1>6, <1>7, <1>8, QuietStep

LEMMA ConfigureWriteStep ==
    ASSUME LaunchInv, NEW i \in Invocations, ConfigureWrite(i)
    PROVE  LaunchInv'
<1>1. InvocationInv(i) /\ pc[i] = "emptied"
  BY DEF LaunchInv, InvocationInv, ConfigureWrite
<1>2. UNCHANGED <<job, settings, plan, listed, draft, runner, campaigns, started, receiptVars>>
  BY DEF ConfigureWrite, runVars
<1>3. Readable(local)' /\ job[i].task = "configure"
  <2>1. local' = draft[i] /\ Readable(draft[i]) /\ job[i].task = "configure"
    BY <1>1 DEF ConfigureWrite, InvocationInv, SessionInv
  <2>2. QED
    BY <2>1 DEF Readable
<1>4. Finish(i, "ok")
  BY DEF ConfigureWrite
<1>5. QED
  BY <1>1, <1>2, <1>3, <1>4, FinishStep

-------------------------------------------------------------------------------
(* The receipts.                                                           *)

\* A step of a receipt: the invocation has ended, and stays that way.
LEMMA ReceiptStep ==
    ASSUME LaunchInv, NEW i \in Invocations, NEW p, Goto(i, p),
           pc[i] \in {"reporting", "opened", "written"}, p \in {"opened", "written", "ended"},
           UNCHANGED <<local, job, settings, plan, result, listed, draft, runVars>>, ReceiptInv'
    PROVE  LaunchInv'
<1>1. LaunchTypeOK /\ InvocationInv(i)
  BY DEF LaunchInv, InvocationInv
<1>2. UNCHANGED <<local, job, settings, plan, result, listed, draft, runner, campaigns, started>>
  BY DEF runVars
<1>3. Moved(pc', pc, i, p) /\ p \in Phases
  BY <1>1, TypedTables, Updated DEF Goto, Phases, Ended
<1>4. LaunchTypeOK'
  BY <1>1, <1>2, <1>3 DEF LaunchTypeOK, Moved, Table, Goto
<1>5. OthersRest(i)
  BY <1>2, <1>3 DEF OthersRest, Moved
<1>6. pc'[i] = p /\ job'[i] = job[i] /\ plan'[i] = plan[i] /\ runner'[i] = runner[i]
  BY <1>2, <1>3 DEF Moved
<1>7. PlanInv(i)' /\ ConsentInv(i)' /\ RunnerInv(i)'  /\ CampaignsOf(i)
  BY <1>2, <1>5, <1>6, SelfKeeps
<1>8. SessionInv(i)' /\ ListedInv(i)' /\ ResultInv(i)'
  BY <1>1, <1>2, <1>6 DEF InvocationInv, SessionInv, ListedInv, ResultInv, Searches, Ended, Completed
<1>9. QED
  BY <1>4, <1>5, <1>7, <1>8, OneSteps DEF InvocationInv

LEMMA ReceiptOpenStep ==
    ASSUME LaunchInv, NEW i \in Invocations, ReceiptOpen(i)
    PROVE  LaunchInv'
<1> DEFINE t == job[i].task
           file == IF staged[t] = None THEN i ELSE staged[t]
<1>1. /\ LaunchTypeOK /\ ReceiptInv /\ SessionInv(i) /\ pc[i] = "reporting"
  BY DEF LaunchInv, ReceiptOpen
<1>2. UNCHANGED <<local, job, settings, plan, result, listed, draft, runVars>>
  BY DEF ReceiptOpen
<1>3. CASE ~Loads(local)
  <2>1. Goto(i, "ended") /\ UNCHANGED receiptVars
    BY <1>3 DEF ReceiptOpen
  <2>2. Moved(pc', pc, i, "ended")
    BY <1>1, <2>1, TypedTables, Updated DEF Goto
  <2>3. OthersRest(i) /\ pc'[i] = "ended"
    BY <1>2, <2>2 DEF OthersRest, Moved, runVars
  <2>4. ReceiptInv'
    BY <1>1, <1>2, <2>1, <2>3, ReceiptsRest
  <2>5. QED
    BY <1>1, <1>2, <2>1, <2>4, ReceiptStep
<1>4. CASE Loads(local)
  <2>1. /\ staged' = [staged EXCEPT ![t] = file] /\ handle' = [handle EXCEPT ![i] = file]
        /\ inodes' = [inodes EXCEPT ![file] = Empty] /\ Goto(i, "opened") /\ filed' = filed
    BY <1>4 DEF ReceiptOpen
  <2>2. t \in Tasks
    BY <1>1, LaunchAssumption DEF SessionInv
  <2>3. /\ file \in Invocations /\ pc[file] # "idle" /\ job[file].task = t
    BY <1>1, <2>2 DEF ReceiptInv, FilesOf
  <2>4. file # None /\ handle[i] = None
    BY <1>1, <2>3, LaunchAssumption, PlanAssumption DEF ReceiptInv
  <2> HIDE DEF t, file
  <2>5. Moved(pc', pc, i, "opened")
    BY <1>1, <2>1, TypedTables, Updated DEF Goto
  <2>6. \A j \in Invocations : /\ pc[j] # "idle" => pc'[j] # "idle"
                               /\ pc'[j] \in {"opened", "written"} => j = i \/ pc'[j] = pc[j]
                               /\ j # i => pc'[j] = pc[j]
    BY <1>1, <2>5 DEF Moved
  <2>7. /\ staged' \in [Tasks -> Invocations \cup {None}]
        /\ handle' \in [Invocations -> Invocations \cup {None}]
        /\ inodes' \in [Invocations -> Invocations \cup {Empty, Mixed}]
        /\ \A u \in Tasks : staged'[u] = IF u = t THEN file ELSE staged[u]
        /\ \A j \in Invocations : handle'[j] = IF j = i THEN file ELSE handle[j]
        /\ \A j \in Invocations : inodes'[j] = IF j = file THEN Empty ELSE inodes[j]
    BY <1>1, <2>1, <2>2, <2>3 DEF ReceiptInv
  <2>8. FilesOf(staged)' /\ FilesOf(filed)'
    BY <1>1, <1>2, <2>1, <2>3, <2>6, <2>7 DEF ReceiptInv, FilesOf
  <2>9. \A j \in Invocations :
            /\ pc'[j] \in {"opened", "written"} => handle'[j] # None
            /\ handle'[j] # None => /\ pc'[j] \in {"opened", "written", "ended", "dead"}
                                    /\ pc'[handle'[j]] # "idle"
                                    /\ job'[j].task = job'[handle'[j]].task
    <3>1. SUFFICES ASSUME NEW j \in Invocations
                   PROVE  /\ pc'[j] \in {"opened", "written"} => handle'[j] # None
                          /\ handle'[j] # None =>
                                /\ pc'[j] \in {"opened", "written", "ended", "dead"}
                                /\ pc'[handle'[j]] # "idle"
                                /\ job'[j].task = job'[handle'[j]].task
      OBVIOUS
    <3>2. CASE j = i
      <4>1. handle'[j] = file /\ pc'[j] = "opened" /\ pc'[file] # "idle" /\ job' = job
        BY <1>2, <2>3, <2>5, <2>6, <2>7, <3>2 DEF Moved
      <4>2. QED
        BY <2>3, <2>4, <3>2, <4>1 DEF t
    <3>3. CASE j # i
      <4>1. handle'[j] = handle[j] /\ pc'[j] = pc[j] /\ job' = job
        BY <1>2, <2>6, <2>7, <3>3
      <4>2. handle[j] # None => handle[j] \in Invocations
        BY <1>1 DEF ReceiptInv
      <4>3. QED
        BY <1>1, <2>6, <4>1, <4>2 DEF ReceiptInv
    <3>4. QED
      BY <3>2, <3>3
  <2>10. \A j \in Invocations : inodes'[j] \in Invocations => handle'[inodes'[j]] = j
    <3>1. Empty \notin Invocations
      BY LaunchAssumption DEF Empty
    <3>2. \A j \in Invocations : inodes[j] \in Invocations => handle[inodes[j]] = j
      BY <1>1 DEF ReceiptInv
    <3>3. None \notin Invocations
      <4>1. Invocations \subseteq Int
        BY LaunchAssumption
      <4>2. QED
        BY <4>1, PlanAssumption
    <3>4. QED
      BY <2>4, <2>7, <3>1, <3>2, <3>3
  <2>11. ReceiptInv'
    BY <1>1, <2>1, <2>7, <2>8, <2>9, <2>10 DEF ReceiptInv
  <2>12. QED
    BY <1>1, <1>2, <2>1, <2>11, ReceiptStep
<1>5. QED
  BY <1>3, <1>4

LEMMA ReceiptWriteStep ==
    ASSUME LaunchInv, NEW i \in Invocations, ReceiptWrite(i)
    PROVE  LaunchInv'
<1> DEFINE file == handle[i]
<1>1. LaunchTypeOK /\ ReceiptInv /\ pc[i] = "opened" /\ Goto(i, "written")
  BY DEF LaunchInv, ReceiptWrite
<1>2. /\ UNCHANGED <<local, job, settings, plan, result, listed, draft, runVars>>
      /\ staged' = staged /\ filed' = filed /\ handle' = handle /\ job' = job
  BY DEF ReceiptWrite
<1>3. PICK text \in {i, Mixed} : inodes' = [inodes EXCEPT ![file] = text]
  BY DEF ReceiptWrite
<1>4. file \in Invocations /\ file # None
  BY <1>1 DEF ReceiptInv
<1> HIDE DEF file
<1>5. Moved(pc', pc, i, "written")
  BY <1>1, TypedTables, Updated DEF Goto
<1>6. \A j \in Invocations : IF j = i THEN pc'[j] = "written" ELSE pc'[j] = pc[j]
  BY <1>5 DEF Moved
<1>7. /\ inodes' \in [Invocations -> Invocations \cup {Empty, Mixed}]
      /\ \A j \in Invocations : inodes'[j] = IF j = file THEN text ELSE inodes[j]
  BY <1>1, <1>3, <1>4 DEF ReceiptInv
<1>8. FilesOf(staged)' /\ FilesOf(filed)'
  BY <1>1, <1>2, <1>6 DEF ReceiptInv, FilesOf
<1>9. \A j \in Invocations :
          /\ pc'[j] \in {"opened", "written"} => handle[j] # None
          /\ handle[j] # None => /\ pc'[j] \in {"opened", "written", "ended", "dead"}
                                 /\ pc'[handle[j]] # "idle"
                                 /\ job[j].task = job[handle[j]].task
  <2>1. \A j \in Invocations : handle[j] # None => handle[j] \in Invocations
    BY <1>1 DEF ReceiptInv
  <2>2. QED
    BY <1>1, <1>6, <2>1 DEF ReceiptInv
<1>10. \A j \in Invocations : inodes'[j] \in Invocations => handle[inodes'[j]] = j
  <2>1. Mixed \notin Invocations
    BY LaunchAssumption DEF Mixed
  <2>2. \A j \in Invocations : inodes[j] \in Invocations => handle[inodes[j]] = j
    BY <1>1 DEF ReceiptInv
  <2>3. handle[i] = file
    BY DEF file
  <2>4. QED
    BY <1>7, <2>1, <2>2, <2>3
<1>11. ReceiptInv'
  BY <1>1, <1>2, <1>7, <1>8, <1>9, <1>10 DEF ReceiptInv
<1>12. QED
  BY <1>1, <1>2, <1>11, ReceiptStep

LEMMA ReceiptRenameStep ==
    ASSUME LaunchInv, NEW i \in Invocations, ReceiptRename(i)
    PROVE  LaunchInv'
<1> DEFINE t == job[i].task
<1>1. LaunchTypeOK /\ ReceiptInv /\ SessionInv(i) /\ pc[i] = "written" /\ Goto(i, "ended")
  BY DEF LaunchInv, ReceiptRename
<1>2. /\ UNCHANGED <<local, job, settings, plan, result, listed, draft, runVars>>
      /\ inodes' = inodes /\ handle' = handle /\ job' = job
  BY DEF ReceiptRename
<1>3. t \in Tasks
  BY <1>1, LaunchAssumption DEF SessionInv
<1>4. \/ staged' = staged /\ filed' = filed
      \/ filed' = [filed EXCEPT ![t] = staged[t]] /\ staged' = [staged EXCEPT ![t] = None]
  BY DEF ReceiptRename
<1> HIDE DEF t
<1>5. \A u \in Tasks : /\ staged'[u] \in {None, staged[u]}
                       /\ filed'[u] \in {filed[u], staged[u]}
  BY <1>1, <1>3, <1>4 DEF ReceiptInv
<1>6. /\ staged' \in [Tasks -> Invocations \cup {None}]
      /\ filed' \in [Tasks -> Invocations \cup {None}]
  BY <1>1, <1>3, <1>4 DEF ReceiptInv
<1>7. Moved(pc', pc, i, "ended")
  BY <1>1, TypedTables, Updated DEF Goto
<1>8. \A j \in Invocations : IF j = i THEN pc'[j] = "ended" ELSE pc'[j] = pc[j]
  BY <1>7 DEF Moved
<1>9. FilesOf(staged)' /\ FilesOf(filed)'
  BY <1>1, <1>2, <1>5, <1>8 DEF ReceiptInv, FilesOf
<1>10. \A j \in Invocations :
          /\ pc'[j] \in {"opened", "written"} => handle[j] # None
          /\ handle[j] # None => /\ pc'[j] \in {"opened", "written", "ended", "dead"}
                                 /\ pc'[handle[j]] # "idle"
                                 /\ job[j].task = job[handle[j]].task
  <2>1. \A j \in Invocations : handle[j] # None => handle[j] \in Invocations
    BY <1>1 DEF ReceiptInv
  <2>2. QED
    BY <1>1, <1>8, <2>1 DEF ReceiptInv
<1>11. ReceiptInv'
  BY <1>1, <1>2, <1>6, <1>9, <1>10 DEF ReceiptInv
<1>12. QED
  BY <1>1, <1>2, <1>11, ReceiptStep

\* The machine changes, or nothing does.
LEMMA ChangeStep ==
    ASSUME LaunchInv, UNCHANGED <<local, invVars, runVars, receiptVars>>
    PROVE  LaunchInv'
<1>1. UNCHANGED <<local, pc, job, settings, plan, result, listed, draft, runner, campaigns,
                  started, staged, filed, inodes, handle>>
  BY DEF invVars, runVars, receiptVars
<1>2. LaunchTypeOK'  /\ ReceiptInv'
  BY <1>1 DEF LaunchInv, LaunchTypeOK, Table, ReceiptInv, FilesOf
<1>3. ASSUME NEW i \in Invocations
      PROVE  /\ SessionInv(i)' /\ ListedInv(i)' /\ PlanInv(i)' /\ ConsentInv(i)' /\ RunnerInv(i)'
             /\ ResultInv(i)'
  BY <1>1 DEF LaunchInv, SessionInv, ListedInv, PlanInv, WithinCeiling, Directory, ConsentInv,
              Spends, Agreed, RunnerInv, ResultInv, Searches, Completed
<1>4. QED
  BY <1>2, <1>3 DEF LaunchInv

-------------------------------------------------------------------------------
(* The theorems.                                                           *)

LEMMA LaunchSteps == LaunchInv /\ [Next]_vars => LaunchInv'
<1> SUFFICES ASSUME LaunchInv, [Next]_vars PROVE LaunchInv'
  OBVIOUS
<1>1. CASE UNCHANGED vars
  BY <1>1, ChangeStep DEF vars
<1>2. CASE Change
  BY <1>2, ChangeStep DEF Change
<1>3. ASSUME NEW i \in Invocations, NEW r \in Requests, Begin(i, r) PROVE LaunchInv'
  BY <1>3, BeginStep
<1>4. ASSUME NEW i \in Invocations,
             \/ Load(i) \/ Validate(i) \/ BuildPlan(i) \/ SelfCheck(i)
             \/ Authorize(i) \/ Spawn(i) \/ Collect(i) \/ Interrupt(i) \/ Dies(i)
      PROVE  LaunchInv'
  BY <1>4, LoadStep, ValidateStep, BuildPlanStep, SelfCheckStep, AuthorizeStep, SpawnStep,
     CollectStep, InterruptStep, DiesStep
<1>5. ASSUME NEW i \in Invocations,
             \/ RunnerEndsEarly(i) \/ RunnerStarts(i) \/ RunnerTraces(i) \/ RunnerEnds(i)
      PROVE  LaunchInv'
  BY <1>5, RunnerEndsEarlyStep, RunnerStartsStep, RunnerTracesStep, RunnerEndsStep
<1>6. ASSUME NEW i \in Invocations,
             \/ ConfigureRead(i) \/ ConfigureOpen(i) \/ ConfigureWrite(i)
             \/ ReceiptOpen(i) \/ ReceiptWrite(i) \/ ReceiptRename(i)
      PROVE  LaunchInv'
  BY <1>6, ConfigureReadStep, ConfigureOpenStep, ConfigureWriteStep, ReceiptOpenStep,
     ReceiptWriteStep, ReceiptRenameStep
<1>7. QED
  BY <1>1, <1>2, <1>3, <1>4, <1>5, <1>6 DEF Next

\* The inductive invariant: what the session of each invocation has read and agreed to
\* stays true to the campaigns, the runners and the receipt files (launch.py, cli.py,
\* receipt.py).
THEOREM LaunchCorrect == Spec => []LaunchInv
<1>1. Init => LaunchInv
  BY LaunchStart
<1>2. LaunchInv /\ [Next]_vars => LaunchInv'
  BY LaunchSteps
<1>3. QED
  BY <1>1, <1>2, PTL DEF Spec

\* A runner of build_plan's command gets at most the ceiling that somebody agreed to,
\* whatever the settings, the defaults and the arguments are, as long as no flag is given
\* twice; and where the limit has more than six digits, so that it is printed rounded, at
\* most a two hundred thousandth above it.
THEOREM LaunchSpendIsAuthorized == Spec => []SpendIsAuthorized
<1>1. LaunchInv => SpendIsAuthorized
  <2>1. SUFFICES ASSUME LaunchInv, NEW i \in Invocations,
                        runner[i] \in {"starting", "searching"},
                        ~RepeatsAFlag(job[i].arguments), Workflow.cost # None
                 PROVE  LET spend   == Parsed(plan[i].command, Workflow.cost)[1]
                                         * Chunks(plan[i].command)
                            ceiling == plan[i].ceiling
                        IN  /\ spend <= ceiling + ceiling \div 200000
                            /\ HandedExactly(i) => spend <= ceiling
                            /\ spend > 0 => job[i].consent \in {"yes", "terminal"}
    BY DEF SpendIsAuthorized
  <2>2. runner[i] # None
    BY <2>1, LaunchAssumption DEF Runners
  <2> DEFINE spend == Parsed(plan[i].command, Workflow.cost)[1] * Chunks(plan[i].command)
             ceiling == plan[i].ceiling
  <2>3. PlanInv(i) /\ ConsentInv(i)
    BY <2>1 DEF LaunchInv
  <2>4. Affordable(plan[i], job[i].arguments)
    BY <2>1, <2>2, <2>3 DEF PlanInv, WithinCeiling
  <2>5. /\ spend \in Nat /\ ceiling \in Nat /\ spend <= ceiling + ceiling \div 200000
        /\ HandedExactly(i) => spend <= ceiling
        /\ spend > 0 => ceiling > 0
    BY <2>4 DEF Affordable, HandedExactly
  <2>6. ~Spends(i) \/ Agreed(i)
    BY <2>2, <2>3 DEF ConsentInv
  <2>7. Spends(i) <=> ceiling # None /\ ceiling > 0
    BY DEF Spends
  <2> HIDE DEF spend, ceiling
  <2>8. spend > 0 => Spends(i)
    BY <2>5, <2>7, PlanAssumption
  <2>9. QED
    BY <2>5, <2>6, <2>8 DEF Agreed, spend, ceiling
<1>2. QED
  BY <1>1, LaunchCorrect, PTL

\* The receipt under the name of a run says ok only where the campaign that the run
\* planned is completed and has goals, unless the run was of a workflow that keeps none,
\* asked the runner for a check, or had its directory chosen by the user; also while other
\* runs open, write and rename the same two files (run_workflow, write_receipt), and
\* whatever becomes of a runner between its directory and its manifest's last status
\* (run.py).
THEOREM LaunchOkMeansResult == Spec => []OkMeansResult
<1>1. LaunchInv => OkMeansResult
  <2>1. SUFFICES ASSUME LaunchInv, NEW i \in Invocations, filed["run"] # None,
                        inodes[filed["run"]] = i, result[i] = "ok", Workflow.results # None,
                        ~HasFlag(job[i].arguments, Workflow.results),
                        ~ChecksOnly(plan[i].command)
                 PROVE  campaigns[i] # None /\ campaigns[i].status = "completed"
                          /\ campaigns[i].goals
    BY DEF OkMeansResult
  <2> DEFINE file == filed["run"]
  <2>2. ReceiptInv /\ ResultInv(i)
    BY <2>1 DEF LaunchInv
  <2>3. file \in Invocations /\ job[file].task = "run"
    BY <2>1, <2>2 DEF ReceiptInv, FilesOf, Tasks
  <2>4. handle[i] = file /\ file # None
    BY <2>1, <2>2, <2>3 DEF ReceiptInv
  <2>5. job[i].task = "run"
    BY <2>2, <2>3, <2>4 DEF ReceiptInv
  <2>6. Searches(i)
    BY <2>1 DEF Searches, Lacks
  <2>7. QED
    BY <2>1, <2>2, <2>5, <2>6 DEF ResultInv, Completed
<1>2. QED
  BY <1>1, LaunchCorrect, PTL

\* What a plan builds on is completed and traced and stays so, though find_replayable
\* reads the manifests first and the lineages later.
THEOREM LaunchInheritedStands == Spec => []InheritedStands
<1>1. LaunchInv => InheritedStands
  BY DEF LaunchInv, InheritedStands, PlanInv, Completed
<1>2. QED
  BY <1>1, LaunchCorrect, PTL

\* The machine is one of those that there are.
KnownMachine == machine \in Machines

LEMMA MachineKnown == KnownMachine /\ [Next]_vars => KnownMachine'
<1> SUFFICES ASSUME machine \in Machines, [Next]_vars, machine' # machine
             PROVE  machine' \in Machines
  BY DEF KnownMachine
<1> USE DEF worldVars
<1>1. CASE Change
  BY <1>1 DEF Change
<1>2. CASE UNCHANGED vars
  BY <1>2 DEF vars
<1>3. ASSUME NEW i \in Invocations, NEW r \in Requests, Begin(i, r) PROVE FALSE
  BY <1>3 DEF Begin
<1>4. ASSUME NEW i \in Invocations,
             \/ Load(i) \/ Validate(i) \/ BuildPlan(i) \/ SelfCheck(i)
             \/ Authorize(i) \/ Spawn(i) \/ Collect(i) \/ Interrupt(i) \/ Dies(i)
      PROVE  FALSE
  BY <1>4 DEF Load, Validate, BuildPlan, SelfCheck, Authorize, Spawn, Collect, Interrupt, Dies
<1>5. ASSUME NEW i \in Invocations,
             \/ RunnerEndsEarly(i) \/ RunnerStarts(i) \/ RunnerTraces(i) \/ RunnerEnds(i)
      PROVE  FALSE
  BY <1>5 DEF RunnerEndsEarly, RunnerStarts, RunnerTraces, RunnerEnds
<1>6. ASSUME NEW i \in Invocations,
             \/ ConfigureRead(i) \/ ConfigureOpen(i) \/ ConfigureWrite(i)
             \/ ReceiptOpen(i) \/ ReceiptWrite(i) \/ ReceiptRename(i)
      PROVE  FALSE
  BY <1>6 DEF ConfigureRead, ConfigureOpen, ConfigureWrite, ReceiptOpen, ReceiptWrite,
              ReceiptRename
<1>7. QED
  BY <1>1, <1>2, <1>3, <1>4, <1>5, <1>6 DEF Next

\* A reserve that the free space has when it is rounded, it misses by half a unit at most.
LEMMA ShownSpace ==
    ASSUME NEW free \in Nat, NEW reserve \in Int, NEW shown \in Rounded(free, Hundredth),
           shown >= reserve
    PROVE  free >= reserve - Hundredth \div 2
<1> DEFINE h == Hundredth
           q == h * (free \div h)
<1>1. h \in Nat /\ h > 0
  BY PlanAssumption
<1>2. q \in Int
  <2> DEFINE k == free \div h
  <2>1. k \in Int
    BY <1>1
  <2> HIDE DEF k, h
  <2>2. h * k \in Int
    BY <1>1, <2>1
  <2>3. QED
    BY <2>2 DEF k
<1>3. shown \in {q, q + h} /\ 2 * (shown - free) \in -h .. h
  BY DEF Rounded
<1> HIDE DEF q, h
<1>4. free >= reserve - h \div 2
  BY <1>1, <1>2, <1>3
<1>5. QED
  BY <1>4 DEF h

\* Where run_doctor has nothing to report, no check of the machine in build_plan refuses
\* a workflow that needs no tool beyond those that doctor looks for, but for a reserve that
\* is missed by less than half a hundredth of a gigabyte: two pieces of code that read the
\* same machine, and of which only one rounds.
THEOREM LaunchReadyMeansRunnable == Spec => []ReadyMeansRunnable
<1>1. ASSUME LaunchInv, KnownMachine PROVE ReadyMeansRunnable
  <2>1. SUFFICES ASSUME Loads(local), DoctorReady(LoadSettings(local), machine),
                        machine.shinka # None
                 PROVE  MachineRefusal([LoadSettings(local) EXCEPT !.reserve =
                                           @ - Hundredth \div 2], machine) = None
    BY DEF ReadyMeansRunnable
  <2> DEFINE s == LoadSettings(local)
             t == [s EXCEPT !.reserve = @ - Hundredth \div 2]
  <2>2. s.reserve \in Int /\ Readable(local)
    <3>1. Readable(local) /\ s.reserve = Merged(local, "reserve")
      BY <1>1 DEF LaunchInv, LaunchTypeOK, LoadSettings, Keys
    <3>2. QED
      BY <3>1, PlanAssumption DEF Readable, Merged
  <2>3. /\ t.reserve = s.reserve - Hundredth \div 2
        /\ t.database = s.database /\ t.artifacts = s.artifacts
    BY DEF LoadSettings, Keys
  <2> HIDE DEF s, t
  <2>4. DoctorReady(s, machine)
    BY <2>1 DEF s
  <2>5. Managed(machine) /\ LockCurrent(machine)
    BY <2>4 DEF DoctorReady
  <2>6. MissingTools(machine) = {}
    <3>1. \A tool \in Toml.tools \cup {"uv", "mise", "git", "lake"} : Available(machine, tool)
      BY <2>4 DEF DoctorReady, ToolsReported
    <3>2. \A tool \in Workflow.requires \ {"shinka"} : Available(machine, tool)
      BY <3>1, ToolsAssumption
    <3>3. QED
      BY <2>1, <3>2 DEF MissingTools
  <2>7. ~StorageRefused(t, machine)
    <3>1. ~StorageReported(s, machine)
      BY <2>4 DEF DoctorReady
    <3>2. /\ machine.writable /\ ~(Toml.requireExternal /\ ~machine.external)
          /\ \E shown \in Rounded(machine.free, Hundredth) : ~(shown < s.reserve)
      BY <3>1 DEF StorageReported
    <3>3. PICK shown \in Rounded(machine.free, Hundredth) : ~(shown < s.reserve)
      BY <3>2
    <3>4. machine.free \in Nat
      BY <1>1, LaunchAssumption DEF KnownMachine
    <3>5. shown \in Int
      <4> DEFINE k == machine.free \div Hundredth
      <4>1. Hundredth \in Int /\ k \in Int
        BY <3>4, PlanAssumption
      <4> HIDE DEF k
      <4>2. Hundredth * k \in Int /\ Hundredth * k + Hundredth \in Int
        BY <4>1
      <4>3. QED
        BY <4>2 DEF Rounded, k
    <3>6. machine.free >= s.reserve - Hundredth \div 2
      BY <2>2, <3>3, <3>4, <3>5, ShownSpace
    <3>7. Hundredth \div 2 \in Int
      BY PlanAssumption
    <3>8. ~(machine.free < t.reserve)
      BY <2>2, <2>3, <3>4, <3>6, <3>7
    <3>9. QED
      BY <3>2, <3>8 DEF StorageRefused
  <2>8. ~LedgerRefused(t, machine)
    BY <2>3, <2>4 DEF DoctorReady, LedgerReported, LedgerRefused, LedgerOf
  <2>9. QED
    BY <2>5, <2>6, <2>7, <2>8 DEF MachineRefusal, s, t
<1>2. Init => KnownMachine
  BY LaunchAssumption DEF Init, KnownMachine
<1>3. Spec => []KnownMachine
  BY <1>2, MachineKnown, PTL DEF Spec
<1>4. QED
  BY <1>1, <1>3, LaunchCorrect, PTL
===============================================================================
