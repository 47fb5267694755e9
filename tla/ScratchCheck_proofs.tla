------------------------- MODULE ScratchCheck_proofs -------------------------
(***************************************************************************)
(* Proofs about ScratchCheck: an assembled stream has the modules that the *)
(* candidate reaches, each after its imports; what was accepted elaborates *)
(* and extends its parent; and the checkpoint only grows.                  *)
(***************************************************************************)
EXTENDS ScratchCheck, SequenceTheorems, FiniteSetTheorems, WellFoundedInduction, TLAPS

-------------------------------------------------------------------------------
(* Counting up to a number *)

LEMMA CountsUp ==
    ASSUME NEW n \in Nat, NEW T, 0 \in T, \A k \in 0 .. n - 1 : k \in T => k + 1 \in T
    PROVE  0 .. n \subseteq T
<1> DEFINE R == {ss \in Nat \X Nat : ss[1] < ss[2]}
           U == {k \in 0 .. n : k \notin T}
<1>1. IsWellFoundedOn(R, Nat)
  BY NatLessThanWellFounded DEF OpToRel
<1>2. SUFFICES ASSUME U # {} PROVE FALSE
  OBVIOUS
<1>3. PICK x \in U : \A y \in U : ~ (<<y, x>> \in R)
  <2>1. U \subseteq Nat
    OBVIOUS
  <2> HIDE DEF R, U
  <2>2. QED
    BY <1>1, <1>2, <2>1, WFMin, Zenon
<1>4. x \in 0 .. n /\ x \notin T /\ x # 0
  OBVIOUS
<1>5. x - 1 \in 0 .. n - 1 /\ <<x - 1, x>> \in R
  BY <1>4
<1>6. x - 1 \notin T
  BY <1>4, <1>5
<1>7. x - 1 \in U
  BY <1>5, <1>6
<1>8. QED
  BY <1>3, <1>5, <1>7

\* g has the states, in V, of a loop over the steps 1 .. n.
IsLoop(g, n, V, v, step) ==
    g \in [0 .. n -> V] /\ g[0] = v /\ \A k \in 1 .. n : g[k] = step[k][g[k - 1]]

\* A loop has states.
LEMMA LoopExists ==
    ASSUME NEW n \in Nat, NEW V, NEW v \in V, NEW step \in [1 .. n -> [V -> V]]
    PROVE  \E g : IsLoop(g, n, V, v, step)
<1> DEFINE Loop(g, m) == g[0] = v /\ \A k \in 1 .. m : g[k] = step[k][g[k - 1]]
           T == {m \in 0 .. n : \E g \in [0 .. m -> V] : Loop(g, m)}
<1>1. 0 \in T
  <2> DEFINE g == [k \in 0 .. 0 |-> v]
  <2>1. g[0] = v /\ g \in [0 .. 0 -> V]
    OBVIOUS
  <2>2. Loop(g, 0)
    BY <2>1
  <2> HIDE DEF g
  <2>3. QED
    BY <2>1, <2>2
<1>2. ASSUME NEW m \in 0 .. n - 1, m \in T PROVE m + 1 \in T
  <2>1. PICK h \in [0 .. m -> V] : Loop(h, m)
    BY <1>2
  <2> DEFINE w == step[m + 1][h[m]]
             g == [k \in 0 .. m + 1 |-> IF k = m + 1 THEN w ELSE h[k]]
  <2>2. m + 1 \in 1 .. n /\ m \in 0 .. m /\ \A k \in 0 .. m : k \in 0 .. m + 1 /\ k # m + 1
    OBVIOUS
  <2>3. step[m + 1] \in [V -> V] /\ h[m] \in V
    BY <2>2
  <2>4. w \in V
    BY <2>3
  <2> HIDE DEF w
  <2>5. g \in [0 .. m + 1 -> V] /\ g[m + 1] = w /\ \A k \in 0 .. m : g[k] = h[k]
    BY <2>2, <2>4
  <2> HIDE DEF g
  <2>6. g[0] = v
    BY <2>1, <2>5
  <2>7. ASSUME NEW k \in 1 .. m + 1 PROVE g[k] = step[k][g[k - 1]]
    <3>1. CASE k = m + 1
      <4>1. k - 1 = m /\ g[k - 1] = h[m]
        BY <2>5, <3>1
      <4>2. QED
        BY <2>5, <3>1, <4>1 DEF w
    <3>2. CASE k # m + 1
      <4>1. k \in 1 .. m /\ k \in 0 .. m /\ k - 1 \in 0 .. m
        BY <3>2
      <4>2. h[k] = step[k][h[k - 1]]
        BY <2>1, <4>1
      <4>3. QED
        BY <2>5, <4>1, <4>2
    <3>3. QED
      BY <3>1, <3>2
  <2>8. QED
    BY <2>2, <2>5, <2>6, <2>7
<1>3. 0 .. n \subseteq T
  <2> HIDE DEF T
  <2>1. QED
    BY <1>1, <1>2, CountsUp
<1>4. n \in T
  BY <1>3
<1>5. QED
  BY <1>4 DEF IsLoop

\* What such a loop keeps in V is in V.
LEMMA LoopKeeps ==
    ASSUME NEW n \in Nat, NEW g, NEW V, g[0] \in V,
           \A k \in 1 .. n : g[k - 1] \in V => g[k] \in V
    PROVE  \A k \in 0 .. n : g[k] \in V
<1> DEFINE T == {k \in 0 .. n : g[k] \in V}
<1>1. 0 \in T
  OBVIOUS
<1>2. ASSUME NEW k \in 0 .. n - 1, k \in T PROVE k + 1 \in T
  <2>1. k + 1 \in 1 .. n /\ (k + 1) - 1 = k /\ k + 1 \in 0 .. n
    OBVIOUS
  <2>2. g[k + 1] \in V
    BY <1>2, <2>1
  <2>3. QED
    BY <2>1, <2>2
<1>3. 0 .. n \subseteq T
  <2> HIDE DEF T
  <2>1. QED
    BY <1>1, <1>2, CountsUp
<1>4. QED
  BY <1>3
-------------------------------------------------------------------------------
(* Sequences *)

LEMMA SeqFacts ==
    ASSUME NEW S, NEW s \in Seq(S)
    PROVE  /\ Len(s) \in Nat /\ DOMAIN s = 1 .. Len(s)
           /\ \A i \in 1 .. Len(s) : s[i] \in S
  OBVIOUS

LEMMA HasFirst == ASSUME NEW s, 1 \in DOMAIN s PROVE s # <<>>
<1>1. DOMAIN <<>> = {}
  OBVIOUS
<1>2. QED
  BY <1>1

LEMMA FunctionIsSeq ==
    ASSUME NEW S, NEW n \in Nat, NEW f \in [1 .. n -> S]
    PROVE  f \in Seq(S)
  OBVIOUS

\* g has the states of the recursion that Picked is.
IsPick(g, S, s, I) ==
    /\ g \in [0 .. Len(s) -> Seq(S)]
    /\ g[0] = <<>>
    /\ \A k \in 1 .. Len(s) : g[k] = IF k \in I THEN Append(g[k - 1], s[k]) ELSE g[k - 1]
    /\ Picked(s, I) = g[Len(s)]

LEMMA PickedStates ==
    ASSUME NEW S, NEW s \in Seq(S), NEW I
    PROVE  \E g : IsPick(g, S, s, I)
<1> DEFINE n == Len(s)
           V == Seq(S)
           step == [k \in 1 .. n |-> [x \in V |-> IF k \in I THEN Append(x, s[k]) ELSE x]]
<1>1. n \in Nat /\ <<>> \in V /\ \A i \in 1 .. n : s[i] \in S
  OBVIOUS
<1>2. \A k \in 1 .. n : \A x \in V : (IF k \in I THEN Append(x, s[k]) ELSE x) \in V
  BY <1>1
<1>3. step \in [1 .. n -> [V -> V]]
  <2> HIDE DEF V, n
  <2>1. QED
    BY <1>2
<1>4. PICK g \in [0 .. n -> V] :
         g[0] = <<>> /\ \A k \in 1 .. n : g[k] = step[k][g[k - 1]]
  <2> HIDE DEF step, V, n
  <2>1. \E g : IsLoop(g, n, V, <<>>, step)
    BY <1>1, <1>3, LoopExists
  <2>2. QED
    BY <2>1 DEF IsLoop
<1>5. ASSUME NEW k \in 1 .. n
      PROVE  g[k] = IF k \in I THEN Append(g[k - 1], s[k]) ELSE g[k - 1]
  <2>1. k - 1 \in 0 .. n
    OBVIOUS
  <2> HIDE DEF V, n
  <2>2. g[k - 1] \in V
    BY <2>1
  <2>3. QED
    BY <1>4, <2>2
<1> HIDE DEF V, step
<1> DEFINE Eq(f) == f = [i \in 0 .. n |-> IF i = 0 THEN <<>>
                                          ELSE IF i \in I THEN Append(f[i - 1], s[i])
                                          ELSE f[i - 1]]
           h == CHOOSE f : Eq(f)
<1>6. Eq(g)
  <2>1. \A i \in 0 .. n : i # 0 => i \in 1 .. n
    BY <1>1
  <2>2. \A i \in 0 .. n : g[i] = IF i = 0 THEN <<>>
                                 ELSE IF i \in I THEN Append(g[i - 1], s[i]) ELSE g[i - 1]
    BY <1>4, <1>5, <2>1
  <2>3. QED
    BY <2>2
<1>7. Eq(h)
  <2> HIDE DEF Eq
  <2>1. QED
    BY <1>6
<1>8. Picked(s, I) = h[n]
  BY DEF Picked
<1> HIDE DEF h, n
<1>9. /\ h[0] = <<>>
      /\ \A k \in 1 .. n : h[k] = IF k \in I THEN Append(h[k - 1], s[k]) ELSE h[k - 1]
  <2>1. 0 \in 0 .. n /\ \A k \in 1 .. n : k \in 0 .. n /\ k # 0
    BY <1>1
  <2>2. QED
    BY <1>7, <2>1
<1>10. \A k \in 0 .. n : h[k] \in V
  <2>1. h[0] \in V
    BY <1>1, <1>9
  <2>2. ASSUME NEW k \in 1 .. n, h[k - 1] \in V PROVE h[k] \in V
    <3>1. s[k] \in S /\ h[k - 1] \in Seq(S)
      BY <1>1, <2>2 DEF V
    <3>2. Append(h[k - 1], s[k]) \in Seq(S)
      BY <3>1
    <3>3. QED
      BY <1>9, <3>1, <3>2 DEF V
  <2>3. QED
    BY <1>1, <2>1, <2>2, LoopKeeps
<1>11. h \in [0 .. n -> V]
  BY <1>7, <1>10
<1>12. QED
  BY <1>8, <1>9, <1>11 DEF n, V, IsPick

\* A prefix, element by element.
LEMMA PrefixFacts ==
    ASSUME NEW S, NEW s \in Seq(S), NEW t \in Seq(S)
    PROVE  StartsWith(s, t) <=> /\ Len(t) <= Len(s)
                                /\ \A i \in 1 .. Len(t) : s[i] = t[i]
<1>1. Len(s) \in Nat /\ Len(t) \in Nat
  OBVIOUS
<1>2. CASE Len(t) <= Len(s)
  <2> DEFINE u == SubSeq(s, 1, Len(t))
  <2>1. u \in Seq(S) /\ Len(u) = Len(t) /\ \A i \in 1 .. Len(t) : u[i] = s[i]
    BY <1>1, <1>2
  <2> HIDE DEF u
  <2>2. (\A i \in 1 .. Len(t) : u[i] = t[i]) => u = t
    BY <2>1, SeqEqual
  <2>3. u = t <=> \A i \in 1 .. Len(t) : s[i] = t[i]
    BY <2>1, <2>2
  <2>4. QED
    BY <1>2, <2>3 DEF StartsWith, u
<1>3. QED
  BY <1>2 DEF StartsWith

LEMMA PrefixTransitive ==
    ASSUME NEW S, NEW s \in Seq(S), NEW t \in Seq(S), NEW u \in Seq(S),
           StartsWith(s, t), StartsWith(t, u)
    PROVE  StartsWith(s, u)
<1>1. Len(u) <= Len(t) /\ \A i \in 1 .. Len(u) : t[i] = u[i]
  BY PrefixFacts
<1>2. Len(t) <= Len(s) /\ \A i \in 1 .. Len(t) : s[i] = t[i]
  BY PrefixFacts
<1>3. Len(s) \in Nat /\ Len(t) \in Nat /\ Len(u) \in Nat
  OBVIOUS
<1>4. Len(u) <= Len(s) /\ \A i \in 1 .. Len(u) : s[i] = u[i]
  BY <1>1, <1>2, <1>3
<1>5. QED
  BY <1>4, PrefixFacts

LEMMA PrefixExtended ==
    ASSUME NEW S, NEW s \in Seq(S), NEW t \in Seq(S)
    PROVE  /\ StartsWith(s, s) /\ StartsWith(s \o t, s)
           /\ \A e \in S : StartsWith(Append(s, e), s)
<1>1. StartsWith(s, s)
  BY PrefixFacts
<1>2. StartsWith(s \o t, s)
  <2> DEFINE u == s \o t
  <2>1. u \in Seq(S) /\ Len(s) <= Len(u) /\ \A i \in 1 .. Len(s) : u[i] = s[i]
    OBVIOUS
  <2> HIDE DEF u
  <2>2. StartsWith(u, s)
    BY <2>1, PrefixFacts
  <2>3. QED
    BY <2>2 DEF u
<1>3. ASSUME NEW e \in S PROVE StartsWith(Append(s, e), s)
  <2> DEFINE u == Append(s, e)
  <2>1. u \in Seq(S) /\ Len(s) <= Len(u) /\ \A i \in 1 .. Len(s) : u[i] = s[i]
    OBVIOUS
  <2> HIDE DEF u
  <2>2. StartsWith(u, s)
    BY <2>1, PrefixFacts
  <2>3. QED
    BY <2>2 DEF u
<1>4. QED
  BY <1>1, <1>2, <1>3

\* Picked has the elements at the positions I and no other.
HasPicked(c, S, s, I) ==
    /\ c \in Seq(S)
    /\ \A j \in 1 .. Len(c) : \E i \in 1 .. Len(s) : i \in I /\ c[j] = s[i]
    /\ \A i \in 1 .. Len(s) : i \in I => \E j \in 1 .. Len(c) : c[j] = s[i]

LEMMA PickedFacts ==
    ASSUME NEW S, NEW s \in Seq(S), NEW I
    PROVE  HasPicked(Picked(s, I), S, s, I)
<1> DEFINE n == Len(s)
           From(u) == \A j \in 1 .. Len(u) : \E i \in 1 .. n : i \in I /\ u[j] = s[i]
           Has(u, m) == \A i \in 1 .. m : i \in I => \E j \in 1 .. Len(u) : u[j] = s[i]
<1>1. n \in Nat /\ \A i \in 1 .. n : s[i] \in S
  OBVIOUS
<1>2. PICK g :
              /\ g \in [0 .. n -> Seq(S)] /\ g[0] = <<>>
              /\ \A k \in 1 .. n : g[k] = IF k \in I THEN Append(g[k - 1], s[k])
                                         ELSE g[k - 1]
              /\ Picked(s, I) = g[n]
  <2>1. \E g : IsPick(g, S, s, I)
    BY PickedStates
  <2>2. QED
    BY <2>1 DEF IsPick
<1> HIDE DEF n
<1>3. ASSUME NEW k \in 0 .. n - 1, From(g[k]), Has(g[k], k)
      PROVE  From(g[k + 1]) /\ Has(g[k + 1], k + 1)
  <2>1. /\ k + 1 \in 1 .. n /\ k \in 0 .. n /\ (k + 1) - 1 = k
        /\ \A i \in 1 .. k + 1 : i = k + 1 \/ i \in 1 .. k
    BY <1>1
  <2>2. g[k] \in Seq(S) /\ s[k + 1] \in S
    BY <1>1, <1>2, <2>1
  <2>3. CASE k + 1 \in I
    <3> DEFINE a == Append(g[k], s[k + 1])
    <3>1. g[k + 1] = a
      BY <1>2, <2>1, <2>3
    <3>2. /\ a \in Seq(S) /\ Len(a) = Len(g[k]) + 1 /\ a[Len(a)] = s[k + 1]
          /\ \A j \in 1 .. Len(g[k]) : a[j] = g[k][j]
          /\ Len(g[k]) \in Nat
      BY <2>2
    <3> HIDE DEF a
    <3>3. From(a)
      <4>1. \A j \in 1 .. Len(a) : j = Len(a) \/ j \in 1 .. Len(g[k])
        BY <3>2
      <4>2. QED
        BY <1>3, <2>1, <2>3, <3>2, <4>1
    <3>4. Has(a, k + 1)
      <4>1. Len(a) \in 1 .. Len(a) /\ \A j \in 1 .. Len(g[k]) : j \in 1 .. Len(a)
        BY <3>2
      <4>2. QED
        BY <1>3, <2>1, <3>2, <4>1
    <3>5. QED
      BY <3>1, <3>3, <3>4
  <2>4. CASE k + 1 \notin I
    <3>1. g[k + 1] = g[k]
      BY <1>2, <2>1, <2>4
    <3>2. Has(g[k], k + 1)
      BY <1>3, <2>1, <2>4
    <3>3. QED
      BY <1>3, <3>1, <3>2
  <2>5. QED
    BY <2>3, <2>4
<1> HIDE DEF From, Has
<1> DEFINE Good(k) == From(g[k]) /\ Has(g[k], k)
           T == {k \in 0 .. n : Good(k)}
<1>4. 0 \in T
  <2>1. Len(g[0]) = 0
    BY <1>2
  <2>2. Good(0)
    BY <2>1 DEF From, Has
  <2> HIDE DEF Good
  <2>3. QED
    BY <1>1, <2>2
<1>5. ASSUME NEW k \in 0 .. n - 1, k \in T PROVE k + 1 \in T
  <2>1. k \in 0 .. n /\ k + 1 \in 0 .. n /\ Good(k)
    BY <1>1, <1>5
  <2>2. Good(k + 1)
    BY <1>3, <2>1
  <2> HIDE DEF Good
  <2>3. QED
    BY <2>1, <2>2
<1>6. 0 .. n \subseteq T
  <2> HIDE DEF T
  <2>1. QED
    BY <1>1, <1>4, <1>5, CountsUp
<1>7. From(g[n]) /\ Has(g[n], n) /\ g[n] \in Seq(S)
  <2>1. n \in 0 .. n
    BY <1>1
  <2>2. QED
    BY <1>2, <1>6, <2>1
<1>8. QED
  BY <1>2, <1>7 DEF HasPicked, From, Has, n

\* What is picked of a prefix is a prefix of what is picked.
LEMMA PickedPrefix ==
    ASSUME NEW S, NEW s \in Seq(S), NEW t \in Seq(S), NEW I, NEW J, StartsWith(s, t),
           \A k \in 1 .. Len(t) : k \in I <=> k \in J
    PROVE  StartsWith(Picked(s, I), Picked(t, J))
<1> DEFINE n == Len(s)
           m == Len(t)
<1>1. n \in Nat /\ m \in Nat /\ m <= n /\ \A i \in 1 .. m : s[i] = t[i]
  BY PrefixFacts
<1>2. \A i \in 1 .. n : s[i] \in S
  OBVIOUS
<1>3. PICK g :
              /\ g \in [0 .. n -> Seq(S)] /\ g[0] = <<>>
              /\ \A k \in 1 .. n : g[k] = IF k \in I THEN Append(g[k - 1], s[k])
                                         ELSE g[k - 1]
              /\ Picked(s, I) = g[n]
  <2>1. \E g : IsPick(g, S, s, I)
    BY PickedStates
  <2>2. QED
    BY <2>1 DEF IsPick
<1>4. PICK h :
              /\ h \in [0 .. m -> Seq(S)] /\ h[0] = <<>>
              /\ \A k \in 1 .. m : h[k] = IF k \in J THEN Append(h[k - 1], t[k])
                                         ELSE h[k - 1]
              /\ Picked(t, J) = h[m]
  <2>1. \E h : IsPick(h, S, t, J)
    BY PickedStates
  <2>2. QED
    BY <2>1 DEF IsPick
<1> HIDE DEF n, m
<1>5. h[m] \in Seq(S)
  BY <1>1, <1>4
<1> DEFINE Good(k) == IF k <= m THEN g[k] = h[k] ELSE StartsWith(g[k], h[m])
           T == {k \in 0 .. n : Good(k)}
<1>6. 0 \in T
  BY <1>1, <1>3, <1>4
<1>7. ASSUME NEW k \in 0 .. n - 1, k \in T PROVE k + 1 \in T
  <2>1. /\ k + 1 \in 1 .. n /\ k \in 0 .. n /\ (k + 1) - 1 = k /\ k + 1 \in 0 .. n /\ Good(k)
        /\ g[k] \in Seq(S) /\ s[k + 1] \in S
    BY <1>1, <1>2, <1>3, <1>7
  <2>2. g[k + 1] = IF k + 1 \in I THEN Append(g[k], s[k + 1]) ELSE g[k]
    BY <1>3, <2>1
  <2>3. CASE k + 1 <= m
    <3>1. k + 1 \in 1 .. m /\ k <= m
      BY <1>1, <2>3
    <3>2. h[k + 1] = IF k + 1 \in J THEN Append(h[k], t[k + 1]) ELSE h[k]
      BY <1>4, <2>1, <3>1
    <3>3. k + 1 \in I <=> k + 1 \in J
      BY <3>1 DEF m
    <3>4. g[k] = h[k] /\ s[k + 1] = t[k + 1]
      BY <1>1, <2>1, <3>1
    <3>5. g[k + 1] = h[k + 1]
      BY <2>2, <3>2, <3>3, <3>4
    <3>6. QED
      BY <2>1, <2>3, <3>5
  <2>4. CASE ~ (k + 1 <= m)
    <3>1. StartsWith(g[k], h[m])
      <4>1. CASE k <= m
        <5>1. k = m
          BY <1>1, <2>1, <2>4, <4>1
        <5>2. g[k] = h[m]
          BY <2>1, <4>1, <5>1
        <5>3. QED
          BY <1>5, <5>2, PrefixExtended
      <4>2. CASE ~ (k <= m)
        BY <2>1, <4>2
      <4>3. QED
        BY <4>1, <4>2
    <3>2. StartsWith(Append(g[k], s[k + 1]), g[k])
      BY <2>1, PrefixExtended
    <3>3. Append(g[k], s[k + 1]) \in Seq(S)
      BY <2>1
    <3>4. StartsWith(Append(g[k], s[k + 1]), h[m])
      BY <1>5, <2>1, <3>1, <3>2, <3>3, PrefixTransitive
    <3>5. StartsWith(g[k + 1], h[m])
      BY <2>2, <3>1, <3>4
    <3>6. QED
      BY <2>1, <2>4, <3>5
  <2>5. QED
    BY <2>3, <2>4
<1>8. 0 .. n \subseteq T
  <2> HIDE DEF T
  <2>1. QED
    BY <1>1, <1>6, <1>7, CountsUp
<1>9. StartsWith(g[n], h[m])
  <2>1. n \in 0 .. n
    BY <1>1
  <2>2. Good(n)
    BY <1>8, <2>1
  <2>3. CASE n <= m
    <3>1. n = m
      BY <1>1, <2>3
    <3>2. g[n] = h[m]
      BY <2>2, <2>3, <3>1
    <3>3. QED
      BY <1>5, <3>2, PrefixExtended
  <2>4. QED
    BY <2>2, <2>3
<1>10. QED
  BY <1>3, <1>4, <1>9

\* To pick every element is to change nothing.
LEMMA PickedAll ==
    ASSUME NEW S, NEW s \in Seq(S), NEW I, 1 .. Len(s) \subseteq I
    PROVE  Picked(s, I) = s
<1> DEFINE n == Len(s)
<1>1. n \in Nat /\ \A i \in 1 .. n : s[i] \in S
  OBVIOUS
<1>2. PICK g :
              /\ g \in [0 .. n -> Seq(S)] /\ g[0] = <<>>
              /\ \A k \in 1 .. n : g[k] = IF k \in I THEN Append(g[k - 1], s[k])
                                         ELSE g[k - 1]
              /\ Picked(s, I) = g[n]
  <2>1. \E g : IsPick(g, S, s, I)
    BY PickedStates
  <2>2. QED
    BY <2>1 DEF IsPick
<1>3. \A k \in 1 .. n : g[k] = Append(g[k - 1], s[k])
  BY <1>2
<1> HIDE DEF n
<1> DEFINE Good(u, k) == Len(u) = k /\ \A i \in 1 .. k : u[i] = s[i]
           T == {k \in 0 .. n : Good(g[k], k)}
<1>4. 0 \in T
  <2>1. Good(<<>>, 0)
    OBVIOUS
  <2> HIDE DEF Good
  <2>2. QED
    BY <1>1, <1>2, <2>1
<1>5. ASSUME NEW k \in 0 .. n - 1, k \in T PROVE k + 1 \in T
  <2>1. k + 1 \in 1 .. n /\ k \in 0 .. n /\ (k + 1) - 1 = k /\ k + 1 \in 0 .. n
    BY <1>1
  <2>2. g[k] \in Seq(S) /\ s[k + 1] \in S /\ Good(g[k], k)
    BY <1>1, <1>2, <1>5, <2>1
  <2>3. Good(Append(g[k], s[k + 1]), k + 1)
    <3> DEFINE a == Append(g[k], s[k + 1])
    <3>1. Len(a) = k + 1 /\ a[k + 1] = s[k + 1] /\ \A i \in 1 .. k : a[i] = g[k][i]
      BY <2>2
    <3> HIDE DEF a
    <3>2. \A i \in 1 .. k + 1 : i = k + 1 \/ i \in 1 .. k
      OBVIOUS
    <3>3. Good(a, k + 1)
      BY <2>2, <3>1, <3>2
    <3>4. QED
      BY <3>3 DEF a
  <2>4. g[k + 1] = Append(g[k], s[k + 1])
    BY <1>3, <2>1
  <2> HIDE DEF Good
  <2>5. QED
    BY <2>1, <2>3, <2>4
<1>6. 0 .. n \subseteq T
  <2> HIDE DEF T
  <2>1. QED
    BY <1>1, <1>4, <1>5, CountsUp
<1>7. n \in 0 .. n /\ Good(g[n], n) /\ g[n] \in Seq(S)
  BY <1>1, <1>2, <1>6
<1>8. g[n] = s
  BY <1>7, SeqEqual DEF n
<1>9. QED
  BY <1>2, <1>8
-------------------------------------------------------------------------------
(* The source algorithms *)

LEMMA MarkerFacts ==
    /\ \A mark \in {StartMark, EndMark, Sentinel} : <<mark>> \in Lines /\ ~ IsImport(<<mark>>)
                                                    /\ <<mark>> \notin Forbidden
    /\ <<StartMark>> # <<EndMark>> /\ <<StartMark>> # <<Sentinel>> /\ <<EndMark>> # <<Sentinel>>
    /\ \A mark \in {StartMark, EndMark, Sentinel} : <<mark>> # <<Namespace>>
  BY SourceAssumption DEF Markers, StartMark, EndMark, Sentinel, IsImport, Namespace

\* The header is a first part of the source.
LEMMA HeaderIsFirst ==
    ASSUME NEW s \in Seq(Lines)
    PROVE  /\ Cardinality(Header(s)) \in 0 .. Len(s)
           /\ Header(s) = 1 .. Cardinality(Header(s))
<1> DEFINE n == Len(s)
           H == Header(s)
<1>1. n \in Nat /\ H \subseteq 1 .. n
  BY DEF Header
<1>2. \A i \in H : \A j \in 1 .. i : j \in H
  <2>1. SUFFICES ASSUME NEW i \in H, NEW j \in 1 .. i PROVE j \in H
    OBVIOUS
  <2>2. i \in 1 .. n /\ j \in 1 .. n /\ \A k \in 1 .. i : IsImport(s[k])
    BY <1>1 DEF Header
  <2>3. \A k \in 1 .. j : IsImport(s[k])
    BY <2>2
  <2>4. QED
    BY <2>2, <2>3 DEF Header
<1> HIDE DEF n, H
<1>3. \E m \in 0 .. n : H = 1 .. m
  <2>1. SUFFICES ASSUME \A m \in 0 .. n : H # 1 .. m PROVE FALSE
    OBVIOUS
  <2> DEFINE T == {k \in 0 .. n : 1 .. k \subseteq H}
  <2>2. 0 \in T
    BY <1>1
  <2>3. ASSUME NEW k \in 0 .. n - 1, k \in T PROVE k + 1 \in T
    <3>1. k \in 0 .. n /\ k + 1 \in 0 .. n /\ 1 .. k \subseteq H
      BY <1>1, <2>3
    <3>2. PICK i \in H : i \notin 1 .. k
      BY <2>1, <3>1
    <3>3. k + 1 \in 1 .. i
      BY <1>1, <3>2
    <3>4. k + 1 \in H
      BY <1>2, <3>2, <3>3
    <3>5. QED
      BY <3>1, <3>4
  <2>4. 0 .. n \subseteq T
    <3> HIDE DEF T
    <3>1. QED
      BY <1>1, <2>2, <2>3, CountsUp
  <2>5. n \in 0 .. n /\ n \in T
    BY <1>1, <2>4
  <2>6. H = 1 .. n
    BY <1>1, <2>5
  <2>7. QED
    BY <2>1, <2>5, <2>6
<1>4. PICK m \in 0 .. n : H = 1 .. m
  BY <1>3
<1>5. Cardinality(H) = m
  <2>1. Cardinality(1 .. m) = IF 1 > m THEN 0 ELSE m - 1 + 1
    BY <1>4, FS_Interval
  <2>2. QED
    BY <1>1, <1>4, <2>1
<1>6. QED
  BY <1>4, <1>5 DEF n, H

LEMMA HeaderImportsFacts ==
    ASSUME NEW s \in Seq(Lines)
    PROVE  /\ HeaderImports(s) \in Seq(Names)
           /\ \A k \in DOMAIN HeaderImports(s) : HeaderImports(s)[k] \in AllHeader(s)
           /\ \A n \in AllHeader(s) : \E k \in DOMAIN HeaderImports(s) : HeaderImports(s)[k] = n
<1> DEFINE m == Cardinality(Header(s))
<1>1. m \in 0 .. Len(s) /\ Header(s) = 1 .. m
  BY HeaderIsFirst
<1> HIDE DEF m
<1>2. ASSUME NEW i \in 1 .. m PROVE Imported(s[i]) \in Names
  <2>1. IsImport(s[i]) /\ i \in DOMAIN s
    BY <1>1 DEF Header
  <2>2. s[i] \in Lines
    BY <2>1
  <2>3. QED
    BY <2>1, <2>2, SourceAssumption
<1>3. HeaderImports(s) = [i \in 1 .. m |-> Imported(s[i])]
  BY DEF HeaderImports, m
<1>4. m \in Nat
  BY <1>1
<1> DEFINE h == [i \in 1 .. m |-> Imported(s[i])]
<1>5. h \in Seq(Names) /\ DOMAIN h = 1 .. m /\ \A i \in 1 .. m : h[i] = Imported(s[i])
  <2>1. h \in [1 .. m -> Names]
    BY <1>2
  <2>2. QED
    BY <1>4, <2>1
<1> HIDE DEF h
<1>6. AllHeader(s) = {h[i] : i \in 1 .. m}
  BY <1>1, <1>5 DEF AllHeader
<1>7. QED
  BY <1>3, <1>5, <1>6 DEF h

\* A line behind the header is a line of WithoutImports.
LEMMA WithoutImportsFacts ==
    ASSUME NEW s \in Seq(Lines), NEW i \in 1 .. Len(s), i \notin Header(s)
    PROVE  \E k \in DOMAIN WithoutImports(s) : WithoutImports(s)[k] = s[i]
<1> DEFINE m == Cardinality(Header(s))
           w == SubSeq(s, m + 1, Len(s))
<1>1. m \in 0 .. Len(s) /\ Header(s) = 1 .. m
  BY HeaderIsFirst
<1> HIDE DEF m
<1>2. Len(s) \in Nat /\ m \in Nat /\ m < i
  BY <1>1
<1>3. i - m \in DOMAIN w /\ w[i - m] = s[i]
  BY <1>2
<1>4. QED
  BY <1>3 DEF WithoutImports, m

\* The two ends of an evolve block.
LEMMA BoundedFacts ==
    ASSUME NEW s \in Seq(Lines), Bounded(s)
    PROVE  /\ At(s, StartMark) \in 1 .. Len(s) /\ At(s, EndMark) \in 1 .. Len(s)
           /\ Where(s, StartMark) = {At(s, StartMark)} /\ Where(s, EndMark) = {At(s, EndMark)}
           /\ At(s, StartMark) < At(s, EndMark)
<1>1. ASSUME NEW mark, Cardinality(Where(s, mark)) = 1
      PROVE  At(s, mark) \in 1 .. Len(s) /\ Where(s, mark) = {At(s, mark)}
  <2>1. Len(s) \in Nat /\ Where(s, mark) \subseteq 1 .. Len(s)
    BY DEF Where
  <2>2. IsFiniteSet(1 .. Len(s))
    BY <2>1, FS_Interval
  <2>3. IsFiniteSet(Where(s, mark))
    BY <2>1, <2>2, FS_Subset
  <2>4. PICK x : Where(s, mark) = {x}
    BY <1>1, <2>3, FS_Singleton
  <2>5. At(s, mark) \in {x}
    BY <2>4 DEF At
  <2>6. QED
    BY <2>1, <2>4, <2>5
<1>2. QED
  BY <1>1 DEF Bounded

LEMMA BoundedBy ==
    ASSUME NEW s, NEW a \in Int, NEW b \in Int, a < b,
           Where(s, StartMark) = {a}, Where(s, EndMark) = {b}
    PROVE  Bounded(s) /\ At(s, StartMark) = a /\ At(s, EndMark) = b
<1>1. Cardinality({a}) = 1 /\ Cardinality({b}) = 1
  BY FS_Singleton
<1>2. At(s, StartMark) \in {a} /\ At(s, EndMark) \in {b}
  BY DEF At
<1>3. QED
  BY <1>1, <1>2 DEF Bounded
-------------------------------------------------------------------------------
(* A candidate is a source. *)

LEMMA AppendTyped ==
    ASSUME NEW s \in Seq(Lines), NEW snippet \in Seq(Lines)
    PROVE  AppendToParent(s, snippet) \in Seq(Lines)
<1>1. CASE Bounded(s) /\ Cardinality(Where(s, Sentinel)) <= 1
  <2>1. Insertion(s) \in 1 .. Len(s)
    <3>1. CASE Where(s, Sentinel) = {}
      BY <1>1, <3>1, BoundedFacts DEF Insertion
    <3>2. CASE Where(s, Sentinel) # {}
      <4>1. At(s, Sentinel) \in Where(s, Sentinel)
        BY <3>2 DEF At
      <4>2. QED
        BY <3>2, <4>1 DEF Insertion, Where
    <3>3. QED
      BY <3>1, <3>2
  <2>2. Prefix(s) \in Seq(Lines) /\ Suffix(s) \in Seq(Lines)
    BY <2>1 DEF Prefix, Suffix
  <2>3. QED
    BY <2>2 DEF AppendToParent, Rejected
<1>2. CASE ~ (Bounded(s) /\ Cardinality(Where(s, Sentinel)) <= 1)
  BY <1>2 DEF AppendToParent, Rejected
<1>3. QED
  BY <1>1, <1>2

LEMMA SideTyped ==
    ASSUME NEW body \in Seq({" ", "-", "+"} \X Lines), NEW signs
    PROVE  Side(body, signs) \in Seq(Lines)
<1> DEFINE kept == Picked(body, {i \in DOMAIN body : body[i][1] \in signs})
<1>1. kept \in Seq({" ", "-", "+"} \X Lines)
  BY PickedFacts DEF HasPicked
<1> HIDE DEF kept
<1>2. Len(kept) \in Nat /\ DOMAIN kept = 1 .. Len(kept)
      /\ \A i \in 1 .. Len(kept) : kept[i] \in {" ", "-", "+"} \X Lines
  BY <1>1, SeqFacts
<1>3. ASSUME NEW i \in 1 .. Len(kept) PROVE kept[i][2] \in Lines
  <2>1. \A b \in {" ", "-", "+"} \X Lines : b[2] \in Lines
    OBVIOUS
  <2>2. QED
    BY <1>2, <2>1
<1> DEFINE n == Len(kept)
           f == [i \in 1 .. n |-> kept[i][2]]
<1>4. f \in Seq(Lines)
  <2>1. n \in Nat /\ \A i \in 1 .. n : kept[i][2] \in Lines
    BY <1>2, <1>3
  <2> HIDE DEF n
  <2>2. f \in [1 .. n -> Lines]
    BY <2>1
  <2> HIDE DEF f
  <2>3. QED
    BY <2>1, <2>2, FunctionIsSeq
<1>5. QED
  BY <1>2, <1>4 DEF Side, kept

\* What a diff has done after some hunks.
DiffStates == [cursor : Nat, output : Seq(Lines), ok : BOOLEAN]

LEMMA HunkTyped ==
    ASSUME NEW s \in Seq(Lines), NEW h \in Hunks, NEW state \in DiffStates,
           HunkFits(s, h, state)
    PROVE  ApplyHunk(s, h, state) \in DiffStates
<1> DEFINE target == Target(h, state)
           old == Side(h.body, {" ", "-"})
           kept == Side(h.body, {" ", "+"})
<1>1. /\ h.body \in Seq({" ", "-", "+"} \X Lines) /\ h.oldCount \in Nat
      /\ h.new \in Nat /\ h.newCount \in Nat
  BY DEF Hunks
<1>2. state.cursor \in Nat /\ state.output \in Seq(Lines)
  BY DEF DiffStates
<1>3. old \in Seq(Lines) /\ kept \in Seq(Lines)
  BY <1>1, SideTyped
<1>4. target \in Int
  <2> DEFINE new == h.new
             newCount == h.newCount
             length == Len(state.output)
             cursor == state.cursor
  <2>1. new \in Nat /\ newCount \in Nat /\ length \in Nat /\ cursor \in Nat
    BY <1>1, <1>2, SeqFacts
  <2>2. target = (IF newCount > 0 THEN new - 1 ELSE new) - (length - cursor)
    BY DEF Target
  <2> HIDE DEF new, newCount, length, cursor, target
  <2>3. QED
    BY <2>1, <2>2
<1>5. state.cursor <= target /\ target + Len(old) <= Len(s)
  BY DEF HunkFits
<1> HIDE DEF target, old, kept
<1>6. target \in Nat /\ target <= Len(s)
  BY <1>2, <1>3, <1>4, <1>5
<1>7. SubSeq(s, state.cursor + 1, target) \in Seq(Lines)
  BY <1>2, <1>6
<1>8. state.output \o SubSeq(s, state.cursor + 1, target) \o kept \in Seq(Lines)
  BY <1>2, <1>3, <1>7
<1>9. target + h.oldCount \in Nat
  <2> DEFINE oldCount == h.oldCount
  <2>1. oldCount \in Nat
    BY <1>1
  <2> HIDE DEF oldCount
  <2>2. target + oldCount \in Nat
    BY <1>6, <2>1
  <2>3. QED
    BY <2>2 DEF oldCount
<1>10. QED
  BY <1>8, <1>9 DEF ApplyHunk, DiffStates, target, kept

LEMMA DiffTyped ==
    ASSUME NEW s \in Seq(Lines), NEW hunks \in Seq(Hunks)
    PROVE  ApplyUnifiedDiff(s, hunks) \in Seq(Lines)
<1> DEFINE n == Len(hunks)
           V == DiffStates
           v == [cursor |-> 0, output |-> <<>>, ok |-> hunks # <<>>]
           After(k, x) == IF x.ok /\ HunkFits(s, hunks[k], x) THEN ApplyHunk(s, hunks[k], x)
                          ELSE [x EXCEPT !.ok = FALSE]
           step == [k \in 1 .. n |-> [x \in V |-> After(k, x)]]
           Eq(f) == f = [i \in 0 .. n |-> IF i = 0 THEN v ELSE After(i, f[i - 1])]
           h == CHOOSE f : Eq(f)
<1>1. n \in Nat /\ v \in V /\ \A k \in 1 .. n : hunks[k] \in Hunks
  BY DEF DiffStates
<1>2. ASSUME NEW k \in 1 .. n, NEW x \in V PROVE After(k, x) \in V
  <2>1. CASE x.ok /\ HunkFits(s, hunks[k], x)
    BY <1>1, <2>1, HunkTyped
  <2>2. CASE ~ (x.ok /\ HunkFits(s, hunks[k], x))
    BY <2>2 DEF DiffStates
  <2>3. QED
    BY <2>1, <2>2
<1> HIDE DEF n, V, v, After
<1>3. step \in [1 .. n -> [V -> V]]
  BY <1>2
<1>4. PICK g : IsLoop(g, n, V, v, step)
  <2> HIDE DEF step
  <2>1. QED
    BY <1>1, <1>3, LoopExists
<1>5. g \in [0 .. n -> V] /\ g[0] = v /\ \A k \in 1 .. n : g[k] = After(k, g[k - 1])
  <2>1. g \in [0 .. n -> V] /\ g[0] = v /\ \A k \in 1 .. n : g[k] = step[k][g[k - 1]]
    BY <1>4 DEF IsLoop
  <2>2. \A k \in 1 .. n : g[k - 1] \in V
    BY <1>1, <2>1
  <2>3. QED
    BY <2>1, <2>2
<1>6. Eq(g)
  <2>1. \A i \in 0 .. n : i # 0 => i \in 1 .. n
    BY <1>1
  <2>2. \A i \in 0 .. n : g[i] = IF i = 0 THEN v ELSE After(i, g[i - 1])
    BY <1>5, <2>1
  <2>3. QED
    BY <1>5, <2>2
<1>7. Eq(h)
  <2> HIDE DEF Eq
  <2>1. QED
    BY <1>6
<1>8. ApplyUnifiedDiff(s, hunks) =
        IF h[n].ok THEN h[n].output \o SubSeq(s, h[n].cursor + 1, Len(s)) ELSE Rejected
  BY DEF ApplyUnifiedDiff, n, v, After
<1> HIDE DEF h
<1>9. h[0] = v /\ \A k \in 1 .. n : h[k] = After(k, h[k - 1])
  <2>1. 0 \in 0 .. n /\ \A k \in 1 .. n : k \in 0 .. n /\ k # 0
    BY <1>1
  <2>2. QED
    BY <1>7, <2>1
<1>10. \A k \in 0 .. n : h[k] \in V
  <2>1. \A k \in 1 .. n : h[k - 1] \in V => h[k] \in V
    BY <1>2, <1>9
  <2>2. QED
    BY <1>1, <1>9, <2>1, LoopKeeps
<1>11. h[n] \in DiffStates
  BY <1>1, <1>10 DEF V
<1>12. h[n].cursor \in Nat /\ h[n].output \in Seq(Lines)
  BY <1>11 DEF DiffStates
<1>13. SubSeq(s, h[n].cursor + 1, Len(s)) \in Seq(Lines)
  BY <1>12
<1>14. h[n].output \o SubSeq(s, h[n].cursor + 1, Len(s)) \in Seq(Lines)
  BY <1>12, <1>13
<1>15. QED
  BY <1>8, <1>14 DEF Rejected

LEMMA BuildTyped ==
    ASSUME NEW p \in Proposals, parent \in Seq(Lines)
    PROVE  Build(p) \in Seq(Lines)
<1>1. CASE p.mode = "append"
  BY <1>1, ScratchAssumption, AppendTyped DEF Build
<1>2. CASE p.mode = "candidate"
  BY <1>2, ScratchAssumption DEF Build
<1>3. CASE p.mode = "diff"
  BY <1>3, ScratchAssumption, DiffTyped DEF Build
<1>4. QED
  BY <1>1, <1>2, <1>3, ScratchAssumption
-------------------------------------------------------------------------------
(* The parent and the checkpoint *)

LinesOf(s) == {s[i] : i \in DOMAIN s}

\* w is s and then t.
IsJoin(w, s, t) ==
    /\ w \in Seq(Lines) /\ Len(w) = Len(s) + Len(t)
    /\ \A i \in 1 .. Len(s) : w[i] = s[i]
    /\ \A i \in 1 .. Len(t) : w[Len(s) + i] = t[i]
    /\ LinesOf(w) = LinesOf(s) \cup LinesOf(t)

LEMMA ConcatFacts ==
    ASSUME NEW s \in Seq(Lines), NEW t \in Seq(Lines)
    PROVE  IsJoin(s \o t, s, t)
<1> DEFINE w == s \o t
<1>1. /\ w \in Seq(Lines) /\ Len(w) = Len(s) + Len(t)
      /\ \A i \in 1 .. Len(s) : w[i] = s[i]
      /\ \A i \in 1 .. Len(t) : w[Len(s) + i] = t[i]
  OBVIOUS
<1> HIDE DEF w
<1>2. /\ DOMAIN s = 1 .. Len(s) /\ DOMAIN t = 1 .. Len(t) /\ DOMAIN w = 1 .. Len(w)
      /\ Len(s) \in Nat /\ Len(t) \in Nat
  BY <1>1
<1>3. LinesOf(s) \subseteq LinesOf(w)
  <2>1. \A i \in 1 .. Len(s) : i \in 1 .. Len(w)
    BY <1>1, <1>2
  <2>2. QED
    BY <1>1, <1>2, <2>1 DEF LinesOf
<1>4. LinesOf(t) \subseteq LinesOf(w)
  <2>1. \A i \in 1 .. Len(t) : Len(s) + i \in 1 .. Len(w)
    BY <1>1, <1>2
  <2>2. QED
    BY <1>1, <1>2, <2>1 DEF LinesOf
<1>5. LinesOf(w) \subseteq LinesOf(s) \cup LinesOf(t)
  <2>1. ASSUME NEW i \in 1 .. Len(w) PROVE w[i] \in LinesOf(s) \cup LinesOf(t)
    <3>1. CASE i <= Len(s)
      <4>1. i \in 1 .. Len(s)
        BY <1>2, <3>1
      <4>2. QED
        BY <1>1, <1>2, <4>1 DEF LinesOf
    <3>2. CASE ~ (i <= Len(s))
      <4>1. i - Len(s) \in 1 .. Len(t) /\ Len(s) + (i - Len(s)) = i
        BY <1>1, <1>2, <3>2
      <4>2. w[i] = t[i - Len(s)]
        BY <1>1, <4>1
      <4>3. QED
        BY <1>2, <4>1, <4>2 DEF LinesOf
    <3>3. QED
      BY <3>1, <3>2
  <2>2. QED
    BY <1>2, <2>1 DEF LinesOf
<1>6. QED
  BY <1>1, <1>3, <1>4, <1>5 DEF IsJoin, w

LEMMA Associative ==
    ASSUME NEW a \in Seq(Lines), NEW b \in Seq(Lines), NEW c \in Seq(Lines)
    PROVE  (a \o b) \o c = a \o (b \o c)
  BY ConcatAssociative

\* w has the lines a .. b of s.
IsPart(w, s, a, b) ==
    /\ w \in Seq(Lines) /\ Len(w) = IF a <= b THEN b - a + 1 ELSE 0
    /\ \A i \in 1 .. Len(w) : w[i] = s[a + i - 1] /\ a + i - 1 \in a .. b
    /\ LinesOf(w) = {s[i] : i \in a .. b}

LEMMA PartFacts ==
    ASSUME NEW s \in Seq(Lines), NEW a \in Nat \ {0}, NEW b \in Nat, b <= Len(s)
    PROVE  IsPart(SubSeq(s, a, b), s, a, b)
<1> DEFINE w == SubSeq(s, a, b)
<1>1. /\ w \in Seq(Lines) /\ Len(w) = IF a <= b THEN b - a + 1 ELSE 0
      /\ \A i \in 1 .. Len(w) : w[i] = s[a + i - 1]
  OBVIOUS
<1> HIDE DEF w
<1>2. \A i \in 1 .. Len(w) : a + i - 1 \in a .. b
  BY <1>1
<1>3. \A j \in a .. b : j - a + 1 \in 1 .. Len(w) /\ a + (j - a + 1) - 1 = j
  BY <1>1
<1>4. DOMAIN w = 1 .. Len(w)
  BY <1>1
<1>5. \A j \in a .. b : w[j - a + 1] = s[j]
  BY <1>1, <1>3
<1>6. LinesOf(w) = {s[i] : i \in a .. b}
  <2>1. \A i \in DOMAIN w : w[i] \in {s[j] : j \in a .. b}
    BY <1>1, <1>2, <1>4
  <2>2. \A j \in a .. b : s[j] \in LinesOf(w)
    BY <1>3, <1>4, <1>5 DEF LinesOf
  <2>3. QED
    BY <2>1, <2>2 DEF LinesOf
<1>7. QED
  BY <1>1, <1>2, <1>6 DEF IsPart, w

\* The parts around an evolve block: one ends and the other begins with a marker, and
\* there is no other.
Around(A, Z) ==
    /\ A \in Seq(Lines) /\ Z \in Seq(Lines) /\ Len(A) > 0 /\ Len(Z) > 0
    /\ \A i \in 1 .. Len(A) : A[i] # <<EndMark>> /\ (A[i] = <<StartMark>> <=> i = Len(A))
    /\ \A i \in 1 .. Len(Z) : Z[i] # <<StartMark>> /\ (Z[i] = <<EndMark>> <=> i = 1)

Inside(B) == /\ B \in Seq(Lines)
             /\ \A i \in 1 .. Len(B) : B[i] # <<StartMark>> /\ B[i] # <<EndMark>>

\* A source is what is around its evolve block and what is inside.
LEMMA BlockParts ==
    ASSUME NEW s \in Seq(Lines), Bounded(s)
    PROVE  \E A, Z : /\ Outside(s) = <<A, Z>> /\ A = SubSeq(s, 1, At(s, StartMark))
                     /\ Z = SubSeq(s, At(s, EndMark), Len(s))
                     /\ Around(A, Z) /\ Inside(EvolveBlock(s))
                     /\ LinesOf(s) = LinesOf(A) \cup LinesOf(EvolveBlock(s)) \cup LinesOf(Z)
<1> DEFINE a == At(s, StartMark)
           b == At(s, EndMark)
           n == Len(s)
           A == SubSeq(s, 1, a)
           M == SubSeq(s, a + 1, b - 1)
           Z == SubSeq(s, b, n)
<1>1. /\ n \in Nat /\ a \in 1 .. n /\ b \in 1 .. n /\ a < b
      /\ Where(s, StartMark) = {a} /\ Where(s, EndMark) = {b}
  BY BoundedFacts
<1>2. /\ \A i \in 1 .. n : s[i] = <<StartMark>> <=> i = a
      /\ \A i \in 1 .. n : s[i] = <<EndMark>> <=> i = b
  <2>1. DOMAIN s = 1 .. n
    OBVIOUS
  <2>2. QED
    BY <1>1, <2>1 DEF Where
<1>3. EvolveBlock(s) = M /\ Outside(s) = <<A, Z>>
  BY DEF EvolveBlock, Outside
<1>4. n = Len(s) /\ A = SubSeq(s, 1, a) /\ M = SubSeq(s, a + 1, b - 1) /\ Z = SubSeq(s, b, n)
  OBVIOUS
<1> HIDE DEF a, b, n, A, M, Z
<1>5. /\ A \in Seq(Lines) /\ Len(A) = a /\ LinesOf(A) = {s[i] : i \in 1 .. a}
      /\ \A i \in 1 .. a : A[i] = s[i]
  <2>1. /\ 1 \in Nat \ {0} /\ a \in Nat /\ a <= Len(s)
        /\ (IF 1 <= a THEN a - 1 + 1 ELSE 0) = a /\ \A i \in 1 .. a : 1 + i - 1 = i
    BY <1>1, <1>4
  <2>2. /\ A \in Seq(Lines) /\ Len(A) = IF 1 <= a THEN a - 1 + 1 ELSE 0
        /\ \A i \in 1 .. Len(A) : A[i] = s[1 + i - 1]
        /\ LinesOf(A) = {s[i] : i \in 1 .. a}
    <3>1. IsPart(A, s, 1, a)
      BY <1>4, <2>1, PartFacts
    <3>2. QED
      BY <3>1 DEF IsPart
  <2>3. QED
    BY <2>1, <2>2
<1>6. /\ Z \in Seq(Lines) /\ Len(Z) = n - b + 1 /\ LinesOf(Z) = {s[i] : i \in b .. n}
      /\ \A i \in 1 .. Len(Z) : Z[i] = s[b + i - 1] /\ b + i - 1 \in b .. n
  <2>1. /\ b \in Nat \ {0} /\ n \in Nat /\ n <= Len(s)
        /\ (IF b <= n THEN n - b + 1 ELSE 0) = n - b + 1
    BY <1>1, <1>4
  <2>2. /\ Z \in Seq(Lines) /\ Len(Z) = IF b <= n THEN n - b + 1 ELSE 0
        /\ \A i \in 1 .. Len(Z) : Z[i] = s[b + i - 1] /\ b + i - 1 \in b .. n
        /\ LinesOf(Z) = {s[i] : i \in b .. n}
    <3>1. IsPart(Z, s, b, n)
      BY <1>4, <2>1, PartFacts
    <3>2. QED
      BY <3>1 DEF IsPart
  <2>3. QED
    BY <2>1, <2>2
<1>7. /\ M \in Seq(Lines) /\ LinesOf(M) = {s[i] : i \in a + 1 .. b - 1}
      /\ \A i \in 1 .. Len(M) : M[i] = s[a + 1 + i - 1] /\ a + 1 + i - 1 \in a + 1 .. b - 1
  <2>1. a + 1 \in Nat \ {0} /\ b - 1 \in Nat /\ b - 1 <= Len(s)
    BY <1>1, <1>4
  <2>2. IsPart(M, s, a + 1, b - 1)
    BY <1>4, <2>1, PartFacts
  <2>3. QED
    BY <2>2 DEF IsPart
<1>8. Around(A, Z)
  <2>1. Len(A) > 0 /\ Len(Z) > 0
    BY <1>1, <1>5, <1>6
  <2>2. \A i \in 1 .. Len(A) : A[i] # <<EndMark>> /\ (A[i] = <<StartMark>> <=> i = Len(A))
    BY <1>1, <1>2, <1>5
  <2>3. ASSUME NEW i \in 1 .. Len(Z)
        PROVE  Z[i] # <<StartMark>> /\ (Z[i] = <<EndMark>> <=> i = 1)
    <3>1. Z[i] = s[b + i - 1] /\ b + i - 1 \in 1 .. n /\ b + i - 1 # a
          /\ (b + i - 1 = b <=> i = 1)
      BY <1>1, <1>6
    <3>2. QED
      BY <1>2, <3>1
  <2>4. QED
    BY <1>5, <1>6, <2>1, <2>2, <2>3 DEF Around
<1>9. Inside(M)
  <2>1. \A k \in a + 1 .. b - 1 : k \in 1 .. n /\ k # a /\ k # b
    BY <1>1
  <2>2. \A k \in a + 1 .. b - 1 : s[k] # <<StartMark>> /\ s[k] # <<EndMark>>
    BY <1>2, <2>1
  <2>3. QED
    BY <1>7, <2>2 DEF Inside
<1>10. LinesOf(s) = LinesOf(A) \cup LinesOf(M) \cup LinesOf(Z)
  <2>1. LinesOf(s) = {s[i] : i \in 1 .. n}
    BY <1>4 DEF LinesOf
  <2>2. \A i : i \in 1 .. n <=> i \in 1 .. a \/ i \in a + 1 .. b - 1 \/ i \in b .. n
    BY <1>1
  <2>3. QED
    BY <1>5, <1>6, <1>7, <2>1, <2>2
<1>11. QED
  BY <1>3, <1>4, <1>8, <1>9, <1>10 DEF a, b, n

\* And the other way round.
IsSource(w, A, B, Z) ==
    /\ w \in Seq(Lines) /\ Bounded(w)
    /\ Outside(w) = <<A, Z>> /\ EvolveBlock(w) = B
    /\ LinesOf(w) = LinesOf(A) \cup LinesOf(B) \cup LinesOf(Z)

LEMMA BlockMade ==
    ASSUME NEW A, NEW Z, NEW B, Around(A, Z), Inside(B)
    PROVE  IsSource((A \o B) \o Z, A, B, Z)
<1> DEFINE w == (A \o B) \o Z
           a == Len(A)
           m == Len(B)
           z == Len(Z)
           AB == A \o B
<1>1. /\ A \in Seq(Lines) /\ B \in Seq(Lines) /\ Z \in Seq(Lines)
      /\ a \in Nat /\ m \in Nat /\ z \in Nat /\ a > 0 /\ z > 0
  BY DEF Around, Inside
<1>2. /\ AB = A \o B /\ w = AB \o Z /\ a = Len(A) /\ m = Len(B) /\ z = Len(Z)
  OBVIOUS
<1> HIDE DEF a, m, z, AB, w
<1>3. /\ AB \in Seq(Lines) /\ Len(AB) = a + m /\ LinesOf(AB) = LinesOf(A) \cup LinesOf(B)
      /\ \A i \in 1 .. a : AB[i] = A[i]
      /\ \A i \in 1 .. m : AB[a + i] = B[i]
  <2>1. IsJoin(AB, A, B)
    BY <1>1, <1>2, ConcatFacts
  <2>2. QED
    BY <1>2, <2>1 DEF IsJoin
<1>4. /\ w \in Seq(Lines) /\ Len(w) = a + m + z
      /\ LinesOf(w) = LinesOf(A) \cup LinesOf(B) \cup LinesOf(Z)
      /\ \A i \in 1 .. a + m : w[i] = AB[i]
      /\ \A i \in 1 .. z : w[a + m + i] = Z[i]
  <2>1. IsJoin(w, AB, Z)
    BY <1>1, <1>2, <1>3, ConcatFacts
  <2>2. QED
    BY <1>2, <1>3, <2>1 DEF IsJoin
<1>5. /\ \A i \in 1 .. a : w[i] = A[i]
      /\ \A i \in 1 .. m : w[a + i] = B[i]
      /\ \A i \in 1 .. z : w[a + m + i] = Z[i]
  <2>1. /\ \A i \in 1 .. a : i \in 1 .. a + m
        /\ \A i \in 1 .. m : a + i \in 1 .. a + m
    BY <1>1
  <2>2. QED
    BY <1>3, <1>4, <2>1
<1>6. DOMAIN w = 1 .. a + m + z
  BY <1>4
<1>7. ASSUME NEW i \in 1 .. a + m + z
      PROVE  \/ i \in 1 .. a
             \/ \E k \in 1 .. m : i = a + k
             \/ \E k \in 1 .. z : i = a + m + k
  <2>1. CASE i <= a
    BY <1>1, <2>1
  <2>2. CASE a < i /\ i <= a + m
    <3>1. i - a \in 1 .. m /\ i = a + (i - a)
      BY <1>1, <2>2
    <3>2. QED
      BY <3>1
  <2>3. CASE a + m < i
    <3>1. i - a - m \in 1 .. z /\ i = a + m + (i - a - m)
      BY <1>1, <2>3
    <3>2. QED
      BY <3>1
  <2>4. QED
    BY <1>1, <2>1, <2>2, <2>3
<1>8. /\ \A i \in 1 .. a : A[i] # <<EndMark>> /\ (A[i] = <<StartMark>> <=> i = a)
      /\ \A i \in 1 .. z : Z[i] # <<StartMark>> /\ (Z[i] = <<EndMark>> <=> i = 1)
      /\ \A i \in 1 .. m : B[i] # <<StartMark>> /\ B[i] # <<EndMark>>
  BY <1>2 DEF Around, Inside
<1>9. Where(w, StartMark) = {a}
  <2>1. a \in 1 .. a + m + z /\ a \in 1 .. a
    BY <1>1
  <2>2. w[a] = <<StartMark>>
    BY <1>5, <1>8, <2>1
  <2>3. ASSUME NEW i \in 1 .. a + m + z, w[i] = <<StartMark>> PROVE i = a
    <3>1. ASSUME NEW k \in 1 .. m, i = a + k PROVE FALSE
      BY <1>5, <1>8, <2>3, <3>1
    <3>2. ASSUME NEW k \in 1 .. z, i = a + m + k PROVE FALSE
      BY <1>5, <1>8, <2>3, <3>2
    <3>3. i \in 1 .. a
      BY <1>7, <3>1, <3>2
    <3>4. QED
      BY <1>5, <1>8, <2>3, <3>3
  <2>4. QED
    BY <1>6, <2>1, <2>2, <2>3 DEF Where
<1>10. Where(w, EndMark) = {a + m + 1}
  <2>1. a + m + 1 \in 1 .. a + m + z /\ 1 \in 1 .. z
    BY <1>1
  <2>2. w[a + m + 1] = <<EndMark>>
    BY <1>5, <1>8, <2>1
  <2>3. ASSUME NEW i \in 1 .. a + m + z, w[i] = <<EndMark>> PROVE i = a + m + 1
    <3>1. ASSUME NEW k \in 1 .. m, i = a + k PROVE FALSE
      BY <1>5, <1>8, <2>3, <3>1
    <3>2. i \notin 1 .. a
      BY <1>5, <1>8, <2>3
    <3>3. PICK k \in 1 .. z : i = a + m + k
      BY <1>7, <3>1, <3>2
    <3>4. k = 1
      BY <1>5, <1>8, <2>3, <3>3
    <3>5. QED
      BY <3>3, <3>4
  <2>4. QED
    BY <1>6, <2>1, <2>2, <2>3 DEF Where
<1>11. Bounded(w) /\ At(w, StartMark) = a /\ At(w, EndMark) = a + m + 1
  <2>1. a \in Int /\ a + m + 1 \in Int /\ a < a + m + 1
    BY <1>1
  <2>2. QED
    BY <1>9, <1>10, <2>1, BoundedBy
<1>12. SubSeq(w, 1, a) = A
  <2> DEFINE u == SubSeq(w, 1, a)
  <2>1. 1 \in Nat \ {0} /\ a <= Len(w) /\ u = SubSeq(w, 1, a) /\ (IF 1 <= a THEN a - 1 + 1 ELSE 0) = a
        /\ \A i \in 1 .. a : 1 + i - 1 = i
    BY <1>1, <1>4
  <2> HIDE DEF u
  <2>2. IsPart(u, w, 1, a)
    BY <1>1, <1>4, <2>1, PartFacts
  <2>3. u = A
    <3>1. u \in Seq(Lines) /\ Len(u) = Len(A) /\ \A i \in 1 .. Len(u) : u[i] = A[i]
      BY <1>2, <1>5, <2>1, <2>2 DEF IsPart
    <3>2. QED
      BY <1>1, <3>1, SeqEqual
  <2>4. QED
    BY <2>1, <2>3
<1>13. SubSeq(w, a + m + 1, Len(w)) = Z
  <2> DEFINE c == a + m + 1
             d == Len(w)
             u == SubSeq(w, c, d)
  <2>1. /\ c \in Nat \ {0} /\ d \in Nat /\ d <= Len(w) /\ u = SubSeq(w, c, d)
        /\ (IF c <= d THEN d - c + 1 ELSE 0) = z
        /\ \A i \in 1 .. z : c + i - 1 = a + m + i
    <3>1. c = a + m + 1 /\ d = a + m + z /\ d <= Len(w) /\ u = SubSeq(w, c, d)
      BY <1>1, <1>4
    <3> HIDE DEF c, d, u
    <3>2. QED
      BY <1>1, <3>1
  <2> HIDE DEF u, c, d
  <2>2. IsPart(u, w, c, d)
    BY <1>4, <2>1, PartFacts
  <2>3. u = Z
    <3>1. u \in Seq(Lines) /\ Len(u) = z /\ \A i \in 1 .. z : u[i] = w[c + i - 1]
      BY <2>1, <2>2 DEF IsPart
    <3>2. \A i \in 1 .. z : u[i] = w[a + m + i]
      BY <2>1, <3>1
    <3>3. Len(u) = Len(Z) /\ \A i \in 1 .. Len(u) : u[i] = Z[i]
      BY <1>2, <1>5, <3>1, <3>2
    <3>4. QED
      BY <1>1, <3>1, <3>3, SeqEqual
  <2>4. QED
    BY <2>1, <2>3 DEF c, d
<1>14. SubSeq(w, a + 1, a + m + 1 - 1) = B
  <2> DEFINE c == a + 1
             d == a + m + 1 - 1
             u == SubSeq(w, c, d)
  <2>1. /\ c \in Nat \ {0} /\ d \in Nat /\ d <= Len(w) /\ u = SubSeq(w, c, d)
        /\ (IF c <= d THEN d - c + 1 ELSE 0) = m
        /\ \A i \in 1 .. m : c + i - 1 = a + i
    BY <1>1, <1>4
  <2> HIDE DEF u, c, d
  <2>2. IsPart(u, w, c, d)
    BY <1>4, <2>1, PartFacts
  <2>3. u = B
    <3>1. u \in Seq(Lines) /\ Len(u) = m /\ \A i \in 1 .. m : u[i] = w[c + i - 1]
      BY <2>1, <2>2 DEF IsPart
    <3>2. \A i \in 1 .. m : u[i] = w[a + i]
      BY <2>1, <3>1
    <3>3. Len(u) = Len(B) /\ \A i \in 1 .. Len(u) : u[i] = B[i]
      BY <1>2, <1>5, <3>1, <3>2
    <3>4. QED
      BY <1>1, <3>1, <3>3, SeqEqual
  <2>4. QED
    BY <2>1, <2>3 DEF c, d
<1>15. Outside(w) = <<A, Z>> /\ EvolveBlock(w) = B
  <2>1. SubSeq(w, 1, At(w, StartMark)) = A
    BY <1>11, <1>12, Zenon
  <2>2. SubSeq(w, At(w, EndMark), Len(w)) = Z
    BY <1>11, <1>13, Zenon
  <2>3. SubSeq(w, At(w, StartMark) + 1, At(w, EndMark) - 1) = B
    <3>1. At(w, StartMark) + 1 = a + 1 /\ At(w, EndMark) - 1 = a + m + 1 - 1
      <4> DEFINE x == At(w, StartMark)
                 y == At(w, EndMark)
      <4>1. x = a /\ y = a + m + 1
        BY <1>11
      <4> HIDE DEF x, y
      <4>2. x + 1 = a + 1 /\ y - 1 = a + m + 1 - 1
        BY <1>1, <4>1
      <4>3. QED
        BY <4>2 DEF x, y
    <3>2. QED
      BY <1>14, <3>1, Zenon
  <2>4. QED
    BY <2>1, <2>2, <2>3 DEF Outside, EvolveBlock
<1>16. QED
  BY <1>4, <1>11, <1>15 DEF IsSource, w

\* Content is the lines without the sentinel.
LEMMA ContentFacts ==
    ASSUME NEW s \in Seq(Lines)
    PROVE  /\ Content(s) \in Seq(Lines)
           /\ LinesOf(Content(s)) = LinesOf(s) \ {<<Sentinel>>}
<1> DEFINE I == {i \in DOMAIN s : s[i] # <<Sentinel>>}
           c == Picked(s, I)
<1>1. /\ c \in Seq(Lines)
      /\ \A j \in 1 .. Len(c) : \E i \in 1 .. Len(s) : i \in I /\ c[j] = s[i]
      /\ \A i \in 1 .. Len(s) : i \in I => \E j \in 1 .. Len(c) : c[j] = s[i]
  <2>1. HasPicked(c, Lines, s, I)
    <3> HIDE DEF I
    <3>1. QED
      BY PickedFacts
  <2> HIDE DEF I, c
  <2>2. QED
    BY <2>1 DEF HasPicked
<1>2. Content(s) = c
  BY DEF Content
<1>3. \A i : i \in I <=> i \in 1 .. Len(s) /\ s[i] # <<Sentinel>>
  OBVIOUS
<1>4. DOMAIN s = 1 .. Len(s) /\ DOMAIN c = 1 .. Len(c)
  BY <1>1
<1> HIDE DEF I, c
<1>5. LinesOf(c) \subseteq LinesOf(s) \ {<<Sentinel>>}
  <2>1. SUFFICES ASSUME NEW j \in 1 .. Len(c) PROVE c[j] \in LinesOf(s) \ {<<Sentinel>>}
    BY <1>4 DEF LinesOf
  <2>2. PICK i \in 1 .. Len(s) : i \in I /\ c[j] = s[i]
    BY <1>1
  <2>3. QED
    BY <1>3, <1>4, <2>2 DEF LinesOf
<1>6. LinesOf(s) \ {<<Sentinel>>} \subseteq LinesOf(c)
  <2>1. SUFFICES ASSUME NEW i \in 1 .. Len(s), s[i] # <<Sentinel>> PROVE s[i] \in LinesOf(c)
    BY <1>4 DEF LinesOf
  <2>2. PICK j \in 1 .. Len(c) : c[j] = s[i]
    BY <1>1, <1>3, <2>1
  <2>3. QED
    BY <1>4, <2>2 DEF LinesOf
<1>7. QED
  BY <1>1, <1>2, <1>5, <1>6

LEMMA InsideLines ==
    ASSUME NEW s \in Seq(Lines)
    PROVE  Inside(s) <=> <<StartMark>> \notin LinesOf(s) /\ <<EndMark>> \notin LinesOf(s)
<1>1. DOMAIN s = 1 .. Len(s)
  OBVIOUS
<1>2. QED
  BY <1>1 DEF Inside, LinesOf

\* What is permitted, in terms of the lines of a source.
LEMMA PermittedLines ==
    ASSUME NEW s \in Seq(Lines)
    PROVE  Permitted(s, <<>>) <=>
              /\ Bounded(s) /\ <<Namespace>> \in LinesOf(s)
              /\ \E line \in LinesOf(s) : IsImport(line)
              /\ \A line \in LinesOf(s) : line \notin Forbidden
                                          /\ (IsImport(line) => Imported(line) \in InLibrary)
<1>1. (AllImports(s) # {}) <=> \E line \in LinesOf(s) : IsImport(line)
  BY DEF AllImports, LinesOf
<1>2. (AllImports(s) \subseteq InLibrary) <=>
         \A line \in LinesOf(s) : IsImport(line) => Imported(line) \in InLibrary
  BY DEF AllImports, LinesOf
<1>3. (Violations(s) = {}) <=> \A line \in LinesOf(s) : line \notin Forbidden
  BY DEF Violations, LinesOf
<1>4. (<<Namespace>> \in {s[i] : i \in DOMAIN s}) <=> <<Namespace>> \in LinesOf(s)
  BY DEF LinesOf
<1>5. QED
  BY <1>1, <1>2, <1>3, <1>4 DEF Permitted

LEMMA PermittedAlone ==
    ASSUME NEW s, NEW t, Permitted(s, t)
    PROVE  Permitted(s, <<>>)
  BY DEF Permitted

\* The checkpoint with a permitted delta is permitted and starts as before.
LEMMA MaterializeFacts ==
    ASSUME NEW s \in Seq(Lines), NEW d \in Seq(Lines),
           Permitted(s, <<>>), Permitted(d, <<>>)
    PROVE  LET w == Materialize(s, d)
           IN  /\ w \in Seq(Lines) /\ Permitted(w, <<>>) /\ Outside(w) = Outside(s)
               /\ StartsWith(Content(EvolveBlock(w)), Content(EvolveBlock(s)))
<1> DEFINE M == EvolveBlock(s)
           D == EvolveBlock(d)
           X == Content(M)
           Y == Content(D)
           S == <<<<Sentinel>>>>
           XY == X \o Y
           B == XY \o S
           w == Materialize(s, d)
<1>1. Bounded(s) /\ Bounded(d)
  BY DEF Permitted
<1>2. PICK A, Z : /\ Outside(s) = <<A, Z>> /\ A = SubSeq(s, 1, At(s, StartMark))
                  /\ Z = SubSeq(s, At(s, EndMark), Len(s))
                  /\ Around(A, Z) /\ Inside(M)
                  /\ LinesOf(s) = LinesOf(A) \cup LinesOf(M) \cup LinesOf(Z)
  BY <1>1, BlockParts
<1>3. Inside(D) /\ LinesOf(D) \subseteq LinesOf(d)
  BY <1>1, BlockParts
<1>4. w = A \o X \o Y \o S \o Z
  BY <1>2 DEF Materialize
<1>5. XY = X \o Y /\ B = XY \o S
  OBVIOUS
<1>6. /\ M \in Seq(Lines) /\ D \in Seq(Lines) /\ A \in Seq(Lines) /\ Z \in Seq(Lines)
  BY <1>2, <1>3 DEF Inside, Around
<1>7. S \in Seq(Lines) /\ LinesOf(S) = {<<Sentinel>>}
  <2>1. <<Sentinel>> \in Lines
    BY MarkerFacts
  <2>2. DOMAIN S = {1} /\ S[1] = <<Sentinel>>
    OBVIOUS
  <2>3. QED
    BY <2>1, <2>2 DEF LinesOf
<1>8. /\ X \in Seq(Lines) /\ LinesOf(X) = LinesOf(M) \ {<<Sentinel>>}
      /\ Y \in Seq(Lines) /\ LinesOf(Y) = LinesOf(D) \ {<<Sentinel>>}
  <2> HIDE DEF M, D
  <2>1. QED
    BY <1>6, ContentFacts
<1> HIDE DEF M, D, X, Y, S, XY, B, w
<1>9. IsJoin(XY, X, Y) /\ IsJoin(B, XY, S)
  <2>1. IsJoin(XY, X, Y)
    BY <1>5, <1>8, ConcatFacts
  <2>2. XY \in Seq(Lines)
    BY <2>1 DEF IsJoin
  <2>3. QED
    BY <1>5, <1>7, <2>1, <2>2, ConcatFacts
<1>10. /\ XY \in Seq(Lines) /\ B \in Seq(Lines)
       /\ LinesOf(B) = LinesOf(M) \cup LinesOf(D) \cup {<<Sentinel>>}
  BY <1>7, <1>8, <1>9 DEF IsJoin
<1>11. w = (A \o B) \o Z
  <2>1. A \in Seq(Lines) /\ X \in Seq(Lines) /\ Y \in Seq(Lines)
    BY <1>6, <1>8
  <2>2. A \in Seq(Lines) /\ XY \in Seq(Lines) /\ S \in Seq(Lines)
    BY <1>6, <1>7, <1>10
  <2>3. (A \o X) \o Y = A \o (X \o Y)
    BY ONLY <2>1, Associative
  <2>4. (A \o XY) \o S = A \o (XY \o S)
    BY ONLY <2>2, Associative
  <2>5. QED
    BY <1>4, <1>5, <2>3, <2>4, Zenon
<1>12. Inside(B)
  BY <1>2, <1>3, <1>6, <1>10, InsideLines, MarkerFacts
<1>13. /\ w \in Seq(Lines) /\ Bounded(w) /\ Outside(w) = <<A, Z>> /\ EvolveBlock(w) = B
       /\ LinesOf(w) = LinesOf(A) \cup LinesOf(B) \cup LinesOf(Z)
  <2>1. IsSource(w, A, B, Z)
    BY <1>2, <1>11, <1>12, BlockMade
  <2>2. QED
    BY <2>1 DEF IsSource
<1>14. Permitted(w, <<>>)
  <2>1. /\ LinesOf(w) \subseteq LinesOf(s) \cup LinesOf(d) \cup {<<Sentinel>>}
        /\ LinesOf(s) \subseteq LinesOf(w) \cup {<<Sentinel>>}
    BY <1>2, <1>3, <1>10, <1>13
  <2>2. <<Sentinel>> # <<Namespace>> /\ ~ IsImport(<<Sentinel>>) /\ <<Sentinel>> \notin Forbidden
    BY MarkerFacts
  <2>3. /\ <<Namespace>> \in LinesOf(s) /\ \E line \in LinesOf(s) : IsImport(line)
        /\ \A line \in LinesOf(s) : line \notin Forbidden
                                    /\ (IsImport(line) => Imported(line) \in InLibrary)
    BY PermittedLines
  <2>4. \A line \in LinesOf(d) : line \notin Forbidden
                                 /\ (IsImport(line) => Imported(line) \in InLibrary)
    BY PermittedLines
  <2>5. \E line \in LinesOf(w) : IsImport(line)
    BY <2>1, <2>2, <2>3
  <2>6. \A line \in LinesOf(w) : line \notin Forbidden
                                 /\ (IsImport(line) => Imported(line) \in InLibrary)
    BY <2>1, <2>2, <2>3, <2>4
  <2>7. <<Namespace>> \in LinesOf(w)
    BY <2>1, <2>2, <2>3
  <2>8. QED
    BY <1>13, <2>5, <2>6, <2>7, PermittedLines
<1>15. StartsWith(Content(B), X)
  <2> DEFINE I == {i \in DOMAIN B : B[i] # <<Sentinel>>}
             J == {i \in DOMAIN X : X[i] # <<Sentinel>>}
  <2>1. StartsWith(B, X)
    <3>1. StartsWith(XY, X)
      BY <1>5, <1>8, PrefixExtended
    <3>2. StartsWith(B, XY)
      BY <1>5, <1>7, <1>10, PrefixExtended
    <3>3. QED
      BY <1>8, <1>10, <3>1, <3>2, PrefixTransitive
  <2>2. Len(X) <= Len(B) /\ \A i \in 1 .. Len(X) : B[i] = X[i]
    BY <1>8, <1>10, <2>1, PrefixFacts
  <2>3. /\ DOMAIN X = 1 .. Len(X) /\ DOMAIN B = 1 .. Len(B)
        /\ Len(X) \in Nat /\ Len(B) \in Nat
    BY <1>8, <1>10
  <2>4. \A k \in 1 .. Len(X) : k \in I <=> k \in J
    BY <2>2, <2>3
  <2>5. 1 .. Len(X) \subseteq J
    BY <1>8, <2>3 DEF LinesOf
  <2> HIDE DEF I, J
  <2>6. StartsWith(Picked(B, I), Picked(X, J))
    BY <1>8, <1>10, <2>1, <2>4, PickedPrefix
  <2>7. Picked(X, J) = X
    BY <1>8, <2>5, PickedAll
  <2>8. QED
    BY <2>6, <2>7 DEF Content, I
<1>16. QED
  BY <1>2, <1>13, <1>14, <1>15 DEF w, X, M

\* A permitted candidate starts with what its parent has before its append point.
LEMMA PermittedExtends ==
    ASSUME NEW s \in Seq(Lines), NEW p \in Seq(Lines), p # <<>>, Permitted(s, p)
    PROVE  StartsWith(Declarations(s), Declarations(Prefix(p)))
<1>1. Anchored(p) /\ Anchored(s) /\ StartsWith(Prefix(s), Prefix(p))
  BY DEF Permitted, Extends
<1>2. ASSUME NEW u \in Seq(Lines), Anchored(u) PROVE Insertion(u) \in 1 .. Len(u)
  <2>1. CASE Where(u, Sentinel) = {}
    BY <1>2, <2>1, BoundedFacts DEF Insertion, Anchored
  <2>2. CASE Where(u, Sentinel) # {}
    <3>1. At(u, Sentinel) \in Where(u, Sentinel)
      BY <2>2 DEF At
    <3>2. QED
      BY <2>2, <3>1 DEF Insertion, Where
  <2>3. QED
    BY <2>1, <2>2
<1>3. Prefix(p) \in Seq(Lines)
  BY <1>1, <1>2 DEF Prefix
<1>4. Prefix(s) \in Seq(Lines) /\ StartsWith(s, Prefix(s))
  <2> DEFINE n == Insertion(s) - 1
             u == SubSeq(s, 1, n)
  <2>1. n \in Nat /\ n <= Len(s)
    BY <1>1, <1>2
  <2> HIDE DEF n
  <2>2. u \in Seq(Lines) /\ Len(u) = n /\ \A i \in 1 .. n : s[i] = u[i]
    BY <2>1
  <2> HIDE DEF u
  <2>3. StartsWith(s, u)
    BY <2>1, <2>2, PrefixFacts
  <2>4. QED
    BY <2>2, <2>3 DEF Prefix, u, n
<1>5. StartsWith(s, Prefix(p))
  BY <1>1, <1>3, <1>4, PrefixTransitive
<1> DEFINE q == Prefix(p)
           I == {i \in DOMAIN s : IsDeclaration(s[i])}
           J == {i \in DOMAIN q : IsDeclaration(q[i])}
<1>6. q \in Seq(Lines) /\ StartsWith(s, q)
  BY <1>3, <1>5
<1>7. Declarations(s) = Picked(s, I) /\ Declarations(Prefix(p)) = Picked(q, J)
  BY DEF Declarations
<1> HIDE DEF q
<1>8. Len(q) <= Len(s) /\ \A i \in 1 .. Len(q) : s[i] = q[i]
  BY <1>6, PrefixFacts
<1>9. DOMAIN s = 1 .. Len(s) /\ DOMAIN q = 1 .. Len(q) /\ Len(q) \in Nat /\ Len(s) \in Nat
  BY <1>6
<1>10. \A k \in 1 .. Len(q) : k \in I <=> k \in J
  BY <1>8, <1>9
<1> HIDE DEF I, J
<1>11. QED
  BY <1>6, <1>7, <1>10, PickedPrefix
-------------------------------------------------------------------------------
(* The inductive invariant *)

Frames == [name : Names \cup {CandidateName}, rest : Seq(Names)]
Checks == [number : Nat, parent : Seq(Lines), candidate : Seq(Lines)]
Phases == {"idle", "assembling", "assembled", "announced", "waiting", "joining", "closing", "done"}
Statuses == {"not_run", "policy_failed", "assembly_failed", "infrastructure_failed",
             "lean_ok", "lean_rejected", "timeout"}

ScratchTypeOK ==
    /\ graph \in Graphs /\ checkpoint \in Seq(Lines) /\ parent \in Seq(Lines)
    /\ phase \in Phases /\ check \in Checks
    /\ stack \in Seq(Frames) /\ ordered \in Seq(Names) /\ external \in Seq(Names)
    /\ lean \in {"none", "running", "exited"}
    /\ code \in {"none", "zero", "nonzero", "killed"}
    /\ held \in {"none", "group", "session"} /\ io \in {"none", "busy", "done"}
    /\ status \in Statuses /\ emitted \subseteq {"started", "finished"} \X Nat

\* The candidate was permitted and its stream is being made or is with Lean.
Building == phase = "assembling" \/ Flat

\* An import that is in the stream already, or left to the package path.
Settled(n) == \/ n \in Visited
              \/ n \notin InLibrary /\ \E j \in DOMAIN external : external[j] = n

ImportsBy(n) == IF n = CandidateName THEN HeaderImports(check.candidate) ELSE ImportsOf(n)

\* What becomes of an import of the visit i: it is settled, or still to be
\* visited, or the visit that is going on above i.
Pending(i, n) == \/ Settled(n)
                 \/ \E k \in DOMAIN stack[i].rest : stack[i].rest[k] = n
                 \/ i + 1 \in DOMAIN stack /\ stack[i + 1].name = n

\* The visits: the candidate below modules that are not in the stream, each once.
StackInv ==
    phase = "assembling" =>
       /\ stack # <<>> /\ stack[1].name = CandidateName
       /\ \A i \in DOMAIN stack : i > 1 => stack[i].name \in Modules \ Visited
       /\ \A i, j \in DOMAIN stack : stack[i].name = stack[j].name => i = j
       /\ \A i \in DOMAIN stack : \A k \in DOMAIN ImportsBy(stack[i].name) :
             Pending(i, ImportsBy(stack[i].name)[k])

\* The stream so far: every module once, after what it imports.
OrderInv ==
    Building =>
       /\ Visited \subseteq Modules
       /\ \A i, j \in DOMAIN ordered : ordered[i] = ordered[j] => i = j
       /\ \A i \in DOMAIN ordered : \A k \in DOMAIN ImportsOf(ordered[i]) :
             LET n == ImportsOf(ordered[i])[k]
             IN  \/ \E j \in 1 .. i - 1 : ordered[j] = n
                 \/ n \notin InLibrary /\ \E j \in DOMAIN external : external[j] = n

\* Nothing is visited that a closed set of modules could do without.
ReachInv ==
    Building =>
       \A S \in SUBSET Modules : Closed(S) =>
          /\ Visited \subseteq S
          /\ phase = "assembling" =>
                \A i \in DOMAIN stack :
                   /\ i > 1 => stack[i].name \in S
                   /\ \A k \in DOMAIN stack[i].rest :
                         stack[i].rest[k] \in Modules => stack[i].rest[k] \in S

FlatInv == Flat => Closed(Visited)

Returned == {"zero", "nonzero", "killed"}

\* What Lean returned speaks of the stream that it read, the checkpoint in it.
ProcessInv ==
    /\ lean = "exited" \/ phase \in {"joining", "closing"} => code \in Returned
    /\ phase \in {"waiting", "joining", "closing"} /\ code = "zero" => Elaborates
    /\ phase = "done" /\ status = "lean_ok" =>
          Elaborates /\ (checkpoint # <<>> => CheckpointName \in Visited)
    /\ Building => status = "not_run"

\* The policy has passed what is assembled and what was accepted.
AcceptInv ==
    Building \/ (phase = "done" /\ status = "lean_ok") =>
       Permitted(check.candidate, check.parent) /\ CheckpointHolds(check.candidate)

ScratchInv == /\ ScratchTypeOK /\ StackInv /\ OrderInv /\ ReachInv /\ FlatInv
              /\ ProcessInv /\ AcceptInv

LEMMA ScratchStart == Init => ScratchInv
<1> SUFFICES ASSUME Init PROVE ScratchInv
  OBVIOUS
<1> USE DEF Init
<1>1. ScratchTypeOK
  <2>1. <<>> \in Seq(Lines) /\ <<>> \in Seq(Frames) /\ <<>> \in Seq(Names)
    OBVIOUS
  <2>2. check \in Checks
    BY <2>1 DEF Checks
  <2>3. parent \in Seq(Lines) /\ checkpoint \in Seq(Lines)
    BY ScratchAssumption
  <2>4. QED
    BY <2>1, <2>2, <2>3 DEF ScratchTypeOK, Phases, Statuses
<1>2. ~ Building /\ phase # "assembling" /\ ~ Flat /\ phase = "idle" /\ lean = "none"
  BY DEF Building, Flat
<1>3. StackInv /\ OrderInv /\ ReachInv /\ FlatInv /\ ProcessInv /\ AcceptInv
  BY <1>2 DEF StackInv, OrderInv, ReachInv, FlatInv, ProcessInv, AcceptInv
<1>4. QED
  BY <1>1, <1>3 DEF ScratchInv
-------------------------------------------------------------------------------
(* Type correctness *)

LEMMA ModuleFacts ==
    ASSUME ScratchTypeOK
    PROVE  /\ Modules \subseteq InLibrary /\ Modules \subseteq Names
           /\ CandidateName \notin Modules
           /\ \A n \in Modules : ImportsOf(n) \in Seq(Names)
<1>1. Modules \subseteq InLibrary /\ InLibrary \subseteq Names
  BY ScratchAssumption, SourceAssumption DEF ScratchTypeOK, Modules
<1>2. ASSUME NEW n \in Modules PROVE ImportsOf(n) \in Seq(Names)
  <2>1. CASE n = CheckpointName
    BY <2>1, HeaderImportsFacts DEF ScratchTypeOK, ImportsOf
  <2>2. CASE n # CheckpointName
    BY <1>2, <2>2, ScratchAssumption DEF ScratchTypeOK, ImportsOf, Modules
  <2>3. QED
    BY <2>1, <2>2
<1>3. QED
  BY <1>1, <1>2, ScratchAssumption

\* The stack with an import of its top visit taken.
LEMMA AdvancedFacts ==
    ASSUME stack \in Seq(Frames), stack # <<>>, Top.rest # <<>>
    PROVE  /\ Top.rest \in Seq(Names) /\ Head(Top.rest) \in Names
           /\ Advanced \in Seq(Frames) /\ Len(Advanced) = Len(stack)
           /\ \A i \in DOMAIN stack : Advanced[i].name = stack[i].name
           /\ \A i \in DOMAIN stack : i # Len(stack) => Advanced[i] = stack[i]
           /\ Advanced[Len(stack)].rest = Tail(Top.rest)
<1>1. /\ Len(stack) \in Nat \ {0} /\ DOMAIN stack = 1 .. Len(stack)
      /\ \A i \in 1 .. Len(stack) : stack[i] \in Frames
  BY EmptySeq, SeqFacts
<1>2. Top = stack[Len(stack)] /\ Top \in Frames
  BY <1>1 DEF Top
<1>3. Top.rest \in Seq(Names) /\ Top.name \in Names \cup {CandidateName}
  BY <1>2 DEF Frames
<1>4. Head(Top.rest) \in Names /\ Tail(Top.rest) \in Seq(Names)
  BY <1>3
<1> DEFINE f == [Top EXCEPT !.rest = Tail(Top.rest)]
<1>5. f \in Frames /\ f.name = Top.name /\ f.rest = Tail(Top.rest)
  BY <1>2, <1>4 DEF Frames
<1>6. Advanced = [stack EXCEPT ![Len(stack)] = f]
  BY <1>1, <1>2 DEF Advanced
<1> HIDE DEF f
<1>7. Advanced \in Seq(Frames) /\ Len(Advanced) = Len(stack)
  BY <1>1, <1>5, <1>6
<1>8. /\ \A i \in DOMAIN stack : i # Len(stack) => Advanced[i] = stack[i]
      /\ Advanced[Len(stack)] = f
  BY <1>1, <1>6
<1>9. QED
  BY <1>1, <1>2, <1>3, <1>4, <1>5, <1>7, <1>8

\* The stack stays a stack of visits when one ends, begins or goes on.
LEMMA LeaveTypes ==
    ASSUME ScratchInv, Leave
    PROVE  stack' \in Seq(Frames) /\ ordered' \in Seq(Names)
<1>1. /\ stack \in Seq(Frames) /\ ordered \in Seq(Names)
      /\ stack # <<>> /\ \A i \in DOMAIN stack : i > 1 => stack[i].name \in Modules
      /\ Modules \subseteq Names
  BY ModuleFacts DEF ScratchInv, ScratchTypeOK, StackInv, Leave
<1>2. Len(stack) \in Nat \ {0} /\ Len(stack) \in DOMAIN stack
  BY <1>1, EmptySeq, SeqFacts
<1>3. stack' \in Seq(Frames)
  BY <1>1, <1>2 DEF Leave
<1>4. Len(stack) # 1 => Top.name \in Names
  <2>1. /\ \A i \in DOMAIN stack : i > 1 => stack[i].name \in Modules
        /\ Modules \subseteq Names
    BY <1>1
  <2>2. SUFFICES ASSUME Len(stack) # 1 PROVE Top.name \in Names
    OBVIOUS
  <2>3. Len(stack) > 1 /\ Len(stack) \in DOMAIN stack
    <3>1. \A k \in Nat \ {0} : k # 1 => k > 1
      OBVIOUS
    <3>2. QED
      BY <1>2, <2>2, <3>1, Zenon
  <2>4. stack[Len(stack)].name \in Modules
    BY <2>1, <2>3, Zenon
  <2>5. QED
    BY <2>1, <2>4 DEF Top
<1>5. Len(stack) # 1 => Append(ordered, Top.name) \in Seq(Names)
  BY <1>1, <1>4
<1>6. QED
  BY <1>1, <1>3, <1>5 DEF Leave

LEMMA VisitFacts ==
    ASSUME ScratchInv, NEW n \in Names, Visit(n)
    PROVE  /\ phase = "assembling" /\ stack \in Seq(Frames) /\ stack # <<>>
           /\ Len(stack) \in Nat \ {0} /\ DOMAIN stack = 1 .. Len(stack)
           /\ Top = stack[Len(stack)] /\ Top.rest \in Seq(Names) /\ Top.rest # <<>>
           /\ Top.rest[1] = n /\ Len(Top.rest) \in Nat \ {0}
           /\ Len(Tail(Top.rest)) = Len(Top.rest) - 1
           /\ \A k \in 1 .. Len(Top.rest) - 1 : Tail(Top.rest)[k] = Top.rest[k + 1]
           /\ Advanced \in Seq(Frames) /\ Len(Advanced) = Len(stack)
           /\ \A i \in DOMAIN stack : Advanced[i].name = stack[i].name
           /\ \A i \in DOMAIN stack : i # Len(stack) => Advanced[i] = stack[i]
           /\ Advanced[Len(stack)].rest = Tail(Top.rest)
<1>1. phase = "assembling" /\ Top.rest # <<>> /\ n = Head(Top.rest)
  BY DEF Visit
<1>2. stack \in Seq(Frames) /\ stack # <<>>
  BY <1>1 DEF ScratchInv, ScratchTypeOK, StackInv
<1>3. Len(stack) \in Nat \ {0} /\ DOMAIN stack = 1 .. Len(stack) /\ Top = stack[Len(stack)]
  BY <1>2, EmptySeq, SeqFacts DEF Top
<1>4. Top.rest \in Seq(Names)
  BY <1>1, <1>2, AdvancedFacts
<1> DEFINE r == Top.rest
<1>5. /\ Len(r) \in Nat \ {0} /\ Len(Tail(r)) = Len(r) - 1
      /\ \A k \in 1 .. Len(r) - 1 : Tail(r)[k] = r[k + 1]
      /\ r[1] = n
  <2>1. r \in Seq(Names) /\ r # <<>> /\ n = Head(r)
    BY <1>1, <1>4
  <2> HIDE DEF r
  <2>2. QED
    BY <2>1
<1>6. QED
  BY <1>1, <1>2, <1>3, <1>4, <1>5, AdvancedFacts

LEMMA SkipTypes ==
    ASSUME ScratchInv, NEW n \in Names, Skip(n)
    PROVE  stack' \in Seq(Frames) /\ external' \in Seq(Names)
<1>1. Visit(n) /\ external \in Seq(Names)
  BY DEF Skip, ScratchInv, ScratchTypeOK
<1>2. Append(external, n) \in Seq(Names)
  BY <1>1
<1>3. Advanced \in Seq(Frames)
  BY <1>1, VisitFacts
<1>4. QED
  BY <1>1, <1>2, <1>3 DEF Skip

LEMMA EnterTypes ==
    ASSUME ScratchInv, NEW n \in Names, Enter(n)
    PROVE  stack' \in Seq(Frames)
<1> DEFINE frame == [name |-> n, rest |-> ImportsOf(n)]
<1>1. Visit(n) /\ n \in Modules /\ stack' = Append(Advanced, frame)
  BY DEF Enter
<1>2. ImportsOf(n) \in Seq(Names)
  BY <1>1, ModuleFacts DEF ScratchInv
<1>3. frame \in Frames
  BY <1>2 DEF Frames
<1> HIDE DEF frame
<1>4. Advanced \in Seq(Frames)
  BY <1>1, VisitFacts
<1>5. QED
  BY <1>1, <1>3, <1>4

LEMMA BeginTypes ==
    ASSUME ScratchTypeOK, NEW p \in Proposals, Begin(p)
    PROVE  ScratchTypeOK'
<1> USE DEF ScratchTypeOK, callVars, processVars
<1> DEFINE c == Build(p)
           basis == IF p.mode = "candidate" THEN <<>> ELSE parent
           frame == [name |-> CandidateName, rest |-> HeaderImports(c)]
           chk == [number |-> check.number + 1, parent |-> basis, candidate |-> c]
<1>1. c \in Seq(Lines) /\ basis \in Seq(Lines)
  BY BuildTyped
<1>2. /\ check' = chk
      /\ \/ phase' = "assembling" /\ status' = "not_run" /\ stack' = <<frame>>
         \/ phase' = "done" /\ status' = "policy_failed" /\ stack' = <<>>
      /\ ordered' = <<>> /\ external' = <<>>
      /\ UNCHANGED <<callVars, processVars, emitted>>
  BY DEF Begin
<1> HIDE DEF c, basis
<1>3. chk \in Checks
  BY <1>1 DEF Checks
<1>4. frame \in Frames
  BY <1>1, HeaderImportsFacts DEF Frames
<1> HIDE DEF frame, chk
<1>5. stack' \in Seq(Frames) /\ ordered' \in Seq(Names) /\ external' \in Seq(Names)
  <2>1. <<frame>> \in Seq(Frames)
    BY ONLY <1>4
  <2>2. <<>> \in Seq(Frames) /\ <<>> \in Seq(Names)
    OBVIOUS
  <2>3. QED
    BY <1>2, <2>1, <2>2
<1>6. phase' \in Phases /\ status' \in Statuses /\ check' \in Checks
  BY <1>2, <1>3 DEF Phases, Statuses
<1>7. QED
  BY <1>2, <1>5, <1>6

LEMMA CumulateTypes ==
    ASSUME ScratchInv, Cumulate
    PROVE  /\ Permitted(checkpoint, <<>>) /\ checkpoint' = Materialize(checkpoint, check.candidate)
           /\ checkpoint \in Seq(Lines) /\ check.candidate \in Seq(Lines)
           /\ Permitted(check.candidate, <<>>) /\ checkpoint' \in Seq(Lines)
           /\ Permitted(checkpoint', <<>>) /\ Outside(checkpoint') = Outside(checkpoint)
           /\ StartsWith(Content(EvolveBlock(checkpoint')), Content(EvolveBlock(checkpoint)))
<1>1. checkpoint \in Seq(Lines) /\ check.candidate \in Seq(Lines)
  BY DEF ScratchInv, ScratchTypeOK, Checks
<1>2. Permitted(check.candidate, check.parent) /\ CheckpointHolds(check.candidate)
  BY DEF ScratchInv, AcceptInv, Cumulate
<1>3. checkpoint # <<>>
  BY DEF Cumulate, Prepared, Rejected
<1>4. Permitted(checkpoint, <<>>) /\ Permitted(check.candidate, <<>>)
  BY <1>2, <1>3, PermittedAlone DEF CheckpointHolds
<1> DEFINE w == Materialize(checkpoint, check.candidate)
<1>5. checkpoint' = Prepared(w)
  BY DEF Cumulate
<1>6. /\ w \in Seq(Lines) /\ Permitted(w, <<>>) /\ Outside(w) = Outside(checkpoint)
      /\ StartsWith(Content(EvolveBlock(w)), Content(EvolveBlock(checkpoint)))
  BY <1>1, <1>4, MaterializeFacts
<1> HIDE DEF w
<1>7. checkpoint' = w
  BY <1>5, <1>6 DEF Prepared, Permitted
<1>8. QED
  BY <1>1, <1>4, <1>6, <1>7 DEF w

LEMMA ScratchTypes == ASSUME ScratchInv, [Next]_scratchVars PROVE ScratchTypeOK'
<1>0. ScratchTypeOK
  BY DEF ScratchInv
<1>1. ASSUME NEW p \in Proposals, Begin(p) PROVE ScratchTypeOK'
  BY <1>0, <1>1, BeginTypes
<1> USE DEF ScratchTypeOK, Phases, Statuses, callVars, assemblyVars, processVars
<1>2. CASE Leave
  BY <1>0, <1>2, LeaveTypes DEF Leave
<1>3. ASSUME NEW n \in Names, Skip(n) \/ Enter(n) \/ AssemblyFails(n) PROVE ScratchTypeOK'
  <2>1. CASE Skip(n)
    BY <1>0, <2>1, SkipTypes DEF Skip
  <2>2. CASE Enter(n)
    BY <1>0, <2>2, EnterTypes DEF Enter
  <2>3. CASE AssemblyFails(n)
    BY <1>0, <2>3 DEF AssemblyFails, Fail
  <2>4. QED
    BY <1>3, <2>1, <2>2, <2>3
<1>4. /\ <<"started", check.number>> \in {"started", "finished"} \X Nat
      /\ <<"finished", check.number>> \in {"started", "finished"} \X Nat
  BY <1>0 DEF Checks
<1>5. CASE ToolchainMissing \/ PathReceiptInvalid \/ Announce \/ SpawnFails \/ Spawn
  BY <1>0, <1>4, <1>5 DEF ToolchainMissing, PathReceiptInvalid, Announce, SpawnFails, Spawn,
                          Fail, End
<1>6. CASE Forks \/ HelperExits \/ LeanExits \/ ThreadsEnd
  BY <1>0, <1>6 DEF Forks, HelperExits, LeanExits, ThreadsEnd
<1>7. CASE TimesOut \/ WaitReturns \/ JoinExpires
  BY <1>0, <1>7 DEF TimesOut, WaitReturns, JoinExpires
<1>8. CASE Close \/ CloseReturns
  <2>1. code \in Returned
    BY <1>8 DEF ScratchInv, ProcessInv, Close, CloseReturns
  <2>2. Verdict \in Statuses
    BY <2>1 DEF Verdict, Returned
  <2>3. PICK s \in Statuses : End(s) /\ UNCHANGED processVars
    BY <1>8, <2>2 DEF Close, CloseReturns
  <2>4. QED
    BY <1>0, <1>4, <2>3 DEF End
<1>9. CASE Interrupted
  BY <1>0, <1>4, <1>9 DEF Interrupted, Fail, End
<1>10. CASE Proceed
  BY <1>0, <1>10 DEF Proceed, Fresh, Checks
<1>11. CASE Cumulate
  <2>1. checkpoint' \in Seq(Lines) /\ parent' \in Seq(Lines)
    BY <1>11, CumulateTypes, ScratchAssumption DEF Cumulate
  <2>2. QED
    BY <1>0, <1>11, <2>1 DEF Cumulate, Fresh
<1>12. CASE Rest \/ UNCHANGED scratchVars
  BY <1>0, <1>12 DEF Rest, scratchVars
<1>13. QED
  BY <1>1, <1>2, <1>3, <1>5, <1>6, <1>7, <1>8, <1>9, <1>10, <1>11, <1>12 DEF Next

-------------------------------------------------------------------------------
(* The assembly *)

AssemblyInv == StackInv /\ OrderInv /\ ReachInv /\ FlatInv

LEMMA SameModules ==
    ASSUME UNCHANGED <<callVars, check>>
    PROVE  /\ Modules' = Modules
           /\ \A n : ImportsOf(n)' = ImportsOf(n)
           /\ \A n : ImportsBy(n)' = ImportsBy(n)
           /\ \A S : Closed(S)' = Closed(S)
<1>1. graph' = graph /\ checkpoint' = checkpoint /\ check' = check
  BY DEF callVars
<1>2. Modules' = Modules
  BY <1>1 DEF Modules
<1>3. \A n : ImportsOf(n)' = ImportsOf(n)
  BY <1>1 DEF ImportsOf
<1>4. \A n : ImportsBy(n)' = ImportsBy(n)
  BY <1>1, <1>3 DEF ImportsBy
<1>5. \A S : Closed(S)' = Closed(S)
  BY <1>1, <1>2, <1>3 DEF Closed
<1>6. QED
  BY <1>2, <1>3, <1>4, <1>5

\* The assembly is over, or has not begun.
LEMMA NotBuilding == ASSUME ~ Building' PROVE AssemblyInv'
  BY DEF AssemblyInv, StackInv, OrderInv, ReachInv, FlatInv, Building, Flat

\* Nothing happens to the stream.
LEMMA CalmAssembly ==
    ASSUME ScratchInv, UNCHANGED <<callVars, check, assemblyVars>>,
           phase' = phase \/ (Flat /\ Flat')
    PROVE  AssemblyInv'
<1>1. /\ graph' = graph /\ checkpoint' = checkpoint /\ check' = check
      /\ stack' = stack /\ ordered' = ordered /\ external' = external
  BY DEF callVars, assemblyVars
<1>2. /\ Modules' = Modules /\ \A n : ImportsOf(n)' = ImportsOf(n)
      /\ \A n : ImportsBy(n)' = ImportsBy(n) /\ \A S : Closed(S)' = Closed(S)
  BY SameModules DEF assemblyVars
<1>3. Visited' = Visited
  BY <1>1 DEF Visited
<1>4. (\A n : Settled(n)' = Settled(n)) /\ \A i, n : Pending(i, n)' = Pending(i, n)
  BY <1>1, <1>3 DEF Settled, Pending
<1>5. /\ phase' = "assembling" => phase = "assembling"
      /\ Flat' => Flat
      /\ Building' => Building
  BY DEF Flat, Building
<1>6. StackInv'
  <2>1. SUFFICES ASSUME phase' = "assembling" PROVE StackInv'
    BY DEF StackInv
  <2>2. StackInv /\ phase = "assembling"
    BY <1>5, <2>1 DEF ScratchInv
  <2>3. QED
    BY <1>1, <1>2, <1>3, <1>4, <2>2 DEF StackInv
<1>7. OrderInv'
  <2>1. OrderInv
    BY DEF ScratchInv
  <2>2. QED
    BY <1>1, <1>2, <1>3, <1>5, <2>1 DEF OrderInv
<1>8. ReachInv'
  <2>1. ReachInv
    BY DEF ScratchInv
  <2>2. QED
    BY <1>1, <1>2, <1>3, <1>5, <2>1 DEF ReachInv
<1>9. FlatInv'
  BY <1>2, <1>3, <1>5 DEF ScratchInv, FlatInv
<1>10. QED
  BY <1>6, <1>7, <1>8, <1>9 DEF AssemblyInv

LEMMA BeginAssembly ==
    ASSUME ScratchInv, NEW p \in Proposals, Begin(p)
    PROVE  AssemblyInv'
<1>1. CASE phase' # "assembling"
  <2>1. phase' = "done"
    BY <1>1 DEF Begin
  <2>2. QED
    BY <2>1, NotBuilding DEF Building, Flat
<1>2. CASE phase' = "assembling"
  <2>1. PICK c \in Seq(Lines) : c = Build(p)
    BY BuildTyped DEF ScratchInv, ScratchTypeOK
  <2> DEFINE frame == [name |-> CandidateName, rest |-> HeaderImports(c)]
  <2>2. /\ check'.candidate = c /\ stack' = <<frame>> /\ ordered' = <<>> /\ external' = <<>>
        /\ graph' = graph /\ checkpoint' = checkpoint
    BY <1>2, <2>1 DEF Begin, callVars
  <2>3. /\ HeaderImports(c) \in Seq(Names)
        /\ \A k \in DOMAIN HeaderImports(c) : HeaderImports(c)[k] \in AllHeader(c)
    BY <2>1, HeaderImportsFacts
  <2>4. /\ DOMAIN stack' = {1} /\ stack'[1].name = CandidateName
        /\ stack'[1].rest = HeaderImports(c) /\ stack' # <<>>
    BY <2>2
  <2>5. Visited' = {} /\ DOMAIN ordered' = {}
    BY <2>2 DEF Visited
  <2>6. ImportsBy(CandidateName)' = HeaderImports(c)
    BY <2>2 DEF ImportsBy
  <2> HIDE DEF frame
  <2>7. StackInv'
    <3>1. ASSUME NEW k \in DOMAIN HeaderImports(c)
          PROVE  Pending(1, HeaderImports(c)[k])'
      BY <2>4 DEF Pending
    <3>2. QED
      BY <2>4, <2>5, <2>6, <3>1 DEF StackInv
  <2>8. OrderInv'
    BY <2>5 DEF OrderInv
  <2>9. ReachInv'
    <3>1. ASSUME NEW S, Closed(S)', NEW k \in DOMAIN HeaderImports(c),
                 HeaderImports(c)[k] \in Modules'
          PROVE  HeaderImports(c)[k] \in S
      BY <2>2, <2>3, <3>1 DEF Closed
    <3>2. QED
      BY <2>4, <2>5, <3>1 DEF ReachInv
  <2>10. FlatInv'
    BY <1>2 DEF FlatInv, Flat
  <2>11. QED
    BY <2>7, <2>8, <2>9, <2>10 DEF AssemblyInv
<1>3. QED
  BY <1>1, <1>2

\* The last visit ends with the candidate: what was reached is closed.
LEMMA FinishAssembly ==
    ASSUME ScratchInv, Leave, Len(stack) = 1
    PROVE  AssemblyInv'
<1>1. /\ phase = "assembling" /\ Top.rest = <<>> /\ phase' = "assembled" /\ ordered' = ordered
      /\ UNCHANGED <<callVars, check, external>>
  BY DEF Leave
<1>2. StackInv /\ OrderInv /\ ReachInv /\ ScratchTypeOK /\ Building
  BY <1>1 DEF ScratchInv, Building
<1>3. /\ Modules' = Modules /\ \A n : ImportsOf(n)' = ImportsOf(n)
      /\ \A S : Closed(S)' = Closed(S)
  BY <1>1, SameModules
<1>4. Visited' = Visited
  BY <1>1 DEF Visited
<1>5. OrderInv'
  BY <1>1, <1>2, <1>3, <1>4 DEF OrderInv
<1>6. ReachInv'
  BY <1>1, <1>2, <1>3, <1>4 DEF ReachInv
<1>7. Closed(Visited)
  <2>1. ASSUME NEW n \in AllHeader(check.candidate), n \in Modules PROVE n \in Visited
    <3>1. PICK k \in DOMAIN HeaderImports(check.candidate) : HeaderImports(check.candidate)[k] = n
      BY <1>2, <2>1, HeaderImportsFacts DEF ScratchTypeOK, Checks
    <3>2. 1 \in DOMAIN stack /\ 2 \notin DOMAIN stack /\ stack[1] = Top
      BY <1>2 DEF ScratchTypeOK, Top
    <3>3. stack[1].name = CandidateName /\ ImportsBy(stack[1].name) = HeaderImports(check.candidate)
      BY <1>1, <1>2 DEF StackInv, ImportsBy
    <3>4. Pending(1, n)
      BY <1>1, <1>2, <3>1, <3>2, <3>3 DEF StackInv
    <3>5. Settled(n)
      BY <1>1, <3>2, <3>4 DEF Pending
    <3>6. n \in InLibrary
      BY <1>2, <2>1, ModuleFacts
    <3>7. QED
      BY <3>5, <3>6 DEF Settled
  <2>2. ASSUME NEW m \in Visited, NEW k \in DOMAIN ImportsOf(m), ImportsOf(m)[k] \in Modules
        PROVE  ImportsOf(m)[k] \in Visited
    <3>1. PICK i \in DOMAIN ordered : ordered[i] = m
      BY <2>2 DEF Visited
    <3>2. ImportsOf(m)[k] \in InLibrary
      BY <1>2, <2>2, ModuleFacts
    <3>3. PICK j \in 1 .. i - 1 : ordered[j] = ImportsOf(m)[k]
      BY <1>2, <2>2, <3>1, <3>2 DEF OrderInv
    <3>4. i \in 1 .. Len(ordered) /\ DOMAIN ordered = 1 .. Len(ordered)
      BY <1>2, <3>1 DEF ScratchTypeOK
    <3>5. j \in DOMAIN ordered
      BY <3>3, <3>4
    <3>6. QED
      BY <3>3, <3>5 DEF Visited
  <2>3. QED
    BY <2>1, <2>2 DEF Closed
<1>8. StackInv' /\ FlatInv'
  BY <1>1, <1>3, <1>4, <1>7 DEF StackInv, FlatInv
<1>9. QED
  BY <1>5, <1>6, <1>8 DEF AssemblyInv

\* A visit of a module ends: the module goes to the end of the stream.
LEMMA LeaveAssembly ==
    ASSUME ScratchInv, Leave, Len(stack) # 1
    PROVE  AssemblyInv'
<1>1. /\ phase = "assembling" /\ Top.rest = <<>> /\ phase' = phase
      /\ ordered' = Append(ordered, Top.name) /\ stack' = SubSeq(stack, 1, Len(stack) - 1)
      /\ UNCHANGED <<callVars, check, external>>
  BY DEF Leave
<1>2. StackInv /\ OrderInv /\ ReachInv /\ ScratchTypeOK /\ Building
  BY <1>1 DEF ScratchInv, Building
<1>3. /\ Modules' = Modules /\ \A n : ImportsOf(n)' = ImportsOf(n)
      /\ \A n : ImportsBy(n)' = ImportsBy(n) /\ \A S : Closed(S)' = Closed(S)
  BY <1>1, SameModules
<1>4. PICK L \in Nat : L = Len(stack)
  BY <1>2 DEF ScratchTypeOK
<1>5. PICK t : t = Top.name
  OBVIOUS
<1>6. L > 1 /\ DOMAIN stack = 1 .. L /\ stack[L].name = t /\ stack[L].rest = <<>>
  <2>1. stack \in Seq(Frames) /\ stack # <<>>
    BY <1>1, <1>2 DEF ScratchTypeOK, StackInv
  <2>2. L # 0 /\ L # 1 /\ DOMAIN stack = 1 .. L
    BY <1>4, <2>1, EmptySeq, SeqFacts
  <2>3. QED
    BY <1>1, <1>4, <1>5, <2>2 DEF Top
<1>7. DOMAIN stack' = 1 .. L - 1 /\ \A i \in 1 .. L - 1 : stack'[i] = stack[i]
  <2>1. stack \in Seq(Frames)
    BY <1>2 DEF ScratchTypeOK
  <2>2. QED
    BY <1>1, <1>4, <1>6, <2>1
<1>8. t \in Modules /\ t \notin Visited /\ t # CandidateName /\ t \in Names
  BY <1>1, <1>2, <1>6, ModuleFacts DEF StackInv
<1>9. PICK N \in Nat : N = Len(ordered)
  BY <1>2 DEF ScratchTypeOK
<1>10. /\ DOMAIN ordered = 1 .. N /\ DOMAIN ordered' = 1 .. N + 1
       /\ \A i \in 1 .. N : ordered'[i] = ordered[i]
       /\ ordered'[N + 1] = t
  <2>1. ordered \in Seq(Names) /\ t \in Names /\ ordered' = Append(ordered, t)
    BY <1>1, <1>2, <1>5, <1>8 DEF ScratchTypeOK
  <2>2. QED
    BY <1>9, <2>1
<1>11. Visited' = Visited \cup {t}
  BY <1>9, <1>10 DEF Visited
<1>12. \A n : Settled(n) => Settled(n)'
  BY <1>1, <1>11 DEF Settled
<1>13. ASSUME NEW k \in DOMAIN ImportsOf(t) PROVE Settled(ImportsOf(t)[k])
  <2>1. ImportsBy(stack[L].name) = ImportsOf(t) /\ L \in DOMAIN stack
    BY <1>6, <1>8 DEF ImportsBy
  <2>2. Pending(L, ImportsOf(t)[k])
    BY <1>1, <1>2, <2>1 DEF StackInv
  <2>3. L + 1 \notin DOMAIN stack /\ DOMAIN stack[L].rest = {}
    BY <1>6
  <2>4. QED
    BY <2>2, <2>3 DEF Pending
<1>14. OrderInv'
  <2>1. Visited' \subseteq Modules'
    BY <1>2, <1>3, <1>8, <1>11 DEF OrderInv
  <2>2. ASSUME NEW i \in 1 .. N + 1, NEW j \in 1 .. N + 1, ordered'[i] = ordered'[j]
        PROVE  i = j
    <3>1. \A m \in 1 .. N : ordered'[m] \in Visited /\ ordered'[m] # t
      BY <1>8, <1>10 DEF Visited
    <3>2. CASE i = N + 1 \/ j = N + 1
      BY <1>9, <1>10, <2>2, <3>1, <3>2
    <3>3. CASE i \in 1 .. N /\ j \in 1 .. N
      BY <1>2, <1>10, <2>2, <3>3 DEF OrderInv
    <3>4. QED
      BY <1>9, <3>2, <3>3
  <2>3. ASSUME NEW i \in 1 .. N, NEW k \in DOMAIN ImportsOf(ordered[i])
        PROVE  LET n == ImportsOf(ordered[i])[k]
               IN  \/ \E j \in 1 .. i - 1 : ordered'[j] = n
                   \/ n \notin InLibrary /\ \E j \in DOMAIN external : external[j] = n
    <3>1. \A j \in 1 .. i - 1 : j \in 1 .. N
      BY <1>9
    <3>2. QED
      BY <1>2, <1>10, <3>1 DEF OrderInv
  <2>4. ASSUME NEW k \in DOMAIN ImportsOf(t)
        PROVE  LET n == ImportsOf(t)[k]
               IN  \/ \E j \in 1 .. N : ordered'[j] = n
                   \/ n \notin InLibrary /\ \E j \in DOMAIN external : external[j] = n
    BY <1>10, <1>13 DEF Settled, Visited
  <2>5. ASSUME NEW i \in DOMAIN ordered', NEW k \in DOMAIN ImportsOf(ordered'[i])
        PROVE  LET n == ImportsOf(ordered'[i])[k]
               IN  \/ \E j \in 1 .. i - 1 : ordered'[j] = n
                   \/ n \notin InLibrary /\ \E j \in DOMAIN external : external[j] = n
    <3>1. CASE i \in 1 .. N
      BY <1>10, <2>3, <2>5, <3>1
    <3>2. CASE i = N + 1
      <4>1. N + 1 - 1 = N
        BY <1>9
      <4>2. QED
        BY <1>10, <2>4, <2>5, <3>2, <4>1
    <3>3. QED
      BY <1>9, <1>10, <3>1, <3>2
  <2>6. external' = external
    BY <1>1
  <2>7. QED
    BY <1>3, <1>10, <2>1, <2>2, <2>5, <2>6 DEF OrderInv
<1>15. StackInv'
  <2>1. 1 \in DOMAIN stack' /\ stack'[1].name = CandidateName /\ stack' # <<>>
    <3>1. 1 \in 1 .. L - 1
      BY <1>6
    <3>2. 1 \in DOMAIN stack' /\ stack'[1] = stack[1]
      BY <1>7, <3>1
    <3>3. stack[1].name = CandidateName
      BY <1>1, <1>2 DEF StackInv
    <3>4. QED
      BY <3>2, <3>3, HasFirst
  <2>2. ASSUME NEW i \in DOMAIN stack', i > 1 PROVE stack'[i].name \in Modules \ Visited'
    <3>1. i \in DOMAIN stack /\ stack'[i] = stack[i] /\ L \in DOMAIN stack /\ i # L
      BY <1>6, <1>7
    <3>2. stack[i].name # t
      BY <1>1, <1>2, <1>6, <3>1 DEF StackInv
    <3>3. QED
      BY <1>1, <1>2, <1>11, <2>2, <3>1, <3>2 DEF StackInv
  <2>3. ASSUME NEW i \in DOMAIN stack', NEW j \in DOMAIN stack', stack'[i].name = stack'[j].name
        PROVE  i = j
    <3>1. i \in DOMAIN stack /\ stack'[i] = stack[i] /\ j \in DOMAIN stack /\ stack'[j] = stack[j]
      BY <1>6, <1>7
    <3>2. QED
      BY <1>1, <1>2, <2>3, <3>1 DEF StackInv
  <2>4. ASSUME NEW i \in DOMAIN stack', NEW n, Pending(i, n) PROVE Pending(i, n)'
    <3>1. i \in 1 .. L - 1 /\ stack'[i] = stack[i]
      BY <1>7
    <3>2. CASE Settled(n)
      BY <1>12, <3>2 DEF Pending
    <3>3. CASE \E k \in DOMAIN stack[i].rest : stack[i].rest[k] = n
      BY <3>1, <3>3 DEF Pending
    <3>4. CASE i + 1 \in DOMAIN stack /\ stack[i + 1].name = n
      <4>1. CASE i + 1 = L
        BY <1>6, <1>11, <3>4, <4>1 DEF Pending, Settled
      <4>2. CASE i + 1 # L
        <5>1. i + 1 \in 1 .. L - 1
          BY <1>6, <3>1, <4>2
        <5>2. QED
          BY <1>7, <3>4, <5>1 DEF Pending
      <4>3. QED
        BY <4>1, <4>2
    <3>5. QED
      BY <2>4, <3>2, <3>3, <3>4 DEF Pending
  <2>5. ASSUME NEW i \in DOMAIN stack', NEW m, m = stack'[i].name,
               NEW k \in DOMAIN ImportsBy(m), NEW n, n = ImportsBy(m)[k]
        PROVE  Pending(i, n)'
    <3>1. i \in DOMAIN stack /\ stack[i].name = m
      BY <1>6, <1>7, <2>5
    <3>2. Pending(i, n)
      BY <1>1, <1>2, <2>5, <3>1 DEF StackInv
    <3>3. QED
      BY <2>4, <3>2
  <2>6. QED
    BY <1>3, <2>1, <2>2, <2>3, <2>5 DEF StackInv
<1>16. ReachInv'
  <2>1. ASSUME NEW S \in SUBSET Modules, Closed(S)
        PROVE  /\ Visited' \subseteq S
               /\ \A i \in DOMAIN stack' :
                     /\ i > 1 => stack'[i].name \in S
                     /\ \A k \in DOMAIN stack'[i].rest :
                           stack'[i].rest[k] \in Modules => stack'[i].rest[k] \in S
    <3>1. /\ Visited \subseteq S
          /\ \A i \in DOMAIN stack :
                /\ i > 1 => stack[i].name \in S
                /\ \A k \in DOMAIN stack[i].rest :
                      stack[i].rest[k] \in Modules => stack[i].rest[k] \in S
      BY <1>1, <1>2, <2>1 DEF ReachInv
    <3>2. t \in S
      BY <1>6, <3>1
    <3>3. \A i \in DOMAIN stack' : i \in DOMAIN stack /\ stack'[i] = stack[i]
      BY <1>6, <1>7
    <3>4. QED
      BY <1>11, <3>1, <3>2, <3>3
  <2>2. QED
    BY <1>3, <2>1 DEF ReachInv
<1>17. FlatInv'
  BY <1>1 DEF FlatInv, Flat
<1>18. QED
  BY <1>14, <1>15, <1>16, <1>17 DEF AssemblyInv

\* The stack after an import was taken.
IsAdvanced(new, old, n) ==
    LET L == Len(old)
        R == Len(old[L].rest)
    IN  /\ new \in Seq(Frames) /\ Len(new) = L
        /\ L \in Nat \ {0} /\ DOMAIN old = 1 .. L /\ DOMAIN new = 1 .. L
        /\ R \in Nat \ {0} /\ DOMAIN old[L].rest = 1 .. R /\ old[L].rest[1] = n
        /\ DOMAIN new[L].rest = 1 .. R - 1
        /\ \A k \in 1 .. R - 1 : new[L].rest[k] = old[L].rest[k + 1]
        /\ \A i \in 1 .. L : new[i].name = old[i].name
        /\ \A i \in 1 .. L : i # L => new[i] = old[i]

LEMMA VisitAdvances ==
    ASSUME ScratchInv, NEW n \in Names, Visit(n)
    PROVE  IsAdvanced(Advanced, stack, n)
<1> DEFINE A == Advanced
           r == Top.rest
           s == Tail(r)
<1>1. /\ Len(stack) \in Nat \ {0} /\ DOMAIN stack = 1 .. Len(stack) /\ r = stack[Len(stack)].rest
      /\ r \in Seq(Names) /\ r # <<>> /\ r[1] = n /\ Len(r) \in Nat \ {0} /\ Len(s) = Len(r) - 1
      /\ \A k \in 1 .. Len(r) - 1 : s[k] = r[k + 1]
      /\ A \in Seq(Frames) /\ Len(A) = Len(stack)
      /\ \A i \in DOMAIN stack : A[i].name = stack[i].name
      /\ \A i \in DOMAIN stack : i # Len(stack) => A[i] = stack[i]
      /\ A[Len(stack)].rest = s
  BY VisitFacts
<1>2. s \in Seq(Names)
  BY <1>1
<1> HIDE DEF A, r, s
<1>3. DOMAIN A = 1 .. Len(stack) /\ DOMAIN r = 1 .. Len(r) /\ DOMAIN s = 1 .. Len(r) - 1
  <2>1. DOMAIN A = 1 .. Len(A)
    BY <1>1, SeqFacts
  <2>2. DOMAIN r = 1 .. Len(r) /\ DOMAIN s = 1 .. Len(s)
    BY <1>1, <1>2, SeqFacts
  <2>3. QED
    BY <1>1, <2>1, <2>2
<1>4. IsAdvanced(A, stack, n)
  BY <1>1, <1>3 DEF IsAdvanced
<1>5. QED
  BY <1>4 DEF A

LEMMA RestShrinks ==
    ASSUME NEW new, NEW old, NEW n, IsAdvanced(new, old, n),
           NEW i \in DOMAIN old, NEW k \in DOMAIN new[i].rest
    PROVE  \E l \in DOMAIN old[i].rest : new[i].rest[k] = old[i].rest[l]
<1>1. CASE i # Len(old)
  BY <1>1 DEF IsAdvanced
<1>2. CASE i = Len(old)
  <2>1. k \in 1 .. Len(old[i].rest) - 1 /\ Len(old[i].rest) \in Nat
    BY <1>2 DEF IsAdvanced
  <2>2. k + 1 \in 1 .. Len(old[i].rest)
    BY <2>1
  <2>3. QED
    BY <1>2, <2>1, <2>2 DEF IsAdvanced
<1>3. QED
  BY <1>1, <1>2

\* An import that is taken was the only one of the stack to be so, and whatever
\* else was pending still is.
LEMMA PendingStays ==
    ASSUME ScratchInv, NEW n \in Names, Visit(n), Settled(n)', stack' = Advanced,
           \A m : Settled(m) => Settled(m)',
           NEW i \in DOMAIN stack, NEW m, Pending(i, m)
    PROVE  Pending(i, m)'
<1>1. IsAdvanced(stack', stack, n)
  BY VisitAdvances
<1>2. CASE Settled(m) \/ m = n
  BY <1>2 DEF Pending
<1>3. CASE i + 1 \in DOMAIN stack /\ stack[i + 1].name = m
  BY <1>1, <1>3 DEF Pending, IsAdvanced
<1>4. ASSUME NEW k \in DOMAIN stack[i].rest, stack[i].rest[k] = m, m # n
      PROVE  \E l \in DOMAIN stack'[i].rest : stack'[i].rest[l] = m
  <2>1. CASE i # Len(stack)
    BY <1>1, <1>4, <2>1 DEF IsAdvanced
  <2>2. CASE i = Len(stack)
    <3>1. k - 1 \in DOMAIN stack'[i].rest /\ stack'[i].rest[k - 1] = stack[i].rest[k]
      <4>1. k \in 1 .. Len(stack[i].rest) /\ k # 1 /\ Len(stack[i].rest) \in Nat
        BY <1>1, <1>4, <2>2 DEF IsAdvanced
      <4>2. k - 1 \in 1 .. Len(stack[i].rest) - 1 /\ k - 1 + 1 = k
        BY <4>1
      <4>3. QED
        BY <1>1, <2>2, <4>2 DEF IsAdvanced
    <3>2. QED
      BY <1>4, <3>1
  <2>3. QED
    BY <2>1, <2>2
<1>5. QED
  BY <1>2, <1>3, <1>4 DEF Pending

\* An import is in the stream, or left to the package path: the visit goes on.
LEMMA SkipAssembly ==
    ASSUME ScratchInv, NEW n \in Names, Skip(n)
    PROVE  AssemblyInv'
<1>1. /\ Visit(n) /\ (n \in Visited \/ n \notin Modules \cup InLibrary)
      /\ external' = IF n \in Visited \/ \E i \in DOMAIN external : external[i] = n
                     THEN external ELSE Append(external, n)
      /\ stack' = Advanced /\ ordered' = ordered /\ phase' = phase
      /\ UNCHANGED <<callVars, check>>
  BY DEF Skip
<1>2. StackInv /\ OrderInv /\ ReachInv /\ ScratchTypeOK /\ Building /\ phase = "assembling"
  BY <1>1 DEF ScratchInv, Building, Visit
<1>3. /\ Modules' = Modules /\ \A m : ImportsOf(m)' = ImportsOf(m)
      /\ \A m : ImportsBy(m)' = ImportsBy(m) /\ \A S : Closed(S)' = Closed(S)
  BY <1>1, SameModules
<1>4. Visited' = Visited
  BY <1>1 DEF Visited
<1>5. IsAdvanced(stack', stack, n)
  BY <1>1, VisitAdvances
<1>6. DOMAIN stack' = DOMAIN stack /\ \A i \in DOMAIN stack : stack'[i].name = stack[i].name
  BY <1>5 DEF IsAdvanced
<1>7. /\ DOMAIN external \subseteq DOMAIN external'
      /\ \A j \in DOMAIN external : external'[j] = external[j]
      /\ n \in Visited \/ \E j \in DOMAIN external' : external'[j] = n
  <2>1. external \in Seq(Names)
    BY <1>2 DEF ScratchTypeOK
  <2> DEFINE longer == Append(external, n)
  <2>2. /\ DOMAIN external \subseteq DOMAIN longer
        /\ \A j \in DOMAIN external : longer[j] = external[j]
        /\ \E j \in DOMAIN longer : longer[j] = n
    <3>1. /\ Len(external) \in Nat /\ DOMAIN external = 1 .. Len(external)
          /\ DOMAIN longer = 1 .. Len(external) + 1
          /\ \A j \in 1 .. Len(external) : longer[j] = external[j]
          /\ longer[Len(external) + 1] = n
      BY <2>1
    <3> HIDE DEF longer
    <3>2. QED
      BY <3>1
  <2> HIDE DEF longer
  <2>3. external' = external \/ external' = longer
    BY <1>1 DEF longer
  <2>4. QED
    BY <1>1, <2>2, <2>3 DEF longer
<1>8. Settled(n)' /\ \A m : Settled(m) => Settled(m)'
  BY <1>1, <1>4, <1>7 DEF Settled
<1>9. OrderInv'
  BY <1>1, <1>2, <1>3, <1>4, <1>7 DEF OrderInv
<1>10. StackInv'
  <2>1. /\ stack' # <<>> /\ stack'[1].name = CandidateName
        /\ \A i \in DOMAIN stack' : i > 1 => stack'[i].name \in Modules \ Visited
        /\ \A i, j \in DOMAIN stack' : stack'[i].name = stack'[j].name => i = j
    <3>1. 1 \in DOMAIN stack
      <4>1. Len(stack) \in Nat \ {0} /\ DOMAIN stack = 1 .. Len(stack)
        BY <1>1, VisitFacts
      <4>2. QED
        BY ONLY <4>1
    <3>2. stack' # <<>>
      BY <1>6, <3>1, HasFirst
    <3>3. QED
      BY <1>2, <1>6, <3>1, <3>2 DEF StackInv
  <2>2. ASSUME NEW i \in DOMAIN stack', NEW m, m = stack'[i].name,
               NEW k \in DOMAIN ImportsBy(m), NEW d, d = ImportsBy(m)[k]
        PROVE  Pending(i, d)'
    <3>1. i \in DOMAIN stack /\ stack[i].name = m
      BY <1>6, <2>2
    <3>2. Pending(i, d)
      BY <1>2, <2>2, <3>1 DEF StackInv
    <3>3. QED
      BY <1>1, <1>8, <3>1, <3>2, PendingStays
  <2>3. QED
    BY <1>3, <1>4, <2>1, <2>2 DEF StackInv
<1>11. ReachInv'
  <2>1. \A i \in DOMAIN stack : \A k \in DOMAIN stack'[i].rest :
           \E l \in DOMAIN stack[i].rest : stack'[i].rest[k] = stack[i].rest[l]
    BY <1>5, RestShrinks
  <2>2. QED
    BY <1>1, <1>2, <1>3, <1>4, <1>6, <2>1 DEF ReachInv
<1>12. FlatInv'
  BY <1>1, <1>2 DEF FlatInv, Flat
<1>13. QED
  BY <1>9, <1>10, <1>11, <1>12 DEF AssemblyInv

\* The visit of a module begins, above the visit that imports it.
LEMMA EnterAssembly ==
    ASSUME ScratchInv, NEW n \in Names, Enter(n)
    PROVE  AssemblyInv'
<1>1. /\ Visit(n) /\ n \in Modules \ (Visited \cup Visiting)
      /\ stack' = Append(Advanced, [name |-> n, rest |-> ImportsOf(n)])
      /\ ordered' = ordered /\ external' = external /\ phase' = phase
      /\ UNCHANGED <<callVars, check>>
  BY DEF Enter
<1>2. StackInv /\ OrderInv /\ ReachInv /\ ScratchTypeOK /\ Building /\ phase = "assembling"
  BY <1>1 DEF ScratchInv, Building, Visit
<1>3. /\ Modules' = Modules /\ \A m : ImportsOf(m)' = ImportsOf(m)
      /\ \A m : ImportsBy(m)' = ImportsBy(m) /\ \A S : Closed(S)' = Closed(S)
  BY <1>1, SameModules
<1>4. Visited' = Visited
  BY <1>1 DEF Visited
<1>5. PICK A, L, R : A = Advanced /\ L = Len(stack) /\ R = ImportsOf(n)
  OBVIOUS
<1>6. IsAdvanced(A, stack, n)
  BY <1>1, <1>5, VisitAdvances
<1>7. L \in Nat \ {0} /\ DOMAIN stack = 1 .. L /\ \A i \in 1 .. L : A[i].name = stack[i].name
  BY <1>5, <1>6 DEF IsAdvanced
<1>8. /\ DOMAIN stack' = 1 .. L + 1 /\ \A i \in 1 .. L : stack'[i] = A[i]
      /\ stack'[L + 1].name = n /\ stack'[L + 1].rest = R
  <2> DEFINE frame == [name |-> n, rest |-> R]
  <2>1. A \in Seq(Frames) /\ Len(A) = L
    BY <1>5, <1>6 DEF IsAdvanced
  <2>2. R \in Seq(Names)
    BY <1>1, <1>2, <1>5, ModuleFacts
  <2>3. frame \in Frames /\ frame.name = n /\ frame.rest = R
    BY <2>2 DEF Frames
  <2>4. stack' = Append(A, frame)
    BY <1>1, <1>5
  <2> HIDE DEF frame
  <2>5. QED
    BY <2>1, <2>3, <2>4
<1>9. /\ \A i \in 1 .. L : stack'[i].name = stack[i].name
      /\ n \notin {stack[i].name : i \in 1 .. L} /\ n # CandidateName /\ ImportsBy(n) = R
  <2>1. n \notin {stack[i].name : i \in 1 .. L}
    BY <1>1, <1>7 DEF Visiting
  <2>2. n # CandidateName
    BY <1>1, <1>2, ModuleFacts
  <2>3. QED
    BY <1>5, <1>7, <1>8, <2>1, <2>2 DEF ImportsBy
<1>10. \A m : Settled(m) => Settled(m)'
  BY <1>1, <1>4 DEF Settled
<1>11. OrderInv'
  BY <1>1, <1>2, <1>3, <1>4 DEF OrderInv
<1>12. ASSUME NEW i \in 1 .. L, NEW d, Pending(i, d)
       PROVE  Pending(i, d)'
  <2>1. CASE Settled(d)
    BY <1>10, <2>1 DEF Pending
  <2>2. CASE i + 1 \in DOMAIN stack /\ stack[i + 1].name = d
    <3>1. i + 1 \in 1 .. L /\ i + 1 \in 1 .. L + 1
      BY <1>7, <2>2
    <3>2. QED
      BY <1>8, <1>9, <2>2, <3>1 DEF Pending
  <2>3. ASSUME NEW k \in DOMAIN stack[i].rest, stack[i].rest[k] = d
        PROVE  Pending(i, d)'
    <3>1. CASE i # L
      BY <1>5, <1>6, <1>8, <2>3, <3>1 DEF Pending, IsAdvanced
    <3>2. CASE i = L /\ k = 1
      <4>1. d = n
        BY <1>5, <1>6, <2>3, <3>2 DEF IsAdvanced
      <4>2. i + 1 \in DOMAIN stack'
        BY <1>7, <1>8, <3>2
      <4>3. QED
        BY <1>8, <3>2, <4>1, <4>2 DEF Pending
    <3>3. CASE i = L /\ k # 1
      <4>1. k - 1 \in 1 .. Len(stack[L].rest) - 1 /\ k - 1 + 1 = k
        <5>1. k \in 1 .. Len(stack[L].rest) /\ Len(stack[L].rest) \in Nat
          BY <1>5, <1>6, <3>3 DEF IsAdvanced
        <5>2. QED
          BY <3>3, <5>1
      <4>2. k - 1 \in DOMAIN A[L].rest /\ A[L].rest[k - 1] = d
        BY <1>5, <1>6, <2>3, <3>3, <4>1 DEF IsAdvanced
      <4>3. QED
        BY <1>8, <3>3, <4>2 DEF Pending
    <3>4. QED
      BY <3>1, <3>2, <3>3
  <2>4. QED
    BY <1>12, <2>1, <2>2, <2>3 DEF Pending
<1>13. StackInv'
  <2>1. 1 \in 1 .. L /\ L + 1 \in 1 .. L + 1 /\ \A i \in 1 .. L + 1 : i # L + 1 => i \in 1 .. L
    BY <1>7
  <2>2. stack' # <<>> /\ stack'[1].name = CandidateName
    <3>1. 1 \in DOMAIN stack' /\ stack'[1].name = stack[1].name
      BY <1>7, <1>8, <1>9, <2>1
    <3>2. QED
      BY <1>2, <3>1, HasFirst DEF StackInv
  <2>3. \A i \in DOMAIN stack' : i > 1 => stack'[i].name \in Modules \ Visited
    BY <1>1, <1>2, <1>7, <1>8, <1>9, <2>1 DEF StackInv
  <2>4. \A i, j \in DOMAIN stack' : stack'[i].name = stack'[j].name => i = j
    BY <1>2, <1>7, <1>8, <1>9, <2>1 DEF StackInv
  <2>5. ASSUME NEW i \in DOMAIN stack', NEW m, m = stack'[i].name,
               NEW k \in DOMAIN ImportsBy(m), NEW d, d = ImportsBy(m)[k]
        PROVE  Pending(i, d)'
    <3>1. CASE i # L + 1
      <4>1. i \in 1 .. L /\ i \in DOMAIN stack /\ stack[i].name = m
        BY <1>7, <1>8, <1>9, <2>1, <2>5, <3>1
      <4>2. Pending(i, d)
        BY <1>2, <2>5, <4>1 DEF StackInv
      <4>3. QED
        BY <1>12, <4>1, <4>2
    <3>2. CASE i = L + 1
      BY <1>8, <1>9, <2>5, <3>2 DEF Pending
    <3>3. QED
      BY <3>1, <3>2
  <2>6. QED
    BY <1>3, <1>4, <2>2, <2>3, <2>4, <2>5 DEF StackInv
<1>14. ReachInv'
  <2>1. ASSUME NEW S \in SUBSET Modules, Closed(S)
        PROVE  /\ Visited \subseteq S
               /\ \A i \in DOMAIN stack' :
                     /\ i > 1 => stack'[i].name \in S
                     /\ \A k \in DOMAIN stack'[i].rest :
                           stack'[i].rest[k] \in Modules => stack'[i].rest[k] \in S
    <3>1. /\ Visited \subseteq S
          /\ \A i \in DOMAIN stack :
                /\ i > 1 => stack[i].name \in S
                /\ \A k \in DOMAIN stack[i].rest :
                      stack[i].rest[k] \in Modules => stack[i].rest[k] \in S
      BY <1>2, <2>1 DEF ReachInv
    <3>2. n \in S
      <4>1. L \in DOMAIN stack /\ 1 \in DOMAIN stack[L].rest /\ stack[L].rest[1] = n
        BY <1>5, <1>6 DEF IsAdvanced
      <4>2. QED
        BY <1>1, <3>1, <4>1
    <3>3. \A k \in DOMAIN R : R[k] \in Modules => R[k] \in S
      BY <1>5, <2>1, <3>2 DEF Closed
    <3>4. ASSUME NEW i \in 1 .. L, NEW k \in DOMAIN stack'[i].rest
          PROVE  stack'[i].rest[k] \in Modules => stack'[i].rest[k] \in S
      <4>1. i \in DOMAIN stack /\ stack'[i] = A[i]
        BY <1>7, <1>8
      <4>2. PICK l \in DOMAIN stack[i].rest : A[i].rest[k] = stack[i].rest[l]
        BY <1>6, <3>4, <4>1, RestShrinks
      <4>3. QED
        BY <3>1, <4>1, <4>2
    <3>5. \A i \in 1 .. L + 1 : i = L + 1 \/ i \in 1 .. L
      BY <1>7
    <3>6. QED
      BY <1>7, <1>8, <1>9, <3>1, <3>2, <3>3, <3>4, <3>5
  <2>2. QED
    BY <1>3, <1>4, <2>1 DEF ReachInv
<1>15. FlatInv'
  BY <1>1, <1>2 DEF FlatInv, Flat
<1>16. QED
  BY <1>11, <1>13, <1>14, <1>15 DEF AssemblyInv

LEMMA ScratchAssembly == ASSUME ScratchInv, [Next]_scratchVars PROVE AssemblyInv'
<1>1. ASSUME NEW p \in Proposals, Begin(p) PROVE AssemblyInv'
  BY <1>1, BeginAssembly
<1>2. CASE Leave
  BY <1>2, FinishAssembly, LeaveAssembly
<1>3. ASSUME NEW n \in Names, Skip(n) \/ Enter(n) \/ AssemblyFails(n) PROVE AssemblyInv'
  <2>1. CASE AssemblyFails(n)
    BY <2>1, NotBuilding DEF AssemblyFails, Fail, Building, Flat
  <2>2. QED
    BY <1>3, <2>1, SkipAssembly, EnterAssembly
<1>4. CASE \/ ToolchainMissing \/ PathReceiptInvalid \/ SpawnFails \/ Close \/ CloseReturns
           \/ Interrupted \/ Proceed \/ Cumulate
  <2>1. phase' \in {"idle", "done"}
    BY <1>4 DEF ToolchainMissing, PathReceiptInvalid, SpawnFails, Close, CloseReturns,
                Interrupted, Proceed, Cumulate, Fail, End
  <2>2. QED
    BY <2>1, NotBuilding DEF Building, Flat
<1>5. CASE Announce \/ Spawn \/ TimesOut \/ WaitReturns \/ JoinExpires
  BY <1>5, CalmAssembly DEF Announce, Spawn, TimesOut, WaitReturns, JoinExpires, Flat
<1>6. CASE Forks \/ HelperExits \/ LeanExits \/ ThreadsEnd \/ Rest \/ UNCHANGED scratchVars
  BY <1>6, CalmAssembly DEF Forks, HelperExits, LeanExits, ThreadsEnd, Rest, scratchVars,
                            callVars, assemblyVars
<1>7. QED
  BY <1>1, <1>2, <1>3, <1>4, <1>5, <1>6 DEF Next
-------------------------------------------------------------------------------
(* Lean and the verdict *)

LEMMA SameStream ==
    ASSUME UNCHANGED <<callVars, check, ordered>>
    PROVE  Elaborates' = Elaborates /\ Visited' = Visited /\ checkpoint' = checkpoint
  BY DEF callVars, Visited, Streamed, Elaborates

\* The stream of a candidate that the policy passed has the checkpoint, which the
\* candidate imports.
LEMMA CheckpointStreamed ==
    ASSUME ScratchInv, phase \in {"joining", "closing"}, checkpoint # <<>>
    PROVE  CheckpointName \in Visited
<1>1. Flat /\ Building
  BY DEF Flat, Building
<1>2. Closed(Visited) /\ CheckpointHolds(check.candidate)
  BY <1>1 DEF ScratchInv, FlatInv, AcceptInv
<1>3. CheckpointName \in Modules
  BY DEF Modules
<1>4. QED
  BY <1>2, <1>3 DEF Closed, CheckpointHolds, AllHeader

LEMMA ScratchProcess == ASSUME ScratchInv, [Next]_scratchVars PROVE ProcessInv'
<1>0. ProcessInv
  BY DEF ScratchInv
<1> USE DEF ProcessInv, Returned, Building, Flat
<1>1. ASSUME NEW p \in Proposals, Begin(p) PROVE ProcessInv'
  BY <1>0, <1>1 DEF Begin, processVars
<1>2. CASE Leave
  BY <1>0, <1>2 DEF Leave, processVars
<1>3. ASSUME NEW n \in Names, Skip(n) \/ Enter(n) \/ AssemblyFails(n) PROVE ProcessInv'
  BY <1>0, <1>3 DEF Skip, Enter, AssemblyFails, Visit, Fail, processVars
<1>4. CASE ToolchainMissing \/ PathReceiptInvalid \/ Announce
  BY <1>0, <1>4 DEF ToolchainMissing, PathReceiptInvalid, Announce, Fail, processVars
<1>5. CASE SpawnFails \/ Spawn
  BY <1>0, <1>5 DEF SpawnFails, Spawn, End, processVars
<1>6. CASE Forks \/ HelperExits \/ LeanExits \/ ThreadsEnd \/ TimesOut \/ WaitReturns \/ JoinExpires
  <2>1. UNCHANGED <<callVars, check, ordered>>
    BY <1>6 DEF Forks, HelperExits, LeanExits, ThreadsEnd, TimesOut, WaitReturns, JoinExpires,
                assemblyVars
  <2>2. Elaborates' = Elaborates /\ Visited' = Visited /\ checkpoint' = checkpoint
    BY <2>1, SameStream
  <2>3. CASE LeanExits
    BY <1>0, <2>2, <2>3 DEF LeanExits
  <2>4. CASE ~ LeanExits
    BY <1>0, <1>6, <2>2, <2>4 DEF Forks, HelperExits, ThreadsEnd, TimesOut, WaitReturns,
                                  JoinExpires, processVars
  <2>5. QED
    BY <2>3, <2>4
<1>7. CASE Close \/ CloseReturns
  <2>1. phase \in {"joining", "closing"} /\ UNCHANGED processVars
    BY <1>7 DEF Close, CloseReturns
  <2>2. code \in Returned
    BY <1>0, <2>1
  <2>3. PICK s : End(s) /\ (s = "lean_ok" => code = "zero")
    BY <1>7, <2>2 DEF Close, CloseReturns, Verdict
  <2>4. Elaborates' = Elaborates /\ Visited' = Visited /\ checkpoint' = checkpoint
    BY <2>3, SameStream DEF End, assemblyVars
  <2>5. checkpoint # <<>> => CheckpointName \in Visited
    BY <2>1, CheckpointStreamed
  <2>6. QED
    BY <1>0, <2>1, <2>3, <2>4, <2>5 DEF End, processVars
<1>8. CASE Interrupted
  BY <1>0, <1>8 DEF Interrupted, End, Fail, processVars
<1>9. CASE Proceed \/ Cumulate
  BY <1>9 DEF Proceed, Cumulate, Fresh
<1>10. CASE Rest \/ UNCHANGED scratchVars
  <2>1. UNCHANGED scratchVars
    BY <1>10 DEF Rest
  <2>2. Elaborates' = Elaborates /\ Visited' = Visited /\ checkpoint' = checkpoint
    BY <2>1, SameStream DEF scratchVars, assemblyVars
  <2>3. QED
    BY <1>0, <2>1, <2>2 DEF scratchVars, processVars
<1>11. QED
  BY <1>1, <1>2, <1>3, <1>4, <1>5, <1>6, <1>7, <1>8, <1>9, <1>10 DEF Next
-------------------------------------------------------------------------------
(* What the policy passed *)

Accepted == phase = "done" /\ status = "lean_ok"

LEMMA SamePolicy ==
    ASSUME ScratchInv, UNCHANGED <<callVars, check>>,
           Building' \/ Accepted' => Building \/ Accepted
    PROVE  AcceptInv'
<1>1. AcceptInv /\ checkpoint' = checkpoint /\ check' = check
  BY DEF ScratchInv, callVars
<1>2. QED
  BY <1>1 DEF AcceptInv, CheckpointHolds, Accepted

LEMMA ScratchAccepts == ASSUME ScratchInv, [Next]_scratchVars PROVE AcceptInv'
<1> USE DEF Building, Flat, Accepted
<1>1. ASSUME NEW p \in Proposals, Begin(p) PROVE AcceptInv'
  <2>1. checkpoint' = checkpoint
    BY <1>1 DEF Begin, callVars
  <2>2. CASE phase' = "assembling"
    BY <1>1, <2>1, <2>2 DEF Begin, AcceptInv, CheckpointHolds
  <2>3. CASE phase' # "assembling"
    BY <1>1, <2>3 DEF Begin, AcceptInv
  <2>4. QED
    BY <2>2, <2>3
<1>2. CASE Leave
  BY <1>2, SamePolicy DEF Leave
<1>3. ASSUME NEW n \in Names, Skip(n) \/ Enter(n) \/ AssemblyFails(n) PROVE AcceptInv'
  BY <1>3, SamePolicy DEF Skip, Enter, AssemblyFails, Visit, Fail
<1>4. CASE ToolchainMissing \/ PathReceiptInvalid \/ Announce \/ SpawnFails \/ Spawn
  BY <1>4, SamePolicy DEF ToolchainMissing, PathReceiptInvalid, Announce, SpawnFails, Spawn,
                          Fail, End
<1>5. CASE Forks \/ HelperExits \/ LeanExits \/ ThreadsEnd \/ TimesOut \/ WaitReturns \/ JoinExpires
  BY <1>5, SamePolicy DEF Forks, HelperExits, LeanExits, ThreadsEnd, TimesOut, WaitReturns,
                          JoinExpires
<1>6. CASE Close \/ CloseReturns \/ Interrupted
  BY <1>6, SamePolicy DEF Close, CloseReturns, Interrupted, End, Fail
<1>7. CASE Proceed \/ Cumulate
  BY <1>7 DEF Proceed, Cumulate, AcceptInv
<1>8. CASE Rest \/ UNCHANGED scratchVars
  BY <1>8, SamePolicy DEF Rest, scratchVars, callVars
<1>9. QED
  BY <1>1, <1>2, <1>3, <1>4, <1>5, <1>6, <1>7, <1>8 DEF Next

LEMMA ScratchStep == ScratchInv /\ [Next]_scratchVars => ScratchInv'
  BY ScratchTypes, ScratchAssembly, ScratchProcess, ScratchAccepts DEF ScratchInv, AssemblyInv
-------------------------------------------------------------------------------
(* The results *)

\* Type correctness: every variable has the values that the code gives it.
THEOREM ScratchTypeCorrect == Spec => []ScratchTypeOK
<1>1. ScratchInv => ScratchTypeOK
  BY DEF ScratchInv
<1>2. QED
  BY <1>1, ScratchStart, ScratchStep, PTL DEF Spec

\* assemble_frozen_source: an assembled stream has the modules that the candidate
\* reaches and no other, each once and after what it imports.
THEOREM ScratchAssemblyIsTopological == Spec => []AssemblyIsTopological
<1>1. ScratchInv => AssemblyIsTopological
  BY DEF ScratchInv, OrderInv, ReachInv, FlatInv, Building, AssemblyIsTopological
<1>2. QED
  BY <1>1, ScratchStart, ScratchStep, PTL DEF Spec

\* run_check: where a candidate was accepted, it and the checkpoint that it continues have
\* their imports in the header and no line that Lean refuses.
THEOREM ScratchNoFalseSuccess == Spec => []NoFalseSuccess
<1>1. ASSUME ScratchInv, phase = "done", status = "lean_ok", NEW c \in Judged
      PROVE  AllImports(c) = AllHeader(c) /\ \A i \in DOMAIN c : c[i] \notin Wrong
  <2>1. c \in Seq(Lines) /\ Elaborates
    BY <1>1 DEF ScratchInv, ScratchTypeOK, Checks, ProcessInv, Judged
  <2>2. WithoutImports(c) \in Streamed
    <3>1. c = check.candidate \/ (checkpoint # <<>> /\ c = checkpoint)
      BY <1>1 DEF Judged
    <3>2. checkpoint # <<>> => CheckpointName \in Visited
      BY <1>1 DEF ScratchInv, ProcessInv
    <3>3. QED
      BY <3>1, <3>2 DEF Streamed
  <2>3. \A k \in DOMAIN WithoutImports(c) :
           WithoutImports(c)[k] \notin Wrong /\ ~ IsImport(WithoutImports(c)[k])
    BY <2>1, <2>2 DEF Elaborates
  <2>4. DOMAIN c = 1 .. Len(c) /\ \A i \in DOMAIN c : c[i] \in Lines
    BY <2>1, SeqFacts
  <2>5. \A i \in DOMAIN c : i \notin Header(c) => c[i] \notin Wrong /\ ~ IsImport(c[i])
    BY <2>1, <2>3, <2>4, WithoutImportsFacts
  <2>6. \A i \in Header(c) : i \in DOMAIN c /\ IsImport(c[i])
    BY <2>4 DEF Header
  <2>7. \A i \in DOMAIN c : c[i] \notin Wrong
    BY <2>4, <2>5, <2>6, ScratchAssumption
  <2>8. AllImports(c) = AllHeader(c)
    BY <2>5, <2>6 DEF AllImports, AllHeader
  <2>9. QED
    BY <2>7, <2>8
<1>2. ScratchInv => NoFalseSuccess
  BY <1>1 DEF NoFalseSuccess
<1>3. QED
  BY <1>2, ScratchStart, ScratchStep, PTL DEF Spec

\* validate_append_only_extension: what an append or a diff made of its parent
\* starts with the declarations that the parent had before its append point.
THEOREM ScratchParentStands == Spec => []ParentStands
<1>1. ASSUME ScratchInv, phase # "idle", status = "lean_ok", check.parent # <<>>
      PROVE  StartsWith(Declarations(check.candidate), Declarations(Prefix(check.parent)))
  <2>1. phase = "done"
    BY <1>1 DEF ScratchInv, ScratchTypeOK, Phases, ProcessInv, Building, Flat
  <2>2. Permitted(check.candidate, check.parent)
    BY <1>1, <2>1 DEF ScratchInv, AcceptInv
  <2>3. check.candidate \in Seq(Lines) /\ check.parent \in Seq(Lines)
    BY <1>1 DEF ScratchInv, ScratchTypeOK, Checks
  <2>4. QED
    BY <1>1, <2>2, <2>3, PermittedExtends
<1>2. ScratchInv => ParentStands
  BY <1>1 DEF ParentStands
<1>3. QED
  BY <1>2, ScratchStart, ScratchStep, PTL DEF Spec

\* materialize_sources: a checkpoint changes only into a permitted source with the
\* same surroundings whose evolve block starts with the content that it had.
THEOREM ScratchCheckpointsGrow == Spec => CheckpointsGrow
<1>1. ASSUME ScratchInv, [Next]_scratchVars, checkpoint' # checkpoint
      PROVE  Cumulate
  BY <1>1 DEF Next, scratchVars, callVars, Begin, Leave, Skip, Enter, AssemblyFails, Fail,
              ToolchainMissing, PathReceiptInvalid, Announce, SpawnFails, Spawn, End, Forks,
              HelperExits, LeanExits, ThreadsEnd, TimesOut, WaitReturns, Close, JoinExpires,
              CloseReturns, Interrupted, Proceed, Rest
<1>2. ScratchInv /\ [Next]_scratchVars =>
         [ checkpoint' # checkpoint =>
              /\ Permitted(checkpoint', <<>>)
              /\ Outside(checkpoint') = Outside(checkpoint)
              /\ StartsWith(Content(EvolveBlock(checkpoint')),
                            Content(EvolveBlock(checkpoint))) ]_scratchVars
  BY <1>1, CumulateTypes
<1>3. QED
  BY <1>2, ScratchStart, ScratchStep, PTL DEF Spec, CheckpointsGrow
===============================================================================
