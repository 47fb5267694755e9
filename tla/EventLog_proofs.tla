--------------------------- MODULE EventLog_proofs ----------------------------
(***************************************************************************)
(* Theorems about EventLog, for any writers, campaigns and calls: receipts *)
(* stand, the log stays open, and an anchor tells every change.            *)
(*                                                                         *)
(* The first two are inductive together with what each writer knows while  *)
(* it holds the lock (KnowsHead: the head that it verified is still the    *)
(* head; KnowsRecord: the last record is its own) and with the receipts    *)
(* being within what is synced.  The last one is a fact about two logs     *)
(* that verify (SameHead), by a descent from the head to the last record   *)
(* that differs.                                                           *)
(***************************************************************************)
EXTENDS EventLog, SequenceTheorems, WellFoundedInduction, TLAPS

IsLog(s) == \E S : s \in Seq(S)

-------------------------------------------------------------------------------
(* Sequences.                                                              *)

LEMMA LogLen == ASSUME NEW s, IsLog(s)
                PROVE  /\ Len(s) \in Nat
                       /\ DOMAIN s = 1 .. Len(s)
                       /\ s = <<>> <=> Len(s) = 0
                       /\ s = [i \in 1 .. Len(s) |-> s[i]]
<1>1. PICK S : s \in Seq(S)
  BY DEF IsLog
<1>2. QED
  BY <1>1, EmptySeq

LEMMA LogAppend == ASSUME NEW s, NEW x, IsLog(s)
                   PROVE  /\ IsLog(Append(s, x))
                          /\ Len(Append(s, x)) = Len(s) + 1
                          /\ \A i \in 1 .. Len(s) : Append(s, x)[i] = s[i]
                          /\ Append(s, x)[Len(s) + 1] = x
<1>1. PICK S : s \in Seq(S)
  BY DEF IsLog
<1>2. s \in Seq(S \cup {x})
  BY <1>1, SeqMonotonic
<1>3. x \in S \cup {x}
  OBVIOUS
<1>4. QED
  BY <1>2, <1>3, AppendProperties DEF IsLog

LEMMA LogPrefix == ASSUME NEW s, IsLog(s), NEW n \in 0 .. Len(s)
                   PROVE  /\ IsLog(SubSeq(s, 1, n))
                          /\ Len(SubSeq(s, 1, n)) = n
                          /\ \A i \in 1 .. n : SubSeq(s, 1, n)[i] = s[i]
<1>1. PICK S : s \in Seq(S)
  BY DEF IsLog
<1>2. Len(s) \in Nat /\ n \in Nat
  BY LogLen
<1>3. SubSeq(s, 1, n) \in Seq(S)
  BY <1>1, <1>2, SubSeqProperties
<1>4. QED
  BY <1>1, <1>2, <1>3, SubSeqProperties DEF IsLog

LEMMA LogReplace == ASSUME NEW s, IsLog(s), NEW i \in DOMAIN s, NEW x
                    PROVE  IsLog([s EXCEPT ![i] = x])
<1>1. PICK S : s \in Seq(S)
  BY DEF IsLog
<1>2. [s EXCEPT ![i] = x] \in Seq(S \cup {x})
  BY <1>1, SeqDef
<1>3. QED
  BY <1>2 DEF IsLog

\* A set of numbers has a least element.
LEMMA Least == ASSUME NEW T, T \subseteq Nat, T # {}
               PROVE  \E x \in T : \A y \in T : x <= y
<1> DEFINE R == {ss \in Nat \X Nat : ss[1] < ss[2]}
<1>1. IsWellFoundedOn(R, Nat)
  BY NatLessThanWellFounded DEF OpToRel
<1>2. PICK x \in T : \A y \in T : ~ (<<y, x>> \in R)
  <2> HIDE DEF R
  <2>1. QED
    BY <1>1, WFMin, Zenon
<1>3. ASSUME NEW y \in T
      PROVE  x <= y
  <2>1. x \in Nat /\ y \in Nat /\ <<y, x>> \in Nat \X Nat
    OBVIOUS
  <2>2. ~ (y < x)
    BY <1>2, <2>1
  <2>3. QED
    BY <2>1, <2>2
<1>4. QED
  BY <1>3

-------------------------------------------------------------------------------
(* Logs that verify.                                                       *)

\* The hash of a record fixes the record.
LEMMA HashFixes ==
    ASSUME NEW r, NEW q, r.hash = q.hash,
           r = Record(r.sequence, r.previous, r.campaign, r.event),
           q = Record(q.sequence, q.previous, q.campaign, q.event)
    PROVE  r = q
<1>1. \A a, b, c, d : Record(a, b, c, d).hash = <<a, b, c, d>>
  BY DEF Record, Hash
<1>2. /\ r.sequence = q.sequence /\ r.previous = q.previous
      /\ r.campaign = q.campaign /\ r.event = q.event
  BY <1>1
<1>3. QED
  BY <1>2

\* Two logs of one length that verify and end in one hash are the same: the hash of a
\* record fixes it, and with it the hash of the one before.
LEMMA SameHead ==
    ASSUME NEW s, NEW t, IsLog(s), IsLog(t), Valid(s), Valid(t),
           Len(s) = Len(t), HeadHash(s) = HeadHash(t)
    PROVE  s = t
<1> DEFINE n == Len(s)
           T == {j \in 0 .. n - 1 : s[n - j] # t[n - j]}
<1>1. n \in Nat /\ DOMAIN s = 1 .. n /\ DOMAIN t = 1 .. n
  BY LogLen
<1>2. ASSUME T # {}
      PROVE  FALSE
  <2>1. T \subseteq Nat
    BY <1>1
  <2>2. PICK j \in T : \A k \in T : j <= k
    <3> HIDE DEF T
    <3>1. QED
      BY <1>2, <2>1, Least
  <2> DEFINE i == n - j
  <2>3. i \in 1 .. n /\ j \in 0 .. n - 1 /\ s[i] # t[i]
    BY <1>1, <2>2
  <2>4. s[i].hash = t[i].hash
    <3>1. CASE i = n
      <4>1. n + 1 # 1 /\ (n + 1) - 1 = n
        BY <1>1, <2>3
      <4>2. HeadHash(s) = s[n].hash /\ HeadHash(t) = t[n].hash
        BY <4>1 DEF HeadHash, HashBefore
      <4>3. QED
        BY <3>1, <4>2
    <3>2. CASE i # n
      <4>0. n \in Nat /\ j \in 0 .. n - 1 /\ i = n - j /\ i # n
        BY <3>2, <1>1, <2>3
      <4>1. i + 1 \in 1 .. n /\ j - 1 \in 0 .. n - 1 /\ n - (j - 1) = i + 1
        <5> HIDE DEF i, n
        <5>1. QED
          BY <4>0
      <4>2. j - 1 \notin T
        BY <4>1, <2>2, <2>3
      <4>3. s[i + 1] = t[i + 1]
        BY <4>1, <4>2
      <4>4. s[i + 1].previous = HashBefore(s, i + 1) /\ t[i + 1].previous = HashBefore(t, i + 1)
        BY <4>1 DEF Valid
      <4>5. HashBefore(s, i + 1) = s[i].hash /\ HashBefore(t, i + 1) = t[i].hash
        BY <2>3, <1>1 DEF HashBefore
      <4>6. QED
        BY <4>3, <4>4, <4>5
    <3>3. QED
      BY <3>1, <3>2
  <2>5. /\ s[i] = Record(s[i].sequence, s[i].previous, s[i].campaign, s[i].event)
        /\ t[i] = Record(t[i].sequence, t[i].previous, t[i].campaign, t[i].event)
    BY <2>3 DEF Valid
  <2>6. QED
    BY <2>3, <2>4, <2>5, HashFixes
<1>3. ASSUME NEW i \in 1 .. n
      PROVE  s[i] = t[i]
  <2>1. n - i \in 0 .. n - 1 /\ n - (n - i) = i
    BY <1>1
  <2>2. n - i \notin T
    BY <1>2
  <2>3. QED
    BY <2>1, <2>2
<1>4. s = [i \in 1 .. n |-> s[i]] /\ t = [i \in 1 .. n |-> t[i]]
  BY LogLen
<1>5. QED
  BY <1>3, <1>4

\* What emit() is asked for and admits is admitted, and in order, when normalised.
LEMMA NormalAdmitted ==
    ASSUME NEW e \in Calls, Admitted(e)
    PROVE  Admitted(Normal(e)) /\ Normal(Normal(e)) = Normal(e)
<1> DEFINE m == Normal(e)
<1>1. /\ m.event = e.event /\ m.turn = e.turn /\ DOMAIN m.fields = DOMAIN e.fields
      /\ \A n \in DOMAIN e.fields : m.fields[n] = InOrder(n, e.fields[n])
      /\ m = [event |-> m.event, turn |-> m.turn,
              fields |-> [n \in DOMAIN m.fields |-> m.fields[n]]]
  BY DEF Normal
<1> HIDE DEF m
<1>2. \A n \in DOMAIN e.fields : n # "record_ids" => m.fields[n] = e.fields[n]
  BY <1>1 DEF InOrder
<1>3. "record_ids" \in DOMAIN e.fields =>
            /\ m.fields["record_ids"].type = e.fields["record_ids"].type
            /\ m.fields["record_ids"].is = Sorted[e.fields["record_ids"].is]
            /\ m.fields["record_ids"] = [type |-> m.fields["record_ids"].type,
                                         is |-> m.fields["record_ids"].is]
  <2>1. "record_ids" \in DOMAIN e.fields =>
            m.fields["record_ids"] = [type |-> e.fields["record_ids"].type,
                                      is |-> Sorted[e.fields["record_ids"].is]]
    BY <1>1 DEF InOrder
  <2>2. QED
    BY <2>1
<1>4. FieldsFit(e.event, e.fields)
  BY DEF Admitted
<1>5. "record_ids" \in DOMAIN e.fields => e.fields["record_ids"].is \in DOMAIN Sorted
  BY <1>4 DEF FieldsFit
<1>6. "record_ids" \in DOMAIN e.fields =>
            /\ m.fields["record_ids"].is \in DOMAIN Sorted
            /\ Sorted[m.fields["record_ids"].is] = m.fields["record_ids"].is
  BY <1>3, <1>5, SortedAssumption
<1>7. FieldsFit(m.event, m.fields)
  BY <1>1, <1>2, <1>3, <1>4, <1>6 DEF FieldsFit
<1>8. Admitted(m)
  BY <1>1, <1>7 DEF Admitted
<1>9. ASSUME NEW n \in DOMAIN m.fields
      PROVE  InOrder(n, m.fields[n]) = m.fields[n]
  BY <1>1, <1>3, <1>6 DEF InOrder
<1>10. Normal(m) = m
  BY <1>1, <1>9 DEF Normal
<1>11. QED
  BY <1>8, <1>10 DEF m
\* A log that verifies takes a record of its campaign that continues it.
LEMMA ValidAppend ==
    ASSUME NEW s, IsLog(s), Valid(s), NEW c, OfCampaign(s, c), NEW e, Admitted(e),
           Normal(e) = e
    PROVE  Valid(Append(s, Record(Len(s), HeadHash(s), c, e)))
<1> DEFINE r == Record(Len(s), HeadHash(s), c, e)
           t == Append(s, r)
<1>1. /\ Len(t) = Len(s) + 1 /\ Len(s) \in Nat
      /\ \A i \in 1 .. Len(s) : t[i] = s[i]
      /\ t[Len(s) + 1] = r
  BY LogLen, LogAppend
<1>2. /\ r.sequence = Len(s) /\ r.previous = HeadHash(s) /\ r.campaign = c /\ r.event = e
      /\ r = Record(r.sequence, r.previous, r.campaign, r.event)
  BY DEF Record
<1>3. s = <<>> <=> Len(s) = 0
  BY LogLen
<1> HIDE DEF r, t
<1>4. ASSUME NEW i \in 1 .. Len(s)
      PROVE  /\ HashBefore(t, i) = HashBefore(s, i)
             /\ t[i] = s[i] /\ t[1] = s[1]
  BY <1>1 DEF HashBefore
<1>5. HashBefore(t, Len(s) + 1) = HeadHash(s)
  BY <1>1 DEF HashBefore, HeadHash
<1>6. t[1].campaign = c
  <2>1. CASE Len(s) = 0
    BY <2>1, <1>1, <1>2
  <2>2. CASE Len(s) # 0
    BY <2>2, <1>1, <1>3 DEF OfCampaign
  <2>3. QED
    BY <2>1, <2>2
<1>7. ASSUME NEW i \in 1 .. Len(t)
      PROVE  /\ t[i] = Record(t[i].sequence, t[i].previous, t[i].campaign, t[i].event)
             /\ Admitted(t[i].event) /\ Normal(t[i].event) = t[i].event
             /\ t[i].sequence = i - 1
             /\ t[i].previous = HashBefore(t, i)
             /\ t[i].campaign = t[1].campaign
  <2>1. CASE i \in 1 .. Len(s)
    BY <2>1, <1>4 DEF Valid
  <2>2. CASE i = Len(s) + 1
    BY <2>2, <1>1, <1>2, <1>5, <1>6
  <2>3. QED
    BY <2>1, <2>2, <1>1
<1>8. Valid(t)
  BY <1>7 DEF Valid
<1>9. QED
  BY <1>8 DEF t, r

LEMMA ValidPrefix ==
    ASSUME NEW s, IsLog(s), Valid(s), NEW n \in 0 .. Len(s)
    PROVE  Valid(SubSeq(s, 1, n))
<1> DEFINE t == SubSeq(s, 1, n)
<1>1. Len(t) = n /\ (\A i \in 1 .. n : t[i] = s[i]) /\ Len(s) \in Nat
  BY LogPrefix, LogLen
<1> HIDE DEF t
<1>2. ASSUME NEW i \in 1 .. n
      PROVE  HashBefore(t, i) = HashBefore(s, i) /\ t[i] = s[i] /\ t[1] = s[1]
  BY <1>1 DEF HashBefore
<1>3. \A i \in 1 .. n : i \in 1 .. Len(s)
  BY <1>1
<1>4. QED
  BY <1>1, <1>2, <1>3 DEF Valid, t

-------------------------------------------------------------------------------
(* The invariant.                                                          *)

LogTypeOK ==
    /\ IsLog(log) /\ synced \in 0 .. Len(log)
    /\ pc \in [Writers -> {"idle", "locked", "verified", "written", "synced"}]
    /\ local = [w \in Writers |-> [event |-> local[w].event, sequence |-> local[w].sequence,
                                   previous |-> local[w].previous]]

LockHeld == \A w \in Writers : pc[w] # "idle" => lock = w

KnowsEvent(w) == pc[w] # "idle" =>
    Admitted(local[w].event) /\ Normal(local[w].event) = local[w].event

KnowsHead(w) == pc[w] = "verified" =>
    /\ Valid(log) /\ OfCampaign(log, CampaignOf[w])
    /\ local[w].sequence = Len(log) /\ local[w].previous = HeadHash(log)

KnowsRecord(w) == pc[w] \in {"written", "synced"} =>
    /\ local[w].sequence \in Nat /\ Len(log) = local[w].sequence + 1
    /\ log[local[w].sequence + 1].hash = Mine(w).hash
    /\ pc[w] = "synced" => synced = Len(log)

Knowledge == \A w \in Writers : KnowsEvent(w) /\ KnowsHead(w) /\ KnowsRecord(w)

LogKept ==
    ~edited => /\ Valid(log)
               /\ \A r \in receipts : /\ r.sequence \in Nat /\ r.sequence < synced
                                       /\ log[r.sequence + 1].hash = r.hash

AnchorInv == anchor # None =>
    IsLog(anchored) /\ Valid(anchored) /\ anchor = ChainHead(anchored)

LogInv == LogTypeOK /\ LockHeld /\ Knowledge /\ LogKept /\ AnchorInv

LEMMA LogInit == Init => LogInv
<1> SUFFICES ASSUME Init
             PROVE  LogInv
  OBVIOUS
<1>1. IsLog(log) /\ Len(log) = 0
  <2>1. <<>> \in Seq({})
    BY EmptySeq
  <2>2. QED
    BY <2>1 DEF Init, IsLog
<1>2. LogTypeOK
  BY <1>1 DEF Init, LogTypeOK, NoEmit, Emitting
<1>3. LockHeld /\ Knowledge
  BY DEF Init, LockHeld, Knowledge, KnowsEvent, KnowsHead, KnowsRecord
<1>4. Valid(log)
  BY <1>1 DEF Valid
<1>5. LogKept /\ AnchorInv
  BY <1>4 DEF Init, LogKept, AnchorInv
<1>6. QED
  BY <1>2, <1>3, <1>5 DEF LogInv

-------------------------------------------------------------------------------
(* Its steps.                                                              *)

\* The others are idle while a writer works.
LEMMA Alone == ASSUME LogInv, NEW w \in Writers, pc[w] # "idle", NEW v \in Writers, v # w
               PROVE  pc[v] = "idle"
BY DEF LogInv, LockHeld

\* Nobody works, so nobody has to know anything.
LEMMA IdleKnow == ASSUME \A w \in Writers : pc'[w] = "idle"
                  PROVE  LockHeld' /\ Knowledge'
BY DEF LockHeld, Knowledge, KnowsEvent, KnowsHead, KnowsRecord

LEMMA Released ==
    ASSUME LogInv, NEW w \in Writers, pc[w] # "idle", Release(w),
           IsLog(log'), synced' \in 0 .. Len(log')
    PROVE  LogTypeOK' /\ LockHeld' /\ Knowledge'
<1>1. pc' = [pc EXCEPT ![w] = "idle"] /\ local' = [local EXCEPT ![w] = NoEmit]
  BY DEF Release, Goto
<1>2. \A v \in Writers : pc'[v] = "idle"
  BY <1>1, Alone DEF LogInv, LogTypeOK
<1>3. LogTypeOK'
  BY <1>1 DEF LogInv, LogTypeOK, NoEmit, Emitting
<1>4. QED
  BY <1>2, <1>3, IdleKnow

\* What the log keeps does not depend on the writers.
LEMMA KeptUnread ==
    ASSUME LogInv, UNCHANGED <<log, synced, receipts, edited>>
    PROVE  LogKept'
BY DEF LogInv, LogKept, Valid, HashBefore

LEMMA AnchorUnread == ASSUME LogInv, UNCHANGED <<anchor, anchored>>
                      PROVE  AnchorInv'
BY DEF LogInv, AnchorInv

LEMMA LockStep ==
    ASSUME LogInv, NEW w \in Writers, NEW e \in Calls, EmitLock(w, e)
    PROVE  LogInv'
<1>1. /\ pc' = [pc EXCEPT ![w] = "locked"] /\ lock' = w /\ lock = None /\ Admitted(e)
      /\ local' = [local EXCEPT ![w] = Emitting(Normal(e), 0, Genesis)]
      /\ UNCHANGED <<fileVars, receipts, anchor, anchored, edited>>
  BY DEF EmitLock, Goto
<1>2. ASSUME NEW v \in Writers
      PROVE  pc[v] = "idle"
  BY <1>1, WritersAssumption DEF LogInv, LockHeld
<1>3. ASSUME NEW v \in Writers
      PROVE  /\ pc'[v] = IF v = w THEN "locked" ELSE "idle"
             /\ v = w => local'[v].event = Normal(e)
  BY <1>1, <1>2 DEF LogInv, LogTypeOK, Emitting
<1>4. LogTypeOK'
  BY <1>1 DEF LogInv, LogTypeOK, fileVars, Emitting
<1>5. LockHeld'
  BY <1>1, <1>3 DEF LockHeld
<1>6. Knowledge'
  <2>1. Admitted(Normal(e)) /\ Normal(Normal(e)) = Normal(e)
    BY <1>1, NormalAdmitted
  <2>2. ASSUME NEW v \in Writers
        PROVE  KnowsEvent(v)'
    BY <2>1, <1>3 DEF KnowsEvent
  <2>3. ASSUME NEW v \in Writers
        PROVE  KnowsHead(v)' /\ KnowsRecord(v)'
    <3>1. pc'[v] \in {"locked", "idle"}
      BY <1>3
    <3>2. QED
      BY <3>1 DEF KnowsHead, KnowsRecord
  <2>4. QED
    BY <2>2, <2>3 DEF Knowledge
<1>7. LogKept' /\ AnchorInv'
  BY <1>1, KeptUnread, AnchorUnread DEF fileVars
<1>8. QED
  BY <1>4, <1>5, <1>6, <1>7 DEF LogInv

LEMMA VerifyStep ==
    ASSUME LogInv, NEW w \in Writers, EmitVerify(w)
    PROVE  LogInv'
<1>1. pc[w] = "locked" /\ UNCHANGED <<fileVars, receipts, anchor, anchored, edited>>
  BY DEF EmitVerify
<1>2. LogKept' /\ AnchorInv'
  BY <1>1, KeptUnread, AnchorUnread DEF fileVars
<1>3. CASE ~torn /\ Valid(log) /\ OfCampaign(log, CampaignOf[w])
  <2>1. /\ local' = [local EXCEPT ![w] = Emitting(local[w].event, Len(log), HeadHash(log))]
        /\ pc' = [pc EXCEPT ![w] = "verified"] /\ lock' = lock
    BY <1>3 DEF EmitVerify, Goto
  <2>3. LogTypeOK'
    BY <1>1, <2>1 DEF LogInv, LogTypeOK, fileVars, Emitting
  <2>4. ASSUME NEW v \in Writers
        PROVE  /\ pc'[v] = IF v = w THEN "verified" ELSE "idle"
               /\ v = w => /\ local'[v].event = local[v].event
                           /\ local'[v].sequence = Len(log)
                           /\ local'[v].previous = HeadHash(log)
    BY <1>1, <2>1, Alone DEF LogInv, LogTypeOK, Emitting
  <2>5. LockHeld'
    BY <1>1, <2>1, <2>4 DEF LogInv, LockHeld
  <2>6. log' = log /\ Valid(log) /\ OfCampaign(log, CampaignOf[w])
    BY <1>1, <1>3 DEF fileVars
  <2>7. Valid(log)' /\ OfCampaign(log, CampaignOf[w])' /\ HeadHash(log)' = HeadHash(log)
    BY <2>6 DEF Valid, OfCampaign, HeadHash, HashBefore
  <2>8. Admitted(local[w].event) /\ Normal(local[w].event) = local[w].event
    BY <1>1 DEF LogInv, Knowledge, KnowsEvent
  <2>9. Knowledge'
    <3>1. ASSUME NEW v \in Writers
          PROVE  KnowsEvent(v)'
      BY <2>4, <2>8 DEF KnowsEvent
    <3>2. ASSUME NEW v \in Writers
          PROVE  KnowsHead(v)'
      BY <2>4, <2>6, <2>7 DEF KnowsHead
    <3>3. ASSUME NEW v \in Writers
          PROVE  KnowsRecord(v)'
      BY <2>4 DEF KnowsRecord
    <3>4. QED
      BY <3>1, <3>2, <3>3 DEF Knowledge
  <2>10. QED
    BY <1>2, <2>3, <2>5, <2>9 DEF LogInv
<1>4. CASE ~(~torn /\ Valid(log) /\ OfCampaign(log, CampaignOf[w]))
  <2>1. Release(w)
    BY <1>4 DEF EmitVerify
  <2>2. LogTypeOK' /\ LockHeld' /\ Knowledge'
    BY <1>1, <2>1, Released DEF LogInv, LogTypeOK, fileVars
  <2>3. QED
    BY <1>2, <2>2 DEF LogInv
<1>5. QED
  BY <1>3, <1>4

\* The record of a writer that knows the head continues the log.
LEMMA WriteStep ==
    ASSUME LogInv, NEW w \in Writers, EmitWrite(w)
    PROVE  LogInv'
<1>1. /\ pc[w] = "verified" /\ log' = Append(log, Mine(w))
      /\ pc' = [pc EXCEPT ![w] = "written"]
      /\ UNCHANGED <<torn, synced, lock, local, receipts, anchor, anchored, edited>>
  BY DEF EmitWrite, Goto
<1>2. /\ IsLog(log) /\ synced \in 0 .. Len(log) /\ Len(log) \in Nat
      /\ DOMAIN log = 1 .. Len(log)
  BY LogLen DEF LogInv, LogTypeOK
<1>3. /\ IsLog(log') /\ Len(log') = Len(log) + 1
      /\ \A i \in 1 .. Len(log) : log'[i] = log[i]
      /\ log'[Len(log) + 1] = Mine(w)
  BY <1>1, <1>2, LogAppend
<1>4. /\ Valid(log) /\ OfCampaign(log, CampaignOf[w])
      /\ local[w].sequence = Len(log) /\ local[w].previous = HeadHash(log)
      /\ Admitted(local[w].event) /\ Normal(local[w].event) = local[w].event
  BY <1>1 DEF LogInv, Knowledge, KnowsHead, KnowsEvent
<1>5. Mine(w) = Record(Len(log), HeadHash(log), CampaignOf[w], local[w].event)
  BY <1>4 DEF Mine
<1>6. Valid(log')
  BY <1>1, <1>2, <1>4, <1>5, ValidAppend
<1>7. LogTypeOK'
  BY <1>1, <1>2, <1>3 DEF LogInv, LogTypeOK
<1>8. ASSUME NEW v \in Writers
      PROVE  pc'[v] = IF v = w THEN "written" ELSE "idle"
  BY <1>1, Alone DEF LogInv, LogTypeOK
<1>9. LockHeld'
  BY <1>1, <1>8 DEF LogInv, LockHeld
<1>10. Knowledge'
  <2>1. ASSUME NEW v \in Writers
        PROVE  KnowsEvent(v)' /\ KnowsHead(v)'
    BY <1>1, <1>4, <1>8 DEF KnowsEvent, KnowsHead
  <2>2. Mine(w)' = Mine(w)
    BY <1>1 DEF Mine
  <2>3. ASSUME NEW v \in Writers
        PROVE  KnowsRecord(v)'
    BY <1>1, <1>2, <1>3, <1>4, <1>8, <2>2 DEF KnowsRecord
  <2>4. QED
    BY <2>1, <2>3 DEF Knowledge
<1>11. LogKept'
  <2>1. Valid(log)'
    BY <1>6 DEF Valid, HashBefore
  <2>2. ASSUME ~edited, NEW r \in receipts
        PROVE  /\ r.sequence \in Nat /\ r.sequence < synced
               /\ log'[r.sequence + 1].hash = r.hash
    <3>1. /\ r.sequence \in Nat /\ r.sequence < synced
          /\ log[r.sequence + 1].hash = r.hash
      BY <2>2 DEF LogInv, LogKept
    <3>2. r.sequence + 1 \in 1 .. Len(log)
      BY <1>2, <3>1
    <3>3. QED
      BY <1>3, <3>1, <3>2
  <2>3. QED
    BY <1>1, <2>1, <2>2 DEF LogKept
<1>12. AnchorInv'
  BY <1>1, AnchorUnread
<1>13. QED
  BY <1>7, <1>9, <1>10, <1>11, <1>12 DEF LogInv

LEMMA SyncStep ==
    ASSUME LogInv, NEW w \in Writers, EmitSync(w)
    PROVE  LogInv'
<1>1. /\ pc[w] = "written" /\ synced' = Len(log)
      /\ pc' = [pc EXCEPT ![w] = "synced"]
      /\ UNCHANGED <<log, torn, lock, local, receipts, anchor, anchored, edited>>
  BY DEF EmitSync, Goto
<1>2. synced \in 0 .. Len(log) /\ Len(log) \in Nat
  BY LogLen DEF LogInv, LogTypeOK
<1>3. LogTypeOK'
  BY <1>1, <1>2 DEF LogInv, LogTypeOK
<1>4. ASSUME NEW v \in Writers
      PROVE  pc'[v] = IF v = w THEN "synced" ELSE "idle"
  BY <1>1, Alone DEF LogInv, LogTypeOK
<1>5. LockHeld'
  BY <1>1, <1>4 DEF LogInv, LockHeld
<1>6. Knowledge'
  <2>1. KnowsEvent(w) /\ KnowsRecord(w)
    BY DEF LogInv, Knowledge
  <2>2. Mine(w)' = Mine(w)
    BY <1>1 DEF Mine
  <2>3. ASSUME NEW v \in Writers
        PROVE  KnowsEvent(v)' /\ KnowsHead(v)'
    BY <1>1, <1>4, <2>1 DEF KnowsEvent, KnowsHead
  <2>4. ASSUME NEW v \in Writers
        PROVE  KnowsRecord(v)'
    BY <1>1, <1>4, <2>1, <2>2 DEF KnowsRecord
  <2>5. QED
    BY <2>3, <2>4 DEF Knowledge
<1>7. LogKept'
  BY <1>1, <1>2 DEF LogInv, LogKept, Valid, HashBefore
<1>8. AnchorInv'
  BY <1>1, AnchorUnread
<1>9. QED
  BY <1>3, <1>5, <1>6, <1>7, <1>8 DEF LogInv

LEMMA ReturnStep ==
    ASSUME LogInv, NEW w \in Writers, EmitReturn(w)
    PROVE  LogInv'
<1> DEFINE receipt == [sequence |-> local[w].sequence, hash |-> Mine(w).hash]
<1>1. /\ pc[w] = "synced" /\ receipts' = receipts \cup {receipt} /\ Release(w)
      /\ UNCHANGED <<fileVars, anchor, anchored, edited>>
  BY DEF EmitReturn
<1>2. LogTypeOK' /\ LockHeld' /\ Knowledge'
  BY <1>1, Released DEF LogInv, LogTypeOK, fileVars
<1>3. /\ local[w].sequence \in Nat /\ Len(log) = local[w].sequence + 1
      /\ log[local[w].sequence + 1].hash = Mine(w).hash /\ synced = Len(log)
  BY <1>1 DEF LogInv, Knowledge, KnowsRecord
<1>4. /\ receipt.sequence \in Nat /\ receipt.sequence < synced
      /\ log[receipt.sequence + 1].hash = receipt.hash
  BY <1>3
<1>5. LogKept'
  <2> HIDE DEF receipt
  <2>1. QED
    BY <1>1, <1>4 DEF LogInv, LogKept, Valid, HashBefore, fileVars
<1>6. QED
  BY <1>1, <1>2, <1>5, AnchorUnread DEF LogInv

LEMMA ReleaseStep ==
    ASSUME LogInv, NEW w \in Writers, EmitTears(w) \/ Dies(w)
    PROVE  LogInv'
<1>1. /\ pc[w] # "idle" /\ Release(w)
      /\ UNCHANGED <<log, synced, receipts, anchor, anchored, edited>>
  BY DEF EmitTears, Dies, fileVars
<1>2. LogTypeOK' /\ LockHeld' /\ Knowledge'
  BY <1>1, Released DEF LogInv, LogTypeOK
<1>3. QED
  BY <1>1, <1>2, KeptUnread, AnchorUnread DEF LogInv

\* What a receipt tells of is synced, so no loss of power takes it.
LEMMA PowerStep == ASSUME LogInv, PowerLoss
                   PROVE  LogInv'
<1>1. PICK n \in synced .. Len(log) : log' = SubSeq(log, 1, n) /\ synced' = n
  BY DEF PowerLoss
<1>2. /\ pc' = [v \in Writers |-> "idle"] /\ local' = [v \in Writers |-> NoEmit]
      /\ UNCHANGED <<receipts, anchor, anchored, edited>>
  BY DEF PowerLoss
<1>3. IsLog(log) /\ synced \in 0 .. Len(log) /\ Len(log) \in Nat /\ n \in 0 .. Len(log)
  BY LogLen DEF LogInv, LogTypeOK
<1>4. IsLog(log') /\ Len(log') = n /\ \A i \in 1 .. n : log'[i] = log[i]
  BY <1>1, <1>3, LogPrefix
<1>5. LogTypeOK'
  BY <1>1, <1>2, <1>3, <1>4 DEF LogTypeOK, NoEmit, Emitting
<1>6. LockHeld' /\ Knowledge'
  BY <1>2, IdleKnow
<1>7. ASSUME ~edited
      PROVE  /\ Valid(log)'
             /\ \A r \in receipts : /\ r.sequence \in Nat /\ r.sequence < synced'
                                     /\ log'[r.sequence + 1].hash = r.hash
  <2>1. Valid(log')
    BY <1>1, <1>3, <1>7, ValidPrefix DEF LogInv, LogKept
  <2>2. Valid(log)'
    BY <2>1 DEF Valid, HashBefore
  <2>3. ASSUME NEW r \in receipts
        PROVE  /\ r.sequence \in Nat /\ r.sequence < synced'
               /\ log'[r.sequence + 1].hash = r.hash
    <3>1. /\ r.sequence \in Nat /\ r.sequence < synced
          /\ log[r.sequence + 1].hash = r.hash
      BY <1>7 DEF LogInv, LogKept
    <3>2. r.sequence + 1 \in 1 .. n
      BY <1>3, <3>1
    <3>3. QED
      BY <1>1, <1>3, <1>4, <3>1, <3>2
  <2>4. QED
    BY <2>2, <2>3
<1>8. LogKept'
  BY <1>2, <1>7 DEF LogKept
<1>9. QED
  BY <1>2, <1>5, <1>6, <1>8, AnchorUnread DEF LogInv

LEMMA HeadStep == ASSUME LogInv, TakeHead
                  PROVE  LogInv'
<1>1. /\ Valid(log) /\ anchor' = ChainHead(log) /\ anchored' = log
      /\ UNCHANGED <<fileVars, emitVars, edited>>
  BY DEF TakeHead
<1>2. LogTypeOK' /\ LockHeld' /\ Knowledge'
  BY <1>1 DEF LogInv, LogTypeOK, LockHeld, Knowledge, KnowsEvent, KnowsHead, KnowsRecord,
              Mine, Valid, OfCampaign, HeadHash, HashBefore, fileVars, emitVars
<1>3. LogKept'
  BY <1>1, KeptUnread DEF fileVars, emitVars
<1>4. IsLog(log)
  BY DEF LogInv, LogTypeOK
<1>5. AnchorInv'
  <2>1. IsLog(anchored') /\ Valid(anchored') /\ anchor' = ChainHead(anchored')
    BY <1>1, <1>4
  <2>2. QED
    BY <2>1 DEF AnchorInv, Valid, HashBefore, ChainHead, HeadHash, IsLog
<1>6. QED
  BY <1>2, <1>3, <1>5 DEF LogInv

\* Who edits the file finds every writer idle.
LEMMA EditStep == ASSUME LogInv, Edit \/ Rechain
                  PROVE  LogInv'
<1>1. /\ lock = None /\ edited' = TRUE
      /\ UNCHANGED <<emitVars, anchor, anchored>>
  BY DEF Edit, Rechain
<1>2. IsLog(log) /\ DOMAIN log = 1 .. Len(log) /\ Len(log) \in Nat
      /\ synced \in 0 .. Len(log)
  BY LogLen DEF LogInv, LogTypeOK
<1>3. IsLog(log') /\ synced' \in 0 .. Len(log')
  <2>1. CASE Edit
    <3>1. log' \in Edits(log) /\ synced' = Len(log')
      BY <2>1 DEF Edit
    <3>2. IsLog(log')
      <4>1. CASE log' \in {SubSeq(log, 1, n) : n \in 0 .. Len(log)}
        BY <4>1, <1>2, LogPrefix
      <4>2. CASE log' \in {[log EXCEPT ![i].event = e] : i \in DOMAIN log, e \in Calls}
        <5>1. PICK i \in DOMAIN log, e \in Calls : log' = [log EXCEPT ![i].event = e]
          BY <4>2
        <5>2. log' = [log EXCEPT ![i] = [log[i] EXCEPT !.event = e]]
          BY <5>1
        <5>3. QED
          BY <5>2, <1>2, LogReplace
      <4>3. CASE log' \in {[log EXCEPT ![i] = Record(@.sequence, @.previous, @.campaign, e)] :
                               i \in DOMAIN log, e \in Calls}
        <5>1. PICK i \in DOMAIN log, e \in Calls : log' = [log EXCEPT ![i] =
                  Record(log[i].sequence, log[i].previous, log[i].campaign, e)]
          BY <4>3
        <5>2. QED
          BY <5>1, <1>2, LogReplace
      <4>4. QED
        BY <3>1, <4>1, <4>2, <4>3 DEF Edits
    <3>3. QED
      BY <3>1, <3>2, LogLen
  <2>2. CASE Rechain
    <3>1. PICK i \in DOMAIN log : log' = [log EXCEPT ![i] =
               Record(log[i].sequence, HashBefore(log, i), log[i].campaign, log[i].event)]
      BY <2>2 DEF Rechain
    <3>2. IsLog(log')
      BY <3>1, <1>2, LogReplace
    <3>3. DOMAIN log' = DOMAIN log /\ Len(log') \in Nat /\ DOMAIN log' = 1 .. Len(log')
      BY <3>1, <3>2, LogLen
    <3>4. Len(log') = Len(log)
      <4> DEFINE a == Len(log)
                 b == Len(log')
      <4>1. a \in Nat /\ b \in Nat /\ 1 .. a = 1 .. b
        BY <3>3, <1>2
      <4> HIDE DEF a, b
      <4>2. a \in 1 .. a <=> a \in 1 .. b
        BY <4>1
      <4>3. b \in 1 .. b <=> b \in 1 .. a
        BY <4>1
      <4>4. a = b
        BY <4>1, <4>2, <4>3
      <4>5. QED
        BY <4>4 DEF a, b
    <3>5. QED
      BY <2>2, <3>2, <3>4, <1>2 DEF Rechain
  <2>3. QED
    BY <2>1, <2>2
<1>4. LogTypeOK'
  BY <1>1, <1>3 DEF LogInv, LogTypeOK, emitVars
<1>5. \A v \in Writers : pc'[v] = "idle"
  BY <1>1, WritersAssumption DEF LogInv, LockHeld, emitVars
<1>6. LockHeld' /\ Knowledge'
  BY <1>5, IdleKnow
<1>7. LogKept'
  BY <1>1 DEF LogKept
<1>8. QED
  BY <1>1, <1>4, <1>6, <1>7, AnchorUnread DEF LogInv

LEMMA LogStep == LogInv /\ [Next]_vars => LogInv'
<1> SUFFICES ASSUME LogInv, [Next]_vars
             PROVE  LogInv'
  OBVIOUS
<1>1. ASSUME NEW w \in Writers,
             \/ \E e \in Calls : EmitLock(w, e)
             \/ EmitVerify(w) \/ EmitWrite(w) \/ EmitTears(w)
             \/ EmitSync(w) \/ EmitReturn(w) \/ Dies(w)
      PROVE  LogInv'
  BY <1>1, LockStep, VerifyStep, WriteStep, ReleaseStep, SyncStep, ReturnStep
<1>2. CASE UNCHANGED vars
  <2>1. LogTypeOK' /\ LockHeld' /\ Knowledge'
    BY <1>2 DEF LogInv, LogTypeOK, LockHeld, Knowledge, KnowsEvent, KnowsHead, KnowsRecord,
                Mine, Valid, OfCampaign, HeadHash, HashBefore, vars, fileVars, emitVars
  <2>2. LogKept' /\ AnchorInv'
    BY <1>2, KeptUnread, AnchorUnread DEF vars, fileVars, emitVars
  <2>3. QED
    BY <2>1, <2>2 DEF LogInv
<1>3. QED
  BY <1>1, <1>2, PowerStep, HeadStep, EditStep DEF Next

-------------------------------------------------------------------------------
(* The theorems.                                                           *)

\* The invariant holds of every log.
THEOREM LogInvariant == Spec => []LogInv
<1>1. QED
  BY LogInit, LogStep, PTL DEF Spec

\* emit(): an event with a receipt is where the receipt says, with the hash that it
\* says, through crashes, losses of power and concurrent writers.
THEOREM LogReceiptsStand == Spec => []ReceiptsStand
<1>1. LogInv => ReceiptsStand
  <2>1. ASSUME LogInv, ~edited, NEW r \in receipts
        PROVE  r.sequence < Len(log) /\ log[r.sequence + 1].hash = r.hash
    <3>1. /\ r.sequence \in Nat /\ r.sequence < synced
          /\ log[r.sequence + 1].hash = r.hash
      BY <2>1 DEF LogInv, LogKept
    <3>2. synced \in 0 .. Len(log) /\ Len(log) \in Nat
      BY <2>1, LogLen DEF LogInv, LogTypeOK
    <3>3. QED
      BY <3>1, <3>2
  <2>2. QED
    BY <2>1 DEF ReceiptsStand
<1>2. QED
  BY <1>1, LogInvariant, PTL

\* emit() and _verify_text agree on the schema: what is written verifies.
THEOREM LogVerifies == Spec => []LogStaysOpen
<1>1. LogInv => LogStaysOpen
  BY DEF LogInv, LogKept, LogStaysOpen
<1>2. QED
  BY <1>1, LogInvariant, PTL

\* verify_observability_log with an expected head accepts no other log than the one
\* that the head was taken of.
THEOREM AnchorsTell == Spec => []AnchorTells
<1>1. LogInv => AnchorTells
  <2>1. ASSUME LogInv, anchor # None, Verifies(anchor)
        PROVE  log = anchored
    <3>1. IsLog(log) /\ IsLog(anchored) /\ Valid(log) /\ Valid(anchored)
      BY <2>1 DEF LogInv, LogTypeOK, AnchorInv, Verifies
    <3>2. Len(log) = Len(anchored) /\ HeadHash(log) = HeadHash(anchored)
      BY <2>1 DEF LogInv, AnchorInv, Verifies, HeadMatches, ChainHead
    <3>3. QED
      BY <3>1, <3>2, SameHead
  <2>2. QED
    BY <2>1 DEF AnchorTells
<1>2. QED
  BY <1>1, LogInvariant, PTL
===============================================================================
