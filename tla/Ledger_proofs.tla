---------------------------- MODULE Ledger_proofs -----------------------------
(***************************************************************************)
(* Theorems about the ledger. LedgerStore: whatever the sessions write,    *)
(* commit and roll back, the committed chain verifies, keys are spent      *)
(* once, and the tables are what the events explain. The four properties   *)
(* speak of db. They are inductive only together with the same facts about *)
(* the view of the open session (Sound), and with the head it carries      *)
(* being the head of that view (HeadInv). CheckClaims: what withdrawals    *)
(* leave of the claims of other checks, for every set of checks and        *)
(* whatever claims they share.                                             *)
(***************************************************************************)
EXTENDS LedgerStore, CheckClaims, SequenceTheorems, TLAPS
-------------------------------------------------------------------------------
(* LedgerStore                                                             *)

IsLog(log) == \E S : log \in Seq(S)

Rows(s) == /\ s = [log |-> s.log, objects |-> s.objects, edges |-> s.edges]
           /\ IsLog(s.log)
           /\ s.objects \in [Objects -> ObjectRows \cup {NoRow}]
           /\ s.edges \in [Edges -> EdgeRows \cup {NoRow}]

KeysFresh(log) == \A m, n \in DOMAIN log :
                     log[m].key = log[n].key /\ log[m].key # NoKey => m = n

\* Of a view s and the connections p that were active after each of its events.
PastKept(s, p) ==
    /\ IsLog(p)
    /\ Len(p) = Len(s.log)
    /\ \A n \in DOMAIN s.log :
          {e \in Active(s.edges) : s.edges[e].created <= n} \subseteq p[n]

Sound(s, p) == /\ Rows(s)
               /\ ChainIntact(s.log)
               /\ KeysFresh(s.log)
               /\ Explained(s)
               /\ PastKept(s, p)

HeadOf(log) == IF log = <<>> THEN Genesis ELSE Hash(log[Len(log)])

HeadInv == IF open THEN next = Len(work.log) + 1 /\ prev = HeadOf(work.log)
                   ELSE work = db /\ past.work = past.db

StoreInv == /\ past = [db |-> past.db, work |-> past.work]
            /\ open \in BOOLEAN
            /\ Sound(db, past.db)
            /\ Sound(work, past.work)
            /\ HeadInv
-------------------------------------------------------------------------------
(* Appending to a log.                                                     *)

LEMMA LogLen == ASSUME NEW log, IsLog(log)
                PROVE  /\ Len(log) \in Nat
                       /\ DOMAIN log = 1 .. Len(log)
                       /\ log = <<>> <=> Len(log) = 0
<1>1. PICK S : log \in Seq(S)
  BY DEF IsLog
<1>2. QED
  BY <1>1, EmptySeq

LEMMA LogAppend == ASSUME NEW log, NEW x, IsLog(log)
                   PROVE  /\ IsLog(Append(log, x))
                          /\ Len(Append(log, x)) = Len(log) + 1
                          /\ \A n \in DOMAIN log : Append(log, x)[n] = log[n]
                          /\ Append(log, x)[Len(log) + 1] = x
<1>1. PICK S : log \in Seq(S)
  BY DEF IsLog
<1>2. log \in Seq(S \cup {x})
  BY <1>1, SeqMonotonic
<1>3. x \in S \cup {x}
  OBVIOUS
<1>4. QED
  BY <1>2, <1>3, AppendProperties DEF IsLog

LEMMA ChainAppend ==
    ASSUME NEW log, NEW event, IsLog(log), ChainIntact(log),
           event.id = Len(log) + 1, event.prev = HeadOf(log)
    PROVE  ChainIntact(Append(log, event)) /\ HeadOf(Append(log, event)) = Hash(event)
<1> DEFINE longer == Append(log, event)
<1>1. /\ IsLog(longer) /\ Len(longer) = Len(log) + 1
      /\ \A n \in DOMAIN log : longer[n] = log[n]
      /\ longer[Len(log) + 1] = event
  BY LogAppend
<1>2. Len(log) \in Nat /\ DOMAIN log = 1 .. Len(log) /\ (log = <<>> <=> Len(log) = 0)
  BY LogLen
<1>3. DOMAIN longer = 1 .. Len(log) + 1 /\ longer # <<>>
  BY <1>1, <1>2, LogLen
<1> HIDE DEF longer
<1>4. ASSUME NEW n \in DOMAIN longer
      PROVE  longer[n].id = n /\ longer[n].prev = IF n = 1 THEN Genesis ELSE Hash(longer[n - 1])
  <2>1. CASE n = Len(log) + 1
    <3>1. longer[n].id = n
      BY <1>1, <2>1
    <3>2. CASE log = <<>>
      BY <1>1, <1>2, <2>1, <3>1, <3>2 DEF HeadOf
    <3>3. CASE log # <<>>
      <4>1. n - 1 = Len(log) /\ n # 1 /\ n - 1 \in DOMAIN log
        BY <1>2, <2>1, <3>3
      <4>2. longer[n].prev = Hash(log[n - 1])
        BY <1>1, <2>1, <3>3, <4>1 DEF HeadOf
      <4>3. QED
        BY <1>1, <3>1, <4>1, <4>2
    <3>4. QED
      BY <3>2, <3>3
  <2>2. CASE n # Len(log) + 1
    <3>1. n \in DOMAIN log
      BY <1>2, <1>3, <2>2
    <3>2. longer[n] = log[n] /\ (n # 1 => longer[n - 1] = log[n - 1])
      BY <1>1, <1>2, <3>1
    <3>3. log[n].id = n /\ log[n].prev = IF n = 1 THEN Genesis ELSE Hash(log[n - 1])
      BY <3>1 DEF ChainIntact
    <3>4. QED
      BY <3>2, <3>3
  <2>3. QED
    BY <2>1, <2>2
<1>5. ChainIntact(longer)
  BY <1>4 DEF ChainIntact
<1>6. HeadOf(longer) = Hash(event)
  BY <1>1, <1>3 DEF HeadOf
<1>7. QED
  BY <1>5, <1>6 DEF longer

LEMMA KeysAppend ==
    ASSUME NEW log, NEW event, IsLog(log), KeysFresh(log),
           event.key = NoKey \/ ~HasKey(log, event.key)
    PROVE  KeysFresh(Append(log, event))
<1>1. /\ \A n \in DOMAIN log : Append(log, event)[n] = log[n]
      /\ Append(log, event)[Len(log) + 1] = event
      /\ DOMAIN Append(log, event) = DOMAIN log \cup {Len(log) + 1}
  BY LogAppend, LogLen
<1>2. QED
  BY <1>1 DEF KeysFresh, HasKey

LEMMA PastAppend ==
    ASSUME NEW s, NEW p, NEW t, IsLog(s.log), IsLog(t.log), PastKept(s, p),
           Len(t.log) = Len(s.log) + 1,
           \A e \in Active(t.edges) : t.edges[e].created <= Len(s.log) =>
               e \in Active(s.edges) /\ s.edges[e].created = t.edges[e].created,
           \A e \in Active(t.edges) : t.edges[e].created \in Nat
    PROVE  PastKept(t, Append(p, Active(t.edges)))
<1> DEFINE q == Append(p, Active(t.edges))
<1>1. /\ IsLog(q) /\ Len(q) = Len(p) + 1
      /\ \A n \in DOMAIN p : q[n] = p[n]
      /\ q[Len(p) + 1] = Active(t.edges)
  BY LogAppend DEF PastKept
<1>2. /\ Len(s.log) \in Nat /\ DOMAIN s.log = 1 .. Len(s.log)
      /\ DOMAIN p = 1 .. Len(p) /\ DOMAIN t.log = 1 .. Len(s.log) + 1
      /\ Len(p) = Len(s.log)
  BY LogLen DEF PastKept
<1> HIDE DEF q
<1>3. ASSUME NEW n \in DOMAIN t.log, NEW e \in Active(t.edges), t.edges[e].created <= n
      PROVE  e \in q[n]
  <2>1. CASE n = Len(s.log) + 1
    BY <1>1, <1>2, <2>1
  <2>2. CASE n # Len(s.log) + 1
    <3>1. n \in DOMAIN s.log /\ q[n] = p[n]
      BY <1>1, <1>2, <2>2
    <3>2. t.edges[e].created <= Len(s.log)
      BY <1>2, <1>3, <3>1
    <3>3. e \in {f \in Active(s.edges) : s.edges[f].created <= n}
      BY <1>3, <3>2
    <3>4. QED
      BY <3>1, <3>3 DEF PastKept
  <2>3. QED
    BY <2>1, <2>2
<1>4. QED
  BY <1>1, <1>2, <1>3 DEF PastKept, q
-------------------------------------------------------------------------------
(* The tables and the log.                                                 *)

LEMMA CreatedAppend ==
    ASSUME NEW log, NEW event, NEW o, IsLog(log)
    PROVE  Created(Append(log, event), o) =
               Created(log, o) \cup
               (IF event.action = "object_created" /\ event.subject = o
                THEN {Len(log) + 1} ELSE {})
<1>1. /\ \A n \in DOMAIN log : Append(log, event)[n] = log[n]
      /\ Append(log, event)[Len(log) + 1] = event
      /\ DOMAIN Append(log, event) = DOMAIN log \cup {Len(log) + 1}
  BY LogAppend, LogLen
<1>2. QED
  BY <1>1 DEF Created

LEMMA AssertedAppend ==
    ASSUME NEW log, NEW event, NEW e, IsLog(log)
    PROVE  Asserted(Append(log, event), e) =
               Asserted(log, e) \cup
               (IF event.action = "connection_created" /\ event.payload.edge = e
                THEN {Len(log) + 1} ELSE {})
<1>1. /\ \A n \in DOMAIN log : Append(log, event)[n] = log[n]
      /\ Append(log, event)[Len(log) + 1] = event
      /\ DOMAIN Append(log, event) = DOMAIN log \cup {Len(log) + 1}
  BY LogAppend, LogLen
<1>2. QED
  BY <1>1 DEF Asserted

LEMMA ObjectsKept ==
    ASSUME NEW s, NEW event, NEW o, IsLog(s.log), NEW t,
           ObjectExplained(s, o), t.log = Append(s.log, event), t.objects[o] = s.objects[o],
           event.action # "object_created" \/ event.subject # o
    PROVE  ObjectExplained(t, o)
<1>1. /\ \A n \in DOMAIN s.log : t.log[n] = s.log[n]
      /\ t.log[Len(s.log) + 1] = event
      /\ DOMAIN t.log = DOMAIN s.log \cup {Len(s.log) + 1}
  BY LogAppend, LogLen
<1>2. Created(t.log, o) = Created(s.log, o)
  BY <1>1 DEF Created
<1>3. QED
  BY <1>2 DEF ObjectExplained

LEMMA EdgeKept ==
    ASSUME NEW s, NEW event, NEW e, IsLog(s.log), NEW t,
           LatestAssertion(s, e), RetractionExplained(s, e),
           t.log = Append(s.log, event), t.edges[e] = s.edges[e],
           event.action # "connection_created" \/ event.payload.edge # e
    PROVE  LatestAssertion(t, e) /\ RetractionExplained(t, e)
<1>1. /\ \A n \in DOMAIN s.log : t.log[n] = s.log[n]
      /\ t.log[Len(s.log) + 1] = event
      /\ DOMAIN t.log = DOMAIN s.log \cup {Len(s.log) + 1}
  BY LogAppend, LogLen
<1>2. Asserted(t.log, e) = Asserted(s.log, e)
  BY <1>1 DEF Asserted
<1>3. LatestAssertion(t, e)
  BY <1>2 DEF LatestAssertion
<1>4. RetractionExplained(t, e)
  BY <1>1 DEF RetractionExplained
<1>5. QED
  BY <1>3, <1>4

\* The session's next event: it continues the chain, and the rows it comes with
\* are as old as the view or explained by it.
LEMMA InsertSound ==
    ASSUME NEW s, NEW p, NEW t, NEW event, Sound(s, p),
           t = [log |-> Append(s.log, event), objects |-> t.objects, edges |-> t.edges],
           t.objects \in [Objects -> ObjectRows \cup {NoRow}],
           t.edges \in [Edges -> EdgeRows \cup {NoRow}],
           event.id = Len(s.log) + 1, event.prev = HeadOf(s.log),
           event.key = NoKey \/ ~HasKey(s.log, event.key),
           \A e \in Active(t.edges) : t.edges[e].created <= Len(s.log) =>
               e \in Active(s.edges) /\ s.edges[e].created = t.edges[e].created,
           Explained(t)
    PROVE  Sound(t, Append(p, Active(t.edges))) /\ HeadOf(t.log) = Hash(event)
<1>1. t.log = Append(s.log, event) /\ t = [log |-> t.log, objects |-> t.objects, edges |-> t.edges]
  OBVIOUS
<1>2. IsLog(s.log) /\ ChainIntact(s.log) /\ KeysFresh(s.log) /\ PastKept(s, p)
  BY DEF Sound, Rows
<1>3. IsLog(t.log) /\ Len(t.log) = Len(s.log) + 1
  BY <1>1, <1>2, LogAppend
<1>4. Rows(t)
  BY <1>1, <1>3 DEF Rows
<1>5. ChainIntact(t.log) /\ HeadOf(t.log) = Hash(event)
  BY <1>1, <1>2, ChainAppend
<1>6. KeysFresh(t.log)
  BY <1>1, <1>2, KeysAppend
<1>7. \A e \in Active(t.edges) : t.edges[e].created \in Nat
  BY <1>1 DEF Active, EdgeRows
<1>8. PastKept(t, Append(p, Active(t.edges)))
  BY <1>1, <1>2, <1>3, <1>7, PastAppend
<1>9. QED
  BY <1>1, <1>4, <1>5, <1>6, <1>8 DEF Sound
-------------------------------------------------------------------------------
(* The invariant and the actions.                                          *)

LEMMA StoreInit == Init => StoreInv
<1> SUFFICES ASSUME Init PROVE StoreInv
  OBVIOUS
<1>1. IsLog(<<>>) /\ Len(<<>>) = 0 /\ DOMAIN <<>> = {}
  BY EmptySeq DEF IsLog
<1>2. /\ Empty.log = <<>> /\ Empty.objects = [o \in Objects |-> NoRow]
      /\ Empty.edges = [e \in Edges |-> NoRow]
  BY DEF Empty
<1>3. Rows(Empty)
  BY <1>1, <1>2 DEF Rows, Empty
<1>4. ChainIntact(Empty.log) /\ KeysFresh(Empty.log) /\ PastKept(Empty, <<>>)
  BY <1>1, <1>2 DEF ChainIntact, KeysFresh, PastKept
<1>5. Explained(Empty)
  BY <1>1, <1>2 DEF Explained, ObjectExplained, LatestAssertion, RetractionExplained,
     Created, Asserted
<1>6. Sound(Empty, <<>>)
  BY <1>3, <1>4, <1>5 DEF Sound
<1>7. QED
  BY <1>6 DEF Init, StoreInv, HeadInv

\* An insertion that keeps the view sound keeps the invariant.
LEMMA InsertStep ==
    ASSUME StoreInv, NEW event, NEW objects, NEW edges, Insert(event, objects, edges),
           Sound(work', Append(past.work, Active(edges))), HeadOf(work'.log) = Hash(event),
           Len(work'.log) = Len(work.log) + 1
    PROVE  StoreInv'
<1>1. /\ open /\ open' = open /\ db' = db /\ prev' = Hash(event) /\ next' = next + 1
      /\ past' = [past EXCEPT !.work = Append(@, Active(edges))]
  BY DEF Insert
<1>2. past = [db |-> past.db, work |-> past.work]
  BY DEF StoreInv
<1>3. past' = [db |-> past.db, work |-> Append(past.work, Active(edges))]
  BY <1>1, <1>2
<1>4. past'.db = past.db /\ past'.work = Append(past.work, Active(edges))
  BY <1>3
<1>5. Sound(db', past'.db) /\ Sound(work', past'.work)
  BY <1>1, <1>4 DEF StoreInv
<1>6. HeadInv'
  BY <1>1 DEF StoreInv, HeadInv
<1>7. open' \in BOOLEAN
  BY <1>1 DEF StoreInv
<1>8. past' = [db |-> past'.db, work |-> past'.work]
  BY <1>3, <1>4
<1>9. QED
  BY <1>5, <1>6, <1>7, <1>8 DEF StoreInv

\* What the event and the rows of an action have to satisfy.
LEMMA InsertKeeps ==
    ASSUME StoreInv,
           NEW action, NEW subject, NEW payload, NEW key,
           NEW objects \in [Objects -> ObjectRows \cup {NoRow}],
           NEW edges \in [Edges -> EdgeRows \cup {NoRow}],
           Insert(Prepared(action, subject, payload, key), objects, edges),
           key = NoKey \/ ~HasKey(work.log, key),
           \A e \in Active(edges) : edges[e].created <= Len(work.log) =>
               e \in Active(work.edges) /\ work.edges[e].created = edges[e].created,
           Explained(work')
    PROVE  StoreInv'
<1>1. PICK event, s, p, t : /\ event = Prepared(action, subject, payload, key)
                            /\ s = work /\ p = past.work /\ t = work'
  OBVIOUS
<1>2. /\ open
      /\ t = [log |-> Append(s.log, event), objects |-> objects, edges |-> edges]
  BY <1>1 DEF Insert
<1>3. next = Len(s.log) + 1 /\ prev = HeadOf(s.log) /\ Sound(s, p)
  BY <1>1, <1>2 DEF StoreInv, HeadInv
<1>4. event.id = next /\ event.prev = prev /\ event.key = key
  BY <1>1 DEF Prepared
<1>5. event.key = NoKey \/ ~HasKey(s.log, event.key)
  BY <1>1, <1>4
<1>6. t.objects = objects /\ t.edges = edges
  BY <1>2
<1>7. \A e \in Active(t.edges) : t.edges[e].created <= Len(s.log) =>
          e \in Active(s.edges) /\ s.edges[e].created = t.edges[e].created
  BY <1>1, <1>6
<1>8. /\ t = [log |-> Append(s.log, event), objects |-> t.objects, edges |-> t.edges]
      /\ t.objects \in [Objects -> ObjectRows \cup {NoRow}]
      /\ t.edges \in [Edges -> EdgeRows \cup {NoRow}]
      /\ event.id = Len(s.log) + 1 /\ event.prev = HeadOf(s.log)
      /\ Explained(t)
  BY <1>1, <1>2, <1>3, <1>4, <1>6
<1>9. Sound(t, Append(p, Active(t.edges))) /\ HeadOf(t.log) = Hash(event)
  BY <1>3, <1>5, <1>7, <1>8, InsertSound
<1>10. Len(t.log) = Len(s.log) + 1
  BY <1>2, <1>3, LogAppend DEF Sound, Rows
<1>11. QED
  BY <1>1, <1>6, <1>9, <1>10, InsertStep

LEMMA SessionFacts ==
    ASSUME StoreInv, open
    PROVE  /\ IsLog(work.log)
           /\ Len(work.log) \in Nat /\ DOMAIN work.log = 1 .. Len(work.log)
           /\ next = Len(work.log) + 1
           /\ work.objects \in [Objects -> ObjectRows \cup {NoRow}]
           /\ work.edges \in [Edges -> EdgeRows \cup {NoRow}]
           /\ \A o \in Objects : ObjectExplained(work, o)
           /\ \A e \in Edges : LatestAssertion(work, e) /\ RetractionExplained(work, e)
<1>1. IsLog(work.log)
  BY DEF StoreInv, Sound, Rows
<1>2. Len(work.log) \in Nat /\ DOMAIN work.log = 1 .. Len(work.log)
  BY <1>1, LogLen
<1>3. QED
  BY <1>1, <1>2 DEF StoreInv, HeadInv, Sound, Rows, Explained

LEMMA RecordKeeps == ASSUME StoreInv, NEW o \in Objects, NEW key, Record("noted", o, key)
                     PROVE  StoreInv'
<1>1. /\ Insert(Prepared("noted", o, NoRow, key), work.objects, work.edges)
      /\ key = NoKey \/ ~HasKey(work.log, key)
  BY DEF Record
<1>2. /\ open
      /\ work' = [log |-> Append(work.log, Prepared("noted", o, NoRow, key)),
                  objects |-> work.objects, edges |-> work.edges]
  BY <1>1 DEF Insert
<1>3. /\ work'.log = Append(work.log, Prepared("noted", o, NoRow, key))
      /\ work'.objects = work.objects /\ work'.edges = work.edges
  BY <1>2
<1>4. Prepared("noted", o, NoRow, key).action = "noted"
  BY DEF Prepared
<1>5. PICK event, s, t : /\ event = Prepared("noted", o, NoRow, key)
                         /\ s = work /\ t = work'
  OBVIOUS
<1>6. IsLog(s.log) /\ t.log = Append(s.log, event) /\ event.action = "noted"
  BY <1>2, <1>3, <1>4, <1>5, SessionFacts
<1>7. ASSUME NEW p \in Objects PROVE ObjectExplained(t, p)
  BY <1>2, <1>3, <1>5, <1>6, ObjectsKept, SessionFacts
<1>8. ASSUME NEW e \in Edges PROVE LatestAssertion(t, e) /\ RetractionExplained(t, e)
  BY <1>2, <1>3, <1>5, <1>6, EdgeKept, SessionFacts
<1>9. Explained(work')
  BY <1>5, <1>7, <1>8 DEF Explained
<1>10. QED
  BY <1>1, <1>2, <1>9, InsertKeeps, SessionFacts

LEMMA CreateKeeps ==
    ASSUME StoreInv, NEW o \in Objects, NEW content \in Contents, CreateObject(o, content)
    PROVE  StoreInv'
<1>1. PICK row, event, s, t :
        /\ row = [content |-> content, created |-> next]
        /\ event = Prepared("object_created", o, content, NoKey)
        /\ s = work /\ t = work'
  OBVIOUS
<1>2. /\ work.objects[o] = NoRow /\ open
      /\ Insert(event, [work.objects EXCEPT ![o] = row], work.edges)
      /\ t = [log |-> Append(s.log, event), objects |-> [s.objects EXCEPT ![o] = row],
              edges |-> s.edges]
  BY <1>1 DEF CreateObject, Insert
<1>3. /\ t.log = Append(s.log, event) /\ t.objects = [s.objects EXCEPT ![o] = row]
      /\ t.edges = s.edges
  BY <1>2
<1>4. /\ IsLog(s.log) /\ next = Len(s.log) + 1 /\ Len(s.log) \in Nat
      /\ s.objects \in [Objects -> ObjectRows \cup {NoRow}]
      /\ s.edges \in [Edges -> EdgeRows \cup {NoRow}]
      /\ \A p \in Objects : ObjectExplained(s, p)
      /\ \A e \in Edges : LatestAssertion(s, e) /\ RetractionExplained(s, e)
  BY <1>1, <1>2, SessionFacts
<1>5. row \in ObjectRows /\ row # NoRow /\ row.created = Len(s.log) + 1
  BY <1>1, <1>4, StoreAssumption DEF ObjectRows
<1>6. event.action = "object_created" /\ event.subject = o
  BY <1>1 DEF Prepared
<1>7. ObjectExplained(t, o)
  <2>1. t.objects[o] = row /\ s.objects[o] = NoRow
    BY <1>1, <1>2, <1>3, <1>4
  <2>2. Created(s.log, o) = {}
    BY <1>4, <2>1 DEF ObjectExplained
  <2>3. Created(t.log, o) = {Len(s.log) + 1}
    BY <1>3, <1>4, <1>6, <2>2, CreatedAppend
  <2>4. QED
    BY <1>5, <2>1, <2>3 DEF ObjectExplained
<1>8. ASSUME NEW p \in Objects, p # o PROVE ObjectExplained(t, p)
  <2>1. t.objects[p] = s.objects[p]
    BY <1>3, <1>4, <1>8
  <2>2. QED
    BY <1>3, <1>4, <1>6, <1>8, <2>1, ObjectsKept
<1>9. ASSUME NEW e \in Edges PROVE LatestAssertion(t, e) /\ RetractionExplained(t, e)
  BY <1>3, <1>4, <1>6, EdgeKept
<1>10. Explained(work')
  BY <1>1, <1>7, <1>8, <1>9 DEF Explained
<1>11. [work.objects EXCEPT ![o] = row] \in [Objects -> ObjectRows \cup {NoRow}]
  BY <1>1, <1>4, <1>5
<1>12. QED
  BY <1>1, <1>2, <1>4, <1>10, <1>11, InsertKeeps

LEMMA ConnectKeeps ==
    ASSUME StoreInv, NEW e \in Edges, NEW label \in Labels, Connect(e, label)
    PROVE  StoreInv'
<1>1. PICK row, payload, event, s, t :
        /\ row = [label |-> label, created |-> next, retracted |-> 0]
        /\ payload = [edge |-> e, label |-> label]
        /\ event = Prepared("connection_created", From[e], payload, NoKey)
        /\ s = work /\ t = work'
  OBVIOUS
<1>2. /\ e \notin Active(work.edges) /\ open
      /\ Insert(event, work.objects, [work.edges EXCEPT ![e] = row])
      /\ t = [log |-> Append(s.log, event), objects |-> s.objects,
              edges |-> [s.edges EXCEPT ![e] = row]]
  BY <1>1 DEF Connect, Insert
<1>3. /\ t.log = Append(s.log, event) /\ t.objects = s.objects
      /\ t.edges = [s.edges EXCEPT ![e] = row]
  BY <1>2
<1>4. /\ IsLog(s.log) /\ next = Len(s.log) + 1 /\ Len(s.log) \in Nat
      /\ DOMAIN s.log = 1 .. Len(s.log)
      /\ s.objects \in [Objects -> ObjectRows \cup {NoRow}]
      /\ s.edges \in [Edges -> EdgeRows \cup {NoRow}]
      /\ \A o \in Objects : ObjectExplained(s, o)
      /\ \A f \in Edges : LatestAssertion(s, f) /\ RetractionExplained(s, f)
  BY <1>1, <1>2, SessionFacts
<1>5. /\ row \in EdgeRows /\ row # NoRow
      /\ row.created = Len(s.log) + 1 /\ row.retracted = 0
  BY <1>1, <1>4, StoreAssumption DEF EdgeRows
<1>6. event.action = "connection_created" /\ event.payload.edge = e
  BY <1>1 DEF Prepared
<1>7. LatestAssertion(t, e) /\ RetractionExplained(t, e)
  <2>1. t.edges[e] = row
    BY <1>3, <1>4
  <2>2. Asserted(t.log, e) = Asserted(s.log, e) \cup {Len(s.log) + 1}
    BY <1>3, <1>4, <1>6, AssertedAppend
  <2>3. \A n \in Asserted(s.log, e) : n \in Nat /\ n <= Len(s.log)
    BY <1>4 DEF Asserted
  <2>4. LatestAssertion(t, e)
    BY <1>4, <1>5, <2>1, <2>2, <2>3 DEF LatestAssertion
  <2>5. RetractionExplained(t, e)
    BY <1>5, <2>1 DEF RetractionExplained
  <2>6. QED
    BY <2>4, <2>5
<1>8. ASSUME NEW f \in Edges, f # e PROVE LatestAssertion(t, f) /\ RetractionExplained(t, f)
  <2>1. t.edges[f] = s.edges[f]
    BY <1>3, <1>4, <1>8
  <2>2. QED
    BY <1>3, <1>4, <1>6, <1>8, <2>1, EdgeKept
<1>9. ASSUME NEW o \in Objects PROVE ObjectExplained(t, o)
  BY <1>3, <1>4, <1>6, ObjectsKept
<1>10. Explained(work')
  BY <1>1, <1>7, <1>8, <1>9 DEF Explained
<1>11. [work.edges EXCEPT ![e] = row] \in [Edges -> EdgeRows \cup {NoRow}]
  BY <1>1, <1>4, <1>5
<1>12. ASSUME NEW f \in Active([work.edges EXCEPT ![e] = row]),
              [work.edges EXCEPT ![e] = row][f].created <= Len(work.log)
       PROVE  /\ f \in Active(work.edges)
              /\ work.edges[f].created = [work.edges EXCEPT ![e] = row][f].created
  <2>1. f \in Edges
    BY DEF Active
  <2>2. f # e
    BY <1>1, <1>4, <1>5, <1>12, <2>1
  <2>3. [work.edges EXCEPT ![e] = row][f] = work.edges[f]
    BY <1>1, <1>4, <2>1, <2>2
  <2>4. QED
    BY <2>1, <2>3 DEF Active
<1>13. Insert(Prepared("connection_created", From[e], payload, NoKey),
              work.objects, [work.edges EXCEPT ![e] = row])
  BY <1>1, <1>2
<1>14. QED
  BY <1>1, <1>4, <1>10, <1>11, <1>12, <1>13, InsertKeeps

LEMMA RetractKeeps == ASSUME StoreInv, NEW e \in Edges, Retract(e) PROVE StoreInv'
<1>1. PICK row, event, s, t :
        /\ row = [work.edges[e] EXCEPT !.retracted = next]
        /\ event = Prepared("connection_retracted", From[e], NoRow, NoKey)
        /\ s = work /\ t = work'
  OBVIOUS
<1>2. /\ e \in Active(work.edges) /\ open
      /\ Insert(event, work.objects, [work.edges EXCEPT ![e] = row])
      /\ t = [log |-> Append(s.log, event), objects |-> s.objects,
              edges |-> [s.edges EXCEPT ![e] = row]]
  BY <1>1 DEF Retract, Insert
<1>3. /\ t.log = Append(s.log, event) /\ t.objects = s.objects
      /\ t.edges = [s.edges EXCEPT ![e] = row]
  BY <1>2
<1>4. /\ IsLog(s.log) /\ next = Len(s.log) + 1 /\ Len(s.log) \in Nat
      /\ DOMAIN s.log = 1 .. Len(s.log)
      /\ s.objects \in [Objects -> ObjectRows \cup {NoRow}]
      /\ s.edges \in [Edges -> EdgeRows \cup {NoRow}]
      /\ \A o \in Objects : ObjectExplained(s, o)
      /\ \A f \in Edges : LatestAssertion(s, f) /\ RetractionExplained(s, f)
  BY <1>1, <1>2, SessionFacts
<1>5. s.edges[e] # NoRow /\ s.edges[e] \in EdgeRows
  BY <1>1, <1>2, <1>4 DEF Active
<1>6. /\ row \in EdgeRows /\ row # NoRow
      /\ row.created = s.edges[e].created /\ row.retracted = Len(s.log) + 1
  BY <1>1, <1>4, <1>5, StoreAssumption DEF EdgeRows
<1>7. event.action = "connection_retracted" /\ event.subject = From[e]
  BY <1>1 DEF Prepared
<1>8. LatestAssertion(t, e) /\ RetractionExplained(t, e)
  <2>1. t.edges[e] = row
    BY <1>3, <1>4
  <2>2. /\ \A n \in DOMAIN s.log : t.log[n] = s.log[n]
        /\ t.log[Len(s.log) + 1] = event
        /\ DOMAIN t.log = DOMAIN s.log \cup {Len(s.log) + 1}
    BY <1>3, <1>4, LogAppend, LogLen
  <2>3. Asserted(t.log, e) = Asserted(s.log, e)
    BY <1>7, <2>2 DEF Asserted
  <2>4. LatestAssertion(t, e)
    BY <1>4, <1>5, <1>6, <2>1, <2>3 DEF LatestAssertion
  <2>5. row.created \in DOMAIN s.log
    BY <1>4, <1>5, <1>6 DEF LatestAssertion, Asserted
  <2>6. RetractionExplained(t, e)
    BY <1>4, <1>6, <1>7, <2>1, <2>2, <2>5 DEF RetractionExplained
  <2>7. QED
    BY <2>4, <2>6
<1>9. ASSUME NEW f \in Edges, f # e PROVE LatestAssertion(t, f) /\ RetractionExplained(t, f)
  <2>1. t.edges[f] = s.edges[f]
    BY <1>3, <1>4, <1>9
  <2>2. QED
    BY <1>3, <1>4, <1>7, <1>9, <2>1, EdgeKept
<1>10. ASSUME NEW o \in Objects PROVE ObjectExplained(t, o)
  BY <1>3, <1>4, <1>7, ObjectsKept
<1>11. Explained(work')
  BY <1>1, <1>8, <1>9, <1>10 DEF Explained
<1>12. [work.edges EXCEPT ![e] = row] \in [Edges -> EdgeRows \cup {NoRow}]
  BY <1>1, <1>4, <1>6
<1>13. ASSUME NEW f \in Active([work.edges EXCEPT ![e] = row])
       PROVE  /\ f \in Active(work.edges)
              /\ work.edges[f].created = [work.edges EXCEPT ![e] = row][f].created
  <2>1. f \in Edges
    BY DEF Active
  <2>2. f # e
    BY <1>1, <1>4, <1>6, <2>1 DEF Active
  <2>3. [work.edges EXCEPT ![e] = row][f] = work.edges[f]
    BY <1>1, <1>4, <2>1, <2>2
  <2>4. QED
    BY <2>1, <2>3 DEF Active
<1>14. Insert(Prepared("connection_retracted", From[e], NoRow, NoKey),
              work.objects, [work.edges EXCEPT ![e] = row])
  BY <1>1, <1>2
<1>15. work.objects \in [Objects -> ObjectRows \cup {NoRow}]
  BY <1>1, <1>4
<1>16. PICK edges : edges = [work.edges EXCEPT ![e] = row]
  OBVIOUS
<1>17. /\ edges \in [Edges -> EdgeRows \cup {NoRow}]
       /\ Insert(Prepared("connection_retracted", From[e], NoRow, NoKey), work.objects, edges)
       /\ \A f \in Active(edges) : edges[f].created <= Len(work.log) =>
             f \in Active(work.edges) /\ work.edges[f].created = edges[f].created
  BY <1>12, <1>13, <1>14, <1>16
<1>18. QED
  BY <1>11, <1>15, <1>17, InsertKeeps
-------------------------------------------------------------------------------
(* The theorems.                                                           *)

LEMMA StoreNext == StoreInv /\ [Next]_vars => StoreInv'
<1> SUFFICES ASSUME StoreInv, [Next]_vars PROVE StoreInv'
  OBVIOUS
<1>1. past = [db |-> past.db, work |-> past.work] /\ Sound(db, past.db) /\ Sound(work, past.work)
  BY DEF StoreInv
<1>2. CASE Begin
  <2>1. /\ open' = TRUE /\ db' = db /\ work' = work /\ past' = past /\ work = db
        /\ next' = Len(db.log) + 1 /\ prev' = HeadOf(db.log)
    BY <1>2 DEF Begin, StoreInv, HeadInv, HeadOf
  <2>2. HeadInv'
    BY <2>1 DEF HeadInv
  <2>3. QED
    BY <1>1, <2>1, <2>2 DEF StoreInv
<1>3. CASE Commit
  <2>1. /\ open' = FALSE /\ db' = work /\ work' = work
        /\ past' = [db |-> past.work, work |-> past.work]
    BY <1>1, <1>3 DEF Commit, Close
  <2>2. past'.db = past.work /\ past'.work = past.work
    BY <2>1
  <2>3. HeadInv'
    BY <2>1, <2>2 DEF HeadInv
  <2>4. QED
    BY <1>1, <2>1, <2>2, <2>3 DEF StoreInv
<1>4. CASE Abort
  <2>1. /\ open' = FALSE /\ db' = db /\ work' = db
        /\ past' = [db |-> past.db, work |-> past.db]
    BY <1>1, <1>4 DEF Abort, Close
  <2>2. past'.db = past.db /\ past'.work = past.db
    BY <2>1
  <2>3. HeadInv'
    BY <2>1, <2>2 DEF HeadInv
  <2>4. QED
    BY <1>1, <2>1, <2>2, <2>3 DEF StoreInv
<1>5. CASE \E o \in Objects, key \in Keys \cup {NoKey} : Record("noted", o, key)
  BY <1>5, RecordKeeps
<1>6. CASE \E o \in Objects, content \in Contents : CreateObject(o, content)
  BY <1>6, CreateKeeps
<1>7. CASE \E e \in Edges, label \in Labels : Connect(e, label)
  BY <1>7, ConnectKeeps
<1>8. CASE \E e \in Edges : Retract(e)
  BY <1>8, RetractKeeps
<1>9. CASE UNCHANGED vars
  <2>1. /\ db' = db /\ work' = work /\ open' = open /\ next' = next
        /\ prev' = prev /\ past' = past
    BY <1>9 DEF vars
  <2>2. QED
    BY <2>1 DEF StoreInv, HeadInv
<1>10. QED
  BY <1>2, <1>3, <1>4, <1>5, <1>6, <1>7, <1>8, <1>9 DEF Next

LEMMA StoreInvariant == Spec => []StoreInv
<1>1. Init => StoreInv
  BY StoreInit
<1>2. StoreInv /\ [Next]_vars => StoreInv'
  BY StoreNext
<1>3. QED
  BY <1>1, <1>2, PTL DEF Spec

\* The committed chain verifies after every session (WriteSession, verify).
THEOREM StoreChainVerifies == Spec => []ChainVerifies
<1>1. StoreInv => ChainVerifies
  BY DEF StoreInv, Sound, ChainVerifies
<1>2. QED
  BY <1>1, StoreInvariant, PTL

\* No idempotency key is spent by two events (record).
THEOREM StoreSpendsKeysOnce == Spec => []KeysAreSpentOnce
<1>1. StoreInv => KeysAreSpentOnce
  BY DEF StoreInv, Sound, KeysFresh, KeysAreSpentOnce
<1>2. QED
  BY <1>1, StoreInvariant, PTL

\* What a reader has seen stays what the open session writes on to.
RootedInv == open => /\ Len(db.log) <= Len(work.log)
                     /\ \A n \in 1 .. Len(db.log) : work.log[n] = db.log[n]

LEMMA StoreLengths == ASSUME StoreInv
                      PROVE  /\ IsLog(db.log) /\ Len(db.log) \in Nat
                             /\ IsLog(work.log) /\ Len(work.log) \in Nat
                             /\ DOMAIN work.log = 1 .. Len(work.log)
<1>1. IsLog(db.log) /\ IsLog(work.log)
  BY DEF StoreInv, Sound, Rows
<1>2. QED
  BY <1>1, LogLen

LEMMA InsertRooted ==
    ASSUME StoreInv, RootedInv, NEW event, NEW objects, NEW edges,
           Insert(event, objects, edges)
    PROVE  RootedInv'
<1>1. /\ open /\ db' = db
      /\ work' = [log |-> Append(work.log, event), objects |-> objects, edges |-> edges]
  BY DEF Insert
<1>2. work'.log = Append(work.log, event)
  BY <1>1
<1>3. /\ Len(work'.log) = Len(work.log) + 1
      /\ \A n \in DOMAIN work.log : work'.log[n] = work.log[n]
  BY <1>2, StoreLengths, LogAppend
<1>4. QED
  BY <1>1, <1>3, StoreLengths DEF RootedInv

LEMMA RootedNext == StoreInv /\ RootedInv /\ [Next]_vars => RootedInv'
<1> SUFFICES ASSUME StoreInv, RootedInv, [Next]_vars PROVE RootedInv'
  OBVIOUS
<1>1. CASE Begin
  BY <1>1, StoreLengths DEF Begin, StoreInv, HeadInv, RootedInv
<1>2. CASE Commit \/ Abort
  BY <1>2 DEF Commit, Abort, Close, RootedInv
<1>3. CASE \E o \in Objects, key \in Keys \cup {NoKey} : Record("noted", o, key)
  BY <1>3, InsertRooted DEF Record
<1>4. CASE \E o \in Objects, content \in Contents : CreateObject(o, content)
  BY <1>4, InsertRooted DEF CreateObject
<1>5. CASE \E e \in Edges, label \in Labels : Connect(e, label)
  BY <1>5, InsertRooted DEF Connect
<1>6. CASE \E e \in Edges : Retract(e)
  BY <1>6, InsertRooted DEF Retract
<1>7. CASE UNCHANGED vars
  BY <1>7 DEF vars, RootedInv
<1>8. QED
  BY <1>1, <1>2, <1>3, <1>4, <1>5, <1>6, <1>7 DEF Next

\* Every event of a sound log follows the ones before it.
LEMMA SoundFollows ==
    ASSUME NEW log, IsLog(log), ChainIntact(log), KeysFresh(log), NEW n \in 1 .. Len(log)
    PROVE  History!Follows(log, n)
<1>1. DOMAIN log = 1 .. Len(log) /\ Len(log) \in Nat
  BY LogLen
<1>2. log[n].id = n /\ log[n].prev = IF n = 1 THEN Genesis ELSE Hash(log[n - 1])
  BY <1>1 DEF ChainIntact
<1>3. ASSUME log[n].key # NoKey, NEW m \in 1 .. n - 1 PROVE log[m].key # log[n].key
  <2>1. m \in 1 .. Len(log) /\ m # n
    BY <1>1
  <2>2. QED
    BY <1>1, <1>3, <2>1 DEF KeysFresh
<1>4. QED
  BY <1>2, <1>3 DEF History!Follows

\* LedgerStore implements Journal: a commit publishes the session's run, and no other
\* step is visible (Ledger.write).
THEOREM StoreImplementsJournal == Spec => ImplementsJournal
<1>1. Init => History!JInit /\ RootedInv
  BY DEF Init, Empty, History!JInit, RootedInv
<1>2. ASSUME StoreInv, RootedInv, Commit PROVE History!Publish
  <2>1. db' = work /\ open
    BY <1>2 DEF Commit
  <2>2. /\ Len(db.log) <= Len(db'.log)
        /\ \A n \in 1 .. Len(db.log) : db'.log[n] = db.log[n]
    BY <1>2, <2>1 DEF RootedInv
  <2>3. \A n \in 1 .. Len(work.log) : History!Follows(work.log, n)
    BY <1>2, SoundFollows DEF StoreInv, Sound, Rows
  <2>4. \A n \in Len(db.log) + 1 .. Len(work.log) : n \in 1 .. Len(work.log)
    BY <1>2, StoreLengths
  <2>5. \A n \in Len(db.log) + 1 .. Len(work.log) : History!Follows(work.log, n)
    BY <2>3, <2>4
  <2>6. QED
    BY <2>1, <2>2, <2>5 DEF History!Publish
<1>3. ASSUME StoreInv, RootedInv, [Next]_vars PROVE [History!Publish]_(db.log)
  <2>1. CASE Commit
    BY <1>2, <1>3, <2>1
  <2>2. CASE ~ Commit
    <3>1. db' = db
      BY <1>3, <2>2 DEF Next, Begin, Abort, Record, CreateObject, Connect, Retract, Insert, vars
    <3>2. QED
      BY <3>1
  <2>3. QED
    BY <2>1, <2>2
<1>4. StoreInv /\ RootedInv /\ [Next]_vars => [History!Publish]_(db.log) /\ RootedInv'
  BY <1>3, RootedNext
<1>5. QED
  BY <1>1, <1>4, StoreInvariant, PTL DEF Spec, ImplementsJournal, History!JSpec

\* The tables of objects and connections are what the events explain.
THEOREM StoreTablesFollowLog == Spec => []TablesFollowLog
<1>1. StoreInv => TablesFollowLog
  BY DEF StoreInv, Sound, TablesFollowLog
<1>2. QED
  BY <1>1, StoreInvariant, PTL

\* A replay up to a past event shows no connection that was not active then
\* (truth_of, encoding_of).
THEOREM StoreReplayInventsNothing == Spec => []NoFalsePast
<1>1. StoreInv => NoFalsePast
  BY DEF StoreInv, Sound, PastKept, NoFalsePast, UntilView
<1>2. QED
  BY <1>1, StoreInvariant, PTL
-------------------------------------------------------------------------------
(* CheckClaims                                                             *)

\* ActiveChecksStand speaks of subsets of products; this is the same, one edge
\* at a time, which is how a withdrawal decides.
Stands(c) == /\ \A k \in Produces[c] : <<k, c>> \in produced
             /\ Relevance(c) \subseteq advances
             /\ Needs[c] \subseteq depends

ClaimsInv == /\ CTypeOK
             /\ \A c \in Checks : ended[c] = "completed" /\ c \notin retracted => Stands(c)
             /\ EdgesAreFounded

LEMMA ClaimsStart == ClaimsInit => ClaimsInv
<1> SUFFICES ASSUME ClaimsInit PROVE ClaimsInv
  OBVIOUS
<1>1. CTypeOK
  BY DEF ClaimsInit, CTypeOK, Idle
<1>2. EdgesAreFounded
  BY DEF ClaimsInit, EdgesAreFounded
<1>3. QED
  BY <1>1, <1>2 DEF ClaimsInit, ClaimsInv

LEMMA CompleteKeeps == ASSUME ClaimsInv, NEW c \in Checks, Complete(c) PROVE ClaimsInv'
<1>1. Produces[c] \subseteq Claims /\ Focus[c] \subseteq Claims
  BY ClaimsAssumption
<1>2. Needs[c] \subseteq Produces[c] \X Produces[c]
  BY ClaimsAssumption
<1>3. Relevance(c) \subseteq Produces[c] \X Claims
  BY <1>1 DEF Relevance
<1>4. CTypeOK'
  <2>1. known' \subseteq Claims /\ known \subseteq known' /\ Produces[c] \subseteq known'
    BY <1>1 DEF Complete, ClaimsInv, CTypeOK
  <2>2. produced' \subseteq known' \X Checks
    BY <2>1 DEF Complete, ClaimsInv, CTypeOK
  <2>3. advances' \subseteq known' \X Claims
    BY <1>3, <2>1 DEF Complete, ClaimsInv, CTypeOK
  <2>4. depends' \subseteq known' \X known'
    BY <1>2, <2>1 DEF Complete, ClaimsInv, CTypeOK
  <2>5. QED
    BY <2>1, <2>2, <2>3, <2>4 DEF Complete, ClaimsInv, CTypeOK
<1>5. ASSUME NEW d \in Checks, ended'[d] = "completed", d \notin retracted'
      PROVE  Stands(d)'
  <2>1. CASE d = c
    BY <2>1 DEF Complete, Stands, Relevance
  <2>2. CASE d # c
    <3>1. Stands(d)
      BY <1>5, <2>2 DEF Complete, ClaimsInv, CTypeOK
    <3>2. QED
      BY <3>1 DEF Complete, Stands, Relevance
  <2>3. QED
    BY <2>1, <2>2
<1>6. ASSUME NEW e \in advances' \cup depends'
      PROVE  e[1] \in included' \/ \E d \in Checks : <<e[1], d>> \in produced'
  <2>1. CASE e \in advances \cup depends
    BY <2>1 DEF Complete, ClaimsInv, EdgesAreFounded
  <2>2. CASE e \in Relevance(c) \cup Needs[c]
    <3>1. e[1] \in Produces[c]
      BY <1>2, <1>3, <2>2
    <3>2. QED
      BY <3>1 DEF Complete
  <2>3. QED
    BY <1>6, <2>1, <2>2 DEF Complete
<1>7. QED
  BY <1>4, <1>5, <1>6 DEF ClaimsInv, EdgesAreFounded

LEMMA WithdrawKeeps ==
    ASSUME ClaimsInv, NEW w \in Withdrawers, InvalidateCommit(w) PROVE ClaimsInv'
<1> DEFINE dropped == {k \in listed[w].claims :
                          ActiveChecks(k, produced', retracted') = {} /\ k \notin included}
<1>1. /\ retracted' = retracted \cup listed[w].check
      /\ produced' = produced \ (listed[w].claims \X listed[w].check)
      /\ advances' = {e \in advances : e[1] \notin dropped}
      /\ depends' = {e \in depends : e[1] \notin dropped}
      /\ listed' = [listed EXCEPT ![w] = Idle]
      /\ UNCHANGED <<ended, known, certified, included>>
  BY DEF InvalidateCommit, Withdrawing
<1>2. PICK gone \in SUBSET Checks, claims \in SUBSET Claims :
          listed[w] = [check |-> gone, claims |-> claims]
  BY DEF ClaimsInv, CTypeOK
<1>3. CTypeOK'
  <2>1. \A x \in Withdrawers : \E c \in SUBSET Checks, k \in SUBSET Claims :
           listed'[x] = [check |-> c, claims |-> k]
    <3> SUFFICES ASSUME NEW x \in Withdrawers
                 PROVE  \E c \in SUBSET Checks, k \in SUBSET Claims :
                            listed'[x] = [check |-> c, claims |-> k]
      OBVIOUS
    <3>1. listed'[x] = IF x = w /\ w \in DOMAIN listed THEN Idle ELSE listed[x]
      BY <1>1
    <3>2. QED
      BY <3>1 DEF Idle, ClaimsInv, CTypeOK
  <2>2. produced' \subseteq produced /\ advances' \subseteq advances /\ depends' \subseteq depends
    BY <1>1
  <2>3. retracted' \subseteq Checks
    BY <1>1, <1>2 DEF ClaimsInv, CTypeOK
  <2>4. QED
    BY <1>1, <2>1, <2>2, <2>3 DEF ClaimsInv, CTypeOK
<1>4. ASSUME NEW c \in Checks, ended'[c] = "completed", c \notin retracted'
      PROVE  Stands(c)'
  <2>1. Stands(c) /\ c \notin gone
    BY <1>1, <1>2, <1>4 DEF ClaimsInv
  <2>2. \A k \in Produces[c] : <<k, c>> \in produced'
    BY <1>1, <1>2, <2>1 DEF Stands
  <2>3. \A k \in Produces[c] : k \notin dropped
    BY <1>4, <2>2 DEF ActiveChecks
  <2>4. Relevance(c) \subseteq advances'
    BY <1>1, <2>1, <2>3 DEF Stands, Relevance
  <2>5. Needs[c] \subseteq depends'
    BY <1>1, <2>1, <2>3, ClaimsAssumption DEF Stands
  <2>6. QED
    BY <2>2, <2>4, <2>5 DEF Stands, Relevance
<1>5. ASSUME NEW e \in advances' \cup depends'
      PROVE  e[1] \in included' \/ \E c \in Checks : <<e[1], c>> \in produced'
  <2>1. e \in advances \cup depends /\ e[1] \notin dropped
    BY <1>1
  <2>2. CASE e[1] \in claims
    BY <1>1, <1>2, <2>1, <2>2 DEF ActiveChecks
  <2>3. CASE e[1] \notin claims
    BY <1>1, <1>2, <2>1, <2>3 DEF ClaimsInv, EdgesAreFounded
  <2>4. QED
    BY <2>2, <2>3
<1>6. QED
  BY <1>3, <1>4, <1>5 DEF ClaimsInv, EdgesAreFounded

LEMMA OthersKeep ==
    ASSUME ClaimsInv,
           \/ \E c \in Checks : Fail(c)
           \/ \E w \in Withdrawers : InvalidateLost(w) \/ \E c \in Checks : InvalidateRead(w, c)
           \/ \E claims \in SUBSET Claims : Certify(claims) \/ Promote(claims)
           \/ UNCHANGED claimVars
    PROVE  ClaimsInv'
<1>1. /\ UNCHANGED <<retracted, known, produced, advances, depends>>
      /\ certified \subseteq certified' /\ included \subseteq included'
      /\ \A c \in Checks : ended'[c] = "completed" => ended[c] = "completed"
  BY DEF ClaimsInv, CTypeOK, Fail, InvalidateLost, InvalidateRead, Certify, Promote, claimVars
<1>2. CTypeOK'
  <2>1. ended' \in [Checks -> {"no", "completed", "failed"}]
    BY DEF ClaimsInv, CTypeOK, Fail, InvalidateLost, InvalidateRead, Certify, Promote, claimVars
  <2>2. included' \subseteq certified' /\ certified' \subseteq known'
    BY DEF ClaimsInv, CTypeOK, Fail, InvalidateLost, InvalidateRead, Certify, Promote, claimVars
  <2>3. ASSUME NEW x \in Withdrawers
        PROVE  \E c \in SUBSET Checks, k \in SUBSET Claims :
                   listed'[x] = [check |-> c, claims |-> k]
    <3>1. PICK c \in SUBSET Checks, k \in SUBSET Claims :
              listed[x] = [check |-> c, claims |-> k]
      BY DEF ClaimsInv, CTypeOK
    <3>2. CASE listed'[x] = listed[x]
      BY <3>1, <3>2
    <3>3. CASE \E d \in Checks : listed'[x] =
                  [check |-> {d}, claims |-> {j \in Claims : <<j, d>> \in produced}]
      BY <3>3
    <3>4. CASE listed'[x] = Idle
      BY <3>4 DEF Idle
    <3>5. ASSUME NEW w \in Withdrawers, InvalidateLost(w)
          PROVE  listed'[x] = listed[x] \/ listed'[x] = Idle
      BY <3>5 DEF InvalidateLost
    <3>6. ASSUME NEW w \in Withdrawers, NEW d \in Checks, InvalidateRead(w, d)
          PROVE  listed'[x] = listed[x] \/ listed'[x] =
                     [check |-> {d}, claims |-> {j \in Claims : <<j, d>> \in produced}]
      BY <3>6 DEF InvalidateRead
    <3>7. CASE UNCHANGED listed
      BY <3>2, <3>7
    <3>8. UNCHANGED listed \/ \E w \in Withdrawers :
              InvalidateLost(w) \/ \E d \in Checks : InvalidateRead(w, d)
      BY DEF Fail, Certify, Promote, claimVars
    <3>9. QED
      BY <3>2, <3>3, <3>4, <3>5, <3>6, <3>7, <3>8
  <2>4. QED
    BY <1>1, <2>1, <2>2, <2>3 DEF ClaimsInv, CTypeOK
<1>3. \A c \in Checks : ended'[c] = "completed" /\ c \notin retracted' => Stands(c)'
  BY <1>1 DEF ClaimsInv, Stands, Relevance
<1>4. EdgesAreFounded'
  BY <1>1 DEF ClaimsInv, EdgesAreFounded
<1>5. QED
  BY <1>2, <1>3, <1>4 DEF ClaimsInv

LEMMA ClaimsInvariant == ClaimsSpec => []ClaimsInv
<1>1. ClaimsInv /\ [ClaimsNext]_claimVars => ClaimsInv'
  BY CompleteKeeps, WithdrawKeeps, OthersKeep DEF ClaimsNext
<1>2. QED
  BY ClaimsStart, <1>1, PTL DEF ClaimsSpec
-------------------------------------------------------------------------------
\* A withdrawal never costs a check that stands any of its claims (invalidate).
THEOREM ClaimsActiveChecksStand == ClaimsSpec => []ActiveChecksStand
<1>1. ClaimsInv => ActiveChecksStand
  BY DEF ClaimsInv, ActiveChecksStand, Stands
<1>2. QED
  BY <1>1, ClaimsInvariant, PTL

\* No relevance edge outlives the last check that produced its claim, unless
\* the claim was promoted (invalidate).
THEOREM ClaimsEdgesAreFounded == ClaimsSpec => []EdgesAreFounded
<1>1. ClaimsInv => EdgesAreFounded
  BY DEF ClaimsInv
<1>2. QED
  BY <1>1, ClaimsInvariant, PTL

\* A promoted claim never loses a relevance edge (invalidate).
THEOREM ClaimsPromotedKeepRelevance == ClaimsSpec => PromotedKeepRelevance
<1>1. ASSUME [ClaimsNext]_claimVars
      PROVE  [\A k \in included : \A e \in advances \cup depends :
                 e[1] = k => e \in advances' \cup depends']_claimVars
  <2>1. CASE \E w \in Withdrawers : InvalidateCommit(w)
    BY <2>1 DEF InvalidateCommit, Withdrawing
  <2>2. CASE ~\E w \in Withdrawers : InvalidateCommit(w)
    BY <1>1, <2>2 DEF ClaimsNext, Complete, Fail, InvalidateLost, InvalidateRead, Certify,
       Promote, claimVars
  <2>3. QED
    BY <2>1, <2>2
<1>2. QED
  BY <1>1, PTL DEF ClaimsSpec, PromotedKeepRelevance

===============================================================================
