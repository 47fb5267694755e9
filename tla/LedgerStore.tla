------------------------------ MODULE LedgerStore ------------------------------
(***************************************************************************)
(* The ledger database (ledger/store.py, events.py): a hash chain of       *)
(* events, and the tables of objects and connections that each event       *)
(* explains.                                                               *)
(*                                                                         *)
(* All writing happens in a session (Ledger.write).  BEGIN IMMEDIATE gives *)
(* the session the database's only write lock, COMMIT publishes everything *)
(* the session wrote, and an exception or the death of the process         *)
(* publishes nothing (SQLite, external).  "db" is what other connections   *)
(* see, "work" what the session sees.                                      *)
(***************************************************************************)
EXTENDS Integers, Sequences

CONSTANTS Objects,    \* object ids
          Contents,   \* what create_object compares: kind, name, properties ...
          Edges,      \* (from, relation, to) triples
          From, To,   \* their ends
          Labels,     \* connection properties
          Keys,       \* idempotency keys
          NoKey, NoRow,
          MaxEvents   \* bound on the length of the chain

ObjectRows == [content : Contents, created : Nat]
EdgeRows == [label : Labels, created : Nat, retracted : Nat]

ASSUME StoreAssumption == /\ From \in [Edges -> Objects]
                          /\ To \in [Edges -> Objects]
                          /\ NoKey \notin Keys
                          /\ NoRow \notin ObjectRows
                          /\ NoRow \notin EdgeRows
                          /\ MaxEvents \in Nat

VARIABLES db,     \* committed: log, objects, edges
          work,   \* the session's view of the same
          open,   \* a session holds the write lock
          next,   \* the session's _next_id
          prev,   \* the session's _previous_hash
          past    \* history: past.db[n], past.work[n] are the connections that
                  \* were active just after event n

vars == <<db, work, open, next, prev, past>>
-------------------------------------------------------------------------------
(* Events.                                                                 *)

Genesis == <<>>

\* Event.compute_hash: a digest of the event's core, which the idempotency key
\* is not part of.  Digests of different cores differ.
Hash(event) ==
    <<event.id, event.action, event.subject, event.payload, event.prev>>

Prepared(action, subject, payload, key) ==
    [id |-> next, action |-> action, subject |-> subject, payload |-> payload,
     key |-> key, prev |-> prev]

HasKey(log, key) == \E n \in DOMAIN log : log[n].key = key

Active(edges) == {e \in Edges : edges[e] # NoRow /\ edges[e].retracted = 0}

Empty == [log |-> <<>>,
          objects |-> [o \in Objects |-> NoRow],
          edges |-> [e \in Edges |-> NoRow]]

Init == /\ db = Empty
        /\ work = Empty
        /\ open = FALSE
        /\ next = 0
        /\ prev = Genesis
        /\ past = [db |-> <<>>, work |-> <<>>]
-------------------------------------------------------------------------------
(* The session.                                                            *)

Begin ==
    /\ ~open
    /\ open' = TRUE
    /\ next' = Len(db.log) + 1
    /\ prev' = IF db.log = <<>> THEN Genesis ELSE Hash(db.log[Len(db.log)])
    /\ UNCHANGED <<db, work, past>>

\* Mutant: _previous_hash stays at the head the session began with.
InsertUnchained(event, objects, edges) ==
    /\ open
    /\ Len(work.log) < MaxEvents
    /\ work' = [log |-> Append(work.log, event),
                objects |-> objects,
                edges |-> edges]
    /\ next' = next + 1
    /\ past' = [past EXCEPT !.work = Append(@, Active(edges))]
    /\ UNCHANGED <<db, open, prev>>

\* Insert the event with the rows it explains, and move the session's head.
Insert(event, objects, edges) ==
    /\ open
    /\ Len(work.log) < MaxEvents
    /\ work' = [log |-> Append(work.log, event),
                objects |-> objects,
                edges |-> edges]
    /\ next' = next + 1
    /\ prev' = Hash(event)
    /\ past' = [past EXCEPT !.work = Append(@, Active(edges))]
    /\ UNCHANGED <<db, open>>

\* record: an event of its own; a key that the ledger knows inserts nothing.
Record(action, subject, key) ==
    /\ key = NoKey \/ ~HasKey(work.log, key)
    /\ Insert(Prepared(action, subject, NoRow, key), work.objects, work.edges)

\* Mutant: the row is replaced when the object exists.
ReplaceObject(o, content) ==
    Insert(Prepared("object_created", o, content, NoKey),
           [work.objects EXCEPT ![o] = [content |-> content, created |-> next]],
           work.edges)

\* create_object: an identical object is returned as it is, a different one
\* raises (Abort).
CreateObject(o, content) ==
    /\ work.objects[o] = NoRow
    /\ Insert(Prepared("object_created", o, content, NoKey),
              [work.objects EXCEPT ![o] = [content |-> content, created |-> next]],
              work.edges)

\* Mutant: a retracted row is revived with the event that first created it.
Revive(e, label) ==
    LET row == work.edges[e] IN
    /\ work.objects[From[e]] # NoRow /\ work.objects[To[e]] # NoRow
    /\ e \notin Active(work.edges)
    /\ Insert(Prepared("connection_created", From[e], [edge |-> e, label |-> label], NoKey),
              work.objects,
              [work.edges EXCEPT ![e] =
                  [label |-> label, retracted |-> 0,
                   created |-> IF row = NoRow THEN next ELSE row.created]])

\* connect: the ends exist and no active row does; the row of a retracted
\* connection is reused.
Connect(e, label) ==
    /\ work.objects[From[e]] # NoRow /\ work.objects[To[e]] # NoRow
    /\ e \notin Active(work.edges)
    /\ Insert(Prepared("connection_created", From[e], [edge |-> e, label |-> label], NoKey),
              work.objects,
              [work.edges EXCEPT ![e] =
                  [label |-> label, created |-> next, retracted |-> 0]])

\* retract: the event names the connection's source and the reason, no more.
Retract(e) ==
    /\ e \in Active(work.edges)
    /\ Insert(Prepared("connection_retracted", From[e], NoRow, NoKey),
              work.objects,
              [work.edges EXCEPT ![e].retracted = next])

Close == open' = FALSE /\ next' = 0 /\ prev' = Genesis

Commit ==
    /\ open
    /\ db' = work
    /\ past' = [past EXCEPT !.db = past.work]
    /\ Close
    /\ UNCHANGED work

\* An exception leaves the session (ROLLBACK), or the process dies in it.
Abort ==
    /\ open
    /\ work' = db
    /\ past' = [past EXCEPT !.work = past.db]
    /\ Close
    /\ UNCHANGED db

Next == \/ Begin \/ Commit \/ Abort
        \/ \E o \in Objects, key \in Keys \cup {NoKey} : Record("noted", o, key)
        \/ \E o \in Objects, content \in Contents : CreateObject(o, content)
        \/ \E e \in Edges, label \in Labels : Connect(e, label)
        \/ \E e \in Edges : Retract(e)

Spec == Init /\ [][Next]_vars
-------------------------------------------------------------------------------
(* Properties.                                                             *)

\* What verify finds nothing wrong with (_check_chain): ids without a gap, and
\* each event bound to the one before it, in whatever sessions they were
\* written and however many were rolled back in between.
ChainIntact(log) ==
    \A n \in DOMAIN log :
        /\ log[n].id = n
        /\ log[n].prev = IF n = 1 THEN Genesis ELSE Hash(log[n - 1])

ChainVerifies == ChainIntact(db.log)

\* A reader sees an append-only history, to which each session adds one contiguous run
\* of the hash chain or nothing: no rollback, no failed write and no session in between
\* takes an event back, changes one, leaves a gap, or spends a key twice.
History == INSTANCE Journal WITH journal <- db.log
ImplementsJournal == History!JSpec

\* No idempotency key is spent twice.
KeysAreSpentOnce ==
    \A m, n \in DOMAIN db.log :
        db.log[m].key = db.log[n].key /\ db.log[m].key # NoKey => m = n

Created(log, o) == {n \in DOMAIN log :
    log[n].action = "object_created" /\ log[n].subject = o}
Asserted(log, e) == {n \in DOMAIN log :
    log[n].action = "connection_created" /\ log[n].payload.edge = e}

ObjectExplained(s, o) ==
    Created(s.log, o) = IF s.objects[o] = NoRow THEN {} ELSE {s.objects[o].created}

LatestAssertion(s, e) ==
    IF s.edges[e] = NoRow THEN Asserted(s.log, e) = {}
    ELSE /\ s.edges[e].created \in Asserted(s.log, e)
         /\ \A n \in Asserted(s.log, e) : n <= s.edges[e].created

RetractionExplained(s, e) ==
    LET n == s.edges[e].retracted IN
    s.edges[e] # NoRow /\ n # 0 =>
        /\ n \in DOMAIN s.log
        /\ n > s.edges[e].created
        /\ s.log[n].action = "connection_retracted"
        /\ s.log[n].subject = From[e]

Explained(s) ==
    /\ \A o \in Objects : ObjectExplained(s, o)
    /\ \A e \in Edges : LatestAssertion(s, e) /\ RetractionExplained(s, e)

\* Nothing is in the tables that an event does not explain, and the other way
\* round: one creation per object, the latest assertion of each connection, a
\* later retraction of the same source for each retracted one.
TablesFollowLog == Explained(db)

\* The connections that encoding_of and truth_of consider for until = n: the
\* current view, less what was created later.
UntilView(n) == {e \in Active(db.edges) : db.edges[e].created <= n}

\* A replay shows no connection that was not active at the time.
NoFalsePast == \A n \in DOMAIN db.log : UntilView(n) \subseteq past.db[n]
===============================================================================
