----------------------------- MODULE ArtifactStore -----------------------------
(***************************************************************************)
(* The content-addressed store (ledger/artifacts.py) and what the ledger   *)
(* says of it (store.py): which bytes are registered, as what, and at      *)
(* which locations they were seen.                                         *)
(*                                                                         *)
(* A session owns the ledger's write lock (LedgerStore): its rows are      *)
(* published by its commit or not at all, but the files that it wrote stay *)
(* however it ends.  Somebody else may remove, damage or restore any file  *)
(* at any time.                                                            *)
(***************************************************************************)
EXTENDS Naturals, Sequences, SequencesExt, FiniteSets

CONSTANTS Digests,
          Locations,   \* paths; their order is that of Listing
          Listing,
          Local,       \* the one below the root of the store
          Types,
          Replicated,  \* REPLICATED_TYPES
          None,
          MaxTouches   \* a bound on what happens to files from outside

ASSUME ArtifactAssumption ==
    /\ Local \in Locations /\ Replicated \subseteq Types /\ MaxTouches \in Nat
    /\ Listing \in Seq(Locations) /\ ToSet(Listing) = Locations
    /\ None \notin Types \cup Digests \cup {"present", "lost"}

MinimumCopies == 2

VARIABLES files,   \* digest -> location -> what is there
          db,      \* committed: type and locations of the artifacts
          work,    \* the same as the session sees it
          at,      \* where the session is
          item,    \* the artifact that it works on
          todo,    \* locations that reverify has to read
          touches, \* from outside
          touched  \* history: artifacts whose local file somebody touched

vars == <<files, db, work, at, item, todo, touches, touched>>

NoItem == [digest |-> None, type |-> None, extra |-> {}]

\* `unread` is history: locations of which the row has not been compared with the file
\* since either of them changed otherwise.
Empty == [type   |-> [d \in Digests |-> None],
          rows   |-> [d \in Digests |-> [l \in Locations |-> None]],
          unread |-> {}]

Init == /\ files = [d \in Digests |-> [l \in Locations |-> "none"]]
        /\ db = Empty /\ work = Empty
        /\ at = "idle" /\ item = NoItem /\ todo = <<>>
        /\ touches = 0 /\ touched = {}

\* History: a file changed, for every reader of the rows.
Changed(d, l) == /\ db'   = [db EXCEPT !.unread = @ \cup {<<d, l>>}]
                 /\ work' = [work EXCEPT !.unread = @ \cup {<<d, l>>}]

\* A file is removed, damaged or put back.
Touch(d, l, content) ==
    /\ touches < MaxTouches /\ content # files[d][l]
    /\ files' = [files EXCEPT ![d][l] = content]
    /\ touches' = touches + 1
    /\ touched' = IF l = Local THEN touched \cup {d} ELSE touched
    /\ Changed(d, l)
    /\ UNCHANGED <<at, item, todo>>
-------------------------------------------------------------------------------
(* The session *)

Begin == /\ at = "idle" /\ at' = "open"
         /\ UNCHANGED <<files, db, work, item, todo, touches, touched>>

Commit == /\ at = "open" /\ at' = "idle"
          /\ db' = work
          /\ UNCHANGED <<files, work, item, todo, touches, touched>>

\* An exception, or the death of the process, wherever it is.
Abort == /\ at # "idle" /\ at' = "idle"
         /\ work' = db /\ item' = NoItem /\ todo' = <<>>
         /\ UNCHANGED <<files, db, touches, touched>>
-------------------------------------------------------------------------------
(* store_and_register: put_bytes, register_artifact, add_location *)

\* verify, and the hash that ends put_bytes.
Holds(d, l) == files[d][l] = "whole"

\* A file that is there already is not written again.
Put(d, type, extra) ==
    /\ at = "open"
    /\ item' = [digest |-> d, type |-> type, extra |-> extra]
    /\ at' = IF files[d][Local] = "none" THEN "writing" ELSE "hashing"
    /\ UNCHANGED <<files, db, work, todo, touches, touched>>

\* Mutant: the bytes are written under their name.
WriteInPlace ==
    /\ at = "writing"
    /\ IF files[item.digest][Local] = "none"
       THEN files' = [files EXCEPT ![item.digest][Local] = "other"] /\ at' = at
       ELSE files' = [files EXCEPT ![item.digest][Local] = "whole"] /\ at' = "hashing"
    /\ Changed(item.digest, Local)
    /\ UNCHANGED <<item, todo, touches, touched>>

\* A temporary file, complete and synced, takes the name.  Before that an end of the
\* session leaves nothing under it.
WriteAtomic ==
    /\ at = "writing"
    /\ files' = [files EXCEPT ![item.digest][Local] = "whole"]
    /\ at' = "hashing"
    /\ Changed(item.digest, Local)
    /\ UNCHANGED <<item, todo, touches, touched>>

\* Mutant: what has the name has the bytes.
TrustName ==
    /\ at = "hashing"
    /\ at' = "registering"
    /\ work' = [work EXCEPT !.unread = @ \ {<<item.digest, Local>>}]
    /\ UNCHANGED <<files, db, item, todo, touches, touched>>

\* Bytes that were removed in between raise as well.
HashStored ==
    /\ at = "hashing"
    /\ IF Holds(item.digest, Local)
       THEN /\ at' = "registering"
            /\ work' = [work EXCEPT !.unread = @ \ {<<item.digest, Local>>}]
       ELSE at' = "refused" /\ UNCHANGED work
    /\ UNCHANGED <<files, db, item, todo, touches, touched>>

\* Rows that are not present are added, whatever the file holds.
AddLocations(state, d, added) ==
    LET fresh == {l \in added : state.rows[d][l] # "present"}
    IN  [state EXCEPT !.rows[d] = [l \in Locations |-> IF l \in fresh THEN "present" ELSE @[l]],
                      !.unread = @ \cup {<<d, l>> : l \in fresh \ {Local}}]

\* The type of the first registration stays.
RegisterArtifact(state, d, type) ==
    [state EXCEPT !.type[d] = IF @ = None THEN type ELSE @]

Register ==
    /\ at = "registering"
    /\ work' = AddLocations(RegisterArtifact(work, item.digest, item.type),
                            item.digest, item.extra \cup {Local})
    /\ at' = "open" /\ item' = NoItem
    /\ UNCHANGED <<files, db, todo, touches, touched>>
-------------------------------------------------------------------------------
(* reverify, lose_location *)

Known(state, d) == {l \in Locations : state.rows[d][l] # None}

\* The artifact has to be registered.
Reverify(d) ==
    /\ at = "open" /\ work.type[d] # None
    /\ at' = "reading" /\ item' = [NoItem EXCEPT !.digest = d]
    /\ todo' = SelectSeq(Listing, LAMBDA l : l \in Known(work, d))
    /\ UNCHANGED <<files, db, work, touches, touched>>

VerifyLocation(state, d, l, verified) ==
    [state EXCEPT !.rows[d][l] = IF verified THEN "present" ELSE "lost",
                  !.unread = @ \ {<<d, l>>}]

ReadLocation ==
    /\ at = "reading" /\ todo # <<>>
    /\ work' = VerifyLocation(work, item.digest, Head(todo), Holds(item.digest, Head(todo)))
    /\ todo' = Tail(todo)
    /\ UNCHANGED <<files, db, at, item, touches, touched>>

ReverifyEnds == /\ at = "reading" /\ todo = <<>>
                /\ at' = "open" /\ item' = NoItem
                /\ UNCHANGED <<files, db, work, todo, touches, touched>>

\* Somebody says so; nothing is read.
LoseLocation(d, l) ==
    /\ at = "open" /\ work.type[d] # None
    /\ l \in Known(work, d) /\ work.rows[d][l] # "lost"
    /\ work' = [work EXCEPT !.rows[d][l] = "lost", !.unread = @ \cup {<<d, l>>}]
    /\ UNCHANGED <<files, db, at, item, todo, touches, touched>>

Next == \/ Begin \/ Commit \/ Abort
        \/ \E d \in Digests, t \in Types, extra \in SUBSET (Locations \ {Local}) : Put(d, t, extra)
        \/ WriteAtomic \/ HashStored \/ Register
        \/ \E d \in Digests : Reverify(d)
        \/ ReadLocation \/ ReverifyEnds
        \/ \E d \in Digests, l \in Locations :
              LoseLocation(d, l) \/ \E c \in {"none", "whole", "other"} : Touch(d, l, c)

Spec == Init /\ [][Next]_vars
-------------------------------------------------------------------------------
(* What the ledger reports (integrity._check_artifacts) *)

Present(d) == {l \in Locations : db.rows[d][l] = "present"}

WithoutLocation == {d \in Digests : db.type[d] # None /\ Present(d) = {}}

UnderReplicated == {d \in Digests : /\ db.type[d] \in Replicated
                                    /\ Cardinality(Present(d)) < MinimumCopies}

\* The deep check reads the local file.
Corrupt == {d \in Digests : /\ db.type[d] # None
                            /\ files[d][Local] # "none" /\ ~Holds(d, Local)}
-------------------------------------------------------------------------------
(* Properties *)

Read(d) == \A l \in Known(db, d) : <<d, l>> \notin db.unread
Copies(d) == {l \in Known(db, d) : Holds(d, l)}

\* Whatever sessions crash, roll back, put again or reverify, the reports are right
\* about an artifact of which each known location was read since it changed: bytes
\* are without a location if no location has them, at risk if fewer than two have
\* them, and not corrupt if the local row says that they are there.
ReportsTellTheTruth ==
    \A d \in Digests : db.type[d] # None /\ Read(d) =>
        /\ d \in WithoutLocation <=> Copies(d) = {}
        /\ d \in UnderReplicated <=> /\ db.type[d] \in Replicated
                                     /\ Cardinality(Copies(d)) < MinimumCopies
        /\ d \in Corrupt => Local \notin Present(d)

\* No crash leaves bytes under a name that they do not have, in the way of those
\* that belong there: a put is refused only where somebody else touched the file.
RefusedOnlyIfTouched == at = "refused" => item.digest \in touched
===============================================================================
