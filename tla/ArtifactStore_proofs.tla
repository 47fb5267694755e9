------------------------- MODULE ArtifactStore_proofs --------------------------
(***************************************************************************)
(* Theorems about ArtifactStore, for any artifacts, locations and types    *)
(* and any number of changes from outside: what the ledger reports of an   *)
(* artifact is right once its locations were read, and no put is refused   *)
(* over a file that nobody touched.                                        *)
(***************************************************************************)
EXTENDS ArtifactStore, TLAPS

Contents == {"none", "whole", "other"}

\* The rows of a session or of the database.
Rows == [type   : [Digests -> Types \cup {None}],
         rows   : [Digests -> [Locations -> {"present", "lost", None}]],
         unread : SUBSET (Digests \X Locations)]

\* A session works on an artifact from its put or its reverify on.
Working == at \in {"writing", "hashing", "registering", "refused"}

StoreTypeOK ==
    /\ files \in [Digests -> [Locations -> Contents]]
    /\ db \in Rows /\ work \in Rows
    /\ at \in {"idle", "open", "writing", "hashing", "registering", "refused", "reading"}
    /\ Working => /\ item.digest \in Digests
                  /\ item.type \in Types
                  /\ item.extra \subseteq Locations
    /\ at = "reading" => item.digest \in Digests

\* A row that was read tells what is in the file.
Tells(state, d, l) ==
    state.rows[d][l] # None /\ <<d, l>> \notin state.unread =>
        (state.rows[d][l] = "present" <=> Holds(d, l))

\* The artifact whose bytes a put has just hashed: its row is still to come.
Hashed(d, l) == at = "registering" /\ d = item.digest /\ l = Local

\* The committed rows tell the truth, and so do those of the session but for the row
\* that it is about to write: there the file holds the bytes, unless it changed again.
RowsTell ==
    \A d \in Digests, l \in Locations :
        /\ Tells(db, d, l)
        /\ ~Hashed(d, l) => Tells(work, d, l)
        /\ Hashed(d, l) => Holds(d, l) \/ <<d, l>> \in work.unread

\* Nobody but somebody outside leaves a wrong file below the root, or takes one away
\* before it was hashed.
Untouched ==
    /\ \A d \in Digests \ touched : files[d][Local] # "other"
    /\ at = "hashing" => item.digest \in touched \/ files[item.digest][Local] # "none"

StoreInv == StoreTypeOK /\ RowsTell /\ Untouched /\ RefusedOnlyIfTouched

LEMMA StoreStart == Init => StoreInv
<1> SUFFICES ASSUME Init PROVE StoreInv
  OBVIOUS
<1>1. StoreTypeOK
  BY DEF Init, StoreTypeOK, Rows, Contents, Empty, Working
<1>2. RowsTell
  BY DEF Init, RowsTell, Tells, Hashed, Empty
<1>3. Untouched /\ RefusedOnlyIfTouched
  BY ArtifactAssumption DEF Init, Untouched, RefusedOnlyIfTouched
<1>4. QED
  BY <1>1, <1>2, <1>3 DEF StoreInv
-------------------------------------------------------------------------------
(* The rows under the operations of the ledger.                            *)

LEMMA UnreadTypes ==
    ASSUME NEW s \in Rows, NEW u \in SUBSET (Digests \X Locations)
    PROVE  [s EXCEPT !.unread = u] \in Rows
  BY DEF Rows

LEMMA RowTypes ==
    ASSUME NEW s \in Rows, NEW f \in [Digests -> [Locations -> {"present", "lost", None}]],
           NEW u \in SUBSET (Digests \X Locations)
    PROVE  [s EXCEPT !.rows = f, !.unread = u] \in Rows
  BY DEF Rows

LEMMA RegisterTypes ==
    ASSUME NEW s \in Rows, NEW d \in Digests, NEW t \in Types, NEW added \in SUBSET Locations
    PROVE  AddLocations(RegisterArtifact(s, d, t), d, added) \in Rows
<1> DEFINE r == RegisterArtifact(s, d, t)
<1>1. r \in Rows
  BY DEF RegisterArtifact, Rows
<1> HIDE DEF r
<1> DEFINE fresh == {l \in added : r.rows[d][l] # "present"}
           f == [r.rows EXCEPT ![d] = [l \in Locations |-> IF l \in fresh THEN "present" ELSE @[l]]]
           u == r.unread \cup {<<d, l>> : l \in fresh \ {Local}}
<1>2. f \in [Digests -> [Locations -> {"present", "lost", None}]]
  BY <1>1 DEF Rows
<1>3. u \in SUBSET (Digests \X Locations)
  BY <1>1 DEF Rows
<1>4. AddLocations(r, d, added) = [r EXCEPT !.rows = f, !.unread = u]
  BY <1>1 DEF AddLocations, Rows
<1>5. [r EXCEPT !.rows = f, !.unread = u] \in Rows
  BY <1>1, <1>2, <1>3, RowTypes
<1>6. QED
  BY <1>4, <1>5 DEF r

\* What a registration writes of a location: present, and unread but at the local one.
LEMMA RegisterRow ==
    ASSUME NEW s \in Rows, NEW d \in Digests, NEW t \in Types, NEW added \in SUBSET Locations,
           NEW e \in Digests, NEW l \in Locations,
           NEW r, r = AddLocations(RegisterArtifact(s, d, t), d, added)
    PROVE  /\ s.unread \subseteq r.unread
           /\ e # d \/ l \notin added \/ s.rows[e][l] = "present" => r.rows[e][l] = s.rows[e][l]
           /\ e = d /\ l \in added => r.rows[e][l] = "present"
           /\ e = d /\ l \in added /\ l # Local /\ s.rows[e][l] # "present" => <<e, l>> \in r.unread
  BY DEF AddLocations, RegisterArtifact, Rows

LEMMA VerifyTypes ==
    ASSUME NEW s \in Rows, NEW d \in Digests, NEW l, NEW verified \in BOOLEAN
    PROVE  VerifyLocation(s, d, l, verified) \in Rows
  BY DEF VerifyLocation, Rows

\* What a verification writes: the row that it read, and nothing else.
LEMMA VerifyRow ==
    ASSUME NEW s \in Rows, NEW d \in Digests, NEW l, NEW verified \in BOOLEAN,
           NEW e \in Digests, NEW m \in Locations,
           NEW r, r = VerifyLocation(s, d, l, verified)
    PROVE  /\ e # d \/ m # l =>
                /\ r.rows[e][m] = s.rows[e][m]
                /\ <<e, m>> \in r.unread <=> <<e, m>> \in s.unread
           /\ e = d /\ m = l => r.rows[e][m] = (IF verified THEN "present" ELSE "lost")
  BY DEF VerifyLocation, Rows
-------------------------------------------------------------------------------
(* Type correctness.                                                       *)

LEMMA ChangedTypes ==
    ASSUME db \in Rows, work \in Rows, NEW d \in Digests, NEW l \in Locations, Changed(d, l)
    PROVE  db' \in Rows /\ work' \in Rows
<1>1. /\ db.unread \cup {<<d, l>>} \in SUBSET (Digests \X Locations)
      /\ work.unread \cup {<<d, l>>} \in SUBSET (Digests \X Locations)
  BY DEF Rows
<1>2. QED
  BY <1>1, UnreadTypes DEF Changed

LEMMA StoreTypes == ASSUME StoreInv, [Next]_vars PROVE StoreTypeOK'
<1> USE ArtifactAssumption DEF StoreInv, StoreTypeOK, Working
<1>1. CASE Begin \/ Commit \/ Abort
  BY <1>1 DEF Begin, Commit, Abort
<1>2. ASSUME NEW d \in Digests, NEW t \in Types, NEW extra \in SUBSET (Locations \ {Local}),
             Put(d, t, extra)
      PROVE  StoreTypeOK'
  BY <1>2 DEF Put
<1>3. CASE WriteAtomic
  <2>1. item.digest \in Digests
    BY <1>3 DEF WriteAtomic
  <2>2. db' \in Rows /\ work' \in Rows
    BY <1>3, <2>1, ChangedTypes DEF WriteAtomic
  <2>3. files' \in [Digests -> [Locations -> Contents]]
    BY <1>3 DEF WriteAtomic, Contents
  <2>4. QED
    BY <1>3, <2>2, <2>3 DEF WriteAtomic
<1>4. CASE HashStored
  <2>1. work.unread \ {<<item.digest, Local>>} \in SUBSET (Digests \X Locations)
    BY DEF Rows
  <2>2. work' \in Rows
    <3>1. [work EXCEPT !.unread = @ \ {<<item.digest, Local>>}] \in Rows
      BY <2>1, UnreadTypes
    <3>2. QED
      BY <1>4, <3>1 DEF HashStored
  <2>3. QED
    BY <1>4, <2>2 DEF HashStored
<1>5. CASE Register
  <2>1. item.extra \cup {Local} \in SUBSET Locations
    BY <1>5 DEF Register
  <2>2. work' \in Rows
    BY <1>5, <2>1, RegisterTypes DEF Register
  <2>3. QED
    BY <1>5, <2>2 DEF Register
<1>6. ASSUME NEW d \in Digests, Reverify(d) PROVE StoreTypeOK'
  BY <1>6 DEF Reverify, NoItem
<1>7. CASE ReadLocation
  <2>1. Holds(item.digest, Head(todo)) \in BOOLEAN
    BY DEF Holds
  <2>2. work' \in Rows
    BY <1>7, <2>1, VerifyTypes DEF ReadLocation
  <2>3. QED
    BY <1>7, <2>2 DEF ReadLocation
<1>8. CASE ReverifyEnds
  BY <1>8 DEF ReverifyEnds
<1>9. ASSUME NEW d \in Digests, NEW l \in Locations, LoseLocation(d, l) PROVE StoreTypeOK'
  <2>1. [work.rows EXCEPT ![d][l] = "lost"] \in [Digests -> [Locations -> {"present", "lost", None}]]
    BY DEF Rows
  <2>2. work.unread \cup {<<d, l>>} \in SUBSET (Digests \X Locations)
    BY DEF Rows
  <2>3. work' = [work EXCEPT !.rows = [work.rows EXCEPT ![d][l] = "lost"],
                             !.unread = work.unread \cup {<<d, l>>}]
    BY <1>9 DEF LoseLocation, Rows
  <2>4. work' \in Rows
    BY <2>1, <2>2, <2>3, RowTypes
  <2>5. QED
    BY <1>9, <2>4 DEF LoseLocation
<1>10. ASSUME NEW d \in Digests, NEW l \in Locations, NEW c \in Contents, Touch(d, l, c)
       PROVE  StoreTypeOK'
  <2>1. db' \in Rows /\ work' \in Rows
    BY <1>10, ChangedTypes DEF Touch
  <2>2. files' \in [Digests -> [Locations -> Contents]]
    BY <1>10 DEF Touch
  <2>3. QED
    BY <1>10, <2>1, <2>2 DEF Touch
<1>11. CASE UNCHANGED vars
  BY <1>11 DEF vars
<1>12. QED
  BY <1>1, <1>2, <1>3, <1>4, <1>5, <1>6, <1>7, <1>8, <1>9, <1>10, <1>11 DEF Next, Contents
-------------------------------------------------------------------------------
(* The rows tell the truth.                                                *)

\* Where a file changes, every reader of the rows still has to read it.
LEMMA ChangedTells ==
    ASSUME StoreInv, NEW d \in Digests, NEW l \in Locations, NEW c,
           files' = [files EXCEPT ![d][l] = c], Changed(d, l)
    PROVE  \A e \in Digests, m \in Locations :
              /\ Tells(db, e, m) => Tells(db, e, m)'
              /\ Tells(work, e, m) => Tells(work, e, m)'
              /\ Holds(e, m) \/ <<e, m>> \in work.unread =>
                    Holds(e, m)' \/ <<e, m>> \in work'.unread
<1> USE DEF StoreInv, StoreTypeOK
<1> TAKE e \in Digests, m \in Locations
<1>1. CASE e = d /\ m = l
  BY <1>1 DEF Changed, Tells, Rows
<1>2. CASE ~(e = d /\ m = l)
  <2>1. files'[e][m] = files[e][m]
    BY <1>2
  <2>2. /\ db'.rows = db.rows /\ work'.rows = work.rows
        /\ <<e, m>> \in db'.unread <=> <<e, m>> \in db.unread
        /\ <<e, m>> \in work'.unread <=> <<e, m>> \in work.unread
    BY <1>2 DEF Changed, Rows
  <2>3. QED
    BY <2>1, <2>2 DEF Tells, Holds
<1>3. QED
  BY <1>1, <1>2

LEMMA StoreTells == ASSUME StoreInv, [Next]_vars PROVE RowsTell'
<1> USE ArtifactAssumption DEF StoreInv, StoreTypeOK
<1> SUFFICES ASSUME NEW e \in Digests, NEW m \in Locations
             PROVE  /\ Tells(db, e, m)'
                    /\ ~Hashed(e, m)' => Tells(work, e, m)'
                    /\ Hashed(e, m)' => Holds(e, m)' \/ <<e, m>> \in work'.unread
  BY DEF RowsTell
<1>0. /\ Tells(db, e, m)
      /\ ~Hashed(e, m) => Tells(work, e, m)
      /\ Hashed(e, m) => Holds(e, m) \/ <<e, m>> \in work.unread
  BY DEF RowsTell
<1> DEFINE Unwritten == UNCHANGED <<files, db, work>> /\ at # "registering" /\ at' # "registering"
<1>1. CASE Unwritten
  BY <1>0, <1>1 DEF Tells, Holds, Hashed
<1>2. CASE Commit \/ Abort
  BY <1>0, <1>2 DEF Commit, Abort, Tells, Holds, Hashed
<1>3. CASE WriteAtomic
  <2>1. ~Hashed(e, m) /\ ~Hashed(e, m)'
    BY <1>3 DEF WriteAtomic, Hashed
  <2>2. item.digest \in Digests
    BY <1>3 DEF WriteAtomic, Working
  <2>3. QED
    BY <1>0, <1>3, <2>1, <2>2, ChangedTells DEF WriteAtomic
<1>4. CASE HashStored
  <2>1. CASE Holds(item.digest, Local)
    <3>1. Hashed(e, m)' <=> e = item.digest /\ m = Local
      BY <1>4, <2>1 DEF HashStored, Hashed
    <3>2. CASE e = item.digest /\ m = Local
      BY <1>0, <1>4, <2>1, <3>1, <3>2 DEF HashStored, Tells, Holds
    <3>3. CASE ~(e = item.digest /\ m = Local)
      <4>1. work'.rows = work.rows /\ (<<e, m>> \in work'.unread <=> <<e, m>> \in work.unread)
        BY <1>4, <2>1, <3>3 DEF HashStored, Rows
      <4>2. ~Hashed(e, m)
        BY <1>4 DEF HashStored, Hashed
      <4>3. UNCHANGED <<files, db>>
        BY <1>4 DEF HashStored
      <4>4. QED
        BY <1>0, <3>1, <3>3, <4>1, <4>2, <4>3 DEF Tells, Holds
    <3>4. QED
      BY <3>2, <3>3
  <2>2. CASE ~Holds(item.digest, Local)
    BY <1>1, <1>4, <2>2 DEF HashStored
  <2>3. QED
    BY <2>1, <2>2
<1>5. CASE Register
  <2>0. /\ item.digest \in Digests /\ item.type \in Types
        /\ item.extra \cup {Local} \in SUBSET Locations
    BY <1>5 DEF Register, Working
  <2> DEFINE added == item.extra \cup {Local}
  <2>1. /\ work.unread \subseteq work'.unread
        /\ e # item.digest \/ m \notin added \/ work.rows[e][m] = "present" =>
              work'.rows[e][m] = work.rows[e][m]
        /\ e = item.digest /\ m \in added => work'.rows[e][m] = "present"
        /\ e = item.digest /\ m \in added /\ m # Local /\ work.rows[e][m] # "present" =>
              <<e, m>> \in work'.unread
    BY <1>5, <2>0, RegisterRow DEF Register
  <2>2. UNCHANGED <<files, db>> /\ at' # "registering" /\ at = "registering"
    BY <1>5 DEF Register
  <2>3. Hashed(e, m) <=> e = item.digest /\ m = Local
    BY <2>2 DEF Hashed
  <2>4. ~Hashed(e, m)' /\ Tells(db, e, m)'
    BY <1>0, <2>2 DEF Tells, Holds, Hashed
  <2>5. Tells(work, e, m)'
    <3>1. CASE Hashed(e, m)
      BY <1>0, <2>1, <2>2, <2>3, <3>1 DEF Tells, Holds
    <3>2. CASE ~Hashed(e, m)
      BY <1>0, <2>1, <2>2, <2>3, <3>2 DEF Tells, Holds
    <3>3. QED
      BY <3>1, <3>2
  <2>6. QED
    BY <2>4, <2>5
<1>6. CASE ReadLocation
  <2>1. item.digest \in Digests /\ at' = "reading" /\ at = "reading" /\ UNCHANGED <<files, db>>
    BY <1>6 DEF ReadLocation
  <2>2. Holds(item.digest, Head(todo)) \in BOOLEAN
    BY DEF Holds
  <2> DEFINE l == Head(todo)
  <2>3. /\ e # item.digest \/ m # l =>
              /\ work'.rows[e][m] = work.rows[e][m]
              /\ <<e, m>> \in work'.unread <=> <<e, m>> \in work.unread
        /\ e = item.digest /\ m = l =>
              work'.rows[e][m] = (IF Holds(item.digest, l) THEN "present" ELSE "lost")
    BY <1>6, <2>1, <2>2, VerifyRow DEF ReadLocation
  <2> HIDE DEF l
  <2>4. ~Hashed(e, m) /\ ~Hashed(e, m)' /\ Tells(db, e, m)'
    BY <1>0, <2>1 DEF Tells, Holds, Hashed
  <2>5. QED
    BY <1>0, <2>1, <2>3, <2>4 DEF Tells, Holds
<1>7. ASSUME NEW d \in Digests, NEW l \in Locations, LoseLocation(d, l)
      PROVE  /\ Tells(db, e, m)'
             /\ ~Hashed(e, m)' => Tells(work, e, m)'
             /\ Hashed(e, m)' => Holds(e, m)' \/ <<e, m>> \in work'.unread
  <2>1. /\ <<e, m>> \in work'.unread <=> <<e, m>> \in work.unread \/ (e = d /\ m = l)
        /\ e # d \/ m # l => work'.rows[e][m] = work.rows[e][m]
    BY <1>7 DEF LoseLocation, Rows
  <2>2. at = "open" /\ at' = "open" /\ UNCHANGED <<files, db>>
    BY <1>7 DEF LoseLocation
  <2>3. QED
    BY <1>0, <2>1, <2>2 DEF Tells, Holds, Hashed
<1>8. ASSUME NEW d \in Digests, NEW l \in Locations, NEW c \in Contents, Touch(d, l, c)
      PROVE  /\ Tells(db, e, m)'
             /\ ~Hashed(e, m)' => Tells(work, e, m)'
             /\ Hashed(e, m)' => Holds(e, m)' \/ <<e, m>> \in work'.unread
  <2>1. Hashed(e, m)' <=> Hashed(e, m)
    BY <1>8 DEF Touch, Hashed
  <2>2. QED
    BY <1>0, <1>8, <2>1, ChangedTells DEF Touch
<1>9. CASE Begin \/ ReverifyEnds \/ \E d \in Digests : Reverify(d)
  BY <1>1, <1>9 DEF Begin, ReverifyEnds, Reverify
<1>10. CASE \E d \in Digests, t \in Types, extra \in SUBSET (Locations \ {Local}) : Put(d, t, extra)
  BY <1>1, <1>10 DEF Put
<1>11. CASE UNCHANGED vars
  BY <1>0, <1>11 DEF vars, Tells, Holds, Hashed
<1>12. QED
  BY <1>2, <1>3, <1>4, <1>5, <1>6, <1>7, <1>8, <1>9, <1>10, <1>11 DEF Next, Contents
-------------------------------------------------------------------------------
(* Who leaves a wrong file.                                                *)

LEMMA StoreUntouched == ASSUME StoreInv, [Next]_vars PROVE Untouched' /\ RefusedOnlyIfTouched'
<1> USE ArtifactAssumption DEF StoreInv, StoreTypeOK, Untouched, RefusedOnlyIfTouched
<1>1. CASE Begin \/ Commit \/ Abort \/ Register \/ ReadLocation \/ ReverifyEnds
           \/ (\E d \in Digests : Reverify(d))
           \/ (\E d \in Digests, l \in Locations : LoseLocation(d, l))
  <2>1. UNCHANGED <<files, touched>> /\ at' \notin {"hashing", "refused"}
    BY <1>1 DEF Begin, Commit, Abort, Register, ReadLocation, ReverifyEnds, Reverify, LoseLocation
  <2>2. QED
    BY <2>1
<1>2. ASSUME NEW d \in Digests, NEW t \in Types, NEW extra \in SUBSET (Locations \ {Local}),
             Put(d, t, extra)
      PROVE  Untouched' /\ RefusedOnlyIfTouched'
  BY <1>2 DEF Put
<1>3. CASE WriteAtomic
  BY <1>3 DEF WriteAtomic, Working
<1>4. CASE HashStored
  BY <1>4 DEF HashStored, Holds, Working, Contents
<1>5. ASSUME NEW d \in Digests, NEW l \in Locations, NEW c \in Contents, Touch(d, l, c)
      PROVE  Untouched' /\ RefusedOnlyIfTouched'
  <2>1. touched \subseteq touched' /\ UNCHANGED <<at, item>> /\ (l = Local => d \in touched')
    BY <1>5 DEF Touch
  <2>2. \A e \in Digests : e # d \/ l # Local => files'[e][Local] = files[e][Local]
    BY <1>5 DEF Touch
  <2>3. at = "hashing" => item.digest \in Digests
    BY DEF Working
  <2>4. QED
    BY <2>1, <2>2, <2>3
<1>6. CASE UNCHANGED vars
  BY <1>6 DEF vars
<1>7. QED
  BY <1>1, <1>2, <1>3, <1>4, <1>5, <1>6 DEF Next, Contents

LEMMA StoreInvariant == Spec => []StoreInv
<1>1. StoreInv /\ [Next]_vars => StoreInv'
  BY StoreTypes, StoreTells, StoreUntouched DEF StoreInv
<1>2. QED
  BY StoreStart, <1>1, PTL DEF Spec
-------------------------------------------------------------------------------
(* Theorems.                                                               *)

\* Every variable of the store keeps its type (artifacts.py, store.py).
THEOREM StoreTypeCorrect == Spec => []StoreTypeOK
<1>1. StoreInv => StoreTypeOK
  BY DEF StoreInv
<1>2. QED
  BY <1>1, StoreInvariant, PTL

\* What the ledger reports of an artifact, each known location of which was read since
\* it changed, is what the files are (_check_artifacts).
THEOREM StoreReportsTellTheTruth == Spec => []ReportsTellTheTruth
<1>1. ASSUME StoreInv PROVE ReportsTellTheTruth
  <2> SUFFICES ASSUME NEW d \in Digests, db.type[d] # None, Read(d)
               PROVE  /\ d \in WithoutLocation <=> Copies(d) = {}
                      /\ d \in UnderReplicated <=> /\ db.type[d] \in Replicated
                                                   /\ Cardinality(Copies(d)) < MinimumCopies
                      /\ d \in Corrupt => Local \notin Present(d)
    BY DEF ReportsTellTheTruth
  <2>1. \A l \in Known(db, d) : db.rows[d][l] = "present" <=> Holds(d, l)
    BY <1>1 DEF StoreInv, RowsTell, Tells, Read, Known
  <2>2. Present(d) = Copies(d)
    <3>1. Present(d) \subseteq Known(db, d)
      BY <1>1, ArtifactAssumption DEF Present, Known
    <3>2. QED
      BY <2>1, <3>1 DEF Present, Copies, Known
  <2>3. d \in Corrupt => Local \notin Copies(d)
    BY DEF Corrupt, Copies
  <2>4. QED
    BY <2>2, <2>3 DEF WithoutLocation, UnderReplicated
<1>2. QED
  BY <1>1, StoreInvariant, PTL

\* A put is refused over a file only if somebody outside touched it (put_bytes).
THEOREM StoreRefusesOnlyTouched == Spec => []RefusedOnlyIfTouched
<1>1. StoreInv => RefusedOnlyIfTouched
  BY DEF StoreInv
<1>2. QED
  BY <1>1, StoreInvariant, PTL
===============================================================================
