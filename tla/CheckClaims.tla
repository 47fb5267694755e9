------------------------------ MODULE CheckClaims ------------------------------
(***************************************************************************)
(* The formal claims of successful checks (DurableCheckQueue.complete),    *)
(* their withdrawal (invalidate), and the certification and promotion of   *)
(* claims (ledger/evaluation.py).                                          *)
(*                                                                         *)
(* A claim is identified by its proposition, so several checks may produce *)
(* the same one.  Each session is one transaction (LedgerStore); only      *)
(* invalidate reads outside of it, hence its two steps.  What becomes of   *)
(* the check itself is CheckQueue's concern: here it is under way until it *)
(* ends once.                                                              *)
(***************************************************************************)
CONSTANTS Checks,
          Claims,     \* formal claims, focus goals among them
          Produces,   \* the claims a check's declarations state
          Needs,      \* their direct dependencies, pairs of those claims
          Focus,      \* the claims that the check's scope targets
          Withdrawers \* callers of invalidate

ASSUME ClaimsAssumption ==
    /\ Produces \in [Checks -> SUBSET Claims]
    /\ Focus \in [Checks -> SUBSET Claims]
    /\ \A c \in Checks : Needs[c] \subseteq Produces[c] \X Produces[c]

VARIABLES ended,      \* check -> "no", "completed" or "failed"
          retracted,  \* checks whose lifecycle is retracted
          known,      \* claims in the ledger
          produced,   \* active edges: produced_by, advances, depends_on
          advances,
          depends,
          certified,  \* claims with a kernel_certified event
          included,   \* claims with an included_in edge
          listed      \* per withdrawer: the check and the claims it has read

claimVars == <<ended, retracted, known, produced, advances, depends, certified,
               included, listed>>

Idle == [check |-> {}, claims |-> {}]

CTypeOK == /\ ended \in [Checks -> {"no", "completed", "failed"}]
           /\ retracted \subseteq Checks
           /\ known \subseteq Claims
           /\ produced \subseteq known \X Checks
           /\ advances \subseteq known \X Claims
           /\ depends \subseteq known \X known
           /\ included \subseteq certified /\ certified \subseteq known
           /\ \A w \in Withdrawers : \E c \in SUBSET Checks, k \in SUBSET Claims :
                 listed[w] = [check |-> c, claims |-> k]

ClaimsInit ==
    /\ ended = [c \in Checks |-> "no"]
    /\ retracted = {} /\ known = {}
    /\ produced = {} /\ advances = {} /\ depends = {}
    /\ certified = {} /\ included = {}
    /\ listed = [w \in Withdrawers |-> Idle]
-------------------------------------------------------------------------------
(* complete *)

Relevance(c) == {e \in Produces[c] \X Focus[c] : e[1] # e[2]}

\* A successful check writes its claims with what they rest on and are for.
Complete(c) ==
    /\ ended[c] = "no"
    /\ ended' = [ended EXCEPT ![c] = "completed"]
    /\ known' = known \cup Produces[c]
    /\ produced' = produced \cup (Produces[c] \X {c})
    /\ advances' = advances \cup Relevance(c)
    /\ depends' = depends \cup Needs[c]
    /\ UNCHANGED <<retracted, certified, included, listed>>

Fail(c) == /\ ended[c] = "no"
           /\ ended' = [ended EXCEPT ![c] = "failed"]
           /\ UNCHANGED <<retracted, known, produced, advances, depends, certified,
                          included, listed>>
-------------------------------------------------------------------------------
(* invalidate: the claims are listed before the transaction begins.        *)

InvalidateRead(w, c) ==
    /\ listed[w] = Idle
    /\ listed' = [listed EXCEPT ![w] =
          [check |-> {c}, claims |-> {k \in Claims : <<k, c>> \in produced}]]
    /\ UNCHANGED <<ended, retracted, known, produced, advances, depends, certified,
                   included>>

\* The checks that still produce a claim, given the withdrawn ones.
ActiveChecks(k, edges, withdrawn) == {c \in Checks \ withdrawn : <<k, c>> \in edges}

Withdrawing(w, claims) ==
    /\ retracted' = retracted \cup listed[w].check
    /\ produced' = produced \ (listed[w].claims \X listed[w].check)
    /\ advances' = {e \in advances : e[1] \notin claims}
    /\ depends' = {e \in depends : e[1] \notin claims}
    /\ listed' = [listed EXCEPT ![w] = Idle]
    /\ UNCHANGED <<ended, known, certified, included>>

\* Mutant: claims of other active checks lose their relevance too.
InvalidateShared(w) ==
    /\ listed[w] # Idle
    /\ Withdrawing(w, {k \in listed[w].claims : k \notin included})

\* Mutant: so do promoted claims.
InvalidatePromoted(w) ==
    /\ listed[w] # Idle
    /\ Withdrawing(w, {k \in listed[w].claims : ActiveChecks(k, produced', retracted') = {}})

\* Mutant: the active checks are read before the withdrawal is written.
InvalidateEarly(w) ==
    /\ listed[w] # Idle
    /\ Withdrawing(w, {k \in listed[w].claims :
          ActiveChecks(k, produced, retracted) = {} /\ k \notin included})

\* Provenance first, then the relevance edges of claims that no active check
\* produces and no promotion includes.
InvalidateCommit(w) ==
    /\ listed[w] # Idle
    /\ Withdrawing(w, {k \in listed[w].claims :
          ActiveChecks(k, produced', retracted') = {} /\ k \notin included})

\* The database is busy or the caller dies; nothing was written.
InvalidateLost(w) ==
    /\ listed[w] # Idle
    /\ listed' = [listed EXCEPT ![w] = Idle]
    /\ UNCHANGED <<ended, retracted, known, produced, advances, depends, certified,
                   included>>
-------------------------------------------------------------------------------
(* record_authoritative_evaluation and record_promotion *)

\* A correct candidate certifies the known claims that its source declares.
Certify(claims) ==
    /\ claims \subseteq known
    /\ certified' = certified \cup claims
    /\ UNCHANGED <<ended, retracted, known, produced, advances, depends, included, listed>>

\* The promoted source includes certified claims that it declares.
Promote(claims) ==
    /\ claims \subseteq certified
    /\ included' = included \cup claims
    /\ UNCHANGED <<ended, retracted, known, produced, advances, depends, certified, listed>>

ClaimsNext ==
    \/ \E c \in Checks : Complete(c) \/ Fail(c)
    \/ \E w \in Withdrawers : \/ \E c \in Checks : InvalidateRead(w, c)
                              \/ InvalidateCommit(w) \/ InvalidateLost(w)
    \/ \E claims \in SUBSET Claims : Certify(claims) \/ Promote(claims)

ClaimsSpec == ClaimsInit /\ [][ClaimsNext]_claimVars
-------------------------------------------------------------------------------
(* Properties.                                                             *)

\* A withdrawal never costs another check anything: whatever a check that
\* stands has established stays, although its claims are shared and other
\* withdrawals decide on claims they listed earlier.
ActiveChecksStand ==
    \A c \in Checks : ended[c] = "completed" /\ c \notin retracted =>
        /\ Produces[c] \X {c} \subseteq produced
        /\ Relevance(c) \subseteq advances
        /\ Needs[c] \subseteq depends

\* No relevance edge outlives the last check that produced its claim, unless the
\* claim was promoted.
EdgesAreFounded ==
    \A e \in advances \cup depends :
        e[1] \in included \/ \E c \in Checks : <<e[1], c>> \in produced

\* "Preserve mathematical relevance edges": a promoted claim loses none.
PromotedKeepRelevance ==
    [][\A k \in included : \A e \in advances \cup depends :
          e[1] = k => e \in advances' \cup depends']_claimVars
===============================================================================
