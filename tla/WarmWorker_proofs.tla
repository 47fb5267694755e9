-------------------------- MODULE WarmWorker_proofs ---------------------------
(***************************************************************************)
(* Theorems about what a client reaches when it asks for a check.          *)
(* WorkerSocket: the path leads to the service that serves, and a call     *)
(* hands its request to one service, for every number of clients,          *)
(* launchers, crashes and signals. LeanServer: a verdict tells the whole   *)
(* truth about its document, and a check of a dead server is never said to *)
(* have timed out.                                                         *)
(***************************************************************************)
EXTENDS WorkerSocket, LeanServer, SequenceTheorems, TLAPS
-------------------------------------------------------------------------------
(* WorkerSocket                                                            *)

\* Why nobody else touches the path: only the holder of the lock does.
OneHolder == \A s, t \in Services : Holding(s) /\ Holding(t) => s = t

\* A request was sent only by a call that no longer tries.
SentOnce == \A c \in Clients :
    /\ call[c] \in {"idle", "refused", "polling"} => delivered[c] = {}
    /\ \A s, t \in delivered[c] : s = t

SocketInv == TypeOK /\ OneHolder /\ LiveListenerReachable /\ SentOnce

LEMMA SocketStart == SocketInit => SocketInv
  BY SocketAssumption DEF SocketInit, SocketInv, TypeOK, ProcStates, OneHolder, Holding,
     LiveListenerReachable, SentOnce

LEMMA SocketTypes == ASSUME SocketInv, [SocketNext]_socketVars PROVE TypeOK'
<1> USE DEF SocketInv, TypeOK, ProcStates, threadVars, callVars, Become, Services
<1>1. ASSUME NEW s \in Services, Launch(s) \/ Lock(s) \/ Listen(s) \/ IdleExit(s) \/ StopExit(s)
      PROVE  TypeOK'
  BY <1>1 DEF Launch, Lock, Listen, IdleExit, StopExit
<1>2. ASSUME NEW s \in Services, UnlinkStale(s) \/ Bind(s) \/ Unlink(s) PROVE TypeOK'
  BY <1>2 DEF UnlinkStale, Bind, Unlink
<1>3. ASSUME NEW s \in Services, CloseListener(s) PROVE TypeOK'
  BY <1>3 DEF CloseListener, Hangup
<1>4. ASSUME NEW s \in Services, Exit(s) \/ Crash(s) PROVE TypeOK'
  BY <1>4, SocketAssumption DEF Exit, Crash, Gone, Hangup, Fault
<1>5. ASSUME NEW s \in Services, Signal(s) \/ Raises(s) PROVE TypeOK'
  BY <1>5, SocketAssumption DEF Signal, Raises, Fault
<1>6. ASSUME NEW s \in Services, NEW c \in Clients, ThreadStep(s, c) PROVE TypeOK'
  BY <1>6 DEF ThreadStep, Accept, Answer, HandlerFails, SendReply
<1>7. ASSUME NEW c \in Clients, NEW s \in Services, SendRequest(c, s) PROVE TypeOK'
  BY <1>7 DEF SendRequest
<1>8. ASSUME NEW c \in Clients, Refused(c) \/ Respawn(c) \/ GiveUp(c) \/ CheckEnds(c)
      PROVE  TypeOK'
  BY <1>8 DEF Refused, Respawn, GiveUp, CheckEnds
<1>9. CASE UNCHANGED socketVars
  BY <1>9 DEF socketVars
<1>10. QED
  BY <1>1, <1>2, <1>3, <1>4, <1>5, <1>6, <1>7, <1>8, <1>9
     DEF SocketNext, ServiceStep, ClientStep, Request, Poll

\* One process holds the lock, and only its holder touches the path.
LEMMA SocketPath == ASSUME SocketInv, [SocketNext]_socketVars
                    PROVE  OneHolder' /\ LiveListenerReachable'
<1> USE DEF SocketInv, TypeOK, ProcStates, OneHolder, Holding, LiveListenerReachable, Become
<1>1. ASSUME NEW s \in Services, Launch(s) \/ Listen(s) \/ IdleExit(s) \/ StopExit(s) \/ Raises(s)
      PROVE  OneHolder' /\ LiveListenerReachable'
  BY <1>1 DEF Launch, Listen, IdleExit, StopExit, Raises
<1>2. ASSUME NEW s \in Services, Lock(s) PROVE OneHolder' /\ LiveListenerReachable'
  BY <1>2 DEF Lock
<1>3. ASSUME NEW s \in Services, UnlinkStale(s) \/ Bind(s) \/ Unlink(s)
      PROVE  OneHolder' /\ LiveListenerReachable'
  BY <1>3 DEF UnlinkStale, Bind, Unlink
<1>4. ASSUME NEW s \in Services, CloseListener(s) PROVE OneHolder' /\ LiveListenerReachable'
  BY <1>4 DEF CloseListener
<1>5. ASSUME NEW s \in Services, Exit(s) \/ Crash(s) PROVE OneHolder' /\ LiveListenerReachable'
  BY <1>5 DEF Exit, Crash, Gone
<1>6. ASSUME NEW c \in Clients, Respawn(c) PROVE OneHolder' /\ LiveListenerReachable'
  BY <1>6 DEF Respawn, Services
<1>7. ASSUME UNCHANGED <<proc, path>> PROVE OneHolder' /\ LiveListenerReachable'
  BY <1>7
<1>8. ASSUME NEW s \in Services, NEW c \in Clients, ThreadStep(s, c)
      PROVE  UNCHANGED <<proc, path>>
  BY <1>8 DEF ThreadStep, Accept, Answer, HandlerFails, SendReply
<1>9. ASSUME NEW c \in Clients, Request(c) \/ Refused(c) \/ Poll(c) \/ GiveUp(c) \/ CheckEnds(c)
      PROVE  UNCHANGED <<proc, path>>
  BY <1>9 DEF Request, Refused, Poll, GiveUp, CheckEnds, SendRequest
<1>10. CASE UNCHANGED socketVars
  BY <1>7, <1>10 DEF socketVars
<1>11. ASSUME NEW s \in Services, Signal(s) PROVE UNCHANGED <<proc, path>>
  BY <1>11 DEF Signal
<1>12. QED
  BY <1>1, <1>2, <1>3, <1>4, <1>5, <1>6, <1>7, <1>8, <1>9, <1>10, <1>11
     DEF SocketNext, ServiceStep, ClientStep

LEMMA SocketSent == ASSUME SocketInv, [SocketNext]_socketVars PROVE SentOnce'
<1> USE DEF SocketInv, TypeOK, SentOnce
<1>1. ASSUME UNCHANGED <<call, delivered>> PROVE SentOnce'
  BY <1>1
<1>2. ASSUME NEW clients, Hangup(clients), UNCHANGED delivered PROVE SentOnce'
  BY <1>2 DEF Hangup
<1>3. ASSUME NEW s \in Services, ServiceStep(s) \/ Launch(s) \/ IdleExit(s) \/ Crash(s)
             \/ Signal(s) \/ Raises(s)
      PROVE  UNCHANGED delivered /\ (UNCHANGED call \/ \E clients : Hangup(clients))
  BY <1>3 DEF ServiceStep, Launch, Lock, UnlinkStale, Bind, Listen, IdleExit, StopExit, Raises,
     CloseListener, Unlink, Exit, Gone, Crash, Signal, callVars
<1>4. ASSUME NEW s \in Services, NEW c \in Clients, ThreadStep(s, c) PROVE SentOnce'
  <2>1. UNCHANGED delivered /\ (UNCHANGED call \/ \E answer \in {"answered", "error"} :
                                    call' = [call EXCEPT ![c] = answer])
    BY <1>4 DEF ThreadStep, Accept, Answer, HandlerFails, SendReply, callVars
  <2>2. QED
    BY <2>1
<1>5. ASSUME NEW c \in Clients, NEW s \in Services, SendRequest(c, s), call[c] \in {"idle", "polling"}
      PROVE  SentOnce'
  BY <1>5 DEF SendRequest
<1>6. ASSUME NEW c \in Clients, Refused(c) \/ Respawn(c) \/ GiveUp(c) \/ CheckEnds(c)
      PROVE  SentOnce'
  BY <1>6 DEF Refused, Respawn, GiveUp, CheckEnds
<1>7. CASE UNCHANGED socketVars
  BY <1>1, <1>7 DEF socketVars
<1>8. QED
  BY <1>1, <1>2, <1>3, <1>4, <1>5, <1>6, <1>7 DEF SocketNext, ClientStep, Request, Poll

LEMMA SocketInvariant == SocketSpec => []SocketInv
<1>1. SocketInv /\ [SocketNext]_socketVars => SocketInv'
  BY SocketTypes, SocketPath, SocketSent DEF SocketInv
<1>2. QED
  BY SocketStart, <1>1, PTL DEF SocketSpec
-------------------------------------------------------------------------------
\* Clients that follow the path find the service that serves (main).
THEOREM SocketReachable == SocketSpec => []LiveListenerReachable
<1>1. SocketInv => LiveListenerReachable
  BY DEF SocketInv
<1>2. QED
  BY <1>1, SocketInvariant, PTL

\* A call hands its request to at most one service (check).
THEOREM SocketDeliversOnce == SocketSpec => []DeliveredOnce
<1>1. SocketInv => DeliveredOnce
  BY DEF SocketInv, SentOnce, DeliveredOnce
<1>2. QED
  BY <1>1, SocketInvariant, PTL
-------------------------------------------------------------------------------
(* LeanServer                                                              *)

(* What is still to be read: the pieces and replies of a document d in s.   *)

Sent(d) == [kind : {"diagnostics"}, doc : 0 .. d, bad : BOOLEAN, incremental : BOOLEAN]
           \cup [kind : {"ready", "refusal", "response", "ask", "failed"}, doc : 0 .. d]

Piece(m, d) == m.kind = "diagnostics" /\ m.doc = d
Reply(m, d) == m.kind \in {"ready", "refusal"} /\ m.doc = d

BadAt(s, d, n) == Piece(s[n], d) /\ s[n].bad

\* The errors reported are the one collected and those still unread.
Complete(s, d, err, rep) ==
    rep <=> (err \/ \E n \in 1 .. Len(s) : BadAt(s, d, n))

\* A piece that replaces the others repeats their error.
Cumulative(s, d, err) ==
    \A n \in 1 .. Len(s) : Piece(s[n], d) /\ ~s[n].incremental =>
        /\ err => s[n].bad
        /\ \A i \in 1 .. n - 1 : BadAt(s, d, i) => s[n].bad

\* The reply comes last, after the end of the elaboration.
ReplyLast(s, d, fin) ==
    \A n \in 1 .. Len(s) : Reply(s[n], d) =>
        fin /\ \A i \in 1 .. Len(s) : Piece(s[i], d) => i < n

Whole(s, d, err, rep, fin) ==
    Complete(s, d, err, rep) /\ Cumulative(s, d, err) /\ ReplyLast(s, d, fin)
-------------------------------------------------------------------------------
(* Whole under what is sent and read.                                      *)

LEMMA AppendOther ==
    ASSUME NEW S, NEW s \in Seq(S), NEW m \in S, NEW d, NEW err, NEW rep, NEW fin,
           Whole(s, d, err, rep, fin), ~Piece(m, d), ~Reply(m, d)
    PROVE  Whole(Append(s, m), d, err, rep, fin)
<1> DEFINE t == Append(s, m)
<1>1. /\ Len(s) \in Nat /\ Len(t) = Len(s) + 1
      /\ t[Len(s) + 1] = m
      /\ \A i \in 1 .. Len(s) : t[i] = s[i]
  BY AppendProperties, LenProperties
<1> HIDE DEF t
<1>2. \A n \in 1 .. Len(t) : Piece(t[n], d) \/ Reply(t[n], d) => n \in 1 .. Len(s)
  BY <1>1
<1>3. Complete(t, d, err, rep)
  BY <1>1, <1>2 DEF Whole, Complete, BadAt
<1>4. Cumulative(t, d, err)
  BY <1>1, <1>2 DEF Whole, Cumulative, BadAt
<1>5. ReplyLast(t, d, fin)
  BY <1>1, <1>2 DEF Whole, ReplyLast
<1>6. QED
  BY <1>3, <1>4, <1>5 DEF Whole, t

LEMMA AppendPiece ==
    ASSUME NEW S, NEW s \in Seq(S), NEW m \in S, NEW d,
           NEW err \in BOOLEAN, NEW rep \in BOOLEAN, NEW bad \in BOOLEAN,
           NEW new \in BOOLEAN, new = (rep \/ bad),
           Whole(s, d, err, rep, FALSE), Piece(m, d),
           m.incremental \in BOOLEAN,
           m.bad = IF m.incremental THEN bad ELSE new
    PROVE  Whole(Append(s, m), d, err, new, FALSE)
<1> DEFINE t == Append(s, m)
<1>1. /\ Len(s) \in Nat /\ Len(t) = Len(s) + 1
      /\ t[Len(s) + 1] = m
      /\ \A i \in 1 .. Len(s) : t[i] = s[i]
  BY AppendProperties, LenProperties
<1> HIDE DEF t
<1>2. BadAt(t, d, Len(t)) <=> m.bad
  BY <1>1 DEF BadAt
<1>3. \A n \in 1 .. Len(s) : BadAt(t, d, n) <=> BadAt(s, d, n)
  BY <1>1 DEF BadAt
<1>4. Complete(t, d, err, new)
  <2>1. (\E n \in 1 .. Len(t) : BadAt(t, d, n))
        <=> m.bad \/ \E n \in 1 .. Len(s) : BadAt(s, d, n)
    BY <1>1, <1>2, <1>3
  <2>2. QED
    BY <2>1 DEF Whole, Complete
<1>5. Cumulative(t, d, err)
  <2>1. ASSUME NEW n \in 1 .. Len(t), Piece(t[n], d), ~t[n].incremental
        PROVE  /\ err => t[n].bad
               /\ \A i \in 1 .. n - 1 : BadAt(t, d, i) => t[n].bad
    <3>1. CASE n \in 1 .. Len(s)
      <4>1. \A i \in 1 .. n - 1 : i \in 1 .. Len(s)
        BY <3>1, <1>1
      <4>2. QED
        BY <2>1, <3>1, <4>1, <1>1, <1>3 DEF Whole, Cumulative
    <3>2. CASE n = Len(s) + 1
      <4>1. ASSUME err \/ \E i \in 1 .. Len(s) : BadAt(s, d, i) PROVE rep
        BY <4>1 DEF Whole, Complete
      <4>2. t[n].bad = new
        BY <3>2, <2>1, <1>1
      <4>3. \A i \in 1 .. n - 1 : i \in 1 .. Len(s)
        BY <3>2, <1>1
      <4>4. QED
        BY <4>1, <4>2, <4>3, <1>3
    <3>3. QED
      BY <3>1, <3>2, <1>1
  <2>2. QED
    BY <2>1 DEF Cumulative
<1>6. ReplyLast(t, d, FALSE)
  <2>1. ~Reply(m, d)
    BY DEF Piece, Reply
  <2>2. QED
    BY <2>1, <1>1 DEF Whole, ReplyLast
<1>7. QED
  BY <1>4, <1>5, <1>6 DEF Whole, t

LEMMA AppendReply ==
    ASSUME NEW S, NEW s \in Seq(S), NEW m \in S, NEW d, NEW err, NEW rep,
           Whole(s, d, err, rep, FALSE), Reply(m, d)
    PROVE  Whole(Append(s, m), d, err, rep, TRUE)
<1> DEFINE t == Append(s, m)
<1>1. /\ Len(s) \in Nat /\ Len(t) = Len(s) + 1
      /\ t[Len(s) + 1] = m
      /\ \A i \in 1 .. Len(s) : t[i] = s[i]
  BY AppendProperties, LenProperties
<1> HIDE DEF t
<1>2. \A n \in 1 .. Len(t) : Piece(t[n], d) => n \in 1 .. Len(s)
  BY <1>1 DEF Piece, Reply
<1>3. Complete(t, d, err, rep)
  BY <1>1, <1>2 DEF Whole, Complete, BadAt
<1>4. Cumulative(t, d, err)
  BY <1>1, <1>2 DEF Whole, Cumulative, BadAt
<1>5. ReplyLast(t, d, TRUE)
  BY <1>1, <1>2 DEF Whole, ReplyLast
<1>6. QED
  BY <1>3, <1>4, <1>5 DEF Whole, t

LEMMA TailFacts ==
    ASSUME NEW S, NEW s \in Seq(S), s # <<>>
    PROVE  /\ Len(s) \in Nat \ {0} /\ Len(Tail(s)) = Len(s) - 1
           /\ Head(s) = s[1]
           /\ \A i \in 1 .. Len(Tail(s)) : Tail(s)[i] = s[i + 1]
           /\ \A i \in 2 .. Len(s) : i - 1 \in 1 .. Len(Tail(s)) /\ Tail(s)[i - 1] = s[i]
  BY HeadTailProperties, EmptySeq

LEMMA TailWhole ==
    ASSUME NEW S, NEW s \in Seq(S), s # <<>>, NEW d, NEW err, NEW new, NEW rep, NEW fin,
           Whole(s, d, err, rep, fin),
           new <=> (IF Piece(Head(s), d)
                    THEN Head(s).bad \/ (Head(s).incremental /\ err) ELSE err)
    PROVE  Whole(Tail(s), d, new, rep, fin)
<1> DEFINE t == Tail(s)
<1>1. /\ Len(s) \in Nat \ {0} /\ Len(t) = Len(s) - 1
      /\ Head(s) = s[1]
      /\ \A i \in 1 .. Len(t) : t[i] = s[i + 1]
      /\ \A i \in 2 .. Len(s) : i - 1 \in 1 .. Len(t) /\ t[i - 1] = s[i]
  BY TailFacts
<1> HIDE DEF t
<1>2. \A i \in 1 .. Len(t) : i + 1 \in 2 .. Len(s) /\ (BadAt(t, d, i) <=> BadAt(s, d, i + 1))
  BY <1>1 DEF BadAt
<1>3. \A i \in 2 .. Len(s) : BadAt(t, d, i - 1) <=> BadAt(s, d, i)
  BY <1>1 DEF BadAt
<1>4. 1 \in 1 .. Len(s)
  BY <1>1
<1>5. (\E n \in 1 .. Len(s) : BadAt(s, d, n))
      <=> BadAt(s, d, 1) \/ \E n \in 1 .. Len(t) : BadAt(t, d, n)
  <2>1. \A n \in 1 .. Len(s) : n = 1 \/ n \in 2 .. Len(s)
    BY <1>1
  <2>2. \A n \in 2 .. Len(s) : n \in 1 .. Len(s) /\ n - 1 \in 1 .. Len(t)
    BY <1>1
  <2>3. QED
    BY <2>1, <2>2, <1>2, <1>3, <1>4
<1>6. CASE Piece(Head(s), d)
  <2>1. BadAt(s, d, 1) <=> Head(s).bad
    BY <1>6, <1>1 DEF BadAt
  <2>2. ~Head(s).incremental /\ err => Head(s).bad
    BY <1>6, <1>1, <1>4 DEF Whole, Cumulative
  <2>3. Complete(t, d, new, rep)
    BY <2>1, <2>2, <1>5, <1>6 DEF Whole, Complete
  <2>4. new => err \/ BadAt(s, d, 1)
    BY <2>1, <1>6
  <2>5. QED
    <3>1. Cumulative(t, d, new)
      <4>1. ASSUME NEW n \in 1 .. Len(t), Piece(t[n], d), ~t[n].incremental
            PROVE  /\ new => t[n].bad
                   /\ \A i \in 1 .. n - 1 : BadAt(t, d, i) => t[n].bad
        <5>1. /\ n + 1 \in 1 .. Len(s) /\ t[n] = s[n + 1]
              /\ 1 \in 1 .. (n + 1) - 1
              /\ \A i \in 1 .. n - 1 : i + 1 \in 1 .. (n + 1) - 1 /\ i \in 1 .. Len(t)
          BY <1>1
        <5>2. QED
          BY <4>1, <5>1, <2>4, <1>2 DEF Whole, Cumulative
      <4>2. QED
        BY <4>1 DEF Cumulative
    <3>2. ReplyLast(t, d, fin)
      BY <1>1, <1>2 DEF Whole, ReplyLast
    <3>3. QED
      BY <2>3, <3>1, <3>2 DEF Whole, t
<1>7. CASE ~Piece(Head(s), d)
  <2>1. ~BadAt(s, d, 1)
    BY <1>7, <1>1 DEF BadAt
  <2>2. Complete(t, d, new, rep)
    BY <2>1, <1>5, <1>7 DEF Whole, Complete
  <2>3. Cumulative(t, d, new)
    <3>1. ASSUME NEW n \in 1 .. Len(t), Piece(t[n], d), ~t[n].incremental
          PROVE  /\ new => t[n].bad
                 /\ \A i \in 1 .. n - 1 : BadAt(t, d, i) => t[n].bad
      <4>1. /\ n + 1 \in 1 .. Len(s) /\ t[n] = s[n + 1]
            /\ \A i \in 1 .. n - 1 : i + 1 \in 1 .. (n + 1) - 1 /\ i \in 1 .. Len(t)
        BY <1>1
      <4>2. QED
        BY <3>1, <4>1, <1>7, <1>2 DEF Whole, Cumulative
    <3>2. QED
      BY <3>1 DEF Cumulative
  <2>4. ReplyLast(t, d, fin)
    BY <1>1, <1>2 DEF Whole, ReplyLast
  <2>5. QED
    BY <2>2, <2>3, <2>4 DEF Whole, t
<1>8. QED
  BY <1>6, <1>7

\* When the reply is read, nothing else is left to read.
LEMMA ReplyEnds ==
    ASSUME NEW S, NEW s \in Seq(S), s # <<>>, NEW d, NEW err, NEW rep, NEW fin,
           Whole(s, d, err, rep, fin), Reply(Head(s), d)
    PROVE  fin /\ (rep <=> err)
<1>1. Head(s) = s[1] /\ 1 \in 1 .. Len(s)
  BY TailFacts
<1>2. fin /\ \A i \in 1 .. Len(s) : ~Piece(s[i], d)
  BY <1>1 DEF Whole, ReplyLast
<1>3. QED
  BY <1>2 DEF Whole, Complete, BadAt
-------------------------------------------------------------------------------
(* The inductive invariant.                                                *)

ServerTypeOK ==
    /\ doc \in 0 .. MaxDocs
    /\ pc \in {"waiting", "ending"} => doc \in Docs
    /\ error \in BOOLEAN
    /\ reported \in [Docs -> BOOLEAN]
    /\ verdict \in [Docs -> {"none", "success", "failure", "timed_out", "raised"}]
    /\ outcome \in {"none", "success", "failure", "timed_out", "raised"}
    /\ messages \in Seq(Sent(doc))
    /\ deferred \in Seq(Sent(doc))

\* Nothing is known of a document that was not opened.
Unopened == \A d \in Docs : d > doc => d \notin finished /\ ~reported[d]

WaitInv == pc = "waiting" =>
    Whole(messages, doc, error, reported[doc], doc \in finished)

OutcomeInv == pc = "ending" /\ outcome \in {"success", "failure"} =>
    doc \in finished /\ (outcome = "failure") = reported[doc]

ConversationInv == /\ ServerTypeOK /\ Unopened /\ WaitInv /\ OutcomeInv
                   /\ VerdictIsWhole

LEMMA ConversationInit == Init => ConversationInv
<1> SUFFICES ASSUME Init PROVE ConversationInv
  OBVIOUS
<1>1. <<>> \in Seq(Sent(doc))
  BY EmptySeq
<1>2. ServerTypeOK
  <2>1. messages \in Seq(Sent(doc)) /\ deferred \in Seq(Sent(doc))
    BY <1>1 DEF Init
  <2>2. reported \in [Docs -> BOOLEAN] /\ error \in BOOLEAN
    BY DEF Init
  <2>3. verdict \in [Docs -> {"none", "success", "failure", "timed_out", "raised"}]
    BY DEF Init
  <2>4. QED
    BY <2>1, <2>2, <2>3, ServerAssumption DEF Init, ServerTypeOK
<1>3. Unopened /\ WaitInv /\ OutcomeInv /\ VerdictIsWhole
  BY DEF Init, Unopened, WaitInv, OutcomeInv, VerdictIsWhole
<1>4. QED
  BY <1>2, <1>3 DEF ConversationInv

\* A message of the server's that is neither a piece nor a reply of the document
\* under way changes nothing that is known of it.
LEMMA SendOther ==
    ASSUME ConversationInv, NEW m \in Sent(doc), Send(m), UNCHANGED clientVars,
           UNCHANGED <<finished, reported>>,
           pc = "waiting" => ~Piece(m, doc) /\ ~Reply(m, doc)
    PROVE  ConversationInv'
<1>1. messages' = Append(messages, m) /\ messages' \in Seq(Sent(doc))
  BY AppendProperties DEF Send, ConversationInv, ServerTypeOK
<1>2. ServerTypeOK'
  BY <1>1 DEF ConversationInv, ServerTypeOK, clientVars
<1>3. WaitInv'
  <2>1. ASSUME pc = "waiting"
        PROVE  Whole(Append(messages, m), doc, error, reported[doc], doc \in finished)
    BY <2>1, AppendOther DEF ConversationInv, ServerTypeOK, WaitInv
  <2>2. QED
    BY <1>1, <2>1 DEF WaitInv, clientVars
<1>4. QED
  BY <1>2, <1>3 DEF ConversationInv, Unopened, OutcomeInv, VerdictIsWhole, clientVars

LEMMA ReportKeeps ==
    ASSUME ConversationInv, NEW d \in Docs, NEW bad \in BOOLEAN,
           NEW incremental \in BOOLEAN, Report(d, bad, incremental)
    PROVE  ConversationInv'
<1> DEFINE m == Diagnostics(d, IF incremental THEN bad ELSE reported'[d], incremental)
<1>1. /\ d <= doc /\ d \notin finished /\ finished' = finished
      /\ reported' = [reported EXCEPT ![d] = @ \/ bad]
      /\ reported'[d] = (reported[d] \/ bad)
      /\ Send(m) /\ UNCHANGED clientVars
  BY DEF Report, Opened, ConversationInv, ServerTypeOK
<1>2. reported' \in [Docs -> BOOLEAN]
  BY <1>1 DEF ConversationInv, ServerTypeOK
<1>3. m \in Sent(doc) /\ m.kind = "diagnostics" /\ m.doc = d
      /\ m.incremental = incremental
      /\ m.bad = IF incremental THEN bad ELSE reported'[d]
  <2>1. d \in 0 .. doc
    BY <1>1, ServerAssumption DEF Docs, ConversationInv, ServerTypeOK
  <2>2. reported'[d] \in BOOLEAN
    BY <1>2
  <2>3. QED
    BY <2>1, <2>2, <1>1 DEF Diagnostics, Sent
<1> HIDE DEF m
<1>4. messages' = Append(messages, m) /\ messages' \in Seq(Sent(doc))
  BY <1>1, <1>3, AppendProperties DEF Send, ConversationInv, ServerTypeOK
<1>5. ServerTypeOK'
  BY <1>1, <1>2, <1>4 DEF ConversationInv, ServerTypeOK, clientVars
<1>6. WaitInv'
  <2>1. ASSUME pc = "waiting", d = doc
        PROVE  Whole(Append(messages, m), doc, error, reported'[doc], FALSE)
    <3>0. (doc \in finished) = FALSE
      BY <2>1, <1>1
    <3>1. Whole(messages, doc, error, reported[doc], FALSE)
      BY <2>1, <3>0 DEF ConversationInv, WaitInv
    <3>2. /\ reported[doc] \in BOOLEAN /\ error \in BOOLEAN
          /\ reported'[doc] \in BOOLEAN /\ reported'[doc] = (reported[doc] \/ bad)
      BY <2>1, <1>1, <1>2 DEF ConversationInv, ServerTypeOK
    <3>3. Piece(m, doc)
      BY <2>1, <1>3 DEF Piece
    <3>4. m.incremental \in BOOLEAN /\ m.bad = IF m.incremental THEN bad ELSE reported'[doc]
      BY <2>1, <1>3
    <3>5. messages \in Seq(Sent(doc))
      BY DEF ConversationInv, ServerTypeOK
    <3>6. PICK err \in BOOLEAN, rep \in BOOLEAN, new \in BOOLEAN :
            err = error /\ rep = reported[doc] /\ new = reported'[doc]
      BY <3>2
    <3>7. /\ Whole(messages, doc, err, rep, FALSE) /\ new = (rep \/ bad)
          /\ m.bad = IF m.incremental THEN bad ELSE new
      BY <3>1, <3>2, <3>4, <3>6
    <3>8. Whole(Append(messages, m), doc, err, new, FALSE)
      <4>1. m \in Sent(doc) /\ m.incremental \in BOOLEAN
        BY <1>3, <3>4
      <4>2. QED
        BY <3>3, <3>5, <3>7, <4>1, AppendPiece, ZenonT(60)
    <3>9. QED
      BY <3>6, <3>8
  <2>2. ASSUME pc = "waiting", d # doc
        PROVE  Whole(Append(messages, m), doc, error, reported[doc], doc \in finished)
    <3>1. ~Piece(m, doc) /\ ~Reply(m, doc)
      BY <2>2, <1>3 DEF Piece, Reply
    <3>2. QED
      BY <2>2, <3>1, <1>3, AppendOther DEF ConversationInv, ServerTypeOK, WaitInv
  <2>3. CASE pc = "waiting" /\ d = doc
    <3>1. (doc \in finished') = FALSE
      BY <2>3, <1>1
    <3>2. doc' = doc /\ error' = error
      BY <1>1 DEF clientVars
    <3>3. QED
      BY <2>3, <2>1, <3>1, <3>2, <1>4 DEF WaitInv
  <2>4. CASE pc = "waiting" /\ d # doc
    <3>1. doc' = doc /\ error' = error /\ reported'[doc] = reported[doc]
      BY <2>4, <1>1 DEF clientVars, ConversationInv, ServerTypeOK
    <3>2. QED
      BY <2>4, <2>2, <3>1, <1>1, <1>4 DEF WaitInv
  <2>5. QED
    BY <2>3, <2>4, <1>1 DEF WaitInv, clientVars
<1>7. Unopened'
  BY <1>1, ServerAssumption DEF Unopened, ConversationInv, ServerTypeOK, clientVars, Docs
<1>8. OutcomeInv'
  BY <1>1 DEF OutcomeInv, ConversationInv, ServerTypeOK, clientVars
<1>9. VerdictIsWhole'
  BY <1>1 DEF VerdictIsWhole, ConversationInv, ServerTypeOK, clientVars
<1>10. QED
  BY <1>5, <1>6, <1>7, <1>8, <1>9 DEF ConversationInv

LEMMA FinishKeeps ==
    ASSUME ConversationInv, NEW d \in Docs, NEW m \in {Ready(d), Refusal(d)}, Finish(d, m)
    PROVE  ConversationInv'
<1>1. /\ d <= doc /\ d \notin finished /\ finished' = finished \cup {d}
      /\ reported' = reported
      /\ Send(m) /\ UNCHANGED clientVars
  BY DEF Finish, Opened
<1>2. m \in Sent(doc) /\ Reply(m, d)
  <2>1. d \in 0 .. doc
    BY <1>1, ServerAssumption DEF Docs, ConversationInv, ServerTypeOK
  <2>2. QED
    BY <2>1 DEF Ready, Refusal, Sent, Reply
<1>3. messages' = Append(messages, m) /\ messages' \in Seq(Sent(doc))
  BY <1>1, <1>2, AppendProperties DEF Send, ConversationInv, ServerTypeOK
<1>4. ServerTypeOK'
  BY <1>1, <1>3 DEF ConversationInv, ServerTypeOK, clientVars
<1>5. WaitInv'
  <2>1. ASSUME pc = "waiting", d = doc
        PROVE  Whole(Append(messages, m), doc, error, reported[doc], TRUE)
    <3>0. (doc \in finished) = FALSE
      BY <2>1, <1>1
    <3>1. Whole(messages, doc, error, reported[doc], FALSE)
      BY <2>1, <3>0 DEF ConversationInv, WaitInv
    <3>2. QED
      BY <2>1, <3>1, <1>2, AppendReply DEF ConversationInv, ServerTypeOK
  <2>2. ASSUME pc = "waiting", d # doc
        PROVE  Whole(Append(messages, m), doc, error, reported[doc], doc \in finished)
    <3>1. ~Piece(m, doc) /\ ~Reply(m, doc)
      BY <2>2, <1>2 DEF Piece, Reply
    <3>2. QED
      BY <2>2, <3>1, <1>2, AppendOther DEF ConversationInv, ServerTypeOK, WaitInv
  <2>3. CASE pc = "waiting" /\ d = doc
    <3>1. (doc \in finished') = TRUE
      BY <2>3, <1>1
    <3>2. QED
      BY <2>3, <2>1, <3>1, <1>1, <1>3 DEF WaitInv, clientVars
  <2>4. CASE pc = "waiting" /\ d # doc
    <3>1. (doc \in finished') = (doc \in finished)
      BY <2>4, <1>1
    <3>2. QED
      BY <2>4, <2>2, <3>1, <1>1, <1>3 DEF WaitInv, clientVars
  <2>5. QED
    BY <2>3, <2>4, <1>1 DEF WaitInv, clientVars
<1>6. Unopened'
  BY <1>1, ServerAssumption DEF Unopened, ConversationInv, ServerTypeOK, clientVars, Docs
<1>7. OutcomeInv' /\ VerdictIsWhole'
  BY <1>1 DEF OutcomeInv, VerdictIsWhole, ConversationInv, clientVars
<1>8. QED
  BY <1>4, <1>5, <1>6, <1>7 DEF ConversationInv

LEMMA ServerKeeps == ASSUME ConversationInv, Server PROVE ConversationInv'
<1>1. doc \in 0 .. doc /\ 0 \in 0 .. doc
  BY ServerAssumption DEF ConversationInv, ServerTypeOK
<1>2. ASSUME NEW d \in Docs, Clear(d) PROVE ConversationInv'
  <2>1. d <= doc /\ (pc = "waiting" => d # doc) /\ d \in 0 .. doc
    BY <1>2, ServerAssumption DEF Clear, Closed, ConversationInv, ServerTypeOK, Docs
  <2>2. Diagnostics(d, FALSE, FALSE) \in Sent(doc)
    BY <2>1 DEF Diagnostics, Sent
  <2>3. pc = "waiting" => /\ ~Piece(Diagnostics(d, FALSE, FALSE), doc)
                          /\ ~Reply(Diagnostics(d, FALSE, FALSE), doc)
    BY <2>1 DEF Diagnostics, Piece, Reply
  <2>4. QED
    BY <1>2, <2>2, <2>3, SendOther DEF Clear
<1>3. CASE Respond
  <2>1. Response \in Sent(doc) /\ ~Piece(Response, doc) /\ ~Reply(Response, doc)
    BY <1>1 DEF Response, Sent, Piece, Reply
  <2>2. QED
    BY <1>3, <2>1, SendOther DEF Respond
<1>4. CASE ServerAsks
  <2>1. Ask(doc) \in Sent(doc) /\ ~Piece(Ask(doc), doc) /\ ~Reply(Ask(doc), doc)
    BY <1>1 DEF Ask, Sent, Piece, Reply
  <2>2. QED
    BY <1>4, <2>1, SendOther DEF ServerAsks
<1>5. CASE Die
  <2>1. ReaderFailed \in Sent(doc) /\ ~Piece(ReaderFailed, doc) /\ ~Reply(ReaderFailed, doc)
    BY <1>1 DEF ReaderFailed, Sent, Piece, Reply
  <2>2. UNCHANGED <<finished, reported, clientVars>>
    BY <1>5 DEF Die
  <2>3. CASE messages' = messages
    BY <2>2, <2>3 DEF ConversationInv, ServerTypeOK, Unopened, WaitInv, OutcomeInv,
       VerdictIsWhole, clientVars
  <2>4. CASE messages' = Append(messages, ReaderFailed)
    <3>1. messages' \in Seq(Sent(doc))
      BY <2>1, <2>4, AppendProperties DEF ConversationInv, ServerTypeOK
    <3>2. pc = "waiting" => Whole(Append(messages, ReaderFailed), doc, error, reported[doc],
                                  doc \in finished)
      BY <2>1, AppendOther DEF ConversationInv, ServerTypeOK, WaitInv
    <3>3. QED
      BY <2>2, <2>4, <3>1, <3>2 DEF ConversationInv, ServerTypeOK, Unopened, WaitInv,
         OutcomeInv, VerdictIsWhole, clientVars
  <2>5. QED
    BY <1>5, <2>3, <2>4 DEF Die
<1>6. QED
  BY <1>2, <1>3, <1>4, <1>5, ReportKeeps, FinishKeeps DEF Server
-------------------------------------------------------------------------------
(* The check.                                                              *)

LEMMA TakeFacts ==
    ASSUME ConversationInv, NEW kinds, Take(kinds)
    PROVE  /\ messages # <<>> /\ messages' = Tail(messages)
           /\ messages' \in Seq(Sent(doc)) /\ Head(messages) \in Sent(doc)
           /\ Head(messages).kind \in kinds
  BY HeadTailProperties DEF Take, ConversationInv, ServerTypeOK

LEMMA OpenKeeps == ASSUME ConversationInv, Open PROVE ConversationInv'
<1>1. doc' = doc + 1 /\ doc' \in Docs /\ doc \in Nat /\ messages' = messages /\ deferred' = deferred
  BY ServerAssumption DEF Open, ConversationInv, ServerTypeOK, Docs
<1>2. Sent(doc) \subseteq Sent(doc')
  <2>1. 0 .. doc \subseteq 0 .. doc'
    BY <1>1
  <2>2. QED
    BY <2>1 DEF Sent
<1>3. messages' \in Seq(Sent(doc')) /\ deferred' \in Seq(Sent(doc'))
  BY <1>1, <1>2, SeqMonotonic DEF ConversationInv, ServerTypeOK
<1>4. ServerTypeOK'
  <2>1. verdict' \in [Docs -> {"none", "success", "failure", "timed_out", "raised"}]
    BY DEF Open, Raised, ConversationInv, ServerTypeOK
  <2>2. error' \in BOOLEAN /\ reported' = reported /\ outcome' = outcome
    BY DEF Open, serverVars
  <2>3. doc' \in 0 .. MaxDocs
    BY <1>1, ServerAssumption DEF Docs
  <2>4. QED
    BY <1>1, <1>3, <2>1, <2>2, <2>3 DEF ConversationInv, ServerTypeOK
<1>5. \A n \in 1 .. Len(messages) : ~Piece(messages[n], doc') /\ ~Reply(messages[n], doc')
  <2>1. ASSUME NEW n \in 1 .. Len(messages) PROVE messages[n].doc \in 0 .. doc
    <3>1. messages[n] \in Sent(doc)
      BY ElementOfSeq DEF ConversationInv, ServerTypeOK
    <3>2. QED
      BY <3>1 DEF Sent
  <2>2. QED
    BY <2>1, <1>1 DEF Piece, Reply
<1>6. doc' \notin finished' /\ ~reported'[doc'] /\ ~error'
  BY <1>1 DEF Open, serverVars, ConversationInv, Unopened
<1>7. WaitInv'
  <2>1. reported'[doc'] \in BOOLEAN
    BY <1>1, <1>4 DEF ServerTypeOK
  <2>2. Complete(messages', doc', error', reported'[doc'])
    BY <1>1, <1>5, <1>6, <2>1 DEF Complete, BadAt
  <2>3. Cumulative(messages', doc', error')
    BY <1>1, <1>5 DEF Cumulative
  <2>4. ReplyLast(messages', doc', doc' \in finished')
    BY <1>1, <1>5 DEF ReplyLast
  <2>5. QED
    BY <2>2, <2>3, <2>4 DEF WaitInv, Whole
<1>8. Unopened'
  BY <1>1 DEF Open, serverVars, ConversationInv, Unopened, Docs
<1>9. OutcomeInv'
  BY DEF Open, OutcomeInv
<1>10. VerdictIsWhole'
  BY DEF Open, Raised, serverVars, ConversationInv, VerdictIsWhole, ServerTypeOK
<1>11. QED
  BY <1>4, <1>7, <1>8, <1>9, <1>10 DEF ConversationInv

LEMMA WaitOverKeeps == ASSUME ConversationInv, WaitOver PROVE ConversationInv'
<1>1. /\ messages # <<>> /\ messages' \in Seq(Sent(doc)) /\ Reply(Head(messages), doc)
      /\ messages \in Seq(Sent(doc))
  BY TakeFacts DEF WaitOver, IsResponse, Reply, ConversationInv, ServerTypeOK
<1>2. Whole(messages, doc, error, reported[doc], doc \in finished)
  BY DEF WaitOver, ConversationInv, WaitInv
<1>3. doc \in finished /\ (reported[doc] <=> error)
  <2>1. PICK fin \in BOOLEAN : fin = (doc \in finished)
    <3>1. (doc \in finished) \in BOOLEAN
      OBVIOUS
    <3>2. QED
      BY <3>1
  <2>2. Whole(messages, doc, error, reported[doc], fin)
    BY <1>2, <2>1
  <2>3. fin /\ (reported[doc] <=> error)
    BY <1>1, <2>2, ReplyEnds
  <2>4. QED
    BY <2>1, <2>3
<1>4. ServerTypeOK'
  BY <1>1 DEF WaitOver, End, ConversationInv, ServerTypeOK, serverVars, collected
<1>5. outcome' \in {"success", "failure"} => (outcome' = "failure") = reported[doc]
  <2>1. reported[doc] \in BOOLEAN /\ error \in BOOLEAN
    BY DEF WaitOver, ConversationInv, ServerTypeOK
  <2>2. reported[doc] = error
    BY <1>3, <2>1
  <2>3. outcome' \in {"success", "failure"} => (outcome' = "failure") = error
    BY <2>1 DEF WaitOver, End
  <2>4. QED
    BY <2>2, <2>3
<1>6. OutcomeInv'
  BY <1>3, <1>5 DEF WaitOver, OutcomeInv, serverVars
<1>7. QED
  BY <1>4, <1>6 DEF WaitOver, End, ConversationInv, Unopened, WaitInv, VerdictIsWhole, serverVars

LEMMA CollectKeeps == ASSUME ConversationInv, Collect PROVE ConversationInv'
<1>1. /\ messages # <<>> /\ messages' = Tail(messages) /\ messages' \in Seq(Sent(doc))
      /\ messages \in Seq(Sent(doc))
      /\ Piece(Head(messages), doc) /\ Head(messages) \in Sent(doc)
  BY TakeFacts DEF Collect, Matching, Piece, ConversationInv, ServerTypeOK
<1>2. Head(messages).bad \in BOOLEAN /\ Head(messages).incremental \in BOOLEAN
  BY <1>1 DEF Sent, Piece
<1>3. error' \in BOOLEAN
      /\ (error' <=> Head(messages).bad \/ (Head(messages).incremental /\ error))
  BY <1>2 DEF Collect, ConversationInv, ServerTypeOK
<1>4. Whole(messages, doc, error, reported[doc], doc \in finished)
  BY DEF Collect, ConversationInv, WaitInv
<1>5. Whole(Tail(messages), doc, error', reported[doc], doc \in finished)
  BY <1>1, <1>3, <1>4, TailWhole
<1>6. WaitInv'
  BY <1>1, <1>5 DEF Collect, WaitInv, serverVars
<1>7. ServerTypeOK'
  BY <1>1, <1>3 DEF Collect, ConversationInv, ServerTypeOK, serverVars
<1>8. QED
  BY <1>6, <1>7 DEF Collect, ConversationInv, Unopened, OutcomeInv, VerdictIsWhole, serverVars

\* A message that is passed over: deferred, answered or met by a _request.
LEMMA PassedOver ==
    ASSUME ConversationInv, pc = "waiting", messages # <<>>, messages' = Tail(messages),
           ~Piece(Head(messages), doc),
           UNCHANGED <<doc, error, reported, finished>>
    PROVE  WaitInv'
<1>1. Whole(Tail(messages), doc, error, reported[doc], doc \in finished)
  BY TailWhole DEF ConversationInv, ServerTypeOK, WaitInv
<1>2. QED
  BY <1>1 DEF WaitInv

LEMMA DeferKeeps == ASSUME ConversationInv, Defer PROVE ConversationInv'
<1>1. /\ messages # <<>> /\ messages' = Tail(messages) /\ messages' \in Seq(Sent(doc))
      /\ Head(messages) \in Sent(doc) /\ ~Piece(Head(messages), doc)
  BY TakeFacts DEF Defer, Matching, Piece
<1>2. deferred' \in Seq(Sent(doc))
  BY <1>1, AppendProperties DEF Defer, ConversationInv, ServerTypeOK
<1>3. WaitInv'
  BY <1>1, PassedOver DEF Defer, serverVars, collected
<1>4. ServerTypeOK'
  BY <1>1, <1>2 DEF Defer, ConversationInv, ServerTypeOK, serverVars, collected
<1>5. QED
  BY <1>3, <1>4 DEF Defer, ConversationInv, Unopened, OutcomeInv, VerdictIsWhole, serverVars

LEMMA AnswerKeeps == ASSUME ConversationInv, AnswerAsk PROVE ConversationInv'
<1>1. /\ messages # <<>> /\ messages' = Tail(messages) /\ messages' \in Seq(Sent(doc))
      /\ ~Piece(Head(messages), doc)
  BY TakeFacts DEF AnswerAsk, Piece
<1>2. WaitInv'
  BY <1>1, PassedOver DEF AnswerAsk, serverVars, collected
<1>3. ServerTypeOK'
  BY <1>1 DEF AnswerAsk, End, ConversationInv, ServerTypeOK, serverVars, collected
<1>4. QED
  BY <1>2, <1>3 DEF AnswerAsk, End, ConversationInv, Unopened, OutcomeInv, VerdictIsWhole,
     serverVars

LEMMA CheckKeeps == ASSUME ConversationInv, Check PROVE ConversationInv'
<1>1. CASE ReaderGone
  <2>1. messages' \in Seq(Sent(doc))
    BY <1>1, TakeFacts DEF ReaderGone
  <2>2. QED
    BY <1>1, <2>1 DEF ReaderGone, End, ConversationInv, ServerTypeOK, Unopened, WaitInv,
       OutcomeInv, VerdictIsWhole, serverVars, collected
<1>2. CASE BudgetSpent
  BY <1>2 DEF BudgetSpent, End, ConversationInv, ServerTypeOK, Unopened, WaitInv,
     OutcomeInv, VerdictIsWhole, serverVars, collected
<1>3. CASE PutBack
  <2>1. messages' \in Seq(Sent(doc)) /\ deferred' \in Seq(Sent(doc))
    BY <1>3, HeadTailProperties, AppendProperties DEF PutBack, ConversationInv, ServerTypeOK
  <2>2. QED
    BY <1>3, <2>1 DEF PutBack, ConversationInv, ServerTypeOK, Unopened, WaitInv,
       OutcomeInv, VerdictIsWhole, serverVars, collected
<1>4. CASE CloseDocument
  <2>1. ServerTypeOK'
    BY <1>4 DEF CloseDocument, Raised, ConversationInv, ServerTypeOK, serverVars, collected
  <2>2. VerdictIsWhole'
    <3>1. ASSUME NEW d \in Docs, verdict'[d] \in {"success", "failure"}
          PROVE  d \in finished /\ (verdict'[d] = "failure") = reported[d]
      <4>1. CASE d = doc
        BY <1>4, <3>1, <4>1
        DEF CloseDocument, Raised, ConversationInv, ServerTypeOK, OutcomeInv
      <4>2. CASE d # doc
        BY <1>4, <3>1, <4>2
        DEF CloseDocument, Raised, ConversationInv, ServerTypeOK, VerdictIsWhole
      <4>3. QED
        BY <4>1, <4>2
    <3>2. QED
      BY <1>4, <3>1 DEF CloseDocument, VerdictIsWhole, serverVars
  <2>3. QED
    BY <1>4, <2>1, <2>2 DEF CloseDocument, ConversationInv, Unopened, WaitInv, OutcomeInv,
       serverVars
<1>5. QED
  BY <1>1, <1>2, <1>3, <1>4, OpenKeeps, WaitOverKeeps, CollectKeeps, DeferKeeps, AnswerKeeps
  DEF Check

LEMMA RequestsKeep ==
    ASSUME ConversationInv,
           Initialized \/ ShutDown \/ RequestSkips \/ RequestLate \/ RequestEmpty \/ Close
    PROVE  ConversationInv'
<1>1. messages' \in Seq(Sent(doc))
  BY TakeFacts DEF Initialized, ShutDown, RequestSkips, RequestLate, RequestEmpty, Close,
     ConversationInv, ServerTypeOK
<1>2. /\ UNCHANGED rest
      /\ pc' \in {"initialize", "shutdown", "idle", "unborn", "closed"}
  BY DEF Initialized, ShutDown, RequestSkips, RequestLate, RequestEmpty, RequestFails,
     Requesting, Close
<1>3. QED
  BY <1>1, <1>2 DEF ConversationInv, ServerTypeOK, Unopened, WaitInv, OutcomeInv,
     VerdictIsWhole, rest, collected

LEMMA ConversationNext == ConversationInv /\ [Next]_vars => ConversationInv'
<1> SUFFICES ASSUME ConversationInv, [Next]_vars PROVE ConversationInv'
  OBVIOUS
<1>1. CASE UNCHANGED vars
  BY <1>1 DEF vars, ConversationInv, ServerTypeOK, Unopened, WaitInv, OutcomeInv, VerdictIsWhole
<1>2. QED
  BY <1>1, ServerKeeps, CheckKeeps, RequestsKeep DEF Next

LEMMA ConversationInvariant == Spec => []ConversationInv
  BY ConversationInit, ConversationNext, PTL DEF Spec
-------------------------------------------------------------------------------
(* Theorems.                                                               *)

\* Whatever the server sends, in whatever order late messages are read and put
\* back: success means that the elaboration of this document ended without an
\* error, failure that it ended with one.
THEOREM VerdictsAreWhole == Spec => []VerdictIsWhole
<1>1. ConversationInv => VerdictIsWhole
  BY DEF ConversationInv
<1>2. QED
  BY <1>1, ConversationInvariant, PTL

\* Only a check whose server lived through its budget is recorded as timed out.
THEOREM DeathsAreNoTimeouts == Spec => DeathIsNoTimeout
<1>1. ConversationInv /\ [Next]_vars =>
        [\A d \in Docs : verdict[d] = "none" /\ verdict'[d] = "timed_out" => alive]_vars
  <2> SUFFICES ASSUME ConversationInv, Next, NEW d \in Docs, verdict[d] = "none", verdict'[d] = "timed_out"
               PROVE  alive
    OBVIOUS
  <2>1. verdict' # verdict
    OBVIOUS
  <2>2. ~Server /\ ~Initialized /\ ~ShutDown /\ ~RequestSkips /\ ~RequestLate
        /\ ~RequestEmpty /\ ~Close
    BY <2>1 DEF Server, Report, Finish, Clear, Respond, ServerAsks, Die, clientVars,
       Initialized, ShutDown, RequestSkips, RequestLate, RequestEmpty, Close, rest
  <2>3. Open \/ CloseDocument
    BY <2>1, <2>2 DEF Next, Check, ReaderGone, AnswerAsk, WaitOver, Collect, Defer,
       BudgetSpent, PutBack
  <2>4. QED
    BY <2>3 DEF Open, CloseDocument, Raised, ConversationInv, ServerTypeOK
<1>2. QED
  BY <1>1, ConversationInvariant, PTL DEF Spec, DeathIsNoTimeout

===============================================================================
