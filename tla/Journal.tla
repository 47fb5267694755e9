-------------------------------- MODULE Journal --------------------------------
(***************************************************************************)
(* What the ledger promises to whoever reads its events (ledger/store.py,  *)
(* ledger/events.py): the history is append-only.  However many sessions   *)
(* write, fail and race, all that happens to it is that one contiguous run *)
(* of the hash chain is added, and a key that it knows is never spent      *)
(* again.  LedgerStore implements this specification.                      *)
(***************************************************************************)
EXTENDS Integers, Sequences

CONSTANTS Genesis,  \* what the first event is bound to
          Hash(_),  \* what every other is bound to: the hash of the one before
          NoKey     \* the key of an event that has none

VARIABLE journal

JInit == journal = <<>>

\* The event n of a history: numbered, bound to the event before it, and under a
\* key that no event before it has.
Follows(history, n) ==
    /\ history[n].id = n
    /\ history[n].prev = IF n = 1 THEN Genesis ELSE Hash(history[n - 1])
    /\ history[n].key # NoKey => \A m \in 1 .. n - 1 : history[m].key # history[n].key

\* A session is committed: its run of events, perhaps empty, comes after what was
\* there, and nothing of that changes.
Publish == /\ Len(journal) <= Len(journal')
           /\ \A n \in 1 .. Len(journal) : journal'[n] = journal[n]
           /\ \A n \in Len(journal) + 1 .. Len(journal') : Follows(journal', n)

JSpec == JInit /\ [][Publish]_journal
================================================================================
