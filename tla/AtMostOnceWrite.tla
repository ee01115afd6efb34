-------------------------- MODULE AtMostOnceWrite --------------------------
(***************************************************************************)
(* What the Idempotency-Key protocol of run_idempotent promises for the    *)
(* requests that carry the same key: no more attempts than it permits may  *)
(* write or have written, and a request that does not write is answered    *)
(* with the response of one that did.                                      *)
(*                                                                         *)
(* There is one permit at first.  While no more are given the write is     *)
(* performed at most once and one handler runs at a time.                  *)
(***************************************************************************)
EXTENDS Naturals, FiniteSets

CONSTANT Requests  \* attempts with the same key

VARIABLES
    permits,   \* attempts that may write
    active,    \* attempts whose handler runs and has not written
    written,   \* attempts that performed the write
    replayed   \* attempts answered with a stored response

Init ==
    /\ permits = 1
    /\ active = {}
    /\ written = {}
    /\ replayed = {}

\* begin hands the key to an attempt ...
Start(p) ==
    /\ p \notin active \cup written
    /\ Cardinality(active \cup written) < permits
    /\ active' = active \cup {p}
    /\ UNCHANGED <<permits, written, replayed>>

\* ... or to one more than before, because it gave the earlier one up.
StartAgain(p) ==
    /\ p \notin active \cup written
    /\ permits' = permits + 1
    /\ active' = active \cup {p}
    /\ UNCHANGED <<written, replayed>>

\* The key is forgotten.
Forget ==
    /\ permits' = permits + 1
    /\ UNCHANGED <<active, written, replayed>>

Write(p) ==
    /\ p \in active
    /\ active' = active \ {p}
    /\ written' = written \cup {p}
    /\ UNCHANGED <<permits, replayed>>

\* The handler was rejected, failed or died before its write.
Stop(p) ==
    /\ p \in active
    /\ active' = active \ {p}
    /\ UNCHANGED <<permits, written, replayed>>

Replay(p) ==
    /\ p \notin active \cup written
    /\ written # {}
    /\ replayed' = replayed \cup {p}
    /\ UNCHANGED <<permits, active, written>>

Next ==
    \/ Forget
    \/ \E p \in Requests :
           Start(p) \/ StartAgain(p) \/ Write(p) \/ Stop(p) \/ Replay(p)

Spec == Init /\ [][Next]_<<permits, active, written, replayed>>
=============================================================================
