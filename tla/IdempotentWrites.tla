-------------------------- MODULE IdempotentWrites --------------------------
(***************************************************************************)
(* The Idempotency-Key protocol of apps/common/idempotency.py and          *)
(* IdempotencyService (apps/product/services.py), for the requests of one  *)
(* actor that carry one key to one endpoint, with the task that purges     *)
(* expired records (apps/product/tasks.py).                                *)
(*                                                                         *)
(* A request is a process.  It claims the key, runs the handler of the     *)
(* endpoint, whose write commits on its own, and then stores the response. *)
(* Each of the three is a transaction of its own, and the process may be   *)
(* slow or die between any two.                                            *)
(*                                                                         *)
(* Time is a record growing old: a record whose updated_at is more than    *)
(* IN_PROGRESS_TIMEOUT_SECONDS back is "old", one past expires_at is       *)
(* "expired".  A takeover renews the first and not the second, so a        *)
(* record may expire under a request that took it over.  A handler is      *)
(* assumed to end within 24 hours of its own begin; whether it may outlast *)
(* the 60 seconds is SlowHandlers.                                         *)
(***************************************************************************)
EXTENDS Naturals, FiniteSets

CONSTANTS
    Requests,      \* attempts with the key
    Payloads,      \* request bodies (their hash)
    SlowHandlers,  \* a handler may run longer than the in-progress timeout
    Crashes,       \* a server process may die
    Expiry,        \* records live to see their expiry
    None

\* takers is no column: who took the record over since expires_at was set.
Record ==
    [pk : Nat, payload : Payloads, response : Requests \cup {None},
     old : BOOLEAN, expired : BOOLEAN, takers : SUBSET Requests]

\* None stands for no record and no response.
ASSUME IdempotencyAssumption ==
    /\ {SlowHandlers, Crashes, Expiry} \subseteq BOOLEAN
    /\ None \notin Requests \cup Record

VARIABLES
    record,    \* the IdempotencyRecord of the key, or None
    lastPk,    \* the primary key given to the last record
    payload,   \* the body of each request
    pc,        \* where each request stands
    recordId,  \* IdempotencyDecision.record_id of each request
    writes,    \* requests whose handler has committed its write
    replayOf,  \* the request whose stored response a request was given
    reclaims,  \* takeovers, recyclings and purges of a record so far
    purging,   \* the primary keys the purge task has read and not yet deleted
    outlived   \* requests whose record was recycled while they were at work

vars == <<record, lastPk, payload, pc, recordId, writes, replayOf, reclaims,
          purging, outlived>>

\* new: not begun; collided: the insert hit the unique key; running: in the
\* handler; rejected: the handler raised a 4xx, the key is not yet released;
\* written: the write is committed, the response not yet stored; the others
\* are final.
States ==
    {"new", "collided", "running", "rejected", "written", "completed",
     "released", "failed", "replayed", "reused", "in_progress", "missing",
     "dead"}

Live == {"running", "rejected", "written"}

TypeOK ==
    /\ record \in Record \cup {None}
    /\ lastPk \in Nat
    /\ payload \in [Requests -> Payloads]
    /\ pc \in [Requests -> States]
    /\ recordId \in [Requests -> Nat]
    /\ writes \in SUBSET Requests
    /\ replayOf \in [Requests -> Requests \cup {None}]
    /\ reclaims \in Nat
    /\ purging \in SUBSET Nat
    /\ outlived \in SUBSET Requests

Init ==
    /\ record = None
    /\ lastPk = 0
    /\ payload \in [Requests -> Payloads]
    /\ pc = [p \in Requests |-> "new"]
    /\ recordId = [p \in Requests |-> 0]
    /\ writes = {}
    /\ replayOf = [p \in Requests |-> None]
    /\ reclaims = 0
    /\ purging = {}
    /\ outlived = {}

Goto(p, state) == pc' = [pc EXCEPT ![p] = state]

-----------------------------------------------------------------------------
(* IdempotencyService.begin *)

MutantInsert(p) ==
    /\ pc[p] = "new"
    /\ lastPk' = lastPk + 1
    /\ record' = [pk |-> lastPk', payload |-> payload[p], response |-> None,
                  old |-> FALSE, expired |-> FALSE, takers |-> {}]
    /\ recordId' = [recordId EXCEPT ![p] = lastPk']
    /\ Goto(p, "running")
    /\ UNCHANGED <<payload, writes, replayOf, reclaims, purging, outlived>>

\* product_idempotency_scope_key_uniq admits one record under the key.
Insert(p) ==
    /\ pc[p] = "new"
    /\ record = None
    /\ lastPk' = lastPk + 1
    /\ record' = [pk |-> lastPk', payload |-> payload[p], response |-> None,
                  old |-> FALSE, expired |-> FALSE, takers |-> {}]
    /\ recordId' = [recordId EXCEPT ![p] = lastPk']
    /\ Goto(p, "running")
    /\ UNCHANGED <<payload, writes, replayOf, reclaims, purging, outlived>>

\* The insert violates product_idempotency_scope_key_uniq.
Collide(p) ==
    /\ pc[p] = "new"
    /\ record # None
    /\ Goto(p, "collided")
    /\ UNCHANGED <<record, lastPk, payload, recordId, writes, replayOf,
                   reclaims, purging, outlived>>

\* The record was released or purged before it could be locked: the lookup
\* raises DoesNotExist, which nobody catches.
FindNothing(p) ==
    /\ pc[p] = "collided"
    /\ record = None
    /\ Goto(p, "missing")
    /\ UNCHANGED <<record, lastPk, payload, recordId, writes, replayOf,
                   reclaims, purging, outlived>>

Locks(p) == pc[p] = "collided" /\ record # None

\* It has been given the record and is not through with it.
Handling(p) == pc[p] \in Live /\ recordId[p] = record.pk

\* The record is claimed for this request: the row keeps its primary key.
Reclaim(p, row) ==
    /\ record' = row
    /\ recordId' = [recordId EXCEPT ![p] = record.pk]
    /\ reclaims' = reclaims + 1
    /\ Goto(p, "running")
    /\ UNCHANGED <<lastPk, payload, writes, replayOf, purging>>

Recycle(p) ==
    /\ Locks(p)
    /\ record.expired
    /\ Reclaim(p, [record EXCEPT !.payload = payload[p], !.response = None,
                                 !.old = FALSE, !.expired = FALSE,
                                 !.takers = {}])
    /\ outlived' = outlived \cup {q \in Requests : Handling(q)}

Reuse(p) ==
    /\ Locks(p)
    /\ ~record.expired
    /\ record.payload # payload[p]
    /\ Goto(p, "reused")
    /\ UNCHANGED <<record, lastPk, payload, recordId, writes, replayOf,
                   reclaims, purging, outlived>>

MutantMatches(p) == Locks(p) /\ ~record.expired

Matches(p) == Locks(p) /\ ~record.expired /\ record.payload = payload[p]

Replay(p) ==
    /\ Matches(p)
    /\ record.response # None
    /\ replayOf' = [replayOf EXCEPT ![p] = record.response]
    /\ Goto(p, "replayed")
    /\ UNCHANGED <<record, lastPk, payload, recordId, writes, reclaims, purging,
                   outlived>>

TakeOver(p) ==
    /\ Matches(p)
    /\ record.response = None
    /\ record.old
    /\ Reclaim(p, [record EXCEPT !.old = FALSE, !.takers = @ \cup {p}])
    /\ UNCHANGED outlived

Refuse(p) ==
    /\ Matches(p)
    /\ record.response = None
    /\ ~record.old
    /\ Goto(p, "in_progress")
    /\ UNCHANGED <<record, lastPk, payload, recordId, writes, replayOf,
                   reclaims, purging, outlived>>

-----------------------------------------------------------------------------
(* run_idempotent *)

\* The handler commits its write and returns the response.
Write(p) ==
    /\ pc[p] = "running"
    /\ writes' = writes \cup {p}
    /\ Goto(p, "written")
    /\ UNCHANGED <<record, lastPk, payload, recordId, replayOf, reclaims, purging,
                   outlived>>

\* The handler raises an API error below 500; its transaction is rolled back.
Reject(p) ==
    /\ pc[p] = "running"
    /\ Goto(p, "rejected")
    /\ UNCHANGED <<record, lastPk, payload, recordId, writes, replayOf,
                   reclaims, purging, outlived>>

\* The handler fails in any other way: the key stays reserved.
Fail(p) ==
    /\ pc[p] = "running"
    /\ Goto(p, "failed")
    /\ UNCHANGED <<record, lastPk, payload, recordId, writes, replayOf,
                   reclaims, purging, outlived>>

\* _release deletes the record by primary key if it has no response.
Release(p) ==
    /\ pc[p] = "rejected"
    /\ record' = IF /\ record # None
                    /\ record.pk = recordId[p]
                    /\ record.response = None
                 THEN None ELSE record
    /\ Goto(p, "released")
    /\ UNCHANGED <<lastPk, payload, recordId, writes, replayOf, reclaims, purging,
                   outlived>>

\* complete stores the response by primary key, whoever holds the record now.
\* A queryset update does not touch updated_at.
Complete(p) ==
    /\ pc[p] = "written"
    /\ record' = IF record # None /\ record.pk = recordId[p]
                 THEN [record EXCEPT !.response = p] ELSE record
    /\ Goto(p, "completed")
    /\ UNCHANGED <<lastPk, payload, recordId, writes, replayOf, reclaims, purging,
                   outlived>>

-----------------------------------------------------------------------------
(* The environment *)

Die(p) ==
    /\ Crashes
    /\ pc[p] \in Live
    /\ Goto(p, "dead")
    /\ UNCHANGED <<record, lastPk, payload, recordId, writes, replayOf,
                   reclaims, purging, outlived>>

\* 60 seconds pass since the record was claimed.
GrowOld ==
    /\ record # None
    /\ ~record.old
    /\ SlowHandlers \/ \A p \in Requests : ~Handling(p)
    /\ record' = [record EXCEPT !.old = TRUE]
    /\ UNCHANGED <<lastPk, payload, pc, recordId, writes, replayOf, reclaims,
                   purging, outlived>>

\* 24 hours pass since the record was inserted or recycled.  Who has had it all
\* that time is through with it by now; who took it over may not be.
Expire ==
    /\ Expiry
    /\ record # None
    /\ ~record.expired
    /\ \A p \in Requests : Handling(p) => p \in record.takers
    /\ record' = [record EXCEPT !.expired = TRUE]
    /\ UNCHANGED <<lastPk, payload, pc, recordId, writes, replayOf, reclaims,
                   purging, outlived>>

\* purge_expired_idempotency_records reads the expired primary keys and then
\* deletes the rows that have them, expired or not by then.
PurgeRead ==
    /\ record # None
    /\ record.expired
    /\ purging = {}
    /\ purging' = {record.pk}
    /\ UNCHANGED <<record, lastPk, payload, pc, recordId, writes, replayOf,
                   reclaims, outlived>>

PurgeDelete ==
    /\ purging # {}
    /\ purging' = {}
    /\ IF record # None /\ record.pk \in purging
         THEN record' = None /\ reclaims' = reclaims + 1
         ELSE UNCHANGED <<record, reclaims>>
    /\ UNCHANGED <<lastPk, payload, pc, recordId, writes, replayOf, outlived>>

Begin(p) ==
    \/ Insert(p) \/ Collide(p) \/ FindNothing(p) \/ Recycle(p) \/ Reuse(p)
    \/ Replay(p) \/ TakeOver(p) \/ Refuse(p)

Run(p) == Write(p) \/ Reject(p) \/ Fail(p) \/ Release(p) \/ Complete(p)

Next ==
    \/ \E p \in Requests : Begin(p) \/ Run(p) \/ Die(p)
    \/ GrowOld
    \/ Expire
    \/ PurgeRead
    \/ PurgeDelete

Spec == Init /\ [][Next]_vars

-----------------------------------------------------------------------------
(* What must hold *)

\* A replayed response is that of a committed write, and of the same body,
\* however slow handlers are taken over, die, release and complete late.  The
\* one way round it: the writer took the key over so late in the record's day
\* that the record was recycled while it was still at work (complete goes by
\* the primary key alone).
ReplayIsFaithful ==
    \A p \in Requests :
        pc[p] = "replayed" =>
            /\ replayOf[p] \in writes
            /\ payload[replayOf[p]] = payload[p] \/ replayOf[p] \in outlived

\* "same key + same body -> the stored response is replayed", "same key + other
\* body -> 409" (apps/common/idempotency.py): no response of another body is
\* ever replayed.  The code does not keep this: see outlived.
SameBodyReplayed ==
    \A p \in Requests :
        pc[p] = "replayed" => payload[replayOf[p]] = payload[p]

-----------------------------------------------------------------------------
(* The protocol implements the promise, in which a takeover, a recycling   *)
(* and a purge each permit one more attempt.                               *)

Promise == INSTANCE AtMostOnceWrite WITH
    permits  <- 1 + reclaims,
    active   <- {p \in Requests : pc[p] = "running"},
    written  <- writes,
    replayed <- {p \in Requests : pc[p] = "replayed"}

\* Slow handlers, dead processes, late releases and late completions never let
\* through more attempts than the reclaims of the record account for, and what
\* is replayed was written.
ImplementsPromise == Promise!Spec
=============================================================================
