----------------------------- MODULE ChatNotice -----------------------------
(***************************************************************************)
(* What one member is told of the new messages in one chat                 *)
(* (ChatNotificationService of apps/chat/notify.py): one notification that *)
(* counts until it is read, and a push that rings once in a while.         *)
(*                                                                         *)
(* For every message a task looks the notification up, and writes it or    *)
(* makes a new one; nothing is locked and every statement commits by       *)
(* itself.  The tasks of two messages meet, the member reads in between,   *)
(* and the message of a lost worker is delivered again.                    *)
(***************************************************************************)
EXTENDS Integers, FiniteSets, Sequences

CONSTANTS
    Messages,      \* chat messages of others
    Workers,       \* processes that run the task
    MaxDeliveries  \* bound on deliveries of the task

Parameters == MaxDeliveries \in Nat

VARIABLES
    rows,     \* the Notification rows of the chat
    queue,    \* messages whose task is queued
    run,      \* what each worker is doing
    recent,   \* the cache holds the key of the last push
    rung,     \* pushes since the last time it was quiet for an interval
    excused,  \* one of them followed a reading, or comes of a spoilt message
    handled,  \* messages whose task has ended
    spoilt,   \* messages whose task has met another, or its worker was lost
    sent      \* counter of MaxDeliveries

vars == <<rows, queue, run, recent, rung, excused, handled, spoilt, sent>>

\* A notification, the messages its count stands for, and whether it holds the
\* key of the chat.
Notice == [told : SUBSET Messages, count : Nat, read : BOOLEAN, keyed : BOOLEAN]

\* A run remembers which row it has found, and what it counted.
Run == [at : {"look", "write", "ring", "release", "create", "set"}, msg : Messages,
        row : Nat, told : SUBSET Messages, count : Nat]

NoRun == [at |-> "idle"]

TypeOK ==
    /\ rows \in Seq(Notice)
    /\ queue \subseteq Messages
    /\ run \in [Workers -> Run \cup {NoRun}]
    /\ recent \in BOOLEAN
    /\ rung \in Nat
    /\ excused \in BOOLEAN
    /\ handled \subseteq Messages
    /\ spoilt \subseteq Messages
    /\ sent \in 0..MaxDeliveries

Init ==
    /\ rows = <<>>
    /\ queue = {}
    /\ run = [w \in Workers |-> NoRun]
    /\ recent = FALSE
    /\ rung = 0
    /\ excused = FALSE
    /\ handled = {}
    /\ spoilt = {}
    /\ sent = 0

Running == {w \in Workers : run[w] # NoRun}

Keyed == {i \in DOMAIN rows : rows[i].keyed}

At(w, place) == run[w].at = place
Goes(w, place) == run' = [run EXCEPT ![w].at = place]

Ends(w) ==
    /\ run' = [run EXCEPT ![w] = NoRun]
    /\ handled' = handled \cup {run[w].msg}

\* deliver_push_notification.delay.
Rings(w) ==
    /\ rung' = rung + 1
    /\ excused' = (excused \/ run[w].msg \in spoilt)

Deliver(m) ==
    /\ sent < MaxDeliveries
    /\ sent' = sent + 1
    /\ queue' = queue \cup {m}

-----------------------------------------------------------------------------

\* queue_notification, after the commit of a message.
Post(m) ==
    /\ m \notin handled \cup queue
    /\ \A w \in Running : run[w].msg # m
    /\ Deliver(m)
    /\ UNCHANGED <<rows, run, recent, rung, excused, handled, spoilt>>

\* notify begins for a member who has not muted the chat and is not there.
Take(w, m) ==
    /\ run[w] = NoRun
    /\ m \in queue
    /\ queue' = queue \ {m}
    /\ run' = [run EXCEPT ![w] =
                  [at |-> "look", msg |-> m, row |-> 0, told |-> {}, count |-> 0]]
    /\ spoilt' = IF Running = {} THEN spoilt
                 ELSE spoilt \cup {m} \cup {run[v].msg : v \in Running}
    /\ UNCHANGED <<rows, recent, rung, excused, handled, sent>>

\* The row that holds the key.
Look(w) ==
    /\ At(w, "look")
    /\ \/ Keyed = {} /\ Goes(w, "create")
       \/ \E i \in Keyed :
            run' = [run EXCEPT ![w] = [@ EXCEPT
                      !.at = IF rows[i].read THEN "release" ELSE "write",
                      !.row = i, !.told = rows[i].told, !.count = rows[i].count]]
    /\ UNCHANGED <<rows, queue, recent, rung, excused, handled, spoilt, sent>>

\* The message is added to what was found.
Write(w) ==
    /\ At(w, "write")
    /\ rows' = [rows EXCEPT ![run[w].row] = [@ EXCEPT
                  !.told = run[w].told \cup {run[w].msg}, !.count = run[w].count + 1]]
    /\ Goes(w, "ring")
    /\ UNCHANGED <<queue, recent, rung, excused, handled, spoilt, sent>>

\* MUTANT: the key in the cache is asked for, but not set.
MutantRing(w) ==
    /\ At(w, "ring")
    /\ IF recent THEN UNCHANGED <<rung, excused>> ELSE Rings(w)
    /\ Ends(w)
    /\ UNCHANGED <<rows, queue, recent, spoilt, sent>>

\* _push, unless there was one a moment ago.
Ring(w) ==
    /\ At(w, "ring")
    /\ IF recent THEN UNCHANGED <<recent, rung, excused>>
       ELSE recent' = TRUE /\ Rings(w)
    /\ Ends(w)
    /\ UNCHANGED <<rows, queue, spoilt, sent>>

\* MUTANT: a notification that was read keeps the key.
MutantRelease(w) ==
    /\ At(w, "release")
    /\ Goes(w, "create")
    /\ UNCHANGED <<rows, queue, recent, rung, excused, handled, spoilt, sent>>

\* A notification that was read gives the key up.
Release(w) ==
    /\ At(w, "release")
    /\ rows' = [rows EXCEPT ![run[w].row].keyed = FALSE]
    /\ Goes(w, "create")
    /\ UNCHANGED <<queue, recent, rung, excused, handled, spoilt, sent>>

\* create_notification inserts a new one and rings; the row of another run
\* with the key makes it fail, and the member hears nothing.
Create(w) ==
    /\ At(w, "create")
    /\ \/ /\ Keyed = {}
          /\ rows' = Append(rows, [told |-> {run[w].msg}, count |-> 1,
                                   read |-> FALSE, keyed |-> TRUE])
          /\ Rings(w)
          /\ Goes(w, "set")
          /\ UNCHANGED handled
       \/ /\ Keyed # {}
          /\ Ends(w)
          /\ UNCHANGED <<rows, rung, excused>>
    /\ UNCHANGED <<queue, recent, spoilt, sent>>

\* cache.set.
SetRecent(w) ==
    /\ At(w, "set")
    /\ recent' = TRUE
    /\ Ends(w)
    /\ UNCHANGED <<rows, queue, rung, excused, spoilt, sent>>

\* The worker is lost, and its task is delivered again.
Die(w) ==
    /\ run[w] # NoRun
    /\ run' = [run EXCEPT ![w] = NoRun]
    /\ Deliver(run[w].msg)
    /\ spoilt' = spoilt \cup {run[w].msg}
    /\ excused' = TRUE
    /\ UNCHANGED <<rows, recent, rung, handled>>

\* mark_read.
Read(i) ==
    /\ ~rows[i].read
    /\ rows' = [rows EXCEPT ![i].read = TRUE]
    /\ excused' = (excused \/ rung > 0 \/ Running # {})
    /\ UNCHANGED <<queue, run, recent, rung, handled, spoilt, sent>>

\* It is quiet for an interval, which is much longer than a run.
WindowEnds ==
    /\ Running = {}
    /\ rung > 0
    /\ recent' = FALSE
    /\ rung' = 0
    /\ excused' = FALSE
    /\ UNCHANGED <<rows, queue, run, handled, spoilt, sent>>

-----------------------------------------------------------------------------

Next ==
    \/ \E m \in Messages : Post(m)
    \/ \E w \in Workers, m \in Messages : Take(w, m)
    \/ \E w \in Workers :
          \/ Look(w) \/ Write(w) \/ Ring(w) \/ Release(w) \/ Create(w)
          \/ SetRecent(w) \/ Die(w)
    \/ \E i \in DOMAIN rows : Read(i)
    \/ WindowEnds

Spec == Init /\ [][Next]_vars

-----------------------------------------------------------------------------
(* Properties *)

\* A message whose task has met no other, nor lost its worker, is in a
\* notification, whatever is read and written there later; and one of such
\* messages only counts every one of them once.
NewsIsKept ==
    /\ \A m \in handled \ spoilt : \E i \in DOMAIN rows : m \in rows[i].told
    /\ \A i \in DOMAIN rows :
          rows[i].told \cap spoilt = {} => rows[i].count = Cardinality(rows[i].told)

\* A burst of messages rings once, unless the member has read in between.
BurstIsFolded == rung > 1 => excused
=============================================================================
