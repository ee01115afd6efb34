---------------------------- MODULE PushDelivery ----------------------------
(***************************************************************************)
(* Push messages of one member on their way to telephones (Expo tokens)    *)
(* and browsers (Web Push subscriptions): the Celery task that sends them  *)
(* and sends again to those it did not reach, and the later check of the   *)
(* receipts (apps/notifications/tasks.py, apps/notifications/services.py). *)
(*                                                                         *)
(* A run of the task is a sequence of statements and calls that nothing    *)
(* holds together: it reads the addresses, posts, records the outcome,     *)
(* switches dead devices off, posts to the browsers, records, asks Celery  *)
(* for a retry, acknowledges.  A lost worker gives its message back to the *)
(* queue, whatever was posted already; a provider may have accepted what   *)
(* the task takes for a failure.                                           *)
(***************************************************************************)
EXTENDS Integers, BagsExt, Bags

CONSTANTS
    Pushes,        \* messages to the member
    Devices,       \* telephones of the member, one Expo token each
    Browsers,      \* browsers of the member, one endpoint each
    Workers,       \* processes that run the task
    MaxRetries,    \* max_retries of the task
    FailureLimit,  \* WEB_PUSH_MAX_CONSECUTIVE_FAILURES
    RetryAnswers,  \* what Celery makes of a retry: "sent" or "rejected"
    MaxMishaps,    \* bound on lost workers and lost answers
    MaxChanges     \* bound on what the member does to telephones and browsers

Parameters ==
    /\ MaxRetries \in Nat
    /\ FailureLimit \in Nat \ {0}
    /\ RetryAnswers \in (SUBSET {"sent", "rejected"}) \ {{}}
    /\ MaxMishaps \in Nat
    /\ MaxChanges \in Nat
    /\ Devices \cap Browsers = {}

Recipients == Devices \cup Browsers

\* The two tables that hold tokens: DeviceToken and DeviceInstallation.
Stores == {"tokens", "installations"}

VARIABLES
    stored,     \* the active tokens of each store
    subs,       \* the browser subscriptions
    gone,       \* devices the provider no longer knows
    queue,      \* the bag of messages of the task
    queued,     \* pushes that were asked for
    run,        \* what each worker is doing
    row,        \* the PushDelivery rows
    check,      \* what the check of receipts is doing, one at a time
    got,        \* how often each recipient was handed each push
    mishaps,    \* lost workers and lost answers of each push
    known,      \* devices found dead and not registered since
    missed,     \* those of them whose finder was lost before it acted
    dropped,    \* recipients nobody will try any more, after how many retries
    changes     \* counter of MaxChanges

vars == <<stored, subs, gone, queue, queued, run, row, check, got, mishaps,
          known, missed, dropped, changes>>

Message == [push : Pushes, only : SUBSET Recipients, tries : 0..MaxRetries]

Run == [msg : Message,
        at : {"expo", "rows", "tokens", "installations", "web", "record",
              "settle", "ack"},
        to : SUBSET Devices, ok : SUBSET Recipients, dead : SUBSET Recipients,
        failed : SUBSET Recipients, retry : SUBSET Recipients]

NoRun == [at |-> "idle"]

\* A row remembers, for the provider, whether the device was there.
Row == [device : Devices, status : {"sent", "delivered", "failed", "dead"},
        there : BOOLEAN]

\* The devices a check has asked about and what it was told.
Check == [at : {"read", "fetch", "write", "tokens", "installations"},
          pending : SUBSET Row, dead : SUBSET Devices]

NoCheck == [at |-> "idle"]

TypeOK ==
    /\ stored \in [Stores -> SUBSET Devices]
    /\ subs \in [Browsers -> [active : BOOLEAN, failures : Nat]]
    /\ gone \subseteq Devices
    /\ IsABag(queue) /\ BagToSet(queue) \subseteq Message
    /\ queued \subseteq Pushes
    /\ run \in [Workers -> Run \cup {NoRun}]
    /\ row \subseteq Row
    /\ check = NoCheck \/ check \in Check
    /\ got \in [Pushes -> [Recipients -> Nat]]
    /\ mishaps \in [Pushes -> 0..MaxMishaps]
    /\ known \subseteq Devices /\ missed \subseteq known
    /\ dropped \subseteq Pushes \X Recipients \X (0..MaxRetries)
    /\ changes \in 0..MaxChanges

\* The member's app has registered its token in both stores.
Init ==
    /\ stored = [s \in Stores |-> Devices]
    /\ subs = [b \in Browsers |-> [active |-> TRUE, failures |-> 0]]
    /\ gone = {}
    /\ queue = EmptyBag
    /\ queued = {}
    /\ run = [w \in Workers |-> NoRun]
    /\ row = {}
    /\ check = NoCheck
    /\ got = [p \in Pushes |-> [r \in Recipients |-> 0]]
    /\ mishaps = [p \in Pushes |-> 0]
    /\ known = {}
    /\ missed = {}
    /\ dropped = {}
    /\ changes = 0

\* active_tokens: the union of both stores, each token once.
ActiveTokens == stored["tokens"] \cup stored["installations"]

\* active_subscriptions.
ActiveBrowsers == {b \in Browsers : subs[b].active}

\* One more mishap of a push, if the bound allows it.
Mishap(p) ==
    /\ mishaps[p] < MaxMishaps
    /\ mishaps' = [mishaps EXCEPT ![p] = @ + 1]

\* A provider hands the push of a run to recipients.
Hand(w, R) ==
    got' = [got EXCEPT ![run[w].msg.push] =
               [r \in Recipients |-> @[r] + IF r \in R THEN 1 ELSE 0]]

\* A run goes on.
Goes(w, place) == run' = [run EXCEPT ![w].at = place]

\* It goes on to other recipients.
Turns(w, place) ==
    run' = [run EXCEPT ![w] = [@ EXCEPT !.at = place, !.to = {}, !.ok = {},
                                        !.dead = {}, !.failed = {}]]

-----------------------------------------------------------------------------
(* Registration *)

Change ==
    /\ changes < MaxChanges
    /\ changes' = changes + 1

\* The app registers its token, in one store or the other.
Register(d, s) ==
    /\ Change
    /\ d \in gone \/ d \notin stored[s]
    /\ stored' = [stored EXCEPT ![s] = @ \cup {d}]
    /\ gone' = gone \ {d}
    /\ known' = known \ {d}
    /\ missed' = missed \ {d}
    /\ UNCHANGED <<subs, queue, queued, run, row, check, got, mishaps, dropped>>

\* A token is deleted, an installation revoked.
Revoke(d, s) ==
    /\ Change
    /\ d \in stored[s]
    /\ stored' = [stored EXCEPT ![s] = @ \ {d}]
    /\ UNCHANGED <<subs, gone, queue, queued, run, row, check, got, mishaps,
                   known, missed, dropped>>

\* The app is removed from a telephone.
Vanish(d) ==
    /\ Change
    /\ gone' = gone \cup {d}
    /\ UNCHANGED <<stored, subs, queue, queued, run, row, check, got, mishaps,
                   known, missed, dropped>>

Subscribe(b) ==
    /\ Change
    /\ ~subs[b].active
    /\ subs' = [subs EXCEPT ![b] = [active |-> TRUE, failures |-> 0]]
    /\ UNCHANGED <<stored, gone, queue, queued, run, row, check, got, mishaps,
                   known, missed, dropped>>

Unsubscribe(b) ==
    /\ Change
    /\ subs[b].active
    /\ subs' = [subs EXCEPT ![b].active = FALSE]
    /\ UNCHANGED <<stored, gone, queue, queued, run, row, check, got, mishaps,
                   known, missed, dropped>>

\* create_notification commits and sends the task, to everybody.
Ask(p) ==
    /\ p \notin queued
    /\ queued' = queued \cup {p}
    /\ queue' = BagAdd(queue, [push |-> p, only |-> Recipients, tries |-> 0])
    /\ UNCHANGED <<stored, subs, gone, run, row, check, got, mishaps, known,
                   missed, dropped, changes>>

-----------------------------------------------------------------------------
(* The task *)

\* deliver_push_notification reads the tokens it will send to.
Take(w, m) ==
    /\ run[w] = NoRun
    /\ BagIn(m, queue)
    /\ queue' = BagRemove(queue, m)
    /\ run' = [run EXCEPT ![w] =
                  [msg |-> m, at |-> "expo",
                   to |-> ActiveTokens \cap m.only, ok |-> {}, dead |-> {},
                   failed |-> {}, retry |-> {}]]
    /\ UNCHANGED <<stored, subs, gone, queued, row, check, got, mishaps, known,
                   missed, dropped, changes>>

\* Expo answers with a ticket for each token of the batch; the ticket of a
\* device it does not know may still be "ok".
Tickets(w) ==
    \E ticket \in [run[w].to -> {"ok", "dead", "busy", "error"}] :
        LET Having(answer) == {d \in run[w].to : ticket[d] = answer} IN
        /\ Having("dead") \subseteq gone
        /\ Hand(w, Having("ok"))
        /\ known' = known \cup Having("dead")
        /\ run' = [run EXCEPT ![w].at = "rows", ![w].to = {}, ![w].ok = Having("ok"),
                              ![w].dead = Having("dead"),
                              ![w].failed = Having("error"),
                              ![w].retry = Having("busy")]
        /\ UNCHANGED mishaps

\* Accepted, but the tickets cannot be read; or refused for good.
NoTickets(w) ==
    /\ Turns(w, "web")
    /\ Hand(w, run[w].to) \/ UNCHANGED got
    /\ UNCHANGED <<known, mishaps>>

\* 429, 5xx, no connection: the whole batch is to be tried again.  The answer
\* that did not come may have been that everything is accepted.
Unreachable(w) ==
    /\ run' = [run EXCEPT ![w].at = "web", ![w].to = {}, ![w].retry = run[w].to]
    /\ \/ UNCHANGED <<got, mishaps>>
       \/ Hand(w, run[w].to) /\ Mishap(run[w].msg.push)
    /\ UNCHANGED known

\* _send_expo posts the batch.
PostExpo(w) ==
    /\ run[w].at = "expo"
    /\ IF run[w].to = {} THEN Goes(w, "web") /\ UNCHANGED <<got, known, mishaps>>
       ELSE Tickets(w) \/ NoTickets(w) \/ Unreachable(w)
    /\ UNCHANGED <<stored, subs, gone, queue, queued, row, check, missed, dropped,
                   changes>>

\* _store_rows: one statement, whose failure is only logged.
StoreRows(w) ==
    /\ run[w].at = "rows"
    /\ Goes(w, "tokens")
    /\ \/ UNCHANGED row
       \/ LET Rows(D, status) ==
                {[device |-> d, status |-> status, there |-> d \notin gone] : d \in D}
          IN row' = row \cup Rows(run[w].ok, "sent") \cup Rows(run[w].dead, "dead")
                        \cup Rows(run[w].failed, "failed")
    /\ UNCHANGED <<stored, subs, gone, queue, queued, check, got, mishaps, known,
                   missed, dropped, changes>>

\* MUTANT: a dead token is switched off in the first store only.
MutantSwitchOff(w) ==
    /\ run[w].at = "tokens"
    /\ stored' = [stored EXCEPT !["tokens"] = @ \ run[w].dead]
    /\ Turns(w, "web")
    /\ UNCHANGED <<subs, gone, queue, queued, row, check, got, mishaps, known,
                   missed, dropped, changes>>

\* deactivate_tokens, one store after the other.
SwitchOff(w) ==
    /\ run[w].at \in Stores
    /\ stored' = [stored EXCEPT ![run[w].at] = @ \ run[w].dead]
    /\ IF run[w].at = "tokens" THEN Goes(w, "installations") ELSE Turns(w, "web")
    /\ UNCHANGED <<subs, gone, queue, queued, row, check, got, mishaps, known,
                   missed, dropped, changes>>

\* WebPushService.send_to_user: one request for each subscription.
PostWeb(w) ==
    /\ run[w].at = "web"
    /\ LET to == ActiveBrowsers \cap run[w].msg.only IN
       \E answer \in [to -> {"ok", "gone", "refused", "transient", "lost"}] :
          LET Having(a) == {b \in to : answer[b] = a} IN
          /\ Hand(w, Having("ok") \cup Having("lost"))
          /\ IF Having("lost") = {} THEN UNCHANGED mishaps
             ELSE Mishap(run[w].msg.push)
          /\ run' = [run EXCEPT
                ![w].at = "record", ![w].ok = Having("ok"),
                ![w].dead = Having("gone"), ![w].failed = Having("refused"),
                ![w].retry = @ \cup Having("transient") \cup Having("lost")]
    /\ UNCHANGED <<stored, subs, gone, queue, queued, row, check, known, missed,
                   dropped, changes>>

\* _record_outcomes.
RecordWeb(w) ==
    /\ run[w].at = "record"
    /\ subs' = [b \in Browsers |->
          CASE b \in run[w].ok     -> [subs[b] EXCEPT !.failures = 0]
            [] b \in run[w].dead   -> [subs[b] EXCEPT !.active = FALSE]
            [] b \in run[w].failed ->
                 [active   |-> subs[b].active /\ subs[b].failures + 1 < FailureLimit,
                  failures |-> subs[b].failures + 1]
            [] OTHER -> subs[b]]
    /\ Turns(w, "settle")
    /\ UNCHANGED <<stored, gone, queue, queued, row, check, got, mishaps, known,
                   missed, dropped, changes>>

\* The run ends and its message with it.
End(w) == run' = [run EXCEPT ![w] = NoRun]

\* Nobody will try the rest of a run again.
Drop(w) ==
    /\ End(w)
    /\ dropped' = dropped \cup
          {<<run[w].msg.push, r, run[w].msg.tries>> : r \in run[w].retry}

\* MUTANT: a retry is for all the recipients of the run.
MutantRetry(w) ==
    [push |-> run[w].msg.push, only |-> run[w].msg.only,
     tries |-> run[w].msg.tries + 1]

\* MUTANT: a retry is not counted.
MutantUncounted(w) ==
    [push |-> run[w].msg.push, only |-> run[w].retry, tries |-> run[w].msg.tries]

\* The message of a retry: for the recipients that were not reached.
Retry(w) ==
    [push |-> run[w].msg.push, only |-> run[w].retry,
     tries |-> run[w].msg.tries + 1]

\* self.retry sends the task again with the positional arguments of the request
\* and the given keywords; Celery rejects one that names an argument twice, and
\* the message is dropped.  This is what becomes of a retry when the task was
\* queued with positional arguments, as all callers in the repository do.  With
\* no retry left, Celery raises the exception it was given.  In neither case is
\* _record_gave_up reached.
Settle(w) ==
    /\ run[w].at = "settle"
    /\ \/ /\ run[w].retry = {}
          /\ End(w)
          /\ UNCHANGED <<queue, dropped>>
       \/ /\ run[w].retry # {} /\ run[w].msg.tries < MaxRetries
          /\ \/ /\ "sent" \in RetryAnswers
                /\ queue' = BagAdd(queue, Retry(w))
                /\ Goes(w, "ack")
                /\ UNCHANGED dropped
             \/ /\ "rejected" \in RetryAnswers
                /\ Drop(w)
                /\ UNCHANGED queue
       \/ /\ run[w].retry # {} /\ run[w].msg.tries = MaxRetries
          /\ Drop(w)
          /\ UNCHANGED queue
    /\ UNCHANGED <<stored, subs, gone, queued, row, check, got, mishaps, known,
                   missed, changes>>

\* The message is acknowledged after the run (CELERY_TASK_ACKS_LATE).
Acknowledge(w) ==
    /\ run[w].at = "ack"
    /\ End(w)
    /\ UNCHANGED <<stored, subs, gone, queue, queued, row, check, got, mishaps,
                   known, missed, dropped, changes>>

\* Devices a process has found dead and not yet switched off everywhere.
Found(process) ==
    IF process.at \in {"rows", "write"} \cup Stores THEN process.dead ELSE {}

\* A worker is lost: its message goes back to the queue.
Lose(w) ==
    /\ run[w] # NoRun
    /\ Mishap(run[w].msg.push)
    /\ queue' = BagAdd(queue, run[w].msg)
    /\ missed' = missed \cup (Found(run[w]) \cap known)
    /\ End(w)
    /\ UNCHANGED <<stored, subs, gone, queued, row, check, got, known, dropped,
                   changes>>

Work(w) ==
    \/ PostExpo(w) \/ StoreRows(w) \/ SwitchOff(w) \/ PostWeb(w)
    \/ RecordWeb(w) \/ Settle(w) \/ Acknowledge(w)

-----------------------------------------------------------------------------
(* Receipts *)

Awaiting == {r \in row : r.status = "sent"}

\* check_pending fails the rows whose receipt has not come for a day ...
Expire ==
    /\ check = NoCheck
    /\ \E old \in SUBSET Awaiting :
          row' = (row \ old) \cup {[r EXCEPT !.status = "failed"] : r \in old}
    /\ check' = [at |-> "read", pending |-> {}, dead |-> {}]
    /\ UNCHANGED <<stored, subs, gone, queue, queued, run, got, mishaps, known,
                   missed, dropped, changes>>

\* ... reads those that are a quarter of an hour old ...
ReadDue ==
    /\ check.at = "read"
    /\ \E due \in SUBSET Awaiting :
          check' = IF due = {} THEN NoCheck
                   ELSE [check EXCEPT !.at = "fetch", !.pending = due]
    /\ UNCHANGED <<stored, subs, gone, queue, queued, run, row, got, mishaps,
                   known, missed, dropped, changes>>

\* ... and asks for their receipts: none comes, or those of some rows.
Fetch ==
    /\ check.at = "fetch"
    /\ \E ready \in SUBSET check.pending :
          check' = IF ready = {} THEN NoCheck
                   ELSE [at |-> "write", pending |-> ready,
                         dead |-> {r.device : r \in {x \in ready : ~x.there}}]
    /\ UNCHANGED <<stored, subs, gone, queue, queued, run, row, got, mishaps,
                   known, missed, dropped, changes>>

\* What the receipt of a push makes of its row.
Verdicts(r) == IF r.there THEN {"delivered", "failed"} ELSE {"dead"}

\* The bulk_update of the rows it has read.
WriteVerdicts ==
    /\ check.at = "write"
    /\ \E verdict \in [check.pending -> {"delivered", "failed", "dead"}] :
          /\ \A r \in check.pending : verdict[r] \in Verdicts(r)
          /\ row' = (row \ check.pending) \cup
                    {[r EXCEPT !.status = verdict[r]] : r \in check.pending}
    /\ known' = known \cup check.dead
    /\ check' = [check EXCEPT !.at = "tokens", !.pending = {}]
    /\ UNCHANGED <<stored, subs, gone, queue, queued, run, got, mishaps, missed,
                   dropped, changes>>

\* deactivate_tokens again.
SwitchOffDead ==
    /\ check.at \in Stores
    /\ stored' = [stored EXCEPT ![check.at] = @ \ check.dead]
    /\ check' = IF check.at = "tokens" THEN [check EXCEPT !.at = "installations"]
              ELSE NoCheck
    /\ UNCHANGED <<subs, gone, queue, queued, run, row, got, mishaps, known,
                   missed, dropped, changes>>

\* The process is lost; the task runs again anyway, but settled rows are not
\* pending any more.
LoseCheck ==
    /\ check # NoCheck
    /\ \E p \in Pushes : Mishap(p)
    /\ missed' = missed \cup (Found(check) \cap known)
    /\ check' = NoCheck
    /\ UNCHANGED <<stored, subs, gone, queue, queued, run, row, got, known,
                   dropped, changes>>

-----------------------------------------------------------------------------

Next ==
    \/ \E d \in Devices, s \in Stores : Register(d, s) \/ Revoke(d, s)
    \/ \E d \in Devices : Vanish(d)
    \/ \E b \in Browsers : Subscribe(b) \/ Unsubscribe(b)
    \/ \E p \in Pushes : Ask(p)
    \/ \E w \in Workers, m \in BagToSet(queue) : Take(w, m)
    \/ \E w \in Workers : Work(w) \/ Lose(w)
    \/ Expire \/ ReadDue \/ Fetch \/ WriteVerdicts \/ SwitchOffDead \/ LoseCheck

Spec == Init /\ [][Next]_vars

\* Workers are processes of their own: one that holds a message goes on with
\* it, and one that is free takes the next.
Fairness ==
    \A w \in Workers :
       /\ WF_vars(\E m \in BagToSet(queue) : Take(w, m))
       /\ WF_vars(Work(w))

-----------------------------------------------------------------------------
(* Properties *)

\* A recipient is handed a push a second time only when a worker was lost or
\* the answer of a provider did not arrive: registered in both stores, among
\* others that failed, or tried again, it gets one copy.
NoSecondCopy ==
    \A p \in Pushes, r \in Recipients : got[p][r] <= 1 + mishaps[p]

\* A device that a ticket or a receipt has told to be gone is switched off in
\* both stores, or its finder is about to, or was lost before it could.
DeadIsSwitchedOff ==
    known \cap ActiveTokens \subseteq
        missed \cup (UNION {Found(run[w]) : w \in Workers}) \cup Found(check)

\* Retries come to an end: every push asked for is, at some time, on nobody's
\* list any more.
PushEnds ==
    \A p \in Pushes :
        p \in queued ~>
            /\ \A m \in BagToSet(queue) : m.push # p
            /\ \A w \in Workers : run[w] = NoRun \/ run[w].msg.push # p

\* "On a transient provider failure only the recipients that did not get it are
\* retried (exponential backoff, max_retries)" (deliver_push_notification): who is
\* given up was tried that often again.  Not kept while Celery rejects retries.
RetriedInFull ==
    \A p \in Pushes, r \in Recipients, n \in 0..MaxRetries :
        <<p, r, n>> \in dropped => n = MaxRetries
=============================================================================
