---------------------------- MODULE PrintOrders ----------------------------
(***************************************************************************)
(* The print shop's order lifecycle: apps/printing (services.py, jobs.py), *)
(* the stock marker of apps/finance/services.py and the order sweep of     *)
(* apps/product/anonymization.py.                                          *)
(*                                                                         *)
(* Every service below opens a transaction and takes the row lock of the   *)
(* order (or of the user, for create_order) before it reads what it acts   *)
(* on, so one committed transaction is one action.  The exception is the   *)
(* account-deletion sweep, which picks its orders from an unlocked query   *)
(* and cancels them one by one: it is a scan followed by one action per    *)
(* order.                                                                  *)
(*                                                                         *)
(* Left out: priorities, notes, prices, notifications and the audit trail  *)
(* (no property here reads them), and the items of an order: a job stands  *)
(* for the printing of one item.                                           *)
(***************************************************************************)
EXTENDS Naturals, Sequences

CONSTANTS
    Orders,      \* identities of PrintOrder rows
    Jobs,        \* identities of PrintJob rows
    Users,       \* accounts that order from the app
    Keys,        \* values of the Idempotency-Key header (their hash)
    Contents,    \* what a request asks for: items, notes, pickup location
    Currencies,  \* FinanceCurrency
    Null         \* NULL, an empty column or a row that is not there

VARIABLES
    order,       \* PrintOrder rows
    history,     \* PrintOrderStatusHistory rows of each order, oldest first
    taken,       \* how often deduct_for_order took stock for the order
    job,         \* PrintJob rows
    answer,      \* the last accepted submit: what was asked, what was returned
    swept,       \* accounts whose deletion has read its open orders
    sweep        \* of those orders, the ones it has not yet cancelled

vars == <<order, history, taken, job, answer, swept, sweep>>

-----------------------------------------------------------------------------
(* Rows *)

PrintOrderStatus ==
    {"submitted", "under_review", "accepted", "printing", "ready",
     "delivered", "cancelled", "rejected"}

PrintJobStatus == {"queued", "printing", "done", "failed", "cancelled"}

PrintOrder ==
    [status : PrintOrderStatus, user : Users \cup {Null},
     key : Keys \cup {Null}, content : Contents \cup {Null},
     currency : Currencies, deducted : BOOLEAN]

PrintJob ==
    [status : PrintJobStatus, order : Orders,
     started : BOOLEAN, finished : BOOLEAN]

StatusHistory ==
    [old : PrintOrderStatus \cup {""}, new : PrintOrderStatus]

Answer ==
    [order : Orders, content : Contents, currency : Currencies]

ASSUME NullIsNoValue ==
    /\ Null \notin Users \cup Keys \cup Contents
    /\ Null \notin PrintOrder \cup PrintJob \cup Answer

TypeOK ==
    /\ order \in [Orders -> PrintOrder \cup {Null}]
    /\ history \in [Orders -> Seq(StatusHistory)]
    /\ taken \in [Orders -> Nat]
    /\ job \in [Jobs -> PrintJob \cup {Null}]
    /\ answer \in Answer \cup {Null}
    /\ swept \in SUBSET Users
    /\ sweep \in [Users -> SUBSET Orders]

HasStatus(o, statuses) == order[o] # Null /\ order[o].status \in statuses

-----------------------------------------------------------------------------
(* The status machines *)

ValidTransitions == [s \in PrintOrderStatus |->
    CASE s = "submitted"    -> {"under_review", "cancelled", "rejected"}
      [] s = "under_review" -> {"accepted", "cancelled", "rejected"}
      [] s = "accepted"     -> {"printing", "cancelled"}
      [] s = "printing"     -> {"ready"}
      [] s = "ready"        -> {"delivered"}
      [] OTHER              -> {}]

Terminal == {"delivered", "cancelled", "rejected"}

CounterStatuses == {"printing", "ready", "delivered"}

PrintableOrderStatuses ==
    {"submitted", "under_review", "accepted", "printing", "ready"}

JobAllowed == [s \in PrintJobStatus |->
    CASE s = "queued"   -> {"printing", "done", "failed"}
      [] s = "printing" -> {"done", "failed"}
      [] s = "failed"   -> {"queued"}
      [] OTHER          -> {}]

-----------------------------------------------------------------------------
(* Initially no row exists. *)

Init ==
    /\ order = [o \in Orders |-> Null]
    /\ history = [o \in Orders |-> <<>>]
    /\ taken = [o \in Orders |-> 0]
    /\ job = [j \in Jobs |-> Null]
    /\ answer = Null
    /\ swept = {}
    /\ sweep = [u \in Users |-> {}]

-----------------------------------------------------------------------------
(* Submitting an order from the app.  create_order takes the row lock of   *)
(* the user, which an account deletion holds from its scan to its end, and *)
(* checks nothing about the account: a request that was authenticated      *)
(* before the deletion still inserts an order after it.                    *)

\* A digest of the request: the currency is a parameter and is not hashed.
Fingerprint(content, currency) == <<content>>

\* The order this user already placed with this key.  A request without a key
\* is never matched.
MutantSameKey(u, k) ==
    {o \in Orders : /\ HasStatus(o, PrintOrderStatus \ Terminal)
                    /\ order[o].user = u
                    /\ order[o].key = k
                    /\ k # Null}

SameKey(u, k) ==
    {o \in Orders : /\ order[o] # Null
                    /\ order[o].user = u
                    /\ order[o].key = k
                    /\ k # Null}

InsertOrder(o, row) ==
    /\ order[o] = Null
    /\ order' = [order EXCEPT ![o] = row]
    /\ history' = [history EXCEPT ![o] = <<[old |-> "", new |-> row.status]>>]

\* create_order finds nothing under the key and inserts the order.
CreateOrder(u, o, k, content, currency) ==
    /\ sweep[u] = {}
    /\ SameKey(u, k) = {}
    /\ InsertOrder(o, [status |-> "submitted", user |-> u, key |-> k,
                       content |-> content, currency |-> currency,
                       deducted |-> FALSE])
    /\ answer' = [order |-> o, content |-> content, currency |-> currency]
    /\ UNCHANGED <<taken, job, swept, sweep>>

\* create_order finds an order under the key with the same fingerprint and
\* returns it.  With another fingerprint it raises IdempotencyKeyReused and
\* changes nothing.
ReplayOrder(u, o, k, content, currency) ==
    /\ sweep[u] = {}
    /\ o \in SameKey(u, k)
    /\ Fingerprint(order[o].content, order[o].currency)
         = Fingerprint(content, currency)
    /\ answer' = [order |-> o, content |-> content, currency |-> currency]
    /\ UNCHANGED <<order, history, taken, job, swept, sweep>>

-----------------------------------------------------------------------------
(* Moving an order along *)

\* deduct_for_order: stock_deducted_at makes a second call return at once.
TakenAfterDelivery(o) ==
    IF order[o].deducted THEN taken[o] ELSE taken[o] + 1

\* PrintStatusService.change_status, with the deduction a delivery makes.
ChangeStatus(o, new) ==
    /\ order[o] # Null
    /\ new \in ValidTransitions[order[o].status]
    /\ order' = [order EXCEPT
                   ![o].status = new,
                   ![o].deducted = @ \/ new = "delivered"]
    /\ history' = [history EXCEPT
                     ![o] = Append(@, [old |-> order[o].status, new |-> new])]
    /\ taken' = [taken EXCEPT
                   ![o] = IF new = "delivered" THEN TakenAfterDelivery(o) ELSE @]

\* Staff may ask for any status; the customer only for "cancelled", which is
\* the same call.
SetOrderStatus(o, new) ==
    /\ ChangeStatus(o, new)
    /\ UNCHANGED <<job, answer, swept, sweep>>

\* CounterOrderService.create: a walk-in order is born in one of three
\* statuses; born delivered, it takes its stock at once.
MutantCreateCounterOrder(o, status, currency) ==
    /\ InsertOrder(o, [status |-> status, user |-> Null, key |-> Null,
                       content |-> Null, currency |-> currency,
                       deducted |-> FALSE])
    /\ UNCHANGED <<taken, job, answer, swept, sweep>>

CreateCounterOrder(o, status, currency) ==
    /\ InsertOrder(o, [status |-> status, user |-> Null, key |-> Null,
                       content |-> Null, currency |-> currency,
                       deducted |-> status = "delivered"])
    /\ taken' = [taken EXCEPT ![o] = IF status = "delivered" THEN 1 ELSE 0]
    /\ UNCHANGED <<job, answer, swept, sweep>>

-----------------------------------------------------------------------------
(* Print jobs *)

\* PrintJobService.create_for_order queues a job for each item it prints.
\* A counter order has no file of its own and is refused.
QueueJob(o, j) ==
    /\ HasStatus(o, PrintableOrderStatuses)
    /\ order[o].user # Null
    /\ job[j] = Null
    /\ job' = [job EXCEPT ![j] = [status |-> "queued", order |-> o,
                                  started |-> FALSE, finished |-> FALSE]]
    /\ UNCHANGED <<order, history, taken, answer, swept, sweep>>

\* MUTANT: only the end of the printing stamps the start.
MutantAfterJobStatus(row, new) ==
    [row EXCEPT !.status = new,
                !.started = IF new = "queued" THEN FALSE ELSE new = "done" \/ @,
                !.finished = IF new = "queued" THEN FALSE
                             ELSE new \in {"done", "failed"} \/ @]

\* The row after PrintJobService.set_status: its two time stamps.
AfterJobStatus(row, new) ==
    [row EXCEPT !.status = new,
                !.started = IF new = "queued" THEN FALSE
                            ELSE new \in {"printing", "done"} \/ @,
                !.finished = IF new = "queued" THEN FALSE
                             ELSE new \in {"done", "failed"} \/ @]

\* Repeating the present status is accepted.
JobMayBecome(j, new) ==
    job[j] # Null /\ (new = job[j].status \/ new \in JobAllowed[job[j].status])

\* PrintJobService.set_status.  A job that starts or finishes moves an accepted
\* order to "printing".
SetJobStatus(j, new) ==
    /\ JobMayBecome(j, new)
    /\ job' = [job EXCEPT ![j] = AfterJobStatus(@, new)]
    /\ IF /\ new \in {"printing", "done"}
          /\ HasStatus(job[j].order, {"accepted"})
         THEN ChangeStatus(job[j].order, "printing")
         ELSE UNCHANGED <<order, history, taken>>
    /\ UNCHANGED <<answer, swept, sweep>>

\* PrintJobService.cancel: a job that has not finished; the order is left
\* alone, and cancelling twice changes nothing.
CancelJob(j) ==
    /\ job[j] # Null
    /\ job[j].status \in {"queued", "printing"}
    /\ job' = [job EXCEPT ![j].status = "cancelled", ![j].finished = TRUE]
    /\ UNCHANGED <<order, history, taken, answer, swept, sweep>>

-----------------------------------------------------------------------------
(* The account-deletion sweep *)

\* anonymize_user_data reads the open orders of the account, without a lock.
ScanOpenOrders(u) ==
    /\ u \notin swept
    /\ swept' = swept \cup {u}
    /\ sweep' = [sweep EXCEPT ![u] =
         {o \in Orders : /\ HasStatus(o, PrintOrderStatus \ Terminal)
                         /\ order[o].user = u}]
    /\ UNCHANGED <<order, history, taken, job, answer>>

\* One turn of its loop: through the status machine ...
SweepByTransition(u, o) ==
    /\ o \in sweep[u]
    /\ ChangeStatus(o, "cancelled")
    /\ sweep' = [sweep EXCEPT ![u] = @ \ {o}]
    /\ UNCHANGED <<job, answer, swept>>

\* ... or, when change_status refuses, by a direct update of the row: no
\* history row, no look at the status the order has by now.
SweepByUpdate(u, o) ==
    /\ o \in sweep[u]
    /\ "cancelled" \notin ValidTransitions[order[o].status]
    /\ order' = [order EXCEPT ![o].status = "cancelled"]
    /\ sweep' = [sweep EXCEPT ![u] = @ \ {o}]
    /\ UNCHANGED <<history, taken, job, answer, swept>>

-----------------------------------------------------------------------------

Submit ==
    \E u \in Users, o \in Orders, k \in Keys \cup {Null},
       content \in Contents, currency \in Currencies :
        \/ CreateOrder(u, o, k, content, currency)
        \/ ReplayOrder(u, o, k, content, currency)

AtTheCounter ==
    \E o \in Orders, status \in CounterStatuses, currency \in Currencies :
        CreateCounterOrder(o, status, currency)

OrderMoves == \E o \in Orders, new \in PrintOrderStatus : SetOrderStatus(o, new)

\* The agent sends printing, done and failed; the dashboard's retry sends
\* queued.
JobMoves ==
    \E j \in Jobs :
        \/ \E o \in Orders : QueueJob(o, j)
        \/ \E new \in {"printing", "done", "failed", "queued"} :
               SetJobStatus(j, new)
        \/ CancelJob(j)

AccountDeletion ==
    \E u \in Users :
        \/ ScanOpenOrders(u)
        \/ \E o \in Orders : SweepByTransition(u, o)
        \/ \E o \in Orders : SweepByUpdate(u, o)

Next == Submit \/ AtTheCounter \/ OrderMoves \/ JobMoves \/ AccountDeletion

Spec == Init /\ [][Next]_vars

-----------------------------------------------------------------------------
(* What must hold *)

\* The status history of an order is a walk through the status machine from a
\* legal first status to the status the order has.  Only the account-deletion
\* sweep leaves the walk: it may cancel an order past the point where it can
\* be cancelled, and records nothing.
StartsLegally(o) ==
    /\ history[o] # <<>>
    /\ history[o][1].old = ""
    /\ history[o][1].new \in
           IF order[o].user = Null THEN CounterStatuses ELSE {"submitted"}

MovesLegally(o) ==
    \A i \in 2..Len(history[o]) :
        /\ history[o][i].old = history[o][i-1].new
        /\ history[o][i].new \in ValidTransitions[history[o][i].old]

EndsAtStatus(o) ==
    \/ order[o].status = history[o][Len(history[o])].new
    \/ order[o].status = "cancelled" /\ order[o].user \in swept

HistoryIsPath ==
    \A o \in Orders : order[o] # Null =>
        StartsLegally(o) /\ MovesLegally(o) /\ EndsAtStatus(o)

\* Stock is taken exactly once for an order that was ever delivered, however it
\* got there (from the dashboard or born delivered at the counter), and never
\* for another.
Delivered(o) == \E i \in 1..Len(history[o]) : history[o][i].new = "delivered"

StockTakenOnce ==
    \A o \in Orders :
        /\ taken[o] = IF Delivered(o) THEN 1 ELSE 0
        /\ order[o] # Null => (order[o].deducted <=> Delivered(o))

\* The time stamps of a job agree with its status over any number of failures
\* and retries: a queued job carries no stamp of an earlier run, a printing one
\* is not finished, a finished one is.
JobTimesMatchStatus ==
    \A j \in Jobs : job[j] # Null =>
        CASE job[j].status = "queued"    -> ~job[j].started /\ ~job[j].finished
          [] job[j].status = "printing"  -> job[j].started /\ ~job[j].finished
          [] job[j].status = "done"      -> job[j].started /\ job[j].finished
          [] job[j].status = "failed"    -> job[j].finished
          [] job[j].status = "cancelled" -> job[j].finished

\* A user's key names one order: submits, however often they are repeated,
\* never place two orders under it (unique_print_order_idempotency_key would
\* turn the second into a server error).
OneOrderPerKey ==
    \A o, p \in Orders :
        /\ order[o] # Null /\ order[p] # Null
        /\ order[o].user # Null /\ order[o].user = order[p].user
        /\ order[o].key # Null /\ order[o].key = order[p].key
        => o = p

\* A submit is never answered with an order placed for other items, notes or
\* pickup location.
AnswerHasContent ==
    answer # Null => order[answer.order].content = answer.content

\* A submit is never answered with an order placed in another currency.  The
\* code does not keep this: Fingerprint leaves the currency out.
AnswerHasCurrency ==
    answer # Null => order[answer.order].currency = answer.currency

\* Rows refer to rows that are there, and nothing is recorded of an order that
\* is not: a sweep holds orders of its own account only, and an answer and a
\* job name an order that was placed.
RowsExist ==
    /\ \A o \in Orders : order[o] = Null => history[o] = <<>> /\ taken[o] = 0
    /\ \A u \in Users : \A o \in sweep[u] :
           u \in swept /\ order[o] # Null /\ order[o].user = u
    /\ answer # Null => order[answer.order] # Null
    /\ \A j \in Jobs : job[j] # Null => order[job[j].order] # Null

\* A job that starts or finishes never leaves its order waiting in "accepted":
\* the customer sees progress.
JobStartShows ==
    [][\A j \in Jobs :
         /\ job[j] # Null
         /\ job'[j].status # job[j].status
         /\ job'[j].status \in {"printing", "done"}
         => order'[job[j].order].status # "accepted"]_vars

\* A printed or cancelled job is final: nothing queues it, starts it or
\* finishes it again.
JobIsFinal ==
    [][\A j \in Jobs :
         job[j] # Null /\ job[j].status \in {"done", "cancelled"}
         => job'[j].status = job[j].status]_vars

\* A delivered order stays delivered.
DeliveredStays ==
    [][\A o \in Orders :
         HasStatus(o, {"delivered"}) => order'[o].status = "delivered"]_vars
=============================================================================
