-------------------------- MODULE PrintShop_proofs --------------------------
(***************************************************************************)
(* Proofs about the print shop: the rows of print orders and print jobs    *)
(* (PrintOrders), for any number of orders, jobs, users and keys; the      *)
(* agents and the dashboard that work on the jobs (PrintAgents), for any   *)
(* number of losses, jams, restarts and retries; and the cashiers          *)
(* (OrderPayments), for any number of payments and cashiers and any price. *)
(***************************************************************************)
EXTENDS PrintAgents, OrderPayments, SequenceTheorems, FiniteSetTheorems,
        RecursionTheorems, TLAPS

-----------------------------------------------------------------------------
(* The status machine *)

\* Every transition of ValidTransitions leads to a status, and the three
\* terminal statuses have none.
LEMMA Transitions ==
    /\ \A s \in PrintOrderStatus : ValidTransitions[s] \subseteq PrintOrderStatus
    /\ \A s \in Terminal : ValidTransitions[s] = {}
    /\ \A s \in PrintOrderStatus :
           "delivered" \in ValidTransitions[s] => s = "ready"
  BY DEF ValidTransitions, PrintOrderStatus, Terminal

\* A row of PrintOrder with another status and marker is a row of PrintOrder.
LEMMA ChangeStatusType ==
    ASSUME TypeOK, NEW o \in Orders, NEW new \in PrintOrderStatus,
           ChangeStatus(o, new)
    PROVE  /\ order' \in [Orders -> PrintOrder \cup {Null}]
           /\ history' \in [Orders -> Seq(StatusHistory)]
           /\ taken' \in [Orders -> Nat]
  <1> USE DEF TypeOK
  <1>1. order[o] \in PrintOrder
    BY DEF ChangeStatus
  <1>2. order[o].status \in PrintOrderStatus
    BY <1>1 DEF PrintOrder
  <1>3. order' \in [Orders -> PrintOrder \cup {Null}]
    <2>1. [order[o] EXCEPT !.status = new,
                           !.deducted = @ \/ new = "delivered"] \in PrintOrder
      BY <1>1 DEF PrintOrder
    <2>2. order' = [order EXCEPT
                      ![o] = [order[o] EXCEPT !.status = new,
                                              !.deducted = @ \/ new = "delivered"]]
      BY DEF ChangeStatus
    <2> QED BY <2>1, <2>2
  <1>4. history' \in [Orders -> Seq(StatusHistory)]
    <2>1. [old |-> order[o].status, new |-> new] \in StatusHistory
      BY <1>2 DEF StatusHistory
    <2> QED BY <2>1 DEF ChangeStatus
  <1>5. taken' \in [Orders -> Nat]
    BY DEF ChangeStatus, TakenAfterDelivery
  <1> QED BY <1>3, <1>4, <1>5

-----------------------------------------------------------------------------
(* Types *)

\* A sequence of one element of S is a sequence over S.
LEMMA SingletonSeq ==
    ASSUME NEW S, NEW x \in S
    PROVE  <<x>> \in Seq(S)
  OBVIOUS

\* Its only element is its first and last.
LEMMA SingletonFacts ==
    ASSUME NEW x
    PROVE  Len(<<x>>) = 1 /\ <<x>>[1] = x /\ <<x>> # <<>>
  OBVIOUS

\* Inserting a well-formed row keeps the orders and their history well-formed.
LEMMA InsertOrderType ==
    ASSUME TypeOK, NEW o \in Orders, NEW row \in PrintOrder, InsertOrder(o, row)
    PROVE  /\ order' \in [Orders -> PrintOrder \cup {Null}]
           /\ history' \in [Orders -> Seq(StatusHistory)]
  <1>1. [old |-> "", new |-> row.status] \in StatusHistory
    BY DEF PrintOrder, StatusHistory
  <1>2. <<[old |-> "", new |-> row.status]>> \in Seq(StatusHistory)
    BY <1>1, SingletonSeq
  <1> QED BY <1>2 DEF InsertOrder, TypeOK

\* AfterJobStatus makes a row of PrintJob of a row of PrintJob.
LEMMA AfterJobStatusType ==
    ASSUME NEW row \in PrintJob, NEW new \in PrintJobStatus
    PROVE  AfterJobStatus(row, new) \in PrintJob
  BY DEF AfterJobStatus, PrintJob

\* The initial state is well-formed.
LEMMA InitTypeOK == Init => TypeOK
  BY DEF Init, TypeOK

\* Every step keeps the state well-formed.
LEMMA NextTypeOK == TypeOK /\ RowsExist /\ [Next]_vars => TypeOK'
  <1> SUFFICES ASSUME TypeOK, RowsExist, [Next]_vars PROVE TypeOK'
    OBVIOUS
  <1>1. ASSUME NEW u \in Users, NEW o \in Orders, NEW k \in Keys \cup {Null},
               NEW content \in Contents, NEW currency \in Currencies,
               CreateOrder(u, o, k, content, currency)
        PROVE  TypeOK'
    <2> DEFINE row == [status |-> "submitted", user |-> u, key |-> k,
                       content |-> content, currency |-> currency,
                       deducted |-> FALSE]
    <2>1. row \in PrintOrder
      BY DEF PrintOrder, PrintOrderStatus
    <2>2. InsertOrder(o, row)
      BY <1>1 DEF CreateOrder
    <2>3. answer' \in Answer
      BY <1>1 DEF CreateOrder, Answer
    <2> HIDE DEF row
    <2> QED BY <1>1, <2>1, <2>2, <2>3, InsertOrderType DEF CreateOrder, TypeOK
  <1>2. ASSUME NEW u \in Users, NEW o \in Orders, NEW k \in Keys \cup {Null},
               NEW content \in Contents, NEW currency \in Currencies,
               ReplayOrder(u, o, k, content, currency)
        PROVE  TypeOK'
    BY <1>2 DEF ReplayOrder, TypeOK, Answer
  <1>3. ASSUME NEW o \in Orders, NEW status \in CounterStatuses,
               NEW currency \in Currencies,
               CreateCounterOrder(o, status, currency)
        PROVE  TypeOK'
    <2> DEFINE row == [status |-> status, user |-> Null, key |-> Null,
                       content |-> Null, currency |-> currency,
                       deducted |-> status = "delivered"]
    <2>1. row \in PrintOrder
      BY DEF PrintOrder, PrintOrderStatus, CounterStatuses
    <2>2. InsertOrder(o, row)
      BY <1>3 DEF CreateCounterOrder
    <2>3. taken' \in [Orders -> Nat]
      BY <1>3 DEF CreateCounterOrder, TypeOK
    <2> HIDE DEF row
    <2> QED BY <1>3, <2>1, <2>2, <2>3, InsertOrderType
            DEF CreateCounterOrder, TypeOK
  <1>4. ASSUME NEW o \in Orders, NEW new \in PrintOrderStatus,
               SetOrderStatus(o, new)
        PROVE  TypeOK'
    BY <1>4, ChangeStatusType DEF SetOrderStatus, TypeOK
  <1>5. ASSUME NEW o \in Orders, NEW j \in Jobs, QueueJob(o, j)
        PROVE  TypeOK'
    BY <1>5 DEF QueueJob, TypeOK, PrintJob, PrintJobStatus
  <1>6. ASSUME NEW j \in Jobs, NEW new \in {"printing", "done", "failed", "queued"},
               SetJobStatus(j, new)
        PROVE  TypeOK'
    <2>1. new \in PrintJobStatus /\ "printing" \in PrintOrderStatus
      BY DEF PrintJobStatus, PrintOrderStatus
    <2>2. job[j] \in PrintJob
      BY <1>6 DEF SetJobStatus, JobMayBecome, TypeOK
    <2>3. job' \in [Jobs -> PrintJob \cup {Null}]
      BY <1>6, <2>1, <2>2, AfterJobStatusType DEF SetJobStatus, TypeOK
    <2>4. job[j].order \in Orders
      BY <2>2 DEF PrintJob
    <2>5. CASE ChangeStatus(job[j].order, "printing")
      BY <1>6, <2>1, <2>3, <2>4, <2>5, ChangeStatusType DEF SetJobStatus, TypeOK
    <2>6. CASE UNCHANGED <<order, history, taken>>
      BY <1>6, <2>3, <2>6 DEF SetJobStatus, TypeOK
    <2> QED BY <1>6, <2>5, <2>6 DEF SetJobStatus
  <1>7. ASSUME NEW j \in Jobs, CancelJob(j)
        PROVE  TypeOK'
    <2>1. job[j] \in PrintJob
      BY <1>7 DEF CancelJob, TypeOK
    <2>2. [job[j] EXCEPT !.status = "cancelled", !.finished = TRUE] \in PrintJob
      BY <2>1 DEF PrintJob, PrintJobStatus
    <2> QED BY <1>7, <2>2 DEF CancelJob, TypeOK
  <1>8. ASSUME NEW u \in Users, ScanOpenOrders(u)
        PROVE  TypeOK'
    BY <1>8 DEF ScanOpenOrders, TypeOK
  <1>9. ASSUME NEW u \in Users, NEW o \in Orders, SweepByTransition(u, o)
        PROVE  TypeOK'
    <2>1. "cancelled" \in PrintOrderStatus
      BY DEF PrintOrderStatus
    <2>2. sweep' \in [Users -> SUBSET Orders]
      BY <1>9 DEF SweepByTransition, TypeOK
    <2> QED BY <1>9, <2>1, <2>2, ChangeStatusType DEF SweepByTransition, TypeOK
  <1>10. ASSUME NEW u \in Users, NEW o \in Orders, SweepByUpdate(u, o)
         PROVE  TypeOK'
    <2>0. order[o] # Null
      BY <1>10 DEF SweepByUpdate, RowsExist
    <2>1. [order[o] EXCEPT !.status = "cancelled"] \in PrintOrder
      BY <2>0 DEF TypeOK, PrintOrder, PrintOrderStatus
    <2> QED BY <1>10, <2>1 DEF SweepByUpdate, TypeOK
  <1>11. CASE UNCHANGED vars
    BY <1>11 DEF vars, TypeOK
  <1> QED
    BY <1>1, <1>2, <1>3, <1>4, <1>5, <1>6, <1>7, <1>8, <1>9, <1>10, <1>11
       DEF Next, Submit, AtTheCounter, OrderMoves, JobMoves, AccountDeletion

-----------------------------------------------------------------------------
(* What a step does to orders, histories and stock.  The invariants about  *)
(* them need to look at four cases only.                                   *)

Born(o, row) ==
    /\ InsertOrder(o, row)
    /\ row.status \in IF row.user = Null THEN CounterStatuses ELSE {"submitted"}
    /\ row.deducted <=> row.status = "delivered"
    /\ taken' = [taken EXCEPT ![o] = IF row.status = "delivered" THEN 1 ELSE 0]

ForcedOut(o) ==
    /\ order[o] # Null
    /\ order[o].user \in swept
    /\ order' = [order EXCEPT ![o].status = "cancelled"]
    /\ UNCHANGED <<history, taken>>

\* Every step inserts an order, moves one along, forces one out or leaves all
\* of them alone, and no account leaves swept.
LEMMA OrderSteps ==
    ASSUME TypeOK, RowsExist, [Next]_vars
    PROVE  /\ swept \subseteq swept'
           /\ \/ \E o \in Orders, row \in PrintOrder : Born(o, row)
              \/ \E o \in Orders, new \in PrintOrderStatus : ChangeStatus(o, new)
              \/ \E o \in Orders : ForcedOut(o)
              \/ UNCHANGED <<order, history, taken>>
  <1>1. ASSUME NEW u \in Users, NEW o \in Orders, NEW k \in Keys \cup {Null},
               NEW content \in Contents, NEW currency \in Currencies,
               CreateOrder(u, o, k, content, currency)
        PROVE  /\ swept' = swept
               /\ \E row \in PrintOrder : Born(o, row)
    <2> DEFINE row == [status |-> "submitted", user |-> u, key |-> k,
                       content |-> content, currency |-> currency,
                       deducted |-> FALSE]
    <2>1. row \in PrintOrder
      BY DEF PrintOrder, PrintOrderStatus
    <2>2. InsertOrder(o, row) /\ taken' = taken /\ swept' = swept
      BY <1>1 DEF CreateOrder
    <2>3. row.status = "submitted" /\ row.user # Null /\ row.deducted = FALSE
      BY NullIsNoValue
    <2> HIDE DEF row
    <2>4. taken[o] = 0
      BY <2>2 DEF InsertOrder, RowsExist
    <2>5. taken' = [taken EXCEPT ![o] = 0]
      BY <2>2, <2>4 DEF TypeOK
    <2>6. Born(o, row)
      BY <2>2, <2>3, <2>5 DEF Born
    <2> QED BY <2>1, <2>2, <2>6
  <1>2. ASSUME NEW o \in Orders, NEW status \in CounterStatuses,
               NEW currency \in Currencies,
               CreateCounterOrder(o, status, currency)
        PROVE  /\ swept' = swept
               /\ \E row \in PrintOrder : Born(o, row)
    <2> DEFINE row == [status |-> status, user |-> Null, key |-> Null,
                       content |-> Null, currency |-> currency,
                       deducted |-> status = "delivered"]
    <2>1. row \in PrintOrder
      BY DEF PrintOrder, PrintOrderStatus, CounterStatuses
    <2>2. /\ InsertOrder(o, row)
          /\ taken' = [taken EXCEPT ![o] = IF status = "delivered" THEN 1 ELSE 0]
          /\ swept' = swept
      BY <1>2 DEF CreateCounterOrder
    <2>3. row.status = status /\ row.user = Null /\ row.deducted = (status = "delivered")
      OBVIOUS
    <2> HIDE DEF row
    <2>4. Born(o, row)
      BY <2>2, <2>3 DEF Born
    <2> QED BY <2>1, <2>2, <2>4
  <1>3. ASSUME NEW j \in Jobs, NEW new \in {"printing", "done", "failed", "queued"},
               SetJobStatus(j, new)
        PROVE  /\ swept' = swept
               /\ \/ \E o \in Orders, s \in PrintOrderStatus : ChangeStatus(o, s)
                  \/ UNCHANGED <<order, history, taken>>
    <2>1. job[j].order \in Orders
      BY <1>3 DEF SetJobStatus, JobMayBecome, TypeOK, PrintJob
    <2>2. "printing" \in PrintOrderStatus
      BY DEF PrintOrderStatus
    <2> QED BY <1>3, <2>1, <2>2 DEF SetJobStatus
  <1>4. ASSUME NEW u \in Users, NEW o \in Orders, SweepByTransition(u, o)
        PROVE  /\ swept' = swept
               /\ \E s \in PrintOrderStatus : ChangeStatus(o, s)
    <2>1. "cancelled" \in PrintOrderStatus
      BY DEF PrintOrderStatus
    <2> QED BY <1>4, <2>1 DEF SweepByTransition
  <1>5. ASSUME NEW u \in Users, NEW o \in Orders, SweepByUpdate(u, o)
        PROVE  swept' = swept /\ ForcedOut(o)
    BY <1>5 DEF SweepByUpdate, ForcedOut, RowsExist
  <1>6. ASSUME NEW u \in Users, ScanOpenOrders(u)
        PROVE  swept \subseteq swept' /\ UNCHANGED <<order, history, taken>>
    BY <1>6 DEF ScanOpenOrders
  <1> QED
    BY <1>1, <1>2, <1>3, <1>4, <1>5, <1>6
       DEF Next, Submit, AtTheCounter, OrderMoves, JobMoves, AccountDeletion,
           ReplayOrder, SetOrderStatus, QueueJob, CancelJob, vars

-----------------------------------------------------------------------------
(* Rows refer to rows that are there *)

\* What a step does to one job.
LEMMA JobSteps ==
    ASSUME TypeOK, [Next]_vars, NEW j \in Jobs
    PROVE  \/ job'[j] = job[j]
           \/ /\ job[j] = Null
              /\ \E o \in Orders : job'[j] = [status |-> "queued", order |-> o,
                                             started |-> FALSE, finished |-> FALSE]
           \/ /\ job[j] \in PrintJob
              /\ \E new \in {"printing", "done", "failed", "queued"} :
                     /\ SetJobStatus(j, new)
                     /\ job'[j] = AfterJobStatus(job[j], new)
           \/ /\ job[j] \in PrintJob
              /\ job[j].status \in {"queued", "printing"}
              /\ job'[j] = [job[j] EXCEPT !.status = "cancelled", !.finished = TRUE]
  <1>1. ASSUME NEW o \in Orders, NEW i \in Jobs, QueueJob(o, i)
        PROVE  \/ job'[j] = job[j]
               \/ job[j] = Null /\ job'[j] = [status |-> "queued", order |-> o,
                                             started |-> FALSE, finished |-> FALSE]
    BY <1>1 DEF QueueJob, TypeOK
  <1>2. ASSUME NEW i \in Jobs, NEW new \in {"printing", "done", "failed", "queued"},
               SetJobStatus(i, new)
        PROVE  \/ job'[j] = job[j]
               \/ /\ job[j] \in PrintJob
                  /\ SetJobStatus(j, new)
                  /\ job'[j] = AfterJobStatus(job[j], new)
    <2>1. CASE i = j
      <3>1. job[j] \in PrintJob
        BY <1>2, <2>1 DEF SetJobStatus, JobMayBecome, TypeOK
      <3>2. job'[j] = AfterJobStatus(job[j], new)
        BY <1>2, <2>1 DEF SetJobStatus, TypeOK
      <3> QED BY <1>2, <2>1, <3>1, <3>2
    <2>2. CASE i # j
      BY <1>2, <2>2 DEF SetJobStatus, TypeOK
    <2> QED BY <2>1, <2>2
  <1>3. ASSUME NEW i \in Jobs, CancelJob(i)
        PROVE  \/ job'[j] = job[j]
               \/ /\ job[j] \in PrintJob
                  /\ job[j].status \in {"queued", "printing"}
                  /\ job'[j] = [job[j] EXCEPT !.status = "cancelled", !.finished = TRUE]
    BY <1>3 DEF CancelJob, TypeOK
  <1> QED
    BY <1>1, <1>2, <1>3
       DEF Next, Submit, AtTheCounter, OrderMoves, JobMoves, AccountDeletion,
           CreateOrder, ReplayOrder, CreateCounterOrder, SetOrderStatus,
           ScanOpenOrders, SweepByTransition, SweepByUpdate, vars

\* Orders are never deleted and never change hands.
LEMMA OrdersStay ==
    ASSUME TypeOK, RowsExist, [Next]_vars, NEW o \in Orders, order[o] # Null
    PROVE  /\ order'[o] # Null
           /\ order'[o].user = order[o].user
           /\ order'[o].key = order[o].key
           /\ order'[o].content = order[o].content
  <1> DEFINE Kept == /\ order'[o] # Null
                     /\ order'[o].user = order[o].user
                     /\ order'[o].key = order[o].key
                     /\ order'[o].content = order[o].content
  <1>0. order[o] \in PrintOrder /\ Null \notin PrintOrder
    BY NullIsNoValue DEF TypeOK
  <1>1. ASSUME order'[o] = order[o] PROVE Kept
    BY <1>1
  <1>2. ASSUME NEW new \in PrintOrderStatus, NEW d \in BOOLEAN,
               order'[o] = [order[o] EXCEPT !.status = new, !.deducted = d]
        PROVE  Kept
    <2>1. order'[o] \in PrintOrder
      BY <1>0, <1>2 DEF PrintOrder
    <2>2. /\ order'[o].user = order[o].user
          /\ order'[o].key = order[o].key
          /\ order'[o].content = order[o].content
      BY <1>0, <1>2 DEF PrintOrder
    <2> QED BY <1>0, <2>1, <2>2
  <1>3. ASSUME order'[o] = [order[o] EXCEPT !.status = "cancelled"] PROVE Kept
    <2>1. order'[o] \in PrintOrder
      BY <1>0, <1>3 DEF PrintOrder, PrintOrderStatus
    <2>2. /\ order'[o].user = order[o].user
          /\ order'[o].key = order[o].key
          /\ order'[o].content = order[o].content
      BY <1>0, <1>3 DEF PrintOrder
    <2> QED BY <1>0, <2>1, <2>2
  <1> HIDE DEF Kept
  <1>4. ASSUME NEW p \in Orders, NEW row \in PrintOrder, Born(p, row)
        PROVE  Kept
    BY <1>1, <1>4 DEF Born, InsertOrder, TypeOK
  <1>5. ASSUME NEW p \in Orders, NEW new \in PrintOrderStatus, ChangeStatus(p, new)
        PROVE  Kept
    <2>1. CASE p = o
      <3>1. order[o].deducted \in BOOLEAN
        BY <1>0 DEF PrintOrder
      <3>2. order'[o] = [order[o] EXCEPT !.status = new,
                           !.deducted = order[o].deducted \/ new = "delivered"]
        BY <1>5, <2>1 DEF ChangeStatus, TypeOK
      <3> QED BY <1>2, <3>1, <3>2
    <2>2. CASE p # o
      BY <1>1, <1>5, <2>2 DEF ChangeStatus, TypeOK
    <2> QED BY <2>1, <2>2
  <1>6. ASSUME NEW p \in Orders, ForcedOut(p)
        PROVE  Kept
    BY <1>1, <1>3, <1>6 DEF ForcedOut, TypeOK
  <1>7. Kept
    BY <1>1, <1>4, <1>5, <1>6, OrderSteps
  <1> QED BY <1>7 DEF Kept

\* Rows keep referring to rows that are there.
LEMMA NextRowsExist == TypeOK /\ RowsExist /\ [Next]_vars => RowsExist'
  <1> SUFFICES ASSUME TypeOK, RowsExist, [Next]_vars PROVE RowsExist'
    OBVIOUS
  <1>1. ASSUME NEW o \in Orders, order'[o] = Null
        PROVE  history'[o] = <<>> /\ taken'[o] = 0
    <2>1. order[o] = Null
      BY <1>1, OrdersStay
    <2>2. history[o] = <<>> /\ taken[o] = 0
      BY <2>1 DEF RowsExist
    <2>3. ASSUME NEW p \in Orders, NEW row \in PrintOrder, Born(p, row)
          PROVE  p # o
      BY <1>1, <2>3, NullIsNoValue DEF Born, InsertOrder, TypeOK
    <2>4. ASSUME NEW p \in Orders, NEW row \in PrintOrder, Born(p, row)
          PROVE  history'[o] = history[o] /\ taken'[o] = taken[o]
      BY <2>3, <2>4 DEF Born, InsertOrder, TypeOK
    <2>5. ASSUME NEW p \in Orders, NEW new \in PrintOrderStatus, ChangeStatus(p, new)
          PROVE  history'[o] = history[o] /\ taken'[o] = taken[o]
      BY <2>1, <2>5 DEF ChangeStatus, TypeOK
    <2>6. ASSUME NEW p \in Orders, ForcedOut(p)
          PROVE  history'[o] = history[o] /\ taken'[o] = taken[o]
      BY <2>6 DEF ForcedOut
    <2> QED BY <2>2, <2>4, <2>5, <2>6, OrderSteps
  <1>2. ASSUME NEW u \in Users, NEW o \in sweep'[u]
        PROVE  u \in swept' /\ order'[o] # Null /\ order'[o].user = u
    <2>0. o \in Orders
      BY <1>2, NextTypeOK DEF TypeOK
    <2>1. CASE o \in sweep[u]
      BY <2>0, <2>1, OrdersStay, OrderSteps DEF RowsExist
    <2>2. ASSUME NEW v \in Users, ScanOpenOrders(v)
          PROVE  u \in swept' /\ order'[o] # Null /\ order'[o].user = u
      BY <1>2, <2>1, <2>2 DEF ScanOpenOrders, HasStatus, TypeOK
    <2>3. ASSUME sweep' = sweep
          PROVE  u \in swept' /\ order'[o] # Null /\ order'[o].user = u
      BY <1>2, <2>1, <2>3
    <2>4. ASSUME NEW v \in Users, NEW p \in Orders, sweep' = [sweep EXCEPT ![v] = @ \ {p}]
          PROVE  u \in swept' /\ order'[o] # Null /\ order'[o].user = u
      BY <1>2, <2>1, <2>4 DEF TypeOK
    <2> QED
      BY <2>2, <2>3, <2>4
         DEF Next, Submit, AtTheCounter, OrderMoves, JobMoves, AccountDeletion,
             CreateOrder, ReplayOrder, CreateCounterOrder, SetOrderStatus, QueueJob,
             SetJobStatus, CancelJob, SweepByTransition, SweepByUpdate, vars
  <1>3. ASSUME answer' # Null
        PROVE  order'[answer'.order] # Null
    <2>1. ASSUME answer' = answer
          PROVE  order'[answer'.order] # Null
      BY <1>3, <2>1, OrdersStay DEF RowsExist, TypeOK, Answer
    <2>2. ASSUME NEW u \in Users, NEW o \in Orders, NEW k \in Keys \cup {Null},
                 NEW content \in Contents, NEW currency \in Currencies,
                 CreateOrder(u, o, k, content, currency)
          PROVE  order'[answer'.order] # Null
      <3>1. answer'.order = o
        BY <2>2 DEF CreateOrder
      <3>2. order'[o] = [status |-> "submitted", user |-> u, key |-> k,
                         content |-> content, currency |-> currency,
                         deducted |-> FALSE]
        BY <2>2 DEF CreateOrder, InsertOrder, TypeOK
      <3>3. order'[o] \in PrintOrder
        BY <3>2 DEF PrintOrder, PrintOrderStatus
      <3> QED BY <3>1, <3>3, NullIsNoValue
    <2>3. ASSUME NEW u \in Users, NEW o \in Orders, NEW k \in Keys \cup {Null},
                 NEW content \in Contents, NEW currency \in Currencies,
                 ReplayOrder(u, o, k, content, currency)
          PROVE  order'[answer'.order] # Null
      BY <2>3 DEF ReplayOrder, SameKey
    <2> QED
      BY <2>1, <2>2, <2>3
         DEF Next, Submit, AtTheCounter, OrderMoves, JobMoves, AccountDeletion,
             CreateCounterOrder, SetOrderStatus, QueueJob, SetJobStatus, CancelJob,
             ScanOpenOrders, SweepByTransition, SweepByUpdate, vars
  <1>4. ASSUME NEW j \in Jobs, job'[j] # Null
        PROVE  order'[job'[j].order] # Null
    <2>1. ASSUME job[j] # Null, job'[j].order = job[j].order
          PROVE  order'[job'[j].order] # Null
      BY <2>1, OrdersStay DEF RowsExist, TypeOK, PrintJob
    <2>2. ASSUME job[j] = Null, job'[j] # job[j]
          PROVE  order'[job'[j].order] # Null
      <3>1. PICK o \in Orders : QueueJob(o, j)
        BY <2>2 DEF Next, Submit, AtTheCounter, OrderMoves, JobMoves, AccountDeletion,
                    CreateOrder, ReplayOrder, CreateCounterOrder, SetOrderStatus,
                    QueueJob, SetJobStatus, JobMayBecome, CancelJob, ScanOpenOrders,
                    SweepByTransition, SweepByUpdate, TypeOK, vars
      <3> QED BY <3>1 DEF QueueJob, HasStatus, TypeOK
    <2>3. ASSUME NEW new, job[j] \in PrintJob, job'[j] = AfterJobStatus(job[j], new)
          PROVE  job[j] # Null /\ job'[j].order = job[j].order
      BY <2>3, NullIsNoValue DEF AfterJobStatus, PrintJob
    <2>4. ASSUME job[j] \in PrintJob,
                 job'[j] = [job[j] EXCEPT !.status = "cancelled", !.finished = TRUE]
          PROVE  job[j] # Null /\ job'[j].order = job[j].order
      BY <2>4, NullIsNoValue DEF PrintJob
    <2> QED BY <1>4, <2>1, <2>2, <2>3, <2>4, JobSteps
  <1> QED BY <1>1, <1>2, <1>3, <1>4 DEF RowsExist

-----------------------------------------------------------------------------
(* The history of an order *)

\* An inserted row begins a history of one line.
LEMMA BornOrder ==
    ASSUME TypeOK, NEW o \in Orders, NEW row \in PrintOrder, Born(o, row)
    PROVE  /\ order'[o] = row
           /\ Len(history'[o]) = 1
           /\ history'[o] # <<>>
           /\ history'[o][1].old = ""
           /\ history'[o][1].new = row.status
           /\ taken'[o] = IF row.status = "delivered" THEN 1 ELSE 0
  <1> DEFINE line == [old |-> "", new |-> row.status]
  <1>1. history'[o] = <<line>>
    BY DEF Born, InsertOrder, TypeOK
  <1>2. line.old = "" /\ line.new = row.status
    OBVIOUS
  <1>3. /\ order'[o] = row
        /\ taken'[o] = IF row.status = "delivered" THEN 1 ELSE 0
    BY DEF Born, InsertOrder, TypeOK
  <1> HIDE DEF line
  <1>4. Len(history'[o]) = 1 /\ history'[o] # <<>> /\ history'[o][1] = line
    BY <1>1, SingletonFacts
  <1> QED BY <1>2, <1>3, <1>4, Zenon

\* It leaves the other orders alone.
LEMMA BornOthers ==
    ASSUME TypeOK, NEW o \in Orders, NEW row \in PrintOrder, Born(o, row),
           NEW p \in Orders, p # o
    PROVE  order'[p] = order[p] /\ history'[p] = history[p] /\ taken'[p] = taken[p]
  BY DEF Born, InsertOrder, TypeOK

\* A moved order gets one more line.
LEMMA MovedOrder ==
    ASSUME TypeOK, NEW o \in Orders, NEW new \in PrintOrderStatus,
           ChangeStatus(o, new)
    PROVE  /\ order[o] \in PrintOrder
           /\ new \in ValidTransitions[order[o].status]
           /\ order'[o].status = new
           /\ order'[o].user = order[o].user
           /\ order'[o].deducted = (order[o].deducted \/ new = "delivered")
           /\ history'[o] = Append(history[o], [old |-> order[o].status, new |-> new])
           /\ taken'[o] = IF new = "delivered" /\ ~order[o].deducted
                          THEN taken[o] + 1 ELSE taken[o]
           /\ \A p \in Orders \ {o} : /\ order'[p] = order[p]
                                       /\ history'[p] = history[p]
                                       /\ taken'[p] = taken[p]
  <1>1. order[o] \in PrintOrder
    BY DEF ChangeStatus, TypeOK
  <1>2. new \in ValidTransitions[order[o].status]
    BY DEF ChangeStatus
  <1>3. order'[o] = [order[o] EXCEPT !.status = new,
                                     !.deducted = @ \/ new = "delivered"]
    BY DEF ChangeStatus, TypeOK
  <1>4. /\ order'[o].status = new
        /\ order'[o].user = order[o].user
        /\ order'[o].deducted = (order[o].deducted \/ new = "delivered")
    BY <1>1, <1>3 DEF PrintOrder
  <1>5. history'[o] = Append(history[o], [old |-> order[o].status, new |-> new])
    BY DEF ChangeStatus, TypeOK
  <1>6. taken'[o] = IF new = "delivered" /\ ~order[o].deducted
                    THEN taken[o] + 1 ELSE taken[o]
    BY DEF ChangeStatus, TakenAfterDelivery, TypeOK
  <1>7. \A p \in Orders \ {o} : /\ order'[p] = order[p]
                                /\ history'[p] = history[p]
                                /\ taken'[p] = taken[p]
    BY DEF ChangeStatus, TypeOK
  <1> QED BY <1>1, <1>2, <1>4, <1>5, <1>6, <1>7

\* An order that is forced out keeps its history.
LEMMA ForcedOrder ==
    ASSUME TypeOK, NEW o \in Orders, ForcedOut(o)
    PROVE  /\ order[o] \in PrintOrder
           /\ order'[o].status = "cancelled"
           /\ order'[o].user = order[o].user
           /\ order'[o].deducted = order[o].deducted
           /\ order[o].user \in swept
           /\ \A p \in Orders \ {o} : order'[p] = order[p]
           /\ history' = history /\ taken' = taken
  <1>1. order[o] \in PrintOrder
    BY DEF ForcedOut, TypeOK
  <1>2. order'[o] = [order[o] EXCEPT !.status = "cancelled"]
    BY DEF ForcedOut, TypeOK
  <1>3. /\ order'[o].status = "cancelled"
        /\ order'[o].user = order[o].user
        /\ order'[o].deducted = order[o].deducted
    BY <1>1, <1>2 DEF PrintOrder
  <1>4. /\ \A p \in Orders \ {o} : order'[p] = order[p]
        /\ history' = history /\ taken' = taken
        /\ order[o].user \in swept
    BY DEF ForcedOut, TypeOK
  <1> QED BY <1>1, <1>3, <1>4

\* Every step keeps every history a walk through the status machine: a moved
\* order cannot have been forced out before, because "cancelled" has no
\* transition.
LEMMA NextHistoryIsPath ==
    TypeOK /\ RowsExist /\ HistoryIsPath /\ [Next]_vars => HistoryIsPath'
  <1> SUFFICES ASSUME TypeOK, RowsExist, HistoryIsPath, [Next]_vars,
                      NEW o \in Orders, order'[o] # Null
               PROVE  (StartsLegally(o) /\ MovesLegally(o) /\ EndsAtStatus(o))'
    BY DEF HistoryIsPath
  <1>0. swept \subseteq swept'
    BY OrderSteps
  <1>1. ASSUME order'[o] = order[o], history'[o] = history[o]
        PROVE  (StartsLegally(o) /\ MovesLegally(o) /\ EndsAtStatus(o))'
    BY <1>0, <1>1 DEF HistoryIsPath, StartsLegally, MovesLegally, EndsAtStatus
  <1>2. ASSUME NEW row \in PrintOrder, Born(o, row)
        PROVE  (StartsLegally(o) /\ MovesLegally(o) /\ EndsAtStatus(o))'
    <2>1. /\ order'[o] = row
          /\ Len(history'[o]) = 1
          /\ history'[o] # <<>>
          /\ history'[o][1].old = ""
          /\ history'[o][1].new = row.status
      BY <1>2, BornOrder
    <2>2. 2..1 = {}
      OBVIOUS
    <2>3. row.status \in IF row.user = Null THEN CounterStatuses ELSE {"submitted"}
      BY <1>2 DEF Born
    <2>4. StartsLegally(o)'
      BY <2>1, <2>3 DEF StartsLegally
    <2>5. MovesLegally(o)'
      BY <2>1, <2>2, Zenon DEF MovesLegally
    <2>6. EndsAtStatus(o)'
      BY <2>1, Zenon DEF EndsAtStatus
    <2> QED BY <2>4, <2>5, <2>6
  <1>3. ASSUME NEW new \in PrintOrderStatus, ChangeStatus(o, new)
        PROVE  (StartsLegally(o) /\ MovesLegally(o) /\ EndsAtStatus(o))'
    <2> DEFINE h == history[o]
               n == Len(h)
               line == [old |-> order[o].status, new |-> new]
    <2>0. order[o] \in PrintOrder /\ order[o] # Null
      BY <1>3, MovedOrder, NullIsNoValue
    <2>1. h \in Seq(StatusHistory) /\ n \in Nat /\ n > 0
      <3>1. h \in Seq(StatusHistory)
        BY DEF TypeOK
      <3>2. h # <<>>
        BY <2>0 DEF HistoryIsPath, StartsLegally
      <3> QED BY <3>1, <3>2, EmptySeq
    <2>2. order[o].status # "cancelled"
      BY <1>3, <2>0, MovedOrder, Transitions DEF Terminal, PrintOrder
    <2>3. h[n].new = order[o].status
      BY <2>0, <2>2 DEF HistoryIsPath, EndsAtStatus
    <2>4. history'[o] = Append(h, line)
      BY <1>3, MovedOrder
    <2>5. /\ Len(history'[o]) = n + 1
          /\ \A i \in 1..n : history'[o][i] = h[i]
          /\ history'[o][n+1] = line
      BY <2>1, <2>4
    <2> HIDE DEF h, n
    <2>6. StartsLegally(o)'
      <3>1. history'[o][1] = h[1] /\ history'[o] # <<>>
        BY <2>1, <2>5
      <3>2. order'[o].user = order[o].user
        BY <1>3, MovedOrder
      <3> QED BY <2>0, <3>1, <3>2 DEF HistoryIsPath, StartsLegally, h
    <2>7. MovesLegally(o)'
      <3> SUFFICES ASSUME NEW i \in 2..(n + 1)
                   PROVE  /\ history'[o][i].old = history'[o][i-1].new
                          /\ history'[o][i].new \in ValidTransitions[history'[o][i].old]
        BY <2>5 DEF MovesLegally
      <3>1. CASE i = n + 1
        <4>1. history'[o][i] = line /\ history'[o][i-1] = h[n]
          BY <2>1, <2>5, <3>1
        <4> QED BY <1>3, <2>3, <4>1, MovedOrder
      <3>2. CASE i \in 2..n
        <4>1. history'[o][i] = h[i] /\ history'[o][i-1] = h[i-1]
          BY <2>1, <2>5, <3>2
        <4> QED BY <2>0, <3>2, <4>1 DEF HistoryIsPath, MovesLegally, h, n
      <3> QED BY <2>1, <3>1, <3>2
    <2>8. EndsAtStatus(o)'
      BY <1>3, <2>1, <2>5, MovedOrder DEF EndsAtStatus
    <2> QED BY <2>6, <2>7, <2>8
  <1>4. ASSUME ForcedOut(o)
        PROVE  (StartsLegally(o) /\ MovesLegally(o) /\ EndsAtStatus(o))'
    <2>1. order[o] # Null
      BY <1>4 DEF ForcedOut
    <2>2. /\ order'[o].status = "cancelled"
          /\ order'[o].user = order[o].user /\ order[o].user \in swept
          /\ history'[o] = history[o]
      BY <1>4, ForcedOrder
    <2>3. StartsLegally(o)' /\ MovesLegally(o)'
      BY <2>1, <2>2 DEF HistoryIsPath, StartsLegally, MovesLegally
    <2>4. EndsAtStatus(o)'
      BY <1>0, <2>2 DEF EndsAtStatus
    <2> QED BY <2>3, <2>4
  <1>5. ASSUME NEW p \in Orders \ {o}, NEW row \in PrintOrder, Born(p, row)
        PROVE  order'[o] = order[o] /\ history'[o] = history[o]
    BY <1>5, BornOthers, Zenon
  <1>6. ASSUME NEW p \in Orders \ {o}, NEW new \in PrintOrderStatus, ChangeStatus(p, new)
        PROVE  order'[o] = order[o] /\ history'[o] = history[o]
    BY <1>6, MovedOrder
  <1>7. ASSUME NEW p \in Orders \ {o}, ForcedOut(p)
        PROVE  order'[o] = order[o] /\ history'[o] = history[o]
    BY <1>7, ForcedOrder
  <1> QED BY <1>1, <1>2, <1>3, <1>4, <1>5, <1>6, <1>7, OrderSteps

-----------------------------------------------------------------------------
(* Stock *)

\* An order that was ever delivered still is, unless it was forced out.
LEMMA DeliveredIsLast ==
    ASSUME TypeOK, HistoryIsPath, NEW o \in Orders, order[o] # Null, Delivered(o)
    PROVE  order[o].status \in Terminal
  <1> DEFINE h == history[o]
             n == Len(h)
  <1>1. h \in Seq(StatusHistory) /\ n \in Nat
    BY DEF TypeOK
  <1>2. PICK i \in 1..n : h[i].new = "delivered"
    BY DEF Delivered
  <1>3. CASE i < n
    <2>1. i + 1 \in 2..n /\ (i + 1) - 1 = i
      BY <1>1, <1>3
    <2>2. /\ h[i+1].old = h[(i+1)-1].new
          /\ h[i+1].new \in ValidTransitions[h[i+1].old]
      BY <2>1 DEF HistoryIsPath, MovesLegally
    <2>3. ValidTransitions["delivered"] = {}
      BY Transitions DEF Terminal
    <2> QED BY <1>2, <2>1, <2>2, <2>3
  <1>4. CASE i = n
    BY <1>2, <1>4 DEF HistoryIsPath, EndsAtStatus, Terminal
  <1> QED BY <1>1, <1>3, <1>4

\* Every step keeps the stock taken exactly for the delivered orders.
LEMMA NextStockTakenOnce ==
    TypeOK /\ RowsExist /\ HistoryIsPath /\ StockTakenOnce /\ [Next]_vars
    => StockTakenOnce'
  <1> DEFINE Right(o) == /\ taken[o] = IF Delivered(o) THEN 1 ELSE 0
                         /\ order[o] # Null => (order[o].deducted <=> Delivered(o))
  <1> SUFFICES ASSUME TypeOK, RowsExist, HistoryIsPath, StockTakenOnce, [Next]_vars,
                      NEW o \in Orders
               PROVE  Right(o)'
    BY DEF StockTakenOnce
  <1>0. Right(o)
    BY DEF StockTakenOnce
  <1>1. ASSUME order'[o] = order[o], history'[o] = history[o], taken'[o] = taken[o]
        PROVE  Right(o)'
    BY <1>0, <1>1 DEF Delivered
  <1>2. ASSUME NEW row \in PrintOrder, Born(o, row)
        PROVE  Right(o)'
    <2>1. Len(history'[o]) = 1 /\ history'[o][1].new = row.status
      BY <1>2, BornOrder, Zenon
    <2>2. Delivered(o)' <=> row.status = "delivered"
      <3>1. 1..1 = {1}
        OBVIOUS
      <3> QED BY <2>1, <3>1, Zenon DEF Delivered
    <2>3. row.deducted <=> row.status = "delivered"
      BY <1>2 DEF Born
    <2> QED BY <1>2, <2>2, <2>3, BornOrder
  <1>3. ASSUME NEW new \in PrintOrderStatus, ChangeStatus(o, new)
        PROVE  Right(o)'
    <2> DEFINE h == history[o]
               n == Len(h)
               line == [old |-> order[o].status, new |-> new]
    <2>1. order[o] \in PrintOrder /\ order[o] # Null
      BY <1>3, MovedOrder, NullIsNoValue
    <2>2. ~Delivered(o)
      BY <1>3, <2>1, DeliveredIsLast, MovedOrder, Transitions
    <2>3. ~order[o].deducted /\ taken[o] = 0
      BY <1>0, <2>1, <2>2
    <2>4. h \in Seq(StatusHistory) /\ n \in Nat
      BY DEF TypeOK
    <2>5. history'[o] = Append(h, line)
      BY <1>3, MovedOrder
    <2>6. /\ Len(history'[o]) = n + 1
          /\ \A i \in 1..n : history'[o][i] = h[i]
          /\ history'[o][n+1] = line
      BY <2>4, <2>5
    <2>7. \A i \in 1..n : h[i].new # "delivered"
      BY <2>2 DEF Delivered
    <2> HIDE DEF h, n
    <2>8. Delivered(o)' <=> new = "delivered"
      <3>1. Delivered(o)' <=> \E i \in 1..(n+1) : history'[o][i].new = "delivered"
        BY <2>6 DEF Delivered
      <3>2. \A i \in 1..(n+1) : i = n + 1 \/ i \in 1..n
        BY <2>4
      <3>3. n + 1 \in 1..(n+1)
        BY <2>4
      <3> QED BY <2>6, <2>7, <3>1, <3>2, <3>3
    <2>9. taken'[o] = IF new = "delivered" THEN 1 ELSE 0
      <3>1. taken'[o] = IF new = "delivered" /\ ~order[o].deducted
                        THEN taken[o] + 1 ELSE taken[o]
        BY <1>3, MovedOrder, Zenon
      <3> QED BY <2>3, <3>1
    <2>10. order'[o].deducted <=> new = "delivered"
      <3>1. order'[o].deducted = (order[o].deducted \/ new = "delivered")
        BY <1>3, MovedOrder
      <3> QED BY <2>3, <3>1, Zenon
    <2> QED BY <2>8, <2>9, <2>10
  <1>4. ASSUME ForcedOut(o)
        PROVE  Right(o)'
    <2>1. order[o] # Null
      BY <1>4 DEF ForcedOut
    <2> QED BY <1>0, <1>4, <2>1, ForcedOrder DEF Delivered
  <1> HIDE DEF Right
  <1>5. ASSUME NEW p \in Orders \ {o}, NEW row \in PrintOrder, Born(p, row)
        PROVE  Right(o)'
    BY <1>1, <1>5, BornOthers, Zenon
  <1>6. ASSUME NEW p \in Orders \ {o}, NEW new \in PrintOrderStatus, ChangeStatus(p, new)
        PROVE  Right(o)'
    BY <1>1, <1>6, MovedOrder
  <1>7. ASSUME NEW p \in Orders \ {o}, ForcedOut(p)
        PROVE  Right(o)'
    BY <1>1, <1>7, ForcedOrder
  <1> QED BY <1>1, <1>2, <1>3, <1>4, <1>5, <1>6, <1>7, OrderSteps

-----------------------------------------------------------------------------
(* Print jobs *)

\* Every step keeps the time stamps of every job in agreement with its status.
LEMMA NextJobTimesMatchStatus ==
    TypeOK /\ JobTimesMatchStatus /\ [Next]_vars => JobTimesMatchStatus'
  <1> DEFINE Match(row) ==
          CASE row.status = "queued"    -> ~row.started /\ ~row.finished
            [] row.status = "printing"  -> row.started /\ ~row.finished
            [] row.status = "done"      -> row.started /\ row.finished
            [] row.status = "failed"    -> row.finished
            [] row.status = "cancelled" -> row.finished
  <1> SUFFICES ASSUME TypeOK, JobTimesMatchStatus, [Next]_vars,
                      NEW j \in Jobs, job'[j] # Null
               PROVE  Match(job'[j])
    BY DEF JobTimesMatchStatus
  <1>0. job[j] # Null => Match(job[j])
    BY DEF JobTimesMatchStatus
  <1>1. CASE job'[j] = job[j]
    BY <1>0, <1>1
  <1>2. ASSUME NEW o \in Orders,
               job'[j] = [status |-> "queued", order |-> o,
                          started |-> FALSE, finished |-> FALSE]
        PROVE  Match(job'[j])
    BY <1>2
  <1>3. ASSUME NEW new \in {"printing", "done", "failed", "queued"},
               job[j] \in PrintJob, SetJobStatus(j, new),
               job'[j] = AfterJobStatus(job[j], new)
        PROVE  Match(job'[j])
    <2>1. /\ job'[j].status = new
          /\ job'[j].started = IF new = "queued" THEN FALSE
                               ELSE new \in {"printing", "done"} \/ job[j].started
          /\ job'[j].finished = IF new = "queued" THEN FALSE
                                ELSE new \in {"done", "failed"} \/ job[j].finished
      BY <1>3 DEF AfterJobStatus, PrintJob
    <2>2. new = "printing" => job[j].status \in {"queued", "printing"}
      BY <1>3 DEF SetJobStatus, JobMayBecome, JobAllowed, PrintJob, PrintJobStatus
    <2>3. new = "printing" => ~job[j].finished
      BY <1>0, <1>3, <2>2, NullIsNoValue
    <2> QED BY <2>1, <2>3
  <1>4. ASSUME job[j] \in PrintJob,
               job'[j] = [job[j] EXCEPT !.status = "cancelled", !.finished = TRUE]
        PROVE  Match(job'[j])
    <2>1. job'[j].status = "cancelled" /\ job'[j].finished = TRUE
      BY <1>4 DEF PrintJob
    <2> QED BY <2>1
  <1> QED BY <1>1, <1>2, <1>3, <1>4, JobSteps

-----------------------------------------------------------------------------
(* Keys and answers *)

\* An order that appears is a counter order, has no key, or has a key under
\* which its user has no other.
LEMMA NewOrder ==
    ASSUME TypeOK, [Next]_vars, NEW o \in Orders, order[o] = Null, order'[o] # Null,
           RowsExist
    PROVE  /\ \A p \in Orders \ {o} : order'[p] = order[p]
           /\ \/ order'[o].user = Null
              \/ SameKey(order'[o].user, order'[o].key) = {}
  <1>1. ASSUME NEW u \in Users, NEW q \in Orders, NEW k \in Keys \cup {Null},
               NEW content \in Contents, NEW currency \in Currencies,
               CreateOrder(u, q, k, content, currency)
        PROVE  /\ \A p \in Orders \ {o} : order'[p] = order[p]
               /\ SameKey(order'[o].user, order'[o].key) = {}
    <2>1. q = o
      BY <1>1 DEF CreateOrder, InsertOrder, TypeOK
    <2>2. order'[o] = [status |-> "submitted", user |-> u, key |-> k,
                       content |-> content, currency |-> currency,
                       deducted |-> FALSE]
      BY <1>1, <2>1 DEF CreateOrder, InsertOrder, TypeOK
    <2>3. order'[o].user = u /\ order'[o].key = k
      BY <2>2
    <2>4. SameKey(u, k) = {}
      BY <1>1 DEF CreateOrder
    <2>5. \A p \in Orders \ {o} : order'[p] = order[p]
      BY <1>1, <2>1 DEF CreateOrder, InsertOrder, TypeOK
    <2> QED BY <2>3, <2>4, <2>5
  <1>2. ASSUME NEW q \in Orders, NEW status \in CounterStatuses,
               NEW currency \in Currencies,
               CreateCounterOrder(q, status, currency)
        PROVE  /\ \A p \in Orders \ {o} : order'[p] = order[p]
               /\ order'[o].user = Null
    <2>1. q = o
      BY <1>2 DEF CreateCounterOrder, InsertOrder, TypeOK
    <2>2. order'[o] = [status |-> status, user |-> Null, key |-> Null,
                       content |-> Null, currency |-> currency,
                       deducted |-> status = "delivered"]
      BY <1>2, <2>1 DEF CreateCounterOrder, InsertOrder, TypeOK
    <2>3. order'[o].user = Null
      BY <2>2
    <2>4. \A p \in Orders \ {o} : order'[p] = order[p]
      BY <1>2, <2>1 DEF CreateCounterOrder, InsertOrder, TypeOK
    <2> QED BY <2>3, <2>4
  <1>3. ASSUME NEW p \in Orders, NEW new \in PrintOrderStatus, ChangeStatus(p, new)
        PROVE  FALSE
    <2>1. order[p] # Null
      BY <1>3 DEF ChangeStatus
    <2>2. p # o
      BY <2>1
    <2> QED BY <1>3, <2>2 DEF ChangeStatus, TypeOK
  <1>4. ASSUME NEW u \in Users, NEW p \in Orders, SweepByUpdate(u, p)
        PROVE  FALSE
    <2>1. p # o
      BY <1>4 DEF SweepByUpdate, RowsExist
    <2> QED BY <1>4, <2>1 DEF SweepByUpdate, TypeOK
  <1>5. ASSUME NEW j \in Jobs, NEW new \in {"printing", "done", "failed", "queued"},
               SetJobStatus(j, new)
        PROVE  FALSE
    <2>1. job[j].order \in Orders /\ "printing" \in PrintOrderStatus
      BY <1>5 DEF SetJobStatus, JobMayBecome, TypeOK, PrintJob, PrintOrderStatus
    <2> QED BY <1>3, <1>5, <2>1 DEF SetJobStatus
  <1>6. order' # order
    OBVIOUS
  <1> QED
    BY <1>1, <1>2, <1>3, <1>4, <1>5, <1>6
       DEF Next, Submit, AtTheCounter, OrderMoves, JobMoves, AccountDeletion,
           ReplayOrder, SetOrderStatus, QueueJob, CancelJob, ScanOpenOrders,
           SweepByTransition, PrintOrderStatus, vars

\* Every step keeps a user's key naming one order.
LEMMA NextOneOrderPerKey ==
    TypeOK /\ RowsExist /\ OneOrderPerKey /\ [Next]_vars => OneOrderPerKey'
  <1> SUFFICES ASSUME TypeOK, RowsExist, OneOrderPerKey, [Next]_vars,
                      NEW o \in Orders, NEW p \in Orders,
                      order'[o] # Null, order'[p] # Null,
                      order'[o].user # Null, order'[o].user = order'[p].user,
                      order'[o].key # Null, order'[o].key = order'[p].key,
                      o # p
               PROVE  FALSE
    BY DEF OneOrderPerKey
  <1>1. ASSUME NEW a \in Orders, NEW b \in Orders, a # b, order[a] = Null,
               order'[a] # Null, order'[b] # Null,
               order'[a].user # Null, order'[a].user = order'[b].user,
               order'[a].key # Null, order'[a].key = order'[b].key
        PROVE  FALSE
    <2>1. order'[b] = order[b]
      BY <1>1, NewOrder
    <2>2. SameKey(order'[a].user, order'[a].key) = {}
      BY <1>1, NewOrder
    <2> QED BY <1>1, <2>1, <2>2 DEF SameKey
  <1>2. order[o] # Null /\ order[p] # Null
    BY <1>1
  <1>3. /\ order'[o].user = order[o].user /\ order'[o].key = order[o].key
        /\ order'[p].user = order[p].user /\ order'[p].key = order[p].key
    BY <1>2, OrdersStay
  <1> QED BY <1>2, <1>3 DEF OneOrderPerKey

\* Every step keeps the last answer an order with the content that was asked
\* for: a replay compares fingerprints, and the content of an order never
\* changes.
LEMMA NextAnswerHasContent ==
    TypeOK /\ RowsExist /\ AnswerHasContent /\ [Next]_vars => AnswerHasContent'
  <1> SUFFICES ASSUME TypeOK, RowsExist, AnswerHasContent, [Next]_vars, answer' # Null
               PROVE  order'[answer'.order].content = answer'.content
    BY DEF AnswerHasContent
  <1>1. ASSUME answer' = answer
        PROVE  order'[answer'.order].content = answer'.content
    BY <1>1, OrdersStay DEF RowsExist, AnswerHasContent, TypeOK, Answer
  <1>2. ASSUME NEW u \in Users, NEW o \in Orders, NEW k \in Keys \cup {Null},
               NEW content \in Contents, NEW currency \in Currencies,
               CreateOrder(u, o, k, content, currency)
        PROVE  order'[answer'.order].content = answer'.content
    <2>1. answer'.order = o /\ answer'.content = content
      BY <1>2 DEF CreateOrder
    <2>2. order'[o] = [status |-> "submitted", user |-> u, key |-> k,
                       content |-> content, currency |-> currency,
                       deducted |-> FALSE]
      BY <1>2 DEF CreateOrder, InsertOrder, TypeOK
    <2>3. order'[o].content = content
      BY <2>2
    <2> QED BY <2>1, <2>3
  <1>3. ASSUME NEW u \in Users, NEW o \in Orders, NEW k \in Keys \cup {Null},
               NEW content \in Contents, NEW currency \in Currencies,
               ReplayOrder(u, o, k, content, currency)
        PROVE  order'[answer'.order].content = answer'.content
    <2>1. answer'.order = o /\ answer'.content = content /\ order' = order
      BY <1>3 DEF ReplayOrder
    <2>2. order[o].content = content
      BY <1>3 DEF ReplayOrder, Fingerprint
    <2> QED BY <2>1, <2>2
  <1> QED
    BY <1>1, <1>2, <1>3
       DEF Next, Submit, AtTheCounter, OrderMoves, JobMoves, AccountDeletion,
           CreateCounterOrder, SetOrderStatus, QueueJob, SetJobStatus, CancelJob,
           ScanOpenOrders, SweepByTransition, SweepByUpdate, vars

-----------------------------------------------------------------------------
(* The results *)

\* The inductive invariant.  HistoryIsPath is what makes StockTakenOnce
\* inductive (an order that was delivered cannot be moved, so it cannot be
\* delivered again), and RowsExist what makes the others so.
IInv ==
    /\ TypeOK
    /\ RowsExist
    /\ HistoryIsPath
    /\ StockTakenOnce
    /\ JobTimesMatchStatus
    /\ OneOrderPerKey
    /\ AnswerHasContent

\* Every reachable state satisfies the inductive invariant.
THEOREM Invariance == Spec => []IInv
  <1>1. Init => IInv
    <2> SUFFICES ASSUME Init PROVE IInv
      OBVIOUS
    <2>1. TypeOK
      BY InitTypeOK
    <2>2. RowsExist
      BY DEF Init, RowsExist
    <2>3. HistoryIsPath /\ JobTimesMatchStatus /\ OneOrderPerKey /\ AnswerHasContent
      BY DEF Init, HistoryIsPath, JobTimesMatchStatus, OneOrderPerKey, AnswerHasContent
    <2>4. StockTakenOnce
      <3>1. \A o \in Orders : ~Delivered(o)
        <4>1. Len(<<>>) = 0 /\ 1..0 = {}
          OBVIOUS
        <4> QED BY <4>1 DEF Init, Delivered
      <3> QED BY <3>1 DEF Init, StockTakenOnce
    <2> QED BY <2>1, <2>2, <2>3, <2>4 DEF IInv
  <1>2. IInv /\ [Next]_vars => IInv'
    BY NextTypeOK, NextRowsExist, NextHistoryIsPath, NextStockTakenOnce,
       NextJobTimesMatchStatus, NextOneOrderPerKey, NextAnswerHasContent
       DEF IInv
  <1> QED BY <1>1, <1>2, PTL DEF Spec

\* The rows of orders, jobs and histories always have their types.
THEOREM TypeCorrect == Spec => []TypeOK
  BY Invariance, PTL DEF IInv

\* The history of every order is always a walk through the status machine.
THEOREM HistoryCorrect == Spec => []HistoryIsPath
  BY Invariance, PTL DEF IInv

\* Stock is taken exactly once for every delivered order, and for no other.
THEOREM StockCorrect == Spec => []StockTakenOnce
  BY Invariance, PTL DEF IInv

\* The time stamps of a job always agree with its status.
THEOREM JobTimesCorrect == Spec => []JobTimesMatchStatus
  BY Invariance, PTL DEF IInv

\* An Idempotency-Key of a user never names two orders.
THEOREM KeysCorrect == Spec => []OneOrderPerKey
  BY Invariance, PTL DEF IInv

\* A submit is never answered with an order of another content.
THEOREM AnswersCorrect == Spec => []AnswerHasContent
  BY Invariance, PTL DEF IInv

\* A job that is done or cancelled stays so.
THEOREM FinalCorrect == Spec => JobIsFinal
  <1>1. TypeOK /\ [Next]_vars =>
            \A j \in Jobs : job[j] # Null /\ job[j].status \in {"done", "cancelled"}
                            => job'[j].status = job[j].status
    <2> SUFFICES ASSUME TypeOK, [Next]_vars, NEW j \in Jobs, job[j] # Null,
                        job[j].status \in {"done", "cancelled"}
                 PROVE  job'[j].status = job[j].status
      OBVIOUS
    <2>1. ASSUME NEW new \in {"printing", "done", "failed", "queued"},
                 job[j] \in PrintJob, SetJobStatus(j, new),
                 job'[j] = AfterJobStatus(job[j], new)
          PROVE  job'[j].status = job[j].status
      <3>1. new = job[j].status
        BY <2>1 DEF SetJobStatus, JobMayBecome, JobAllowed, PrintJobStatus
      <3> QED BY <2>1, <3>1 DEF AfterJobStatus, PrintJob
    <2>2. job[j].status \notin {"queued", "printing"}
      OBVIOUS
    <2> QED BY <2>1, <2>2, JobSteps
  <1> QED BY <1>1, TypeCorrect, PTL DEF Spec, JobIsFinal

\* A job that starts or finishes never leaves its order waiting in "accepted".
THEOREM StartCorrect == Spec => JobStartShows
  <1>1. TypeOK /\ RowsExist /\ [Next]_vars =>
            \A j \in Jobs :
              /\ job[j] # Null
              /\ job'[j].status # job[j].status
              /\ job'[j].status \in {"printing", "done"}
              => order'[job[j].order].status # "accepted"
    <2> SUFFICES ASSUME TypeOK, RowsExist, [Next]_vars, NEW j \in Jobs,
                        job[j] # Null,
                        job'[j].status # job[j].status,
                        job'[j].status \in {"printing", "done"}
                 PROVE  order'[job[j].order].status # "accepted"
      OBVIOUS
    <2>1. ASSUME NEW new \in {"printing", "done", "failed", "queued"},
                 job[j] \in PrintJob, SetJobStatus(j, new),
                 job'[j] = AfterJobStatus(job[j], new)
          PROVE  order'[job[j].order].status # "accepted"
      <3> DEFINE o == job[j].order
      <3>1. "printing" \in PrintOrderStatus
        BY DEF PrintOrderStatus
      <3>2. new \in {"printing", "done"}
        BY <2>1 DEF AfterJobStatus, PrintJob
      <3>3. o \in Orders /\ order[o] # Null
        BY <2>1 DEF PrintJob, RowsExist
      <3>4. CASE order[o].status = "accepted"
        <4>1. ChangeStatus(o, "printing")
          BY <2>1, <3>2, <3>3, <3>4 DEF SetJobStatus, HasStatus
        <4>2. order'[o].status = "printing"
          BY <3>1, <3>3, <4>1, MovedOrder
        <4> QED BY <4>2
      <3>5. CASE order[o].status # "accepted"
        BY <2>1, <3>5 DEF SetJobStatus, HasStatus
      <3> QED BY <3>4, <3>5
    <2>2. ASSUME job[j] \in PrintJob,
                 job'[j] = [job[j] EXCEPT !.status = "cancelled", !.finished = TRUE]
          PROVE  FALSE
      <3>1. job'[j].status = "cancelled"
        BY <2>2 DEF PrintJob
      <3> QED BY <3>1
    <2> QED BY <2>1, <2>2, JobSteps
  <1> QED BY <1>1, Invariance, PTL DEF Spec, IInv, JobStartShows

-----------------------------------------------------------------------------
(* Agents and dashboard only do what PrintOrders says. *)

\* Every step of the composition is a step of PrintOrders or leaves it alone.
LEMMA StepSimulation == AgentsTypeOK /\ [AgentsNext]_allVars => [Next]_vars
  <1> SUFFICES ASSUME AgentsTypeOK, [AgentsNext]_allVars PROVE [Next]_vars
    OBVIOUS
  <1>1. ASSUME NEW j \in Jobs, NEW s \in {"printing", "done", "failed", "queued"},
               SetJobStatus(j, s)
        PROVE  Next
    BY <1>1 DEF Next, JobMoves
  <1>2. ASSUME NEW a \in Agents, Poll(a) PROVE UNCHANGED vars
    BY <1>2 DEF Poll, vars
  <1>3. ASSUME NEW a \in Agents, NEW j \in Jobs, Claim(a, j) PROVE [Next]_vars
    BY <1>1, <1>3 DEF Claim, Report, ReportFails
  <1>4. ASSUME NEW a \in Agents, PrintPaper(a) PROVE UNCHANGED vars
    BY <1>4 DEF PrintPaper, vars
  <1>5. ASSUME NEW a \in Agents, ReportDone(a) PROVE [Next]_vars
    <2>1. current[a] \in Jobs
      BY <1>5 DEF ReportDone, AgentsTypeOK
    <2> QED BY <1>1, <1>5, <2>1 DEF ReportDone, Report, ReportFails
  <1>6. ASSUME NEW a \in Agents, ReportFailure(a) PROVE [Next]_vars
    <2>1. current[a] \in Jobs
      BY <1>6 DEF ReportFailure, AgentsTypeOK
    <2> QED BY <1>1, <1>6, <2>1 DEF ReportFailure, Report, ReportFails
  <1>7. ASSUME NEW a \in Agents, Crash(a) PROVE UNCHANGED vars
    BY <1>7 DEF Crash, vars
  <1>8. ASSUME Dashboard PROVE Next
    BY <1>1, <1>8 DEF Dashboard, Retry, Next, JobMoves
  <1>9. ASSUME UNCHANGED allVars PROVE UNCHANGED vars
    BY <1>9 DEF allVars
  <1> QED
    BY <1>2, <1>3, <1>4, <1>5, <1>6, <1>7, <1>8, <1>9 DEF AgentsNext, AgentStep

\* The types of the agents' variables are kept.
LEMMA NextAgentsTypeOK ==
    AgentsTypeOK /\ [AgentsNext]_allVars => AgentsTypeOK'
  <1> SUFFICES ASSUME AgentsTypeOK, [AgentsNext]_allVars PROVE AgentsTypeOK'
    OBVIOUS
  <1> USE DEF AgentsTypeOK, Goto
  <1>0. ASSUME Fault PROVE faults' \in 0..MaxFaults
    BY <1>0, AgentsAssumption DEF Fault
  <1>1. ASSUME NEW a \in Agents, Poll(a) PROVE AgentsTypeOK'
    BY <1>1 DEF Poll
  <1>2. ASSUME NEW a \in Agents, NEW j \in Jobs, Claim(a, j) PROVE AgentsTypeOK'
    <2>1. faults' \in 0..MaxFaults
      BY <1>0, <1>2 DEF Claim, Report, ReportFails
    <2> QED BY <1>2, <2>1 DEF Claim
  <1>3. ASSUME NEW a \in Agents, PrintPaper(a) PROVE AgentsTypeOK'
    <2>1. [printed EXCEPT ![a][current[a]] = @ + 1] \in [Agents -> [Jobs -> Nat]]
      BY <1>3 DEF PrintPaper
    <2> QED BY <1>3, <2>1 DEF PrintPaper
  <1>4. ASSUME NEW a \in Agents, ReportDone(a) PROVE AgentsTypeOK'
    <2>1. faults' \in 0..MaxFaults
      BY <1>0, <1>4 DEF ReportDone, Report, ReportFails
    <2> QED BY <1>4, <2>1 DEF ReportDone
  <1>5. ASSUME NEW a \in Agents, ReportFailure(a) PROVE AgentsTypeOK'
    <2>1. faults' \in 0..MaxFaults
      BY <1>0, <1>5 DEF ReportFailure, Report, ReportFails
    <2> QED BY <1>5, <2>1 DEF ReportFailure
  <1>6. ASSUME NEW a \in Agents, Crash(a) PROVE AgentsTypeOK'
    BY <1>0, <1>6 DEF Crash
  <1>7. ASSUME NEW j \in Jobs, Retry(j) PROVE AgentsTypeOK'
    BY <1>7, AgentsAssumption DEF Retry
  <1>8. ASSUME UNCHANGED agentVars PROVE AgentsTypeOK'
    BY <1>8 DEF agentVars
  <1> QED
    BY <1>1, <1>2, <1>3, <1>4, <1>5, <1>6, <1>7, <1>8
       DEF AgentsNext, AgentStep, Dashboard, allVars

\* The types of the agents' variables hold from the start.
LEMMA InitAgentsTypeOK == AgentsInit => AgentsTypeOK
  BY AgentsAssumption DEF AgentsInit, AgentsTypeOK

\* Seen from the server, a run of the composition is a run of PrintOrders.
LEMMA AgentsRunOrders == AgentsSpec => Spec
  <1>1. AgentsInit => Init
    BY DEF AgentsInit
  <1> QED
    BY <1>1, InitAgentsTypeOK, NextAgentsTypeOK, StepSimulation, PTL
       DEF AgentsSpec, Spec

\* So every invariant proved of PrintOrders holds with the agents at work.
THEOREM AgentsInvariance == AgentsSpec => [](IInv /\ AgentsTypeOK)
  <1>1. AgentsSpec => []IInv
    BY AgentsRunOrders, Invariance
  <1>2. AgentsSpec => []AgentsTypeOK
    BY InitAgentsTypeOK, NextAgentsTypeOK, PTL DEF AgentsSpec
  <1> QED BY <1>1, <1>2, PTL

-----------------------------------------------------------------------------
(* Paper.  Whether an agent may print a job again depends on where its copy *)
(* of the job is: an agent whose list holds the job, or any agent while the *)
(* job is queued, has a print left; an agent that claimed it is using that  *)
(* print up, and if the job was queued again meanwhile has one more.        *)

Unstarted(j) == job[j] # Null /\ ~job[j].started

PaperMatchesStatus(a, j) ==
    /\ printed[a][j] <= 1 + retries[j]
    /\ job[j] = Null => printed[a][j] = 0
    /\ HasJobStatus(j, {"queued"}) \/ j \in list[a] => printed[a][j] <= retries[j]
    /\ Unstarted(j) => printed[a][j] <= retries[j]

ClaimIsFresh(a) ==
    /\ step[a] # "idle" => job[current[a]] # Null
    /\ step[a] = "claimed" =>
         /\ current[a] \notin list[a]
         /\ printed[a][current[a]] <= retries[current[a]]
         /\ HasJobStatus(current[a], {"queued"}) \/ Unstarted(current[a])
              => printed[a][current[a]] < retries[current[a]]
    /\ step[a] = "printed" => printed[a][current[a]] > 0

ListIsOfJobs(a) == \A j \in list[a] : job[j] # Null

PaperInv ==
    /\ \A a \in Agents : ClaimIsFresh(a) /\ ListIsOfJobs(a)
    /\ \A a \in Agents, j \in Jobs : PaperMatchesStatus(a, j)
    /\ DoneWasPrinted

\* No job appears, disappears, is queued again, loses its start stamp or, but
\* for the jobs of done, is finished.
Quiet(done) ==
    \A i \in Jobs :
        /\ job'[i] = Null <=> job[i] = Null
        /\ HasJobStatus(i, {"queued"})' => HasJobStatus(i, {"queued"})
        /\ Unstarted(i)' => Unstarted(i)
        /\ HasJobStatus(i, {"done"})' => HasJobStatus(i, {"done"}) \/ i \in done

\* What a report changes: the status of its job, and no other job.
LEMMA ReportedJob ==
    ASSUME TypeOK, NEW j \in Jobs,
           NEW s \in {"printing", "done", "failed", "queued"}, SetJobStatus(j, s)
    PROVE  /\ job[j] # Null /\ job'[j] # Null
           /\ job'[j].status = s
           /\ s # "queued" /\ job[j].started => job'[j].started
           /\ s = "printing" => job'[j].started
           /\ \A i \in Jobs : i # j => job'[i] = job[i]
  <1>1. job[j] # Null /\ job[j] \in PrintJob
    BY DEF SetJobStatus, JobMayBecome, TypeOK
  <1>2. job' = [job EXCEPT ![j] = AfterJobStatus(job[j], s)]
    BY DEF SetJobStatus
  <1>3. job'[j] = AfterJobStatus(job[j], s)
    BY <1>2 DEF TypeOK
  <1>4. AfterJobStatus(job[j], s) \in PrintJob
    BY <1>1, AfterJobStatusType DEF PrintJobStatus
  <1>5. /\ AfterJobStatus(job[j], s).status = s
        /\ s # "queued" /\ job[j].started => AfterJobStatus(job[j], s).started
        /\ s = "printing" => AfterJobStatus(job[j], s).started
    BY <1>1 DEF AfterJobStatus, PrintJob
  <1> QED BY <1>1, <1>2, <1>3, <1>4, <1>5, NullIsNoValue DEF TypeOK

LEMMA QuietReport ==
    ASSUME TypeOK, NEW j \in Jobs, NEW s \in {"printing", "done", "failed"},
           SetJobStatus(j, s)
    PROVE  Quiet(IF s = "done" THEN {j} ELSE {})
  BY ReportedJob DEF Quiet, HasJobStatus, Unstarted

LEMMA QuietFailure ==
    ASSUME TypeOK, NEW j \in Jobs, NEW s \in {"printing", "done", "failed"},
           ReportFails(j, s)
    PROVE  Quiet(IF s = "done" THEN {j} ELSE {})
  BY QuietReport DEF ReportFails, Quiet, HasJobStatus, Unstarted, vars

\* What the server keeps of the papers when it is quiet and no agent moves.
LEMMA QuietKeepsPaper ==
    ASSUME TypeOK, AgentsTypeOK, PaperInv, Quiet({}),
           UNCHANGED <<step, current, list, printed, retries>>
    PROVE  PaperInv'
  BY DEF PaperInv, ClaimIsFresh, ListIsOfJobs, PaperMatchesStatus, Quiet,
         DoneWasPrinted, HasJobStatus, Unstarted, AgentsTypeOK

\* Nothing but the staff's own work happens to the orders and jobs.
LEMMA OtherDashboardKeepsPaper ==
    ASSUME TypeOK, AgentsTypeOK, PaperInv, UNCHANGED agentVars,
           \/ Submit \/ AtTheCounter \/ OrderMoves \/ AccountDeletion
           \/ \E j \in Jobs : CancelJob(j)
    PROVE  PaperInv'
  <1>1. ASSUME job' = job PROVE Quiet({})
    BY <1>1 DEF Quiet, HasJobStatus, Unstarted
  <1>2. CASE Submit \/ AtTheCounter
    BY <1>1, <1>2, QuietKeepsPaper
       DEF Submit, AtTheCounter, CreateOrder, ReplayOrder, CreateCounterOrder, agentVars
  <1>3. CASE OrderMoves \/ AccountDeletion
    BY <1>1, <1>3, QuietKeepsPaper
       DEF OrderMoves, SetOrderStatus, AccountDeletion, ScanOpenOrders,
           SweepByTransition, SweepByUpdate, agentVars
  <1>4. ASSUME NEW j \in Jobs, CancelJob(j) PROVE PaperInv'
    <2>1. job[j] # Null /\ job[j] \in PrintJob
      BY <1>4 DEF CancelJob, TypeOK
    <2>2. /\ job'[j] = [job[j] EXCEPT !.status = "cancelled", !.finished = TRUE]
          /\ \A i \in Jobs : i # j => job'[i] = job[i]
      BY <1>4 DEF CancelJob, TypeOK
    <2>3. /\ job'[j] \in PrintJob /\ job'[j].status = "cancelled"
          /\ job'[j].started = job[j].started
      BY <2>1, <2>2 DEF PrintJob, PrintJobStatus
    <2>4. Quiet({})
      BY <2>1, <2>2, <2>3, NullIsNoValue DEF Quiet, HasJobStatus, Unstarted
    <2> QED BY <2>4, QuietKeepsPaper DEF agentVars
  <1> QED BY <1>2, <1>3, <1>4

\* The row of a job just queued is a row.
LEMMA QueuedRow ==
    ASSUME NEW o \in Orders
    PROVE  [status |-> "queued", order |-> o, started |-> FALSE, finished |-> FALSE]
             \in PrintJob
  BY DEF PrintJob, PrintJobStatus

\* The invariant of the papers is kept by every step.
LEMMA NextPaperInv ==
    TypeOK /\ AgentsTypeOK /\ PaperInv /\ [AgentsNext]_allVars => PaperInv'
  <1> SUFFICES ASSUME TypeOK, AgentsTypeOK, PaperInv, [AgentsNext]_allVars
               PROVE  PaperInv'
    OBVIOUS
  <1> USE DEF PaperInv, ClaimIsFresh, ListIsOfJobs, PaperMatchesStatus,
              DoneWasPrinted, AgentsTypeOK, Goto
  <1>1. ASSUME NEW a \in Agents, Poll(a) PROVE PaperInv'
    BY <1>1 DEF Poll, Queued, HasJobStatus, Unstarted, vars
  <1>2. ASSUME NEW a \in Agents, NEW j \in Jobs, Claim(a, j) PROVE PaperInv'
    <2>1. CASE Report(j, "printing") /\ step' = [step EXCEPT ![a] = "claimed"]
      <3>1. /\ Quiet({}) /\ job'[j] # Null /\ job'[j].status = "printing"
            /\ job'[j].started
        BY <2>1, QuietReport, ReportedJob DEF Report
      <3>2. job[j] # Null /\ printed[a][j] <= retries[j]
        BY <1>2 DEF Claim
      <3>3. ClaimIsFresh(a)'
        BY <1>2, <2>1, <3>1, <3>2 DEF Claim, HasJobStatus, Unstarted
      <3>4. ASSUME NEW b \in Agents, b # a PROVE ClaimIsFresh(b)'
        BY <1>2, <2>1, <3>1, <3>4 DEF Claim, Quiet
      <3>5. ASSUME NEW b \in Agents PROVE ListIsOfJobs(b)'
        BY <1>2, <3>1 DEF Claim, Quiet
      <3>6. ASSUME NEW b \in Agents, NEW i \in Jobs PROVE PaperMatchesStatus(b, i)'
        BY <1>2, <3>1 DEF Claim, Quiet
      <3>7. DoneWasPrinted'
        BY <1>2, <3>1 DEF Claim, Quiet
      <3> QED BY <3>3, <3>4, <3>5, <3>6, <3>7
    <2>2. CASE ReportFails(j, "printing") /\ step' = [step EXCEPT ![a] = "failing"]
      <3>1. Quiet({})
        BY <2>2, QuietFailure
      <3>2. job[j] # Null
        BY <1>2 DEF Claim
      <3>3. ASSUME NEW b \in Agents PROVE ClaimIsFresh(b)'
        BY <1>2, <2>2, <3>1, <3>2 DEF Claim, Quiet
      <3>4. ASSUME NEW b \in Agents PROVE ListIsOfJobs(b)'
        BY <1>2, <3>1 DEF Claim, Quiet
      <3>5. ASSUME NEW b \in Agents, NEW i \in Jobs PROVE PaperMatchesStatus(b, i)'
        BY <1>2, <3>1 DEF Claim, Quiet
      <3>6. DoneWasPrinted'
        BY <1>2, <3>1 DEF Claim, Quiet
      <3> QED BY <3>3, <3>4, <3>5, <3>6
    <2> QED BY <1>2, <2>1, <2>2 DEF Claim
  <1>3. ASSUME NEW a \in Agents, PrintPaper(a) PROVE PaperInv'
    <2>1. current[a] \in Jobs /\ job[current[a]] # Null /\ UNCHANGED <<job, retries, list>>
      BY <1>3 DEF PrintPaper, vars
    <2>2. \A b \in Agents, i \in Jobs :
             \/ printed'[b][i] = printed[b][i]
             \/ b = a /\ i = current[a] /\ printed'[b][i] = printed[b][i] + 1
      BY <1>3, <2>1 DEF PrintPaper
    <2>3. ASSUME NEW b \in Agents PROVE ClaimIsFresh(b)' /\ ListIsOfJobs(b)'
      <3>1. CASE b = a
        BY <1>3, <2>1, <3>1 DEF PrintPaper
      <3>2. CASE b # a
        BY <1>3, <2>1, <2>2, <3>2 DEF PrintPaper, HasJobStatus, Unstarted
      <3> QED BY <3>1, <3>2
    <2>4. ASSUME NEW b \in Agents, NEW i \in Jobs PROVE PaperMatchesStatus(b, i)'
      BY <1>3, <2>1, <2>2 DEF PrintPaper, HasJobStatus, Unstarted
    <2>5. DoneWasPrinted'
      BY <2>1, <2>2 DEF HasJobStatus
    <2> QED BY <2>3, <2>4, <2>5
  <1>4. ASSUME NEW a \in Agents, ReportDone(a) PROVE PaperInv'
    <2>1. current[a] \in Jobs /\ printed[a][current[a]] > 0
      BY <1>4 DEF ReportDone
    <2>2. Quiet({current[a]})
      BY <1>4, <2>1, QuietReport, QuietFailure DEF ReportDone, Report
    <2>3. ASSUME NEW b \in Agents PROVE ClaimIsFresh(b)'
      BY <1>4, <2>2 DEF ReportDone, Quiet
    <2>4. ASSUME NEW b \in Agents PROVE ListIsOfJobs(b)'
      BY <1>4, <2>2 DEF ReportDone, Quiet
    <2>5. ASSUME NEW b \in Agents, NEW i \in Jobs PROVE PaperMatchesStatus(b, i)'
      BY <1>4, <2>2 DEF ReportDone, Quiet
    <2>6. DoneWasPrinted'
      BY <1>4, <2>1, <2>2 DEF ReportDone, Quiet
    <2> QED BY <2>3, <2>4, <2>5, <2>6
  <1>5. ASSUME NEW a \in Agents, ReportFailure(a) PROVE PaperInv'
    <2>1. Quiet({})
      BY <1>5, QuietReport, QuietFailure DEF ReportFailure, Report
    <2>2. ASSUME NEW b \in Agents PROVE ClaimIsFresh(b)' /\ ListIsOfJobs(b)'
      BY <1>5, <2>1 DEF ReportFailure, Quiet
    <2>3. ASSUME NEW b \in Agents, NEW i \in Jobs PROVE PaperMatchesStatus(b, i)'
      BY <1>5, <2>1 DEF ReportFailure, Quiet
    <2>4. DoneWasPrinted'
      BY <1>5, <2>1 DEF ReportFailure, Quiet
    <2> QED BY <2>2, <2>3, <2>4
  <1>6. ASSUME NEW a \in Agents, Crash(a) PROVE PaperInv'
    BY <1>6 DEF Crash, vars, HasJobStatus, Unstarted
  <1>7. ASSUME NEW j \in Jobs, Retry(j) PROVE PaperInv'
    <2>1. /\ job[j] # Null /\ job'[j] # Null /\ job'[j].status = "queued"
          /\ \A i \in Jobs : i # j => job'[i] = job[i]
      BY <1>7, ReportedJob DEF Retry
    <2>2. /\ retries'[j] = retries[j] + 1
          /\ \A i \in Jobs : i # j => retries'[i] = retries[i]
      BY <1>7 DEF Retry
    <2>3. ASSUME NEW b \in Agents PROVE ClaimIsFresh(b)'
      BY <1>7, <2>1, <2>2 DEF Retry, HasJobStatus, Unstarted
    <2>4. ASSUME NEW b \in Agents PROVE ListIsOfJobs(b)'
      BY <1>7, <2>1 DEF Retry
    <2>5. ASSUME NEW b \in Agents, NEW i \in Jobs PROVE PaperMatchesStatus(b, i)'
      BY <1>7, <2>1, <2>2 DEF Retry, HasJobStatus, Unstarted
    <2>6. DoneWasPrinted'
      BY <1>7, <2>1 DEF Retry, HasJobStatus, Unstarted
    <2> QED BY <2>3, <2>4, <2>5, <2>6
  <1>8. ASSUME NEW j \in Jobs, NEW o \in Orders, QueueJob(o, j), UNCHANGED agentVars
        PROVE  PaperInv'
    <2>1. /\ job[j] = Null
          /\ job'[j] = [status |-> "queued", order |-> o,
                        started |-> FALSE, finished |-> FALSE]
          /\ \A i \in Jobs : i # j => job'[i] = job[i]
      BY <1>8 DEF QueueJob, TypeOK
    <2>2. job'[j] # Null /\ job'[j].status = "queued"
      BY <2>1, QueuedRow, NullIsNoValue
    <2>3. ASSUME NEW b \in Agents PROVE ClaimIsFresh(b)' /\ ListIsOfJobs(b)'
      BY <1>8, <2>1, <2>2 DEF agentVars, HasJobStatus, Unstarted
    <2>4. ASSUME NEW b \in Agents, NEW i \in Jobs PROVE PaperMatchesStatus(b, i)'
      BY <1>8, <2>1, <2>2 DEF agentVars, HasJobStatus, Unstarted
    <2>5. DoneWasPrinted'
      BY <1>8, <2>1, <2>2 DEF agentVars, HasJobStatus, Unstarted
    <2> QED BY <2>3, <2>4, <2>5
  <1>9. ASSUME UNCHANGED allVars PROVE PaperInv'
    BY <1>9 DEF allVars, agentVars, vars, HasJobStatus, Unstarted
  <1> QED
    BY <1>1, <1>2, <1>3, <1>4, <1>5, <1>6, <1>7, <1>8, <1>9,
       OtherDashboardKeepsPaper
       DEF AgentsNext, AgentStep, Dashboard

\* The invariant of the papers holds from the start.
LEMMA InitPaperInv == AgentsInit => PaperInv
  BY DEF AgentsInit, Init, PaperInv, ClaimIsFresh, ListIsOfJobs,
         PaperMatchesStatus, DoneWasPrinted, HasJobStatus, Unstarted

THEOREM PaperInvariance == AgentsSpec => []PaperInv
  <1>1. IInv => TypeOK
    BY DEF IInv
  <1> QED
    BY <1>1, AgentsInvariance, InitPaperInv, NextPaperInv, PTL DEF AgentsSpec

\* A job shown as done was printed.
THEOREM DoneCorrect == AgentsSpec => []DoneWasPrinted
  <1>1. PaperInv => DoneWasPrinted
    BY DEF PaperInv
  <1> QED BY <1>1, PaperInvariance, PTL

\* No agent prints a job more often than the staff asked for.
THEOREM PaperCorrect == AgentsSpec => []NoExtraPaper
  <1>1. PaperInv => NoExtraPaper
    BY DEF PaperInv, PaperMatchesStatus, NoExtraPaper
  <1> QED BY <1>1, PaperInvariance, PTL

\* A job without a start stamp took no paper since it was queued last.
THEOREM StampsCorrect == AgentsSpec => []UnstartedTookNoPaper
  <1>1. PaperInv => UnstartedTookNoPaper
    BY DEF PaperInv, PaperMatchesStatus, Unstarted, UnstartedTookNoPaper
  <1> QED BY <1>1, PaperInvariance, PTL

-----------------------------------------------------------------------------
(* Cashiers: the desks and payments leave the orders to PrintOrders. *)

\* Every step of the cashiers' shop is a step of PrintOrders or leaves it alone.
LEMMA PaymentStepIsOrderStep == [PaymentsNext]_everything => [Next]_vars
  <1>1. ASSUME NEW o \in Orders, NEW status \in CounterStatuses,
               NEW currency \in Currencies, NEW amount \in 1..Price, NEW p \in Payments,
               CounterSale(o, status, currency, amount, p)
        PROVE  Next
    BY <1>1 DEF CounterSale, Next, AtTheCounter
  <1> QED
    BY <1>1 DEF PaymentsNext, BeginRecord, InsertPayment, AbandonPayment,
                VoidPayment, OrdersStep, everything, vars

\* A run of the shop with its payments is a run of PrintOrders, so all that is
\* proved of the orders holds with the cashiers at work.
THEOREM PaymentsImplementOrders == PaymentsSpec => Spec
  <1>1. PaymentsInit => Init
    BY DEF PaymentsInit
  <1> QED BY <1>1, PaymentStepIsOrderStep, PTL DEF PaymentsSpec, Spec

-----------------------------------------------------------------------------
(* A payment being recorded holds the lock of an order that is still open, *)
(* and the lock keeps it open until the commit.                            *)

OpenStatus == PrintOrderStatus \ {"cancelled", "rejected"}

RecordsOpenOrder == \A c \in Cashiers : desk[c] # Null => HasStatus(desk[c].order, OpenStatus)

PaymentsInv == PaymentsTypeOK /\ RecordsOpenOrder

\* Types first: what is on a desk goes into a payment.
LEMMA NextPaymentsTypeOK ==
    PaymentsTypeOK /\ [PaymentsNext]_everything => PaymentsTypeOK'
  <1> SUFFICES ASSUME PaymentsTypeOK, [PaymentsNext]_everything PROVE PaymentsTypeOK'
    OBVIOUS
  <1> USE DEF PaymentsTypeOK
  <1>1. ASSUME NEW c \in Cashiers, NEW o \in Orders, NEW amount \in 1..Price,
               BeginRecord(c, o, amount)
        PROVE  PaymentsTypeOK'
    <2>1. [order |-> o, amount |-> amount] \in Recording
      BY DEF Recording
    <2> QED BY <1>1, <2>1 DEF BeginRecord
  <1>2. ASSUME NEW c \in Cashiers, NEW p \in Payments, InsertPayment(c, p)
        PROVE  PaymentsTypeOK'
    <2>1. desk[c] \in Recording
      BY <1>2 DEF InsertPayment
    <2>2. Paid(desk[c].order, desk[c].amount) \in OrderPayment
      BY <2>1 DEF Paid, Recording, OrderPayment
    <2> QED BY <1>2, <2>2 DEF InsertPayment
  <1>3. ASSUME NEW c \in Cashiers, AbandonPayment(c) PROVE PaymentsTypeOK'
    BY <1>3 DEF AbandonPayment
  <1>4. ASSUME NEW p \in Payments, VoidPayment(p) PROVE PaymentsTypeOK'
    <2>1. payment[p] \in OrderPayment
      BY <1>4 DEF VoidPayment
    <2>2. [payment[p] EXCEPT !.voided = TRUE] \in OrderPayment
      BY <2>1 DEF OrderPayment
    <2> QED BY <1>4, <2>2 DEF VoidPayment
  <1>5. ASSUME NEW o \in Orders, NEW status \in CounterStatuses,
               NEW currency \in Currencies, NEW amount \in 1..Price, NEW p \in Payments,
               CounterSale(o, status, currency, amount, p)
        PROVE  PaymentsTypeOK'
    <2>1. Paid(o, amount) \in OrderPayment
      BY DEF Paid, OrderPayment
    <2> QED BY <1>5, <2>1 DEF CounterSale
  <1>6. ASSUME UNCHANGED paymentVars PROVE PaymentsTypeOK'
    BY <1>6 DEF paymentVars
  <1> QED
    BY <1>1, <1>2, <1>3, <1>4, <1>5, <1>6 DEF PaymentsNext, OrdersStep, everything

\* The order of a recording stays open: its lock is held.
LEMMA NextRecordsOpenOrder ==
    TypeOK /\ PaymentsInv /\ [PaymentsNext]_everything => RecordsOpenOrder'
  <1> SUFFICES ASSUME TypeOK, PaymentsInv, [PaymentsNext]_everything PROVE RecordsOpenOrder'
    OBVIOUS
  <1> USE DEF PaymentsInv, PaymentsTypeOK, RecordsOpenOrder
  <1>1. ASSUME NEW c \in Cashiers, NEW o \in Orders, NEW amount \in 1..Price,
               BeginRecord(c, o, amount)
        PROVE  RecordsOpenOrder'
    BY <1>1 DEF BeginRecord, HasStatus, OpenStatus, vars
  <1>2. ASSUME NEW c \in Cashiers, NEW p \in Payments, InsertPayment(c, p)
        PROVE  RecordsOpenOrder'
    BY <1>2 DEF InsertPayment, HasStatus, vars
  <1>3. ASSUME NEW c \in Cashiers, AbandonPayment(c) PROVE RecordsOpenOrder'
    BY <1>3 DEF AbandonPayment, HasStatus, vars
  <1>4. ASSUME NEW p \in Payments, VoidPayment(p) PROVE RecordsOpenOrder'
    BY <1>4 DEF VoidPayment, HasStatus, vars
  <1>5. ASSUME NEW o \in Orders, NEW status \in CounterStatuses,
               NEW currency \in Currencies, NEW amount \in 1..Price, NEW p \in Payments,
               CounterSale(o, status, currency, amount, p)
        PROVE  RecordsOpenOrder'
    <2>1. order[o] = Null /\ UNCHANGED desk
      BY <1>5 DEF CounterSale, CreateCounterOrder, InsertOrder
    <2>2. \A i \in Orders : i # o => order'[i] = order[i]
      BY <1>5 DEF CounterSale, CreateCounterOrder, InsertOrder, TypeOK
    <2>3. \A c \in Cashiers : desk[c] # Null => desk[c].order \in Orders
      BY DEF Recording
    <2> QED BY <2>1, <2>2, <2>3 DEF HasStatus
  <1>6. CASE OrdersStep
    <2>1. \A c \in Cashiers : desk[c] # Null => desk[c].order \in Orders
      BY DEF Recording
    <2> QED BY <1>6, <2>1 DEF OrdersStep, Locked, paymentVars, HasStatus
  <1>7. ASSUME UNCHANGED everything PROVE RecordsOpenOrder'
    BY <1>7 DEF everything, vars, paymentVars, HasStatus
  <1> QED
    BY <1>1, <1>2, <1>3, <1>4, <1>5, <1>6, <1>7 DEF PaymentsNext

\* The types of payments and desks, and that what is being paid is open.
THEOREM PaymentsInvariance == PaymentsSpec => []PaymentsInv
  <1>1. PaymentsInit => PaymentsInv
    BY DEF PaymentsInit, PaymentsInv, PaymentsTypeOK, RecordsOpenOrder
  <1>2. TypeOK /\ PaymentsInv /\ [PaymentsNext]_everything => PaymentsInv'
    BY NextPaymentsTypeOK, NextRecordsOpenOrder DEF PaymentsInv
  <1>3. IInv => TypeOK
    BY DEF IInv
  <1> QED
    BY <1>1, <1>2, <1>3, PaymentsImplementOrders, Invariance, PTL DEF PaymentsSpec

\* The status of an order sold at the counter.
LEMMA CounterSaleStatus ==
    ASSUME TypeOK, NEW o \in Orders, NEW status \in CounterStatuses,
           NEW currency \in Currencies, CreateCounterOrder(o, status, currency)
    PROVE  order'[o].status = status
  BY DEF CreateCounterOrder, InsertOrder, TypeOK

\* No payment is recorded for an order that is closed when it commits.
THEOREM ClosedCorrect == PaymentsSpec => ClosedOrdersTakeNoMoney
  <1> DEFINE Takes(p) == payment[p] = Null /\ payment'[p] # Null
             OpenAfter(p) == order'[payment'[p].order].status
                               \notin {"cancelled", "rejected"}
  <1>1. ASSUME TypeOK, PaymentsInv, [PaymentsNext]_everything, NEW p \in Payments,
               Takes(p)
        PROVE  OpenAfter(p)
    <2> USE DEF PaymentsInv, PaymentsTypeOK, RecordsOpenOrder
    <2>1. ASSUME NEW c \in Cashiers, NEW q \in Payments, InsertPayment(c, q)
          PROVE  OpenAfter(p)
      <3>1. q = p /\ payment'[p].order = desk[c].order
        BY <1>1, <2>1 DEF InsertPayment, Paid
      <3>2. HasStatus(desk[c].order, OpenStatus) /\ order' = order
        BY <1>1, <2>1 DEF InsertPayment, vars
      <3> QED BY <3>1, <3>2 DEF HasStatus, OpenStatus
    <2>2. ASSUME NEW o \in Orders, NEW status \in CounterStatuses,
                 NEW currency \in Currencies, NEW amount \in 1..Price,
                 NEW q \in Payments, CounterSale(o, status, currency, amount, q)
          PROVE  OpenAfter(p)
      <3>1. q = p /\ payment'[p].order = o
        BY <1>1, <2>2 DEF CounterSale, Paid
      <3>2. order'[o].status = status
        BY <1>1, <2>2, CounterSaleStatus DEF CounterSale
      <3> QED BY <3>1, <3>2 DEF CounterStatuses
    <2>3. ASSUME NEW q \in Payments, VoidPayment(q) PROVE FALSE
      <3>1. payment[q] # Null /\ payment' = [payment EXCEPT ![q].voided = TRUE]
        BY <2>3 DEF VoidPayment
      <3> QED BY <1>1, <3>1
    <2>4. ASSUME \/ \E c \in Cashiers, o \in Orders, amount \in 1..Price :
                       BeginRecord(c, o, amount)
                 \/ \E c \in Cashiers : AbandonPayment(c)
                 \/ OrdersStep
                 \/ UNCHANGED everything
          PROVE  FALSE
      <3>1. payment' = payment
        BY <2>4 DEF BeginRecord, AbandonPayment, OrdersStep, everything, paymentVars
      <3> QED BY <1>1, <3>1
    <2> HIDE DEF PaymentsInv, PaymentsTypeOK, RecordsOpenOrder, Takes, OpenAfter
    <2> QED
      BY <1>1, <2>1, <2>2, <2>3, <2>4 DEF PaymentsNext
  <1>2. IInv => TypeOK
    BY DEF IInv
  <1>3. TypeOK /\ PaymentsInv /\ [PaymentsNext]_everything
          => [\A p \in Payments : Takes(p) => OpenAfter(p)]_everything
    BY <1>1
  <1> QED
    BY <1>2, <1>3, PaymentsInvariance, PaymentsImplementOrders, Invariance, PTL
       DEF PaymentsSpec, ClosedOrdersTakeNoMoney

-----------------------------------------------------------------------------
(* Never more than the price: PaidAmount is a sum over a set, of which a   *)
(* step of the cashiers changes at most one element.  The operators below  *)
(* say what PaidAmount is, for the payments given to them.                 *)

\* f[T] is what the payments of the subset T of S amount to.
Totals(f, rows, S) ==
    f = [T \in SUBSET S |->
            IF T = {} THEN 0
            ELSE rows[CHOOSE p \in T : TRUE].amount + f[T \ {CHOOSE p \in T : TRUE}]]

TotalOf(rows, S) == (CHOOSE f : Totals(f, rows, S))[S]

ValidIn(rows, o) ==
    {p \in Payments : /\ rows[p] # Null
                      /\ rows[p].order = o
                      /\ ~rows[p].voided}

LEMMA PaidIsTotal ==
    ASSUME NEW o
    PROVE  /\ PaidAmount(o) = TotalOf(payment, ValidIn(payment, o))
           /\ PaidAmount(o)' = TotalOf(payment', ValidIn(payment', o))
  <1>1. PaidAmount(o) = TotalOf(payment, ValidIn(payment, o))
    BY Zenon DEF PaidAmount, TotalOf, Totals, Valid, ValidIn, MapThenSumSet, MapThenFoldSet
  <1>2. PaidAmount(o)' = TotalOf(payment', ValidIn(payment', o))
    BY Zenon DEF PaidAmount, TotalOf, Totals, Valid, ValidIn, MapThenSumSet, MapThenFoldSet
  <1> QED  BY <1>1, <1>2

Amounts(rows, S) == [p \in S |-> rows[p].amount]

LEMMA TotalsAreSums ==
    ASSUME NEW rows, NEW S, NEW f
    PROVE  Totals(f, rows, S) <=> IsSetSum(f, Amounts(rows, S), S)
  <1> DEFINE byRow == [T \in SUBSET S |->
                          IF T = {} THEN 0
                          ELSE rows[CHOOSE p \in T : TRUE].amount
                                 + f[T \ {CHOOSE p \in T : TRUE}]]
             byAmount == [T \in SUBSET S |->
                             IF T = {} THEN 0
                             ELSE Amounts(rows, S)[Picked(T)] + f[T \ {Picked(T)}]]
  <1>1. ASSUME NEW T \in SUBSET S, T # {}
        PROVE  rows[CHOOSE p \in T : TRUE].amount = Amounts(rows, S)[Picked(T)]
    BY <1>1, PickedIsElement DEF Picked, Amounts
  <1>2. ASSUME NEW T \in SUBSET S PROVE byRow[T] = byAmount[T]
    BY <1>1 DEF Picked
  <1>3. byRow = byAmount
    BY <1>2
  <1> QED  BY <1>3 DEF Totals, IsSetSum

\* The sum that is chosen is one, and one of integers.
LEMMA TotalChosen ==
    ASSUME NEW S, IsFiniteSet(S), NEW rows, \A p \in S : rows[p].amount \in Int
    PROVE  \E f : /\ f \in [SUBSET S -> Int]
                  /\ IsSetSum(f, Amounts(rows, S), S)
                  /\ TotalOf(rows, S) = f[S]
  <1> DEFINE f == CHOOSE g : Totals(g, rows, S)
  <1>1. Amounts(rows, S) \in [S -> Int]
    BY DEF Amounts
  <1>2. PICK g : IsSetSum(g, Amounts(rows, S), S)
    BY <1>1, SetSumExists
  <1>3. Totals(g, rows, S)
    BY <1>2, TotalsAreSums
  <1>4. Totals(f, rows, S)
    BY <1>3
  <1>5. TotalOf(rows, S) = f[S]
    BY DEF TotalOf
  <1> HIDE DEF f
  <1>6. IsSetSum(f, Amounts(rows, S), S)
    BY <1>4, TotalsAreSums
  <1>7. f \in [SUBSET S -> Int]
    BY <1>1, <1>6, SetSumIsInteger
  <1> QED  BY <1>5, <1>6, <1>7

LEMMA TotalOfNothing ==
    ASSUME NEW rows
    PROVE  TotalOf(rows, {}) = 0
  <1> DEFINE S == {}
  <1>1. IsFiniteSet(S) /\ \A p \in S : rows[p].amount \in Int
    BY FS_EmptySet
  <1>2. PICK f : IsSetSum(f, Amounts(rows, {}), {}) /\ TotalOf(rows, {}) = f[{}]
    BY <1>1, TotalChosen
  <1> QED  BY <1>2 DEF IsSetSum

LEMMA SameTotal ==
    ASSUME NEW S, IsFiniteSet(S), NEW rows, NEW later,
           \A p \in S : rows[p].amount \in Int,
           \A p \in S : later[p].amount = rows[p].amount
    PROVE  TotalOf(later, S) = TotalOf(rows, S)
  <1>1. PICK f : IsSetSum(f, Amounts(rows, S), S) /\ TotalOf(rows, S) = f[S]
    BY TotalChosen
  <1>2. \A p \in S : later[p].amount \in Int
    OBVIOUS
  <1>3. PICK g : IsSetSum(g, Amounts(later, S), S) /\ TotalOf(later, S) = g[S]
    BY <1>2, TotalChosen
  <1>4. \A p \in S : Amounts(later, S)[p] = Amounts(rows, S)[p]
    BY DEF Amounts
  <1>5. f[S] = g[S]
    BY <1>1, <1>3, <1>4, SameSum
  <1> QED  BY <1>1, <1>3, <1>5

LEMMA TotalWithOneMore ==
    ASSUME NEW S, IsFiniteSet(S), NEW x, x \notin S, NEW rows,
           \A p \in S \cup {x} : rows[p].amount \in Int
    PROVE  /\ TotalOf(rows, S) \in Int
           /\ TotalOf(rows, S \cup {x}) = rows[x].amount + TotalOf(rows, S)
  <1> DEFINE T == S \cup {x}
  <1>1. IsFiniteSet(T) /\ S \subseteq T /\ x \in T /\ T \ {x} = S
    BY FS_AddElement
  <1>2. \A p \in T : rows[p].amount \in Int
    OBVIOUS
  <1> HIDE DEF T
  <1>3. PICK f : /\ f \in [SUBSET S -> Int]
                 /\ IsSetSum(f, Amounts(rows, S), S)
                 /\ TotalOf(rows, S) = f[S]
    BY <1>1, <1>2, TotalChosen
  <1>4. PICK g : IsSetSum(g, Amounts(rows, T), T) /\ TotalOf(rows, T) = g[T]
    BY <1>1, <1>2, TotalChosen
  <1>5. Amounts(rows, T) \in [T -> Int] /\ Amounts(rows, T)[x] = rows[x].amount
    BY <1>1, <1>2 DEF Amounts
  <1>6. g[T] = Amounts(rows, T)[x] + g[T \ {x}]
    <2>1. T \in SUBSET T
      OBVIOUS
    <2> QED  BY <1>1, <1>4, <1>5, <2>1, TakeOut
  <1>7. f[S] = g[S]
    <2>1. \A p \in S : Amounts(rows, S)[p] = Amounts(rows, T)[p]
      BY <1>1 DEF Amounts
    <2> QED  BY <1>1, <1>3, <1>4, <2>1, SameSum
  <1>8. f[S] \in Int
    BY <1>3
  <1>9. TotalOf(rows, T) = rows[x].amount + TotalOf(rows, S)
    BY <1>1, <1>3, <1>4, <1>5, <1>6, <1>7
  <1> QED  BY <1>3, <1>8, <1>9 DEF T

Recorded(rows) == {p \in Payments : rows[p] # Null}

\* A payment is of an order that exists.
PaymentsOfKnownOrders == \A p \in Payments : payment[p] # Null => order[payment[p].order] # Null

\* The lock of an order is held by one cashier at most.
OneDeskPerOrder ==
    \A c, d \in Cashiers :
        desk[c] # Null /\ desk[d] # Null /\ desk[c].order = desk[d].order => c = d

\* What is being recorded still fits: voids only make room for it.
RecordingFits ==
    \A c \in Cashiers : desk[c] # Null => desk[c].amount + PaidAmount(desk[c].order) <= Price

PaidInv ==
    /\ IsFiniteSet(Recorded(payment))
    /\ PaymentsOfKnownOrders
    /\ OneDeskPerOrder
    /\ RecordingFits
    /\ PaidWithinPrice

\* The valid payments of an order are finitely many, of amounts in 1..Price.
LEMMA ValidAreFew ==
    ASSUME PaymentsTypeOK, IsFiniteSet(Recorded(payment)), NEW o \in Orders
    PROVE  /\ IsFiniteSet(ValidIn(payment, o))
           /\ \A p \in ValidIn(payment, o) : payment[p].amount \in 1..Price
           /\ PaidAmount(o) \in Int
  <1>1. ValidIn(payment, o) \subseteq Recorded(payment)
    BY DEF ValidIn, Recorded
  <1>2. IsFiniteSet(ValidIn(payment, o))
    BY <1>1, FS_Subset
  <1>3. \A p \in ValidIn(payment, o) : payment[p].amount \in 1..Price
    BY DEF ValidIn, PaymentsTypeOK, OrderPayment
  <1>4. \A p \in ValidIn(payment, o) : payment[p].amount \in Int
    BY <1>3, PaymentsAssumption
  <1> DEFINE S == ValidIn(payment, o)
  <1>5. PaidAmount(o) = TotalOf(payment, S)
    BY PaidIsTotal
  <1>6. IsFiniteSet(S) /\ \A p \in S : payment[p].amount \in Int
    BY <1>2, <1>4
  <1> HIDE DEF S
  <1>7. PICK f : f \in [SUBSET S -> Int] /\ TotalOf(payment, S) = f[S]
    BY <1>6, TotalChosen
  <1> QED  BY <1>2, <1>3, <1>5, <1>7

\* Where the valid payments of an order stay, so does what is paid.
LEMMA SamePaid ==
    ASSUME PaymentsTypeOK, IsFiniteSet(Recorded(payment)), NEW o \in Orders,
           ValidIn(payment', o) = ValidIn(payment, o),
           \A p \in ValidIn(payment, o) : payment'[p].amount = payment[p].amount
    PROVE  PaidAmount(o)' = PaidAmount(o)
  <1> DEFINE S == ValidIn(payment, o)
  <1>1. IsFiniteSet(S) /\ \A p \in S : payment[p].amount \in Int
    BY ValidAreFew, PaymentsAssumption
  <1>2. /\ PaidAmount(o) = TotalOf(payment, S)
        /\ PaidAmount(o)' = TotalOf(payment', S)
    BY PaidIsTotal
  <1>3. \A p \in S : payment'[p].amount = payment[p].amount
    OBVIOUS
  <1> HIDE DEF S
  <1> QED  BY <1>1, <1>2, <1>3, SameTotal

\* A payment more adds its amount.
LEMMA PaidGrows ==
    ASSUME PaymentsTypeOK, IsFiniteSet(Recorded(payment)), NEW o \in Orders,
           NEW x, x \notin ValidIn(payment, o),
           ValidIn(payment', o) = ValidIn(payment, o) \cup {x},
           payment'[x].amount \in Int,
           \A p \in ValidIn(payment, o) : payment'[p].amount = payment[p].amount
    PROVE  PaidAmount(o)' = payment'[x].amount + PaidAmount(o)
  <1> DEFINE S == ValidIn(payment, o)
  <1>1. IsFiniteSet(S) /\ \A p \in S : payment[p].amount \in Int
    BY ValidAreFew, PaymentsAssumption
  <1>2. /\ PaidAmount(o) = TotalOf(payment, S)
        /\ PaidAmount(o)' = TotalOf(payment', S \cup {x})
    BY PaidIsTotal
  <1>3. x \notin S /\ \A p \in S : payment'[p].amount = payment[p].amount
    OBVIOUS
  <1>4. payment'[x].amount \in Int
    OBVIOUS
  <1> HIDE DEF S
  <1>5. \A p \in S \cup {x} : payment'[p].amount \in Int
    BY <1>1, <1>3, <1>4
  <1>6. TotalOf(payment', S \cup {x}) = payment'[x].amount + TotalOf(payment', S)
    BY <1>1, <1>3, <1>5, TotalWithOneMore
  <1>7. TotalOf(payment', S) = TotalOf(payment, S)
    BY <1>1, <1>3, SameTotal
  <1> QED  BY <1>2, <1>6, <1>7

\* A payment less takes its amount away.
LEMMA PaidShrinks ==
    ASSUME PaymentsTypeOK, IsFiniteSet(Recorded(payment)), NEW o \in Orders,
           NEW x, x \in ValidIn(payment, o),
           ValidIn(payment', o) = ValidIn(payment, o) \ {x},
           \A p \in ValidIn(payment', o) : payment'[p].amount = payment[p].amount
    PROVE  PaidAmount(o) = payment[x].amount + PaidAmount(o)'
  <1> DEFINE T == ValidIn(payment, o)
             S == ValidIn(payment', o)
  <1>1. /\ IsFiniteSet(T)
        /\ \A p \in T : payment[p].amount \in Int
        /\ S = T \ {x} /\ x \in T
    BY ValidAreFew, PaymentsAssumption
  <1>2. /\ PaidAmount(o) = TotalOf(payment, T)
        /\ PaidAmount(o)' = TotalOf(payment', S)
    BY PaidIsTotal
  <1>3. \A p \in S : payment'[p].amount = payment[p].amount
    OBVIOUS
  <1> HIDE DEF S, T
  <1>4. IsFiniteSet(S) /\ T = S \cup {x} /\ x \notin S
    BY <1>1, FS_Subset
  <1>5. \A p \in S \cup {x} : payment[p].amount \in Int
    BY <1>1, <1>4
  <1>6. TotalOf(payment, T) = payment[x].amount + TotalOf(payment, S)
    BY <1>4, <1>5, TotalWithOneMore
  <1>7. TotalOf(payment', S) = TotalOf(payment, S)
    BY <1>3, <1>4, <1>5, SameTotal
  <1> QED  BY <1>2, <1>6, <1>7

\* An order without payments is not paid.
LEMMA NothingPaid ==
    ASSUME NEW o, ValidIn(payment, o) = {}
    PROVE  PaidAmount(o) = 0
  BY PaidIsTotal, TotalOfNothing

\* What an insert does to the sums.
LEMMA Inserted ==
    ASSUME PaymentsTypeOK, IsFiniteSet(Recorded(payment)),
           NEW x \in Payments, payment[x] = Null,
           NEW o \in Orders, NEW amount \in 1..Price,
           payment' = [payment EXCEPT ![x] = Paid(o, amount)]
    PROVE  /\ IsFiniteSet(Recorded(payment'))
           /\ \A i \in Orders : i # o => PaidAmount(i)' = PaidAmount(i)
           /\ PaidAmount(o)' \in Int
           /\ PaidAmount(o)' <= amount + PaidAmount(o)
  <1> DEFINE row == Paid(o, amount)
  <1>0. row.order = o /\ row.amount = amount /\ ~row.voided
    BY DEF Paid
  <1>1. payment'[x] = row /\ \A p \in Payments : p # x => payment'[p] = payment[p]
    BY DEF PaymentsTypeOK
  <1>2. amount \in Int /\ amount > 0
    BY PaymentsAssumption
  <1> HIDE DEF row
  <1>3. IsFiniteSet(Recorded(payment'))
    <2>1. Recorded(payment') \subseteq Recorded(payment) \cup {x}
      BY <1>1 DEF Recorded
    <2>2. IsFiniteSet(Recorded(payment) \cup {x})
      BY FS_AddElement
    <2> QED  BY <2>1, <2>2, FS_Subset
  <1>4. ASSUME NEW i \in Orders, ValidIn(payment', i) = ValidIn(payment, i)
        PROVE  PaidAmount(i)' = PaidAmount(i)
    <2>1. \A p \in ValidIn(payment, i) : payment'[p].amount = payment[p].amount
      BY <1>1 DEF ValidIn
    <2> QED  BY <1>4, <2>1, SamePaid
  <1>5. ASSUME NEW i \in Orders, i # o PROVE PaidAmount(i)' = PaidAmount(i)
    <2>1. ValidIn(payment', i) = ValidIn(payment, i)
      BY <1>0, <1>1, <1>5 DEF ValidIn
    <2> QED  BY <1>4, <2>1
  <1>6. PaidAmount(o) \in Int
    BY ValidAreFew
  <1>7. CASE row = Null
    <2>1. ValidIn(payment', o) = ValidIn(payment, o)
      BY <1>1, <1>7 DEF ValidIn
    <2>2. PaidAmount(o)' = PaidAmount(o)
      BY <1>4, <2>1
    <2> QED  BY <1>2, <1>3, <1>5, <1>6, <2>2
  <1>8. CASE row # Null
    <2>1. /\ x \notin ValidIn(payment, o)
          /\ ValidIn(payment', o) = ValidIn(payment, o) \cup {x}
          /\ payment'[x].amount \in Int
          /\ \A p \in ValidIn(payment, o) : payment'[p].amount = payment[p].amount
      BY <1>0, <1>1, <1>2, <1>8 DEF ValidIn
    <2>2. PaidAmount(o)' = payment'[x].amount + PaidAmount(o)
      BY <2>1, PaidGrows
    <2> QED  BY <1>0, <1>1, <1>2, <1>3, <1>5, <1>6, <2>2
  <1> QED  BY <1>7, <1>8

\* What a void does to them.
LEMMA Voided ==
    ASSUME PaymentsTypeOK, IsFiniteSet(Recorded(payment)),
           NEW x \in Payments, VoidPayment(x)
    PROVE  /\ IsFiniteSet(Recorded(payment'))
           /\ \A p \in Payments : payment'[p] # Null =>
                  payment[p] # Null /\ payment'[p].order = payment[p].order
           /\ \A i \in Orders : PaidAmount(i)' \in Int /\ PaidAmount(i)' <= PaidAmount(i)
  <1>0. payment[x] \in OrderPayment /\ ~payment[x].voided
    BY DEF VoidPayment, PaymentsTypeOK
  <1>1. /\ payment'[x] = [payment[x] EXCEPT !.voided = TRUE]
        /\ \A p \in Payments : p # x => payment'[p] = payment[p]
        /\ payment[x] # Null
    BY DEF VoidPayment, PaymentsTypeOK
  <1>2. /\ payment'[x].voided
        /\ payment'[x].order = payment[x].order
        /\ payment'[x].amount = payment[x].amount
    BY <1>0, <1>1 DEF OrderPayment
  <1>3. IsFiniteSet(Recorded(payment'))
    <2>1. Recorded(payment') \subseteq Recorded(payment)
      BY <1>1 DEF Recorded
    <2> QED  BY <2>1, FS_Subset
  <1>4. ASSUME NEW p \in Payments, payment'[p] # Null
        PROVE  payment[p] # Null /\ payment'[p].order = payment[p].order
    BY <1>1, <1>2, <1>4
  <1>5. ASSUME NEW i \in Orders
        PROVE  PaidAmount(i)' \in Int /\ PaidAmount(i)' <= PaidAmount(i)
    <2>0. PaidAmount(i) \in Int
      BY ValidAreFew
    <2>1. CASE x \in ValidIn(payment, i)
      <3>1. /\ ValidIn(payment', i) = ValidIn(payment, i) \ {x}
            /\ \A p \in ValidIn(payment', i) : payment'[p].amount = payment[p].amount
        BY <1>1, <1>2, <2>1 DEF ValidIn
      <3>2. PaidAmount(i) = payment[x].amount + PaidAmount(i)'
        BY <2>1, <3>1, PaidShrinks
      <3>3. payment[x].amount \in Int /\ payment[x].amount > 0
        BY <1>0, PaymentsAssumption DEF OrderPayment
      <3>4. IsFiniteSet(ValidIn(payment', i))
        BY <3>1, ValidAreFew, FS_Subset
      <3>5. PaidAmount(i)' \in Int
        <4> DEFINE S == ValidIn(payment', i)
        <4>1. \A p \in ValidIn(payment, i) : payment[p].amount \in Int
          BY ValidAreFew, PaymentsAssumption
        <4>2. IsFiniteSet(S) /\ \A p \in S : payment'[p].amount \in Int
          BY <3>1, <3>4, <4>1
        <4>3. PaidAmount(i)' = TotalOf(payment', S)
          BY PaidIsTotal
        <4> HIDE DEF S
        <4>4. PICK f : f \in [SUBSET S -> Int] /\ TotalOf(payment', S) = f[S]
          BY <4>2, TotalChosen
        <4> QED  BY <4>3, <4>4
      <3> QED  BY <2>0, <3>2, <3>3, <3>5
    <2>2. CASE x \notin ValidIn(payment, i)
      <3>1. payment[x].order # i
        BY <1>0, <1>1, <2>2 DEF ValidIn
      <3>2. /\ ValidIn(payment', i) = ValidIn(payment, i)
            /\ \A p \in ValidIn(payment, i) : payment'[p].amount = payment[p].amount
        BY <1>1, <1>2, <3>1 DEF ValidIn
      <3> QED  BY <2>0, <3>2, SamePaid
    <2> QED  BY <2>1, <2>2
  <1> QED  BY <1>3, <1>4, <1>5

\* Nothing is paid and nobody is paying for an order that does not exist yet.
LEMMA FreshOrder ==
    ASSUME PaidInv, PaymentsInv, NEW o \in Orders, order[o] = Null
    PROVE  /\ PaidAmount(o) = 0
           /\ \A c \in Cashiers : desk[c] # Null => desk[c].order # o
  <1>1. ValidIn(payment, o) = {}
    BY DEF ValidIn, PaidInv, PaymentsOfKnownOrders
  <1>2. \A c \in Cashiers : desk[c] # Null => desk[c].order # o
    BY DEF PaymentsInv, RecordsOpenOrder, HasStatus
  <1> QED  BY <1>1, <1>2, NothingPaid

LEMMA CounterSaleRow ==
    ASSUME TypeOK, NEW o \in Orders, NEW status \in CounterStatuses,
           NEW currency \in Currencies, CreateCounterOrder(o, status, currency)
    PROVE  order'[o] \in PrintOrder
  <1> DEFINE row == [status |-> status, user |-> Null, key |-> Null, content |-> Null,
                     currency |-> currency, deducted |-> status = "delivered"]
  <1>1. row \in PrintOrder
    BY DEF PrintOrder, CounterStatuses, PrintOrderStatus
  <1>2. order'[o] = row
    BY DEF CreateCounterOrder, InsertOrder, TypeOK
  <1> QED  BY <1>1, <1>2

LEMMA PaidStep ==
    ASSUME TypeOK, RowsExist, PaymentsInv, PaidInv, [PaymentsNext]_everything
    PROVE  PaidInv'
  <1>0. /\ PaymentsTypeOK
        /\ \A o \in Orders : PaidAmount(o) \in Int /\ PaidAmount(o) <= Price
        /\ Price \in Int
        /\ \A c \in Cashiers : desk[c] # Null => desk[c] \in Recording
    BY ValidAreFew, PaymentsAssumption DEF PaymentsInv, PaidInv, PaidWithinPrice, PaymentsTypeOK
  <1>1. \A o \in Orders : order[o] # Null => order'[o] # Null
    BY PaymentStepIsOrderStep, OrdersStay
  <1>2. ASSUME payment' = payment, NEW o \in Orders PROVE PaidAmount(o)' = PaidAmount(o)
    BY <1>2, PaidIsTotal
  <1>3. ASSUME NEW c \in Cashiers, NEW o \in Orders, NEW amount \in 1..Price,
               BeginRecord(c, o, amount)
        PROVE  PaidInv'
    <2>1. /\ payment' = payment
          /\ ~Locked(o)
          /\ amount <= Price - PaidAmount(o)
          /\ desk' = [desk EXCEPT ![c] = [order |-> o, amount |-> amount]]
      BY <1>3 DEF BeginRecord
    <2>2. /\ desk'[c] = [order |-> o, amount |-> amount]
          /\ \A d \in Cashiers : d # c => desk'[d] = desk[d]
      BY <1>0, <2>1 DEF PaymentsTypeOK
    <2>3. OneDeskPerOrder'
      BY <2>1, <2>2 DEF PaidInv, OneDeskPerOrder, Locked
    <2>4. \A i \in Orders : PaidAmount(i)' = PaidAmount(i)
      BY <1>2, <2>1
    <2>5. RecordingFits'
      <3>1. ASSUME NEW d \in Cashiers, desk'[d] # Null, NEW i \in Orders,
                   desk'[d].order = i
            PROVE  desk'[d].amount + PaidAmount(i)' <= Price
        BY <1>0, <2>1, <2>2, <2>4, <3>1 DEF PaidInv, RecordingFits
      <3>2. \A d \in Cashiers : desk'[d] # Null => desk'[d].order \in Orders
        BY <1>0, <2>2 DEF Recording
      <3> QED  BY <3>1, <3>2 DEF RecordingFits
    <2>6. PaidWithinPrice'
      BY <1>0, <1>2, <2>1 DEF PaidWithinPrice
    <2>7. PaymentsOfKnownOrders' /\ IsFiniteSet(Recorded(payment'))
      BY <1>0, <1>1, <2>1 DEF PaidInv, PaymentsOfKnownOrders, PaymentsTypeOK, OrderPayment
    <2> QED  BY <2>3, <2>5, <2>6, <2>7 DEF PaidInv
  <1>4. ASSUME NEW c \in Cashiers, NEW p \in Payments, InsertPayment(c, p)
        PROVE  PaidInv'
    <2>0. desk[c] # Null /\ desk[c] \in Recording
      BY <1>0, <1>4 DEF InsertPayment
    <2>1. PICK o \in Orders, amount \in 1..Price : o = desk[c].order /\ amount = desk[c].amount
      BY <2>0 DEF Recording
    <2>2. /\ payment[p] = Null
          /\ payment' = [payment EXCEPT ![p] = Paid(o, amount)]
          /\ amount + PaidAmount(o) <= Price
      BY <1>4, <2>0, <2>1 DEF InsertPayment, PaidInv, RecordingFits
    <2>3. /\ desk'[c] = Null
          /\ \A d \in Cashiers : d # c => desk'[d] = desk[d]
      BY <1>0, <1>4 DEF InsertPayment, PaymentsTypeOK
    <2>4. \A d \in Cashiers : d # c /\ desk[d] # Null => desk[d].order # o
      BY <2>0, <2>1 DEF PaidInv, OneDeskPerOrder
    <2>5. order[o] # Null
      BY <2>0, <2>1 DEF PaymentsInv, RecordsOpenOrder, HasStatus
    <2>6. /\ payment'[p] # Null => payment'[p].order = o
          /\ \A q \in Payments : q # p => payment'[q] = payment[q]
      BY <1>0, <2>2 DEF PaymentsTypeOK, Paid
    <2>7. /\ IsFiniteSet(Recorded(payment'))
          /\ \A i \in Orders : i # o => PaidAmount(i)' = PaidAmount(i)
          /\ PaidAmount(o)' \in Int
          /\ PaidAmount(o)' <= amount + PaidAmount(o)
      BY <1>0, <2>2, Inserted DEF PaidInv
    <2>8. PaidAmount(o)' <= Price
      BY <1>0, <2>2, <2>7
    <2>9. PaidWithinPrice'
      BY <1>0, <2>7, <2>8 DEF PaidWithinPrice
    <2>10. PaymentsOfKnownOrders'
      BY <1>0, <1>1, <2>2, <2>5, <2>6
         DEF PaidInv, PaymentsOfKnownOrders, PaymentsTypeOK, OrderPayment
    <2>11. OneDeskPerOrder'
      BY <2>3 DEF PaidInv, OneDeskPerOrder
    <2>12. RecordingFits'
      BY <1>0, <2>3, <2>4, <2>7 DEF PaidInv, RecordingFits, Recording
    <2> QED  BY <2>7, <2>9, <2>10, <2>11, <2>12 DEF PaidInv
  <1>5. ASSUME NEW c \in Cashiers, AbandonPayment(c) PROVE PaidInv'
    <2>1. payment' = payment /\ desk' = [desk EXCEPT ![c] = Null]
      BY <1>5 DEF AbandonPayment
    <2>2. /\ desk'[c] = Null
          /\ \A d \in Cashiers : d # c => desk'[d] = desk[d]
      BY <1>0, <2>1 DEF PaymentsTypeOK
    <2>3. OneDeskPerOrder'
      BY <2>2 DEF PaidInv, OneDeskPerOrder
    <2>4. RecordingFits'
      BY <1>0, <1>2, <2>1, <2>2 DEF PaidInv, RecordingFits, Recording
    <2>5. PaidWithinPrice'
      BY <1>0, <1>2, <2>1 DEF PaidWithinPrice
    <2>6. PaymentsOfKnownOrders' /\ IsFiniteSet(Recorded(payment'))
      BY <1>0, <1>1, <2>1 DEF PaidInv, PaymentsOfKnownOrders, PaymentsTypeOK, OrderPayment
    <2> QED  BY <2>3, <2>4, <2>5, <2>6 DEF PaidInv
  <1>6. ASSUME NEW p \in Payments, VoidPayment(p) PROVE PaidInv'
    <2>1. /\ IsFiniteSet(Recorded(payment'))
          /\ \A q \in Payments : payment'[q] # Null =>
                 payment[q] # Null /\ payment'[q].order = payment[q].order
          /\ \A i \in Orders : PaidAmount(i)' \in Int /\ PaidAmount(i)' <= PaidAmount(i)
      BY <1>0, <1>6, Voided DEF PaidInv
    <2>2. desk' = desk
      BY <1>6 DEF VoidPayment
    <2>3. PaidWithinPrice'
      BY <1>0, <2>1 DEF PaidWithinPrice
    <2>4. PaymentsOfKnownOrders'
      BY <1>0, <1>1, <2>1 DEF PaidInv, PaymentsOfKnownOrders, PaymentsTypeOK, OrderPayment
    <2>5. OneDeskPerOrder'
      BY <2>2 DEF PaidInv, OneDeskPerOrder
    <2>6. ASSUME NEW d \in Cashiers, desk[d] # Null, NEW i \in Orders,
                 desk[d].order = i
          PROVE  desk[d].amount + PaidAmount(i)' <= Price
      <3>1. desk[d].amount \in Int
        BY <1>0, <2>6 DEF Recording
      <3>2. desk[d].amount + PaidAmount(i) <= Price
        BY <2>6 DEF PaidInv, RecordingFits
      <3> QED  BY <1>0, <2>1, <3>1, <3>2
    <2>7. RecordingFits'
      BY <1>0, <2>2, <2>6 DEF RecordingFits, Recording
    <2> QED  BY <2>1, <2>3, <2>4, <2>5, <2>7 DEF PaidInv
  <1>7. ASSUME NEW o \in Orders, NEW status \in CounterStatuses,
               NEW currency \in Currencies, NEW amount \in 1..Price, NEW p \in Payments,
               CounterSale(o, status, currency, amount, p)
        PROVE  PaidInv'
    <2>1. /\ order[o] = Null
          /\ payment[p] = Null
          /\ payment' = [payment EXCEPT ![p] = Paid(o, amount)]
          /\ desk' = desk
      BY <1>7 DEF CounterSale, CreateCounterOrder, InsertOrder
    <2>2. order'[o] # Null
      <3>1. order'[o] \in PrintOrder
        BY <1>7, CounterSaleRow DEF CounterSale
      <3> QED  BY <3>1, NullIsNoValue
    <2>3. /\ IsFiniteSet(Recorded(payment'))
          /\ \A i \in Orders : i # o => PaidAmount(i)' = PaidAmount(i)
          /\ PaidAmount(o)' \in Int
          /\ PaidAmount(o)' <= amount + PaidAmount(o)
      BY <1>0, <2>1, Inserted DEF PaidInv
    <2>4. /\ PaidAmount(o) = 0
          /\ \A d \in Cashiers : desk[d] # Null => desk[d].order # o
      BY <2>1, FreshOrder
    <2>5. PaidWithinPrice'
      BY <1>0, <2>3, <2>4 DEF PaidWithinPrice
    <2>6. /\ payment'[p] # Null => payment'[p].order = o
          /\ \A q \in Payments : q # p => payment'[q] = payment[q]
      BY <1>0, <2>1 DEF PaymentsTypeOK, Paid
    <2>7. PaymentsOfKnownOrders'
      BY <1>0, <1>1, <2>2, <2>6
         DEF PaidInv, PaymentsOfKnownOrders, PaymentsTypeOK, OrderPayment
    <2>8. OneDeskPerOrder'
      BY <2>1 DEF PaidInv, OneDeskPerOrder
    <2>9. RecordingFits'
      BY <1>0, <2>1, <2>3, <2>4 DEF PaidInv, RecordingFits, Recording
    <2> QED  BY <2>3, <2>5, <2>7, <2>8, <2>9 DEF PaidInv
  <1>8. ASSUME OrdersStep \/ UNCHANGED everything PROVE PaidInv'
    <2>1. payment' = payment /\ desk' = desk
      BY <1>8 DEF OrdersStep, paymentVars, everything
    <2>2. PaidWithinPrice'
      BY <1>0, <1>2, <2>1 DEF PaidWithinPrice
    <2>3. RecordingFits'
      BY <1>0, <1>2, <2>1 DEF PaidInv, RecordingFits, Recording
    <2>4. OneDeskPerOrder'
      BY <2>1 DEF PaidInv, OneDeskPerOrder
    <2>5. PaymentsOfKnownOrders' /\ IsFiniteSet(Recorded(payment'))
      BY <1>0, <1>1, <2>1 DEF PaidInv, PaymentsOfKnownOrders, PaymentsTypeOK, OrderPayment
    <2> QED  BY <2>2, <2>3, <2>4, <2>5 DEF PaidInv
  <1> QED
    BY <1>3, <1>4, <1>5, <1>6, <1>7, <1>8 DEF PaymentsNext

LEMMA InitPaidInv == PaymentsInit => PaidInv
  <1> SUFFICES ASSUME PaymentsInit PROVE PaidInv
    OBVIOUS
  <1>1. Recorded(payment) = {} /\ \A o \in Orders : ValidIn(payment, o) = {}
    BY DEF PaymentsInit, Recorded, ValidIn
  <1>2. \A o \in Orders : PaidAmount(o) = 0
    BY <1>1, NothingPaid
  <1>3. \A c \in Cashiers : desk[c] = Null
    BY DEF PaymentsInit
  <1>4. PaymentsOfKnownOrders
    BY DEF PaymentsInit, PaymentsOfKnownOrders
  <1>5. IsFiniteSet(Recorded(payment))
    BY <1>1, FS_EmptySet
  <1> QED
    BY <1>2, <1>3, <1>4, <1>5, PaymentsAssumption
       DEF PaidInv, OneDeskPerOrder, RecordingFits, PaidWithinPrice

\* However recordings, voids and counter sales interleave, an order is never paid
\* more than its price: what is due is read under the lock of the order, which no
\* second recording gets past, and the voids that do only lower what is paid.
THEOREM PaidCorrect == PaymentsSpec => []PaidWithinPrice
  <1>1. TypeOK /\ RowsExist /\ PaymentsInv /\ PaidInv /\ [PaymentsNext]_everything => PaidInv'
    BY PaidStep
  <1>2. IInv => TypeOK /\ RowsExist
    BY DEF IInv
  <1>3. PaidInv => PaidWithinPrice
    BY DEF PaidInv
  <1> QED
    BY <1>1, <1>2, <1>3, InitPaidInv, PaymentsInvariance, PaymentsImplementOrders,
       Invariance, PTL DEF PaymentsSpec
=============================================================================
