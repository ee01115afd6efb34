--------------------------- MODULE OrderPayments ---------------------------
(***************************************************************************)
(* The money collected for print orders: PaymentService and the payment    *)
(* views of apps/finance, over the orders of PrintOrders.                  *)
(*                                                                         *)
(* PaymentService.record is split where another transaction can come in    *)
(* between: it locks the order, reads its status and what is still due,    *)
(* and later inserts the payment and commits.  PaymentVoidView locks the   *)
(* payment and not the order, so a payment may be voided in between.       *)
(*                                                                         *)
(* Left out: methods, notes, time stamps, and the currency of a payment    *)
(* (it is copied from the order).  The price of an order never changes     *)
(* after its insert; every order here costs Price.                         *)
(***************************************************************************)
EXTENDS PrintOrders, FiniteSetsExt

CONSTANTS
    Payments,    \* identities of OrderPayment rows
    Cashiers,    \* staff at the dashboard, each with one request at a time
    Price        \* total_price of an order

ASSUME PaymentsAssumption == Price \in Nat \ {0}

VARIABLES
    payment,  \* OrderPayment rows
    desk      \* the payment each cashier is recording

paymentVars == <<payment, desk>>

everything == <<vars, paymentVars>>

OrderPayment == [order : Orders, amount : 1..Price, voided : BOOLEAN]

Recording == [order : Orders, amount : 1..Price]

PaymentsTypeOK ==
    /\ payment \in [Payments -> OrderPayment \cup {Null}]
    /\ desk \in [Cashiers -> Recording \cup {Null}]

PaymentsInit ==
    /\ Init
    /\ payment = [p \in Payments |-> Null]
    /\ desk = [c \in Cashiers |-> Null]

-----------------------------------------------------------------------------

Valid(o) ==
    {p \in Payments : /\ payment[p] # Null
                      /\ payment[p].order = o
                      /\ ~payment[p].voided}

\* PaymentService.paid_amount.
PaidAmount(o) == MapThenSumSet(LAMBDA p : payment[p].amount, Valid(o))

\* select_for_update on the order.
MutantLocked(o) == FALSE

Locked(o) == \E c \in Cashiers : desk[c] # Null /\ desk[c].order = o

\* PaymentService.record, up to its last check.
BeginRecord(c, o, amount) ==
    /\ desk[c] = Null
    /\ ~Locked(o)
    /\ HasStatus(o, PrintOrderStatus \ {"cancelled", "rejected"})
    /\ amount <= Price - PaidAmount(o)
    /\ desk' = [desk EXCEPT ![c] = [order |-> o, amount |-> amount]]
    /\ UNCHANGED <<vars, payment>>

Paid(o, amount) == [order |-> o, amount |-> amount, voided |-> FALSE]

\* The insert and the commit.
InsertPayment(c, p) ==
    /\ desk[c] # Null
    /\ payment[p] = Null
    /\ payment' = [payment EXCEPT ![p] = Paid(desk[c].order, desk[c].amount)]
    /\ desk' = [desk EXCEPT ![c] = Null]
    /\ UNCHANGED vars

\* The server dies before the commit.
AbandonPayment(c) ==
    /\ desk[c] # Null
    /\ desk' = [desk EXCEPT ![c] = Null]
    /\ UNCHANGED <<vars, payment>>

\* PaymentVoidView.post.
VoidPayment(p) ==
    /\ payment[p] # Null
    /\ ~payment[p].voided
    /\ payment' = [payment EXCEPT ![p].voided = TRUE]
    /\ UNCHANGED <<vars, desk>>

\* CounterOrderService.create records what the customer paid with the order.
CounterSale(o, status, currency, amount, p) ==
    /\ CreateCounterOrder(o, status, currency)
    /\ payment[p] = Null
    /\ payment' = [payment EXCEPT ![p] = Paid(o, amount)]
    /\ UNCHANGED desk

\* Everything else that happens to orders waits for the lock of the order.
OrdersStep ==
    /\ Next
    /\ \A o \in Orders : Locked(o) => order'[o] = order[o]
    /\ UNCHANGED paymentVars

PaymentsNext ==
    \/ \E c \in Cashiers, o \in Orders, amount \in 1..Price :
           BeginRecord(c, o, amount)
    \/ \E c \in Cashiers, p \in Payments : InsertPayment(c, p)
    \/ \E c \in Cashiers : AbandonPayment(c)
    \/ \E p \in Payments : VoidPayment(p)
    \/ \E o \in Orders, status \in CounterStatuses, currency \in Currencies,
          amount \in 1..Price, p \in Payments :
           CounterSale(o, status, currency, amount, p)
    \/ OrdersStep

PaymentsSpec == PaymentsInit /\ [][PaymentsNext]_everything

-----------------------------------------------------------------------------
(* What must hold *)

\* However payments, voids and cashiers interleave, an order is never paid more
\* than its price.
PaidWithinPrice == \A o \in Orders : PaidAmount(o) <= Price

\* No payment is recorded for an order that is cancelled or rejected by the
\* time of the commit.
ClosedOrdersTakeNoMoney ==
    [][\A p \in Payments :
         payment[p] = Null /\ payment'[p] # Null
         => order'[payment'[p].order].status \notin {"cancelled", "rejected"}]_everything
=============================================================================
