---------------------------- MODULE MCPrintShop ----------------------------
(* The print shop and its storeroom on small instances, which share no     *)
(* state: OrderPayments, and with it PrintOrders, and StockLedger for one  *)
(* item.  A behaviour is one of one of them, while the other rests.  Two   *)
(* orders are enough for a replay, a key clash and a sweep that meets an   *)
(* order in each status; two cashiers and two payments meet on one order.  *)
(* Of the item a use is one and a half hundredths, so every odd delivery   *)
(* leaves a remainder, and four ledger lines reach a second emptying.      *)
EXTENDS OrderPayments, StockParameters, TLC

CONSTANT MaxRows  \* bound on the rows at any time, an open payment included

VARIABLES part, item, movements, deducted, owed, form, stale, torn

storeroom == <<item, movements, deducted, owed, form, stale, torn>>
shop == <<part, everything, storeroom>>

Shelf == INSTANCE StockLedger

ShopInit ==
    /\ part \in {"orders", "storeroom"}
    /\ PaymentsInit /\ Shelf!Init
    /\ part = "orders" => item.level = CHOOSE n \in Levels : TRUE

ShopNext ==
    /\ UNCHANGED part
    /\ \/ part = "orders" /\ PaymentsNext /\ UNCHANGED storeroom
       \/ part = "storeroom" /\ Shelf!Next /\ UNCHANGED everything

ShopSpec == ShopInit /\ [][ShopNext]_shop

Symmetry ==
    UNION {Permutations(Orders), Permutations(Jobs), Permutations(Payments),
           Permutations(Cashiers), Permutations(Deliveries)}

Rows(table) == {id \in DOMAIN table : table[id] # Null}

FewRows ==
    Cardinality(Rows(order)) + Cardinality(Rows(job))
      + Cardinality(Rows(payment)) + Cardinality(Rows(desk)) <= MaxRows

\* The shelf agrees with its ledger unless an old form was written back.
LedgerMatchesUnlessTorn == Shelf!LedgerMatchesUnlessTorn

\* What delivered orders used is on the ledger or pending.
NothingForgotten == Shelf!NothingForgotten

\* One alert that the item ran out for each emptying of the shelf.
OneAlertPerEmptying == Shelf!OneAlertPerEmptying
=============================================================================
