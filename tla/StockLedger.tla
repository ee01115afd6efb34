---------------------------- MODULE StockLedger ----------------------------
(***************************************************************************)
(* One inventory item and its ledger: apps/finance/services.py (movements, *)
(* automatic usage of delivered orders, alerts) and the dashboard form     *)
(* that edits the item (finance/views.py over audit/mixins.py).            *)
(*                                                                         *)
(* A movement and a deduction hold the row lock of the item from the read  *)
(* to the commit: one action each.  The form does not.  It reads the whole *)
(* row without a lock and later saves every column of what it read, so it  *)
(* is two actions with anything in between.                                *)
(*                                                                         *)
(* Quantities are counted in hundredths of a unit, the two decimals of     *)
(* quantity_field.  consumption_per_use and pending_consumption have six   *)
(* decimals and are counted in a finer grain, Grains to the hundredth.     *)
(***************************************************************************)
EXTENDS StockParameters, Sequences

VARIABLES
    item,      \* the InventoryItem row
    movements, \* its StockMovement rows, oldest first
    deducted,  \* orders with stock_deducted_at
    owed,      \* grains the delivered orders used of this item
    form,      \* the row each open form was filled from
    stale,     \* editors whose form is older than a movement
    torn       \* a save has written such a form over the row

vars == <<item, movements, deducted, owed, form, stale, torn>>

Item == [quantity : Int, pending : Int, active : BOOLEAN, level : Nat]

Movement ==
    [quantity : Int, after : Int, order : Deliveries \cup {NoOrder},
     alert : {"none", "low_stock", "out_of_stock"}]

NoForm == [open |-> FALSE]

TypeOK ==
    /\ item \in Item
    /\ movements \in Seq(Movement)
    /\ deducted \in SUBSET Deliveries
    /\ owed \in Nat
    /\ form \in [Editors -> Item \cup {NoForm}]
    /\ stale \in SUBSET Editors
    /\ torn \in BOOLEAN

Init ==
    /\ item \in [quantity : {0}, pending : {0}, active : {TRUE}, level : Levels]
    /\ movements = <<>>
    /\ deducted = {}
    /\ owed = 0
    /\ form = [e \in Editors |-> NoForm]
    /\ stale = {}
    /\ torn = FALSE

-----------------------------------------------------------------------------
(* Movements *)

\* StockAlertService.kind.
MutantAlertKind(row, before, after) ==
    IF row.active /\ before > 0 /\ after <= row.level THEN "out_of_stock"
    ELSE IF row.active /\ row.level > 0 /\ before > row.level /\ after <= row.level
    THEN "low_stock"
    ELSE "none"

AlertKind(row, before, after) ==
    IF row.active /\ before > 0 /\ after <= 0 THEN "out_of_stock"
    ELSE IF row.active /\ row.level > 0 /\ before > row.level /\ after <= row.level
    THEN "low_stock"
    ELSE "none"

Opened == {e \in Editors : form[e] # NoForm}

MutantLineBeforeChange(delta, o) ==
    [quantity |-> delta, after |-> item.quantity, order |-> o,
     alert |-> AlertKind(item, item.quantity, item.quantity + delta)]

\* The StockMovement row of a change of the shelf.
LedgerLine(delta, o) ==
    LET after == item.quantity + delta IN
    [quantity |-> delta, after |-> after, order |-> o,
     alert |-> AlertKind(item, item.quantity, after)]

\* InventoryService.record_movement: the row and its ledger line change
\* together, and the stock cannot go below zero.
RecordMovement(delta) ==
    /\ item.quantity + delta \in 0..MaxQuantity
    /\ Len(movements) < MaxMovements
    /\ movements' = Append(movements, LedgerLine(delta, NoOrder))
    /\ item' = [item EXCEPT !.quantity = @ + delta]

\* A purchase or an upward count, and a usage, waste, counter sale or downward
\* count, recorded by the staff.
AddStock(amount) ==
    /\ RecordMovement(amount)
    /\ stale' = stale \cup Opened
    /\ UNCHANGED <<deducted, owed, form, torn>>

RemoveStock(amount) ==
    /\ RecordMovement(-amount)
    /\ stale' = stale \cup Opened
    /\ UNCHANGED <<deducted, owed, form, torn>>

-----------------------------------------------------------------------------
(* Automatic usage *)

Smaller(a, b) == IF a <= b THEN a ELSE b

\* What deduct_for_order takes of the grains due: whole hundredths, as far as
\* the shelf goes.
Take(due) == Smaller(due \div Grains, item.quantity)

\* deduct_for_order finds no active item under the key: nothing is taken and
\* nothing is owed, and the order counts as deducted.
DeductNothing(o) ==
    /\ o \notin deducted
    /\ ~item.active
    /\ deducted' = deducted \cup {o}
    /\ UNCHANGED <<item, movements, owed, form, stale, torn>>

MutantDeduct(o, uses) ==
    LET due  == item.pending + uses * PerUse
        take == Take(due)
    IN
    /\ o \notin deducted
    /\ item.active
    /\ IF take > 0
         THEN /\ Len(movements) < MaxMovements
              /\ movements' = Append(movements, LedgerLine(-take, o))
         ELSE UNCHANGED movements
    /\ item' = [item EXCEPT !.quantity = @ - take,
                            !.pending = due % Grains]
    /\ deducted' = deducted \cup {o}
    /\ owed' = owed + uses * PerUse
    /\ stale' = stale \cup Opened
    /\ UNCHANGED <<form, torn>>

\* deduct_for_order takes what it can and leaves the rest pending.
Deduct(o, uses) ==
    LET due  == item.pending + uses * PerUse
        take == Take(due)
    IN
    /\ o \notin deducted
    /\ item.active
    /\ IF take > 0
         THEN /\ Len(movements) < MaxMovements
              /\ movements' = Append(movements, LedgerLine(-take, o))
         ELSE UNCHANGED movements
    /\ item' = [item EXCEPT !.quantity = @ - take,
                            !.pending = due - take * Grains]
    /\ deducted' = deducted \cup {o}
    /\ owed' = owed + uses * PerUse
    /\ stale' = stale \cup Opened
    /\ UNCHANGED <<form, torn>>

-----------------------------------------------------------------------------
(* The item's form *)

\* get_object: the whole row, without a lock.
OpenForm(e) ==
    /\ form[e] = NoForm
    /\ form' = [form EXCEPT ![e] = item]
    /\ stale' = stale \ {e}
    /\ UNCHANGED <<item, movements, deducted, owed, torn>>

\* serializer.save: every column of the row that was read, with the edited
\* ones replaced.  quantity and pending_consumption are read-only in the form
\* and go back as they were read.  A DELETE does the same with active = FALSE.
SaveForm(e, active, level) ==
    /\ form[e] # NoForm
    /\ item' = [form[e] EXCEPT !.active = active, !.level = level]
    /\ torn' = (torn \/ e \in stale)
    /\ form' = [form EXCEPT ![e] = NoForm]
    /\ stale' = stale \ {e}
    /\ UNCHANGED <<movements, deducted, owed>>

Next ==
    \/ \E amount \in Amounts : AddStock(amount) \/ RemoveStock(amount)
    \/ \E o \in Deliveries : DeductNothing(o)
    \/ \E o \in Deliveries, uses \in Uses : Deduct(o, uses)
    \/ \E e \in Editors : OpenForm(e)
    \/ \E e \in Editors, active \in BOOLEAN, level \in Levels :
           SaveForm(e, active, level)

Spec == Init /\ [][Next]_vars

-----------------------------------------------------------------------------
(* What must hold *)

\* No sequence of movements, deliveries and saves of an old form takes the
\* shelf or the amount still owed below zero.
NeverNegative == item.quantity >= 0 /\ item.pending >= 0

\* Every line of the ledger starts where the line before it ended, and the
\* shelf is where the last line left it.
Before(i) == IF i = 1 THEN 0 ELSE movements[i-1].after

LedgerMatchesShelf ==
    /\ \A i \in 1..Len(movements) :
           movements[i].after = Before(i) + movements[i].quantity
    /\ item.quantity =
           IF movements = <<>> THEN 0 ELSE movements[Len(movements)].after

\* The shelf agrees with the ledger unless a save wrote back a form older than
\* a movement: no other interleaving of the two loses a movement.
LedgerMatchesUnlessTorn == ~torn => LedgerMatchesShelf

\* What the delivered orders used is on the ledger or still pending, to the
\* grain: rounding and shortages forget nothing.
TakenForOrders ==
    LET taken[i \in 0..Len(movements)] ==
            IF i = 0 THEN 0
            ELSE taken[i-1] +
                 (IF movements[i].order # NoOrder THEN -movements[i].quantity ELSE 0)
    IN  taken[Len(movements)]

NothingForgotten ==
    ~torn => TakenForOrders * Grains + item.pending = owed

\* An order has at most one line on the ledger of an item
\* (finance_move_unique_order_item would turn a second into a server error).
OneLinePerOrder ==
    \A i, k \in 1..Len(movements) :
        movements[i].order = movements[k].order /\ movements[i].order # NoOrder
        => i = k

\* The staff is told that an item ran out once per emptying: between two such
\* alerts there was stock on the shelf.
OneAlertPerEmptying ==
    ~torn =>
    \A i, k \in 1..Len(movements) :
        /\ i < k
        /\ movements[i].alert = "out_of_stock"
        /\ movements[k].alert = "out_of_stock"
        => \E m \in i+1..k-1 : movements[m].after > 0
=============================================================================
