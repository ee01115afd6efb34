--------------------------- MODULE StockParameters ---------------------------
(***************************************************************************)
(* The parameters of StockLedger, and what is assumed of them.             *)
(***************************************************************************)
EXTENDS Integers

CONSTANTS
    Deliveries,    \* print orders that get delivered
    Editors,       \* finance managers with the item's form open
    Uses,          \* how many sheets or copies an order may use of the item
    PerUse,        \* consumption_per_use, in grains
    Grains,        \* grains in a hundredth
    Amounts,       \* quantities a movement may have
    Levels,        \* reorder levels
    MaxQuantity,   \* bound on the shelf
    MaxMovements,  \* bound on the ledger
    NoOrder        \* order = NULL in a movement

ASSUME StockAssumption ==
    /\ Uses \subseteq Nat \ {0}
    /\ PerUse \in Nat \ {0}
    /\ Grains \in Nat \ {0}
    /\ Amounts \subseteq Nat \ {0}
    /\ Levels \subseteq Nat
    /\ NoOrder \notin Deliveries
=============================================================================
