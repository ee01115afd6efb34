------------------------- MODULE StockLedger_proofs -------------------------
(***************************************************************************)
(* Proofs about StockLedger (the instance Shelf of MCPrintShop), for any   *)
(* number of orders and editors, any rates of usage and any bounds.        *)
(***************************************************************************)
EXTENDS MCPrintShop, SequenceTheorems, RecursionTheorems, TLAPS

-----------------------------------------------------------------------------
(* Arithmetic of a deduction *)

\* Taking no more hundredths than are due leaves no negative remainder.
LEMMA RemainderIsNatural ==
    ASSUME NEW due \in Nat, NEW grains \in Nat \ {0}, NEW take \in Nat,
           take <= due \div grains
    PROVE  due - take * grains \in Nat
  <1>1. (due \div grains) * grains <= due
    OBVIOUS
  <1>2. take * grains <= (due \div grains) * grains
    <2> DEFINE q == due \div grains
    <2>1. q \in Nat
      OBVIOUS
    <2>2. q - take \in Nat
      BY <2>1
    <2> HIDE DEF q
    <2>3. (q - take) * grains \in Nat
      BY <2>2
    <2>4. (q - take) * grains = q * grains - take * grains
      BY <2>1
    <2> QED BY <2>1, <2>3, <2>4 DEF q
  <1> QED BY <1>1, <1>2

\* A deduction takes what is on the shelf at most, and leaves what it does not
\* take.
LEMMA DeductionBounds ==
    ASSUME Shelf!TypeOK, Shelf!NeverNegative, NEW uses \in Uses,
           NEW due, due = item.pending + uses * PerUse
    PROVE  /\ due \in Nat
           /\ Shelf!Take(due) \in Nat
           /\ Shelf!Take(due) <= item.quantity
           /\ due - Shelf!Take(due) * Grains \in Nat
           /\ uses * PerUse \in Nat
  <1>1. uses * PerUse \in Nat
    BY StockAssumption
  <1>2. due \in Nat
    BY <1>1 DEF Shelf!TypeOK, Shelf!Item, Shelf!NeverNegative
  <1>3. due \div Grains \in Nat
    BY <1>2, StockAssumption
  <1>4. /\ Shelf!Take(due) \in Nat
        /\ Shelf!Take(due) <= item.quantity
        /\ Shelf!Take(due) <= due \div Grains
    BY <1>3 DEF Shelf!Take, Shelf!Smaller, Shelf!TypeOK, Shelf!Item, Shelf!NeverNegative
  <1>5. due - Shelf!Take(due) * Grains \in Nat
    BY <1>2, <1>4, RemainderIsNatural, StockAssumption
  <1> QED BY <1>1, <1>2, <1>4, <1>5

-----------------------------------------------------------------------------
(* The inductive invariant *)

\* A form that is not older than a movement has the quantity of the row.
FreshForms ==
    ~torn =>
    \A e \in Editors :
        form[e] # Shelf!NoForm /\ e \notin stale => form[e].quantity = item.quantity

\* No form would take the shelf below zero.
FormsNeverNegative ==
    \A e \in Editors :
        form[e] # Shelf!NoForm => form[e].quantity >= 0 /\ form[e].pending >= 0

\* Every line starts where the line before it ended.
Chained ==
    \A i \in 1..Len(movements) :
        movements[i].after = Shelf!Before(i) + movements[i].quantity

\* Where the last line left the shelf.
LastAfter ==
    IF movements = <<>> THEN 0 ELSE movements[Len(movements)].after

ShelfIsLast == ~torn => item.quantity = LastAfter /\ Chained

\* A line of an order belongs to an order that was deducted.
LinesOfDeducted ==
    \A i \in 1..Len(movements) : movements[i].order \in deducted \cup {NoOrder}

LedgerInv ==
    /\ Shelf!TypeOK
    /\ Shelf!NeverNegative
    /\ FormsNeverNegative
    /\ FreshForms
    /\ ShelfIsLast
    /\ LinesOfDeducted
    /\ Shelf!OneLinePerOrder

\* A form that is open holds a row.
LEMMA OpenFormIsRow ==
    ASSUME Shelf!TypeOK, NEW e \in Editors, form[e] # Shelf!NoForm
    PROVE  form[e] \in Shelf!Item
  BY DEF Shelf!TypeOK

\* A line of the ledger has its type.
LEMMA LineType ==
    ASSUME Shelf!TypeOK, NEW delta \in Int, NEW o \in Deliveries \cup {NoOrder}
    PROVE  /\ Shelf!LedgerLine(delta, o) \in Shelf!Movement
           /\ Shelf!LedgerLine(delta, o).quantity = delta
           /\ Shelf!LedgerLine(delta, o).after = item.quantity + delta
           /\ Shelf!LedgerLine(delta, o).order = o
  <1>1. Shelf!AlertKind(item, item.quantity, item.quantity + delta)
          \in {"none", "low_stock", "out_of_stock"}
    BY DEF Shelf!AlertKind
  <1> QED BY <1>1 DEF Shelf!LedgerLine, Shelf!Movement, Shelf!TypeOK, Shelf!Item

\* A line is added to the ledger when the shelf changes by its quantity: what
\* that does to the parts of the invariant that are about the ledger.
LEMMA LineAdded ==
    ASSUME Shelf!TypeOK, ShelfIsLast, LinesOfDeducted, Shelf!OneLinePerOrder,
           NEW delta \in Int, NEW o \in Deliveries \cup {NoOrder},
           movements' = Append(movements, Shelf!LedgerLine(delta, o)),
           item'.quantity = item.quantity + delta,
           torn' = torn,
           o = NoOrder \/ o \notin deducted,
           deducted' = deducted \cup ({o} \ {NoOrder})
    PROVE  /\ movements' \in Seq(Shelf!Movement)
           /\ ShelfIsLast'
           /\ LinesOfDeducted'
           /\ Shelf!OneLinePerOrder'
  <1> DEFINE line == Shelf!LedgerLine(delta, o)
             n == Len(movements)
  <1>1. line \in Shelf!Movement /\ line.after = item.quantity + delta
        /\ line.quantity = delta /\ line.order = o
    BY LineType
  <1> HIDE DEF line
  <1>2. movements \in Seq(Shelf!Movement) /\ n \in Nat
    BY DEF Shelf!TypeOK
  <1>3. /\ movements' = Append(movements, line)
        /\ movements' \in Seq(Shelf!Movement)
        /\ Len(movements') = n + 1
        /\ movements'[n + 1] = line
        /\ \A i \in 1..n : movements'[i] = movements[i]
        /\ movements' # <<>>
    BY <1>1, <1>2 DEF line
  <1> HIDE DEF n
  <1>4. ShelfIsLast'
    <2> SUFFICES ASSUME ~torn'
                 PROVE  item'.quantity = LastAfter' /\ Chained'
      BY DEF ShelfIsLast
    <2>1. item.quantity = LastAfter /\ Chained
      BY DEF ShelfIsLast
    <2>2. item'.quantity = LastAfter'
      BY <1>1, <1>3 DEF LastAfter
    <2>3. ASSUME NEW i \in 1..n + 1
          PROVE  movements'[i].after = Shelf!Before(i)' + movements'[i].quantity
      <3>1. CASE i \in 1..n
        <4>1. Shelf!Before(i)' = Shelf!Before(i)
          BY <1>2, <1>3, <3>1 DEF Shelf!Before
        <4> QED BY <1>3, <2>1, <3>1, <4>1 DEF Chained, n
      <3>2. CASE i = n + 1
        <4>1. Shelf!Before(i)' = LastAfter
          <5>1. CASE n = 0
            BY <1>2, <3>2, <5>1 DEF Shelf!Before, LastAfter, n
          <5>2. CASE n # 0
            BY <1>2, <1>3, <3>2, <5>2 DEF Shelf!Before, LastAfter, n
          <5> QED BY <5>1, <5>2
        <4> QED BY <1>1, <1>3, <2>1, <3>2, <4>1
      <3>3. i \in 1..n \/ i = n + 1
        BY <1>2
      <3> QED BY <3>1, <3>2, <3>3
    <2> QED BY <1>3, <2>2, <2>3 DEF Chained
  <1>5. LinesOfDeducted'
    BY <1>1, <1>2, <1>3 DEF LinesOfDeducted, n
  <1>6. Shelf!OneLinePerOrder'
    BY <1>1, <1>2, <1>3, StockAssumption DEF Shelf!OneLinePerOrder, LinesOfDeducted, n
  <1> QED BY <1>3, <1>4, <1>5, <1>6

\* Nothing is added to the ledger, and the shelf stays as it was.
LEMMA LedgerUnchanged ==
    ASSUME Shelf!TypeOK, ShelfIsLast, LinesOfDeducted, Shelf!OneLinePerOrder,
           UNCHANGED movements,
           item'.quantity = item.quantity \/ torn',
           torn => torn',
           deducted \subseteq deducted'
    PROVE  ShelfIsLast' /\ LinesOfDeducted' /\ Shelf!OneLinePerOrder'
  BY DEF ShelfIsLast, Chained, Shelf!Before, LastAfter, LinesOfDeducted, Shelf!OneLinePerOrder

\* The forms stay, and those that are open when the row changes are stale.
LEMMA FormsGrowStale ==
    ASSUME FormsNeverNegative, FreshForms, UNCHANGED <<form, torn>>,
           stale' = stale \cup Shelf!Opened
    PROVE  FormsNeverNegative' /\ FreshForms'
  BY DEF FormsNeverNegative, FreshForms, Shelf!Opened

\* A movement by the staff.
LEMMA MovementKeepsInv ==
    ASSUME LedgerInv, NEW delta \in Int, Shelf!RecordMovement(delta),
           stale' = stale \cup Shelf!Opened, UNCHANGED <<deducted, owed, form, torn>>
    PROVE  LedgerInv'
  <1> USE DEF LedgerInv
  <1>1. /\ item'.quantity = item.quantity + delta
        /\ item' \in Shelf!Item
        /\ item'.pending = item.pending
        /\ item'.quantity >= 0
    <2>1. item.quantity + delta \in Int
      BY DEF Shelf!TypeOK, Shelf!Item
    <2>2. item' = [item EXCEPT !.quantity = @ + delta]
      BY DEF Shelf!RecordMovement
    <2>3. item.quantity + delta >= 0
      BY <2>1 DEF Shelf!RecordMovement
    <2> QED BY <2>1, <2>2, <2>3 DEF Shelf!TypeOK, Shelf!Item
  <1>2. /\ movements' \in Seq(Shelf!Movement)
        /\ ShelfIsLast' /\ LinesOfDeducted' /\ Shelf!OneLinePerOrder'
    <2>1. movements' = Append(movements, Shelf!LedgerLine(delta, NoOrder))
      BY DEF Shelf!RecordMovement
    <2>2. deducted' = deducted \cup ({NoOrder} \ {NoOrder})
      OBVIOUS
    <2> QED BY <1>1, <2>1, <2>2, LineAdded
  <1>3. FormsNeverNegative' /\ FreshForms'
    BY FormsGrowStale
  <1>4. Shelf!TypeOK'
    BY <1>1, <1>2 DEF Shelf!TypeOK, Shelf!Opened
  <1> QED BY <1>1, <1>2, <1>3, <1>4 DEF Shelf!NeverNegative

\* A deduction for a delivered order.
LEMMA DeductKeepsInv ==
    ASSUME LedgerInv, NEW o \in Deliveries, NEW uses \in Uses, Shelf!Deduct(o, uses)
    PROVE  LedgerInv'
  <1> USE DEF LedgerInv
  <1> DEFINE due == item.pending + uses * PerUse
             take == Shelf!Take(due)
  <1>1. /\ due \in Nat /\ take \in Nat /\ take <= item.quantity
        /\ due - take * Grains \in Nat /\ uses * PerUse \in Nat
    BY DeductionBounds
  <1>2. /\ o \notin deducted
        /\ IF take > 0
             THEN movements' = Append(movements, Shelf!LedgerLine(-take, o))
             ELSE UNCHANGED movements
        /\ item' = [item EXCEPT !.quantity = @ - take,
                                !.pending = due - take * Grains]
        /\ deducted' = deducted \cup {o}
        /\ owed' = owed + uses * PerUse
        /\ stale' = stale \cup Shelf!Opened
        /\ UNCHANGED <<form, torn>>
    BY DEF Shelf!Deduct
  <1> HIDE DEF due, take
  <1>3. /\ item'.quantity = item.quantity - take
        /\ item' \in Shelf!Item
        /\ item'.quantity >= 0 /\ item'.pending >= 0
    <2>1. item.quantity - take \in Int /\ item.quantity - take >= 0
      BY <1>1 DEF Shelf!TypeOK, Shelf!Item
    <2>2. due - take * Grains \in Int /\ due - take * Grains >= 0
      BY <1>1
    <2> DEFINE rest == due - take * Grains
    <2> HIDE DEF rest
    <2>3. item' = [item EXCEPT !.quantity = @ - take, !.pending = rest]
      BY <1>2 DEF rest
    <2>4. rest \in Int /\ rest >= 0
      BY <2>2 DEF rest
    <2> QED BY <2>1, <2>3, <2>4 DEF Shelf!TypeOK, Shelf!Item
  <1>4. /\ movements' \in Seq(Shelf!Movement)
        /\ ShelfIsLast' /\ LinesOfDeducted' /\ Shelf!OneLinePerOrder'
    <2>1. CASE take > 0
      <3>1. item'.quantity = item.quantity + (-take)
        BY <1>1, <1>3 DEF Shelf!TypeOK, Shelf!Item
      <3>2. deducted' = deducted \cup ({o} \ {NoOrder})
        BY <1>2, StockAssumption
      <3>3. movements' = Append(movements, Shelf!LedgerLine(-take, o)) /\ -take \in Int
        BY <1>1, <1>2, <2>1
      <3> QED BY <1>2, <3>1, <3>2, <3>3, LineAdded
    <2>2. CASE ~(take > 0)
      <3>1. item'.quantity = item.quantity
        BY <1>1, <1>3, <2>2 DEF Shelf!TypeOK, Shelf!Item
      <3> QED BY <1>2, <2>2, <3>1, LedgerUnchanged DEF Shelf!TypeOK
    <2> QED BY <2>1, <2>2
  <1>5. FormsNeverNegative' /\ FreshForms'
    BY <1>2, FormsGrowStale
  <1>6. Shelf!TypeOK'
    BY <1>1, <1>2, <1>3, <1>4 DEF Shelf!TypeOK, Shelf!Opened
  <1> QED BY <1>3, <1>4, <1>5, <1>6 DEF Shelf!NeverNegative

\* The form: read, and written back.
LEMMA FormsKeepInv ==
    ASSUME LedgerInv, NEW e \in Editors,
           \/ Shelf!OpenForm(e)
           \/ \E active \in BOOLEAN, level \in Levels : Shelf!SaveForm(e, active, level)
    PROVE  LedgerInv'
  <1> USE DEF LedgerInv
  <1>1. CASE Shelf!OpenForm(e)
    <2> USE <1>1 DEF Shelf!OpenForm
    <2>1. Shelf!TypeOK'
      BY DEF Shelf!TypeOK
    <2>2. FormsNeverNegative'
      BY DEF FormsNeverNegative, Shelf!NeverNegative, Shelf!TypeOK
    <2>3. FreshForms'
      BY DEF FreshForms, Shelf!TypeOK
    <2>4. ShelfIsLast' /\ LinesOfDeducted' /\ Shelf!OneLinePerOrder'
      BY LedgerUnchanged
    <2> QED BY <2>1, <2>2, <2>3, <2>4 DEF Shelf!NeverNegative
  <1>2. ASSUME NEW active \in BOOLEAN, NEW level \in Levels,
               Shelf!SaveForm(e, active, level)
        PROVE  LedgerInv'
    <2> USE <1>2 DEF Shelf!SaveForm
    <2>1. form[e] \in Shelf!Item
      BY OpenFormIsRow
    <2>2. /\ item' \in Shelf!Item
          /\ item'.quantity = form[e].quantity
          /\ item'.pending = form[e].pending
      BY <2>1, StockAssumption DEF Shelf!Item
    <2>3. Shelf!TypeOK'
      BY <2>2 DEF Shelf!TypeOK
    <2>4. Shelf!NeverNegative' /\ FormsNeverNegative'
      BY <2>2 DEF Shelf!NeverNegative, FormsNeverNegative, Shelf!TypeOK
    <2>5. FreshForms'
      BY <2>2 DEF FreshForms, Shelf!TypeOK
    <2>6. item'.quantity = item.quantity \/ torn'
      BY <2>2 DEF FreshForms
    <2>7. ShelfIsLast' /\ LinesOfDeducted' /\ Shelf!OneLinePerOrder'
      BY <2>6, LedgerUnchanged
    <2> QED BY <2>3, <2>4, <2>5, <2>7
  <1> QED BY <1>1, <1>2

-----------------------------------------------------------------------------
(* What orders took, line by line *)

\* What a line of the ledger took for an order.
Used(line) == IF line.order # NoOrder THEN -line.quantity ELSE 0

\* The recursion TakenForOrders is defined by.
Tally(sum, lines) ==
    sum = [i \in 0..Len(lines) |->
              IF i = 0 THEN 0 ELSE sum[i-1] + Used(lines[i])]

\* A tally is a sum down the ledger.
Down(n) == [i \in 0..n |-> IF i = 0 THEN 0 ELSE i - 1]
Height(n) == [i \in 0..n |-> i]
Weight(lines, n) == [i \in 0..n |-> IF i = 0 THEN 0 ELSE Used(lines[i])]

LEMMA LedgerDescends ==
    ASSUME NEW n \in Nat
    PROVE  Descends(0..n, Height(n), Down(n))
  BY DEF Descends, Height, Down

LEMMA TallyAddsUp ==
    ASSUME NEW lines \in Seq(Shelf!Movement), NEW sum, NEW n \in 0..Len(lines),
           \A i \in 0..n :
               sum[i] = IF i = 0 THEN 0 ELSE sum[i-1] + Used(lines[i]),
           \A i \in 0..n : sum[i] \in Int
    PROVE  IsSum(sum, 0..n, Weight(lines, n), Height(n), Down(n))
  <1>1. ASSUME NEW i \in 0..n
        PROVE  AddsUp(sum, Weight(lines, n), Height(n), Down(n), i)
    <2>1. CASE i = 0
      BY <2>1 DEF AddsUp, Height, Down
    <2>2. CASE i # 0
      <3>1. lines[i] \in Shelf!Movement
        BY <2>2, ElementOfSeq, LenProperties
      <3>2. Used(lines[i]) \in Int
        BY <3>1 DEF Used, Shelf!Movement
      <3>3. i - 1 \in 0..n /\ sum[i-1] \in Int
        BY <2>2
      <3> QED  BY <2>2, <3>2, <3>3 DEF AddsUp, Weight, Height, Down
    <2> QED  BY <2>1, <2>2
  <1> QED  BY <1>1 DEF IsSum

\* Every ledger has a tally, and TakenForOrders is where it ends.
LEMMA TallyExists ==
    ASSUME NEW lines \in Seq(Shelf!Movement)
    PROVE  \E sum \in [0..Len(lines) -> Int] : Tally(sum, lines)
  <1> DEFINE n == Len(lines)
  <1>1. n \in Nat
    BY LenProperties
  <1>2. ASSUME NEW i \in 0..n, i # 0 PROVE Used(lines[i]) \in Int
    <2>1. lines[i] \in Shelf!Movement
      BY <1>2, ElementOfSeq, LenProperties
    <2> QED  BY <2>1 DEF Used, Shelf!Movement
  <1>3. Weight(lines, n) \in [0..n -> Int]
    BY <1>2 DEF Weight
  <1> HIDE DEF n
  <1>4. PICK sum \in [0..n -> Int] :
            IsSum(sum, 0..n, Weight(lines, n), Height(n), Down(n))
    <2>1. \A i \in 0..n : Height(n)[i] <= n
      BY <1>1 DEF Height
    <2> QED  BY <1>1, <1>3, <2>1, LedgerDescends, SumExists
  <1>5. ASSUME NEW i \in 0..n
        PROVE  sum[i] = IF i = 0 THEN 0 ELSE sum[i-1] + Used(lines[i])
    <2>1. AddsUp(sum, Weight(lines, n), Height(n), Down(n), i)
      BY <1>4 DEF IsSum
    <2>2. CASE i = 0
      BY <2>1, <2>2 DEF AddsUp, Height
    <2>3. CASE i # 0
      <3>1. i - 1 \in 0..n /\ sum[i-1] \in Int /\ Used(lines[i]) \in Int
        BY <1>1, <1>2, <2>3
      <3> QED  BY <1>1, <2>1, <2>3, <3>1 DEF AddsUp, Weight, Height, Down
    <2> QED  BY <2>2, <2>3
  <1>6. Tally(sum, lines)
    <2>1. sum = [i \in 0..n |-> sum[i]]
      OBVIOUS
    <2> QED  BY <1>5, <2>1 DEF Tally, n
  <1> QED  BY <1>6 DEF n

\* A tally is of integers.
LEMMA TallyIsInteger ==
    ASSUME NEW lines \in Seq(Shelf!Movement), NEW sum, Tally(sum, lines)
    PROVE  sum \in [0..Len(lines) -> Int]
  <1> DEFINE Good == {k \in Nat : k <= Len(lines) => sum[k] \in Int}
  <1>1. 0 \in Good
    BY LenProperties DEF Tally
  <1>2. ASSUME NEW k \in Nat, k \in Good PROVE k + 1 \in Good
    <2>1. CASE k + 1 <= Len(lines)
      <3>1. k + 1 \in 1..Len(lines) /\ k + 1 \in 0..Len(lines) /\ k + 1 # 0
        BY <2>1, LenProperties
      <3>2. sum[k] \in Int
        BY <1>2, <2>1, LenProperties
      <3>3. lines[k+1] \in Shelf!Movement
        BY <3>1, ElementOfSeq
      <3>4. Used(lines[k+1]) \in Int
        BY <3>3 DEF Used, Shelf!Movement
      <3>5. sum[k+1] = sum[k] + Used(lines[k+1])
        BY <3>1 DEF Tally
      <3> QED  BY <3>2, <3>4, <3>5
    <2> QED  BY <2>1
  <1> HIDE DEF Good
  <1>3. \A k \in Nat : k \in Good
    BY <1>1, <1>2, Induction
  <1>4. \A i \in 0..Len(lines) : sum[i] \in Int
    BY <1>3, LenProperties DEF Good
  <1> QED  BY <1>4 DEF Tally

LEMMA TallyChosen ==
    ASSUME NEW lines \in Seq(Shelf!Movement)
    PROVE  Tally(CHOOSE sum : Tally(sum, lines), lines)
  BY TallyExists

\* TakenForOrders is where the tally of the ledger ends.
TakenOf(lines) == (CHOOSE sum : Tally(sum, lines))[Len(lines)]

LEMMA TakenIsTally ==
    /\ Shelf!TakenForOrders = TakenOf(movements)
    /\ Shelf!TakenForOrders' = TakenOf(movements')
  <1>1. Shelf!TakenForOrders = TakenOf(movements)
    BY Zenon DEF Shelf!TakenForOrders, TakenOf, Tally, Used
  <1>2. Shelf!TakenForOrders' = TakenOf(movements')
    BY Zenon DEF Shelf!TakenForOrders, TakenOf, Tally, Used
  <1> QED  BY <1>1, <1>2

\* A new line adds what it took to the tally.
LEMMA TallyGrows ==
    ASSUME NEW lines \in Seq(Shelf!Movement), NEW line \in Shelf!Movement,
           NEW f, Tally(f, lines), NEW g, Tally(g, Append(lines, line))
    PROVE  /\ f[Len(lines)] \in Int
           /\ g[Len(Append(lines, line))] = f[Len(lines)] + Used(line)
  <1> DEFINE n == Len(lines)
             more == Append(lines, line)
  <1>1. /\ n \in Nat /\ more \in Seq(Shelf!Movement) /\ Len(more) = n + 1
        /\ more[n+1] = line /\ \A i \in 1..n : more[i] = lines[i]
    BY LenProperties, AppendProperties
  <1>2. f \in [0..n -> Int] /\ g \in [0..n+1 -> Int]
    BY <1>1, TallyIsInteger
  <1>3. Tally(g, more)
    OBVIOUS
  <1> HIDE DEF n, more
  <1>4. \A i \in 0..n : f[i] = IF i = 0 THEN 0 ELSE f[i-1] + Used(lines[i])
    BY DEF Tally, n
  <1>5. \A i \in 0..n+1 : g[i] = IF i = 0 THEN 0 ELSE g[i-1] + Used(more[i])
    BY <1>1, <1>3 DEF Tally
  <1>6. \A i \in 0..n : g[i] = IF i = 0 THEN 0 ELSE g[i-1] + Used(lines[i])
    BY <1>1, <1>5
  <1>7. IsSum(f, 0..n, Weight(lines, n), Height(n), Down(n))
    <2>1. \A i \in 0..n : f[i] \in Int
      BY <1>2
    <2>2. n \in 0..Len(lines)
      BY <1>1 DEF n
    <2> QED  BY <1>4, <2>1, <2>2, TallyAddsUp
  <1>8. IsSum(g, 0..n, Weight(lines, n), Height(n), Down(n))
    <2>1. \A i \in 0..n : g[i] \in Int
      BY <1>1, <1>2
    <2> QED  BY <1>1, <1>6, <2>1, TallyAddsUp DEF n
  <1>9. f[n] = g[n]
    <2>1. n \in 0..n
      BY <1>1
    <2> QED  BY <1>1, <1>7, <1>8, <2>1, LedgerDescends, SumUnique
  <1>10. g[n+1] = g[n] + Used(line)
    <2>1. n + 1 \in 0..n+1 /\ n + 1 # 0 /\ (n + 1) - 1 = n
      BY <1>1
    <2>2. g[n+1] = g[n] + Used(more[n+1])
      BY <1>5, <2>1
    <2> QED  BY <1>1, <2>2
  <1> QED  BY <1>1, <1>2, <1>9, <1>10 DEF n, more

LEMMA TakenIsInteger ==
    ASSUME Shelf!TypeOK
    PROVE  Shelf!TakenForOrders \in Int
  <1> DEFINE f == CHOOSE sum : Tally(sum, movements)
  <1>1. /\ movements \in Seq(Shelf!Movement) /\ Tally(f, movements)
        /\ Shelf!TakenForOrders = f[Len(movements)]
    BY TallyChosen, TakenIsTally DEF TakenOf, Shelf!TypeOK
  <1> HIDE DEF f
  <1>2. f \in [0..Len(movements) -> Int]
    BY <1>1, TallyIsInteger
  <1> QED  BY <1>1, <1>2, LenProperties

\* What TakenForOrders becomes when a line is added.
LEMMA TakenGrows ==
    ASSUME Shelf!TypeOK, Shelf!TypeOK', NEW line \in Shelf!Movement,
           movements' = Append(movements, line)
    PROVE  /\ Shelf!TakenForOrders \in Int
           /\ Shelf!TakenForOrders' = Shelf!TakenForOrders + Used(line)
  <1> DEFINE f == CHOOSE sum : Tally(sum, movements)
             g == CHOOSE sum : Tally(sum, movements')
  <1>1. /\ movements \in Seq(Shelf!Movement) /\ Tally(f, movements)
        /\ Shelf!TakenForOrders = f[Len(movements)]
    BY TallyChosen, TakenIsTally DEF TakenOf, Shelf!TypeOK
  <1>2. /\ Tally(g, Append(movements, line))
        /\ Shelf!TakenForOrders' = g[Len(Append(movements, line))]
    BY TallyChosen, TakenIsTally DEF TakenOf, Shelf!TypeOK
  <1> HIDE DEF f, g
  <1> QED  BY <1>1, <1>2, TallyGrows

-----------------------------------------------------------------------------
(* Theorems *)

\* The invariant holds before the first movement.
LEMMA InitLedgerInv == Shelf!Init => LedgerInv
  <1> SUFFICES ASSUME Shelf!Init PROVE LedgerInv
    OBVIOUS
  <1> USE DEF Shelf!Init
  <1>1. item \in Shelf!Item /\ item.quantity = 0 /\ item.pending = 0
    <2>1. PICK level \in Levels :
              item = [quantity |-> 0, pending |-> 0, active |-> TRUE, level |-> level]
      OBVIOUS
    <2> QED BY <2>1, StockAssumption DEF Shelf!Item
  <1>2. Shelf!TypeOK
    <2>1. movements \in Seq(Shelf!Movement)
      OBVIOUS
    <2> QED BY <1>1, <2>1 DEF Shelf!TypeOK
  <1>3. ShelfIsLast
    BY <1>1 DEF ShelfIsLast, Chained, LastAfter
  <1> QED
    BY <1>1, <1>2, <1>3 DEF LedgerInv, Shelf!NeverNegative, FormsNeverNegative,
       FreshForms, LinesOfDeducted, Shelf!OneLinePerOrder

\* Every step keeps it.
LEMMA NextLedgerInv == LedgerInv /\ [Shelf!Next]_(Shelf!vars) => LedgerInv'
  <1> SUFFICES ASSUME LedgerInv, [Shelf!Next]_(Shelf!vars) PROVE LedgerInv'
    OBVIOUS
  <1>1. ASSUME NEW amount \in Amounts, Shelf!AddStock(amount) PROVE LedgerInv'
    <2>1. amount \in Int
      BY StockAssumption
    <2> QED BY <1>1, <2>1, MovementKeepsInv DEF Shelf!AddStock
  <1>2. ASSUME NEW amount \in Amounts, Shelf!RemoveStock(amount) PROVE LedgerInv'
    <2>1. -amount \in Int
      BY StockAssumption
    <2> QED BY <1>2, <2>1, MovementKeepsInv DEF Shelf!RemoveStock
  <1>3. ASSUME NEW o \in Deliveries, Shelf!DeductNothing(o) PROVE LedgerInv'
    <2>1. ShelfIsLast' /\ LinesOfDeducted' /\ Shelf!OneLinePerOrder'
      BY <1>3, LedgerUnchanged DEF LedgerInv, Shelf!DeductNothing
    <2> QED
      BY <1>3, <2>1 DEF LedgerInv, Shelf!DeductNothing, Shelf!TypeOK, Shelf!NeverNegative,
         FormsNeverNegative, FreshForms
  <1>4. ASSUME NEW o \in Deliveries, NEW uses \in Uses, Shelf!Deduct(o, uses)
        PROVE  LedgerInv'
    BY <1>4, DeductKeepsInv
  <1>5. ASSUME NEW e \in Editors,
               \/ Shelf!OpenForm(e)
               \/ \E active \in BOOLEAN, level \in Levels :
                      Shelf!SaveForm(e, active, level)
        PROVE  LedgerInv'
    BY <1>5, FormsKeepInv
  <1>6. CASE UNCHANGED Shelf!vars
    <2>1. ShelfIsLast' /\ LinesOfDeducted' /\ Shelf!OneLinePerOrder'
      BY <1>6, LedgerUnchanged DEF LedgerInv, Shelf!vars
    <2> QED
      BY <1>6, <2>1 DEF LedgerInv, Shelf!vars, Shelf!TypeOK, Shelf!NeverNegative,
         FormsNeverNegative, FreshForms
  <1> QED BY <1>1, <1>2, <1>3, <1>4, <1>5, <1>6 DEF Shelf!Next

\* The inductive invariant holds in every reachable state.
THEOREM LedgerInvariance == Shelf!Spec => []LedgerInv
  BY InitLedgerInv, NextLedgerInv, PTL DEF Shelf!Spec

\* Movements, deductions and forms keep their types.
THEOREM LedgerTypeCorrect == Shelf!Spec => []Shelf!TypeOK
  <1>1. LedgerInv => Shelf!TypeOK
    BY DEF LedgerInv
  <1> QED BY <1>1, LedgerInvariance, PTL

\* Neither the shelf nor what is still owed goes below zero: no movement,
\* delivery or saved form takes it there.
THEOREM StockNeverNegative == Shelf!Spec => []Shelf!NeverNegative
  <1>1. LedgerInv => Shelf!NeverNegative
    BY DEF LedgerInv
  <1> QED BY <1>1, LedgerInvariance, PTL

\* The ledger explains the shelf unless an old form was written back.
THEOREM LedgerMatches == Shelf!Spec => []LedgerMatchesUnlessTorn
  <1>1. LedgerInv => LedgerMatchesUnlessTorn
    BY DEF LedgerInv, ShelfIsLast, Chained, LastAfter, LedgerMatchesUnlessTorn,
       Shelf!LedgerMatchesUnlessTorn, Shelf!LedgerMatchesShelf
  <1> QED BY <1>1, LedgerInvariance, PTL

\* No order has two lines on the ledger of an item.
THEOREM OneLineCorrect == Shelf!Spec => []Shelf!OneLinePerOrder
  <1>1. LedgerInv => Shelf!OneLinePerOrder
    BY DEF LedgerInv
  <1> QED BY <1>1, LedgerInvariance, PTL

-----------------------------------------------------------------------------
(* Nothing is forgotten, and alerts are told apart *)

\* A form that is not older than a movement has what is pending, too.
FreshPending ==
    ~torn =>
    \A e \in Editors :
        form[e] # Shelf!NoForm /\ e \notin stale => form[e].pending = item.pending

\* The line of an alert took the last of what was there.
AlertsEmpty ==
    \A i \in 1..Len(movements) :
        movements[i].alert = "out_of_stock" =>
            /\ movements[i].after <= 0
            /\ movements[i].after - movements[i].quantity > 0

OwedInv == FreshPending /\ AlertsEmpty /\ Shelf!NothingForgotten

\* A line of the ledger tells when it emptied the shelf.
LEMMA AlertLineAdded ==
    ASSUME Shelf!TypeOK, AlertsEmpty, NEW delta \in Int, NEW o \in Deliveries \cup {NoOrder},
           movements' = Append(movements, Shelf!LedgerLine(delta, o))
    PROVE  AlertsEmpty'
  <1> DEFINE line == Shelf!LedgerLine(delta, o)
             n == Len(movements)
  <1>1. /\ line \in Shelf!Movement /\ line.quantity = delta
        /\ line.after = item.quantity + delta /\ item.quantity \in Int
    BY LineType DEF Shelf!TypeOK, Shelf!Item
  <1>2. line.alert = "out_of_stock" => line.after <= 0 /\ line.after - delta > 0
    BY <1>1 DEF Shelf!LedgerLine, Shelf!AlertKind
  <1>3. movements' = Append(movements, line)
    OBVIOUS
  <1> HIDE DEF line
  <1>4. /\ Len(movements') = n + 1 /\ n \in Nat
        /\ movements'[n + 1] = line
        /\ \A i \in 1..n : movements'[i] = movements[i]
    BY <1>1, <1>3, AppendProperties, LenProperties DEF Shelf!TypeOK
  <1>5. ASSUME NEW i \in 1..Len(movements'), movements'[i].alert = "out_of_stock"
        PROVE  /\ movements'[i].after <= 0
               /\ movements'[i].after - movements'[i].quantity > 0
    <2>1. i \in 1..n \/ i = n + 1
      BY <1>4
    <2> HIDE DEF n
    <2>2. CASE i \in 1..n
      BY <1>4, <1>5, <2>2 DEF AlertsEmpty, n
    <2>3. CASE i = n + 1
      BY <1>1, <1>2, <1>4, <1>5, <2>3
    <2> QED  BY <2>1, <2>2, <2>3
  <1> QED  BY <1>5 DEF AlertsEmpty

\* What is pending only changes with what is owed.
LEMMA OwedStep ==
    ASSUME LedgerInv, LedgerInv', OwedInv, [Shelf!Next]_(Shelf!vars)
    PROVE  OwedInv'
  <1> USE DEF OwedInv
  <1>0. Shelf!TypeOK /\ Shelf!TypeOK' /\ item \in Shelf!Item
    BY DEF LedgerInv, Shelf!TypeOK
  <1>1. ASSUME NEW delta \in Int, Shelf!RecordMovement(delta), stale' = stale \cup Shelf!Opened,
               UNCHANGED <<deducted, owed, form, torn>>
        PROVE  OwedInv'
    <2>1. /\ movements' = Append(movements, Shelf!LedgerLine(delta, NoOrder))
          /\ item' = [item EXCEPT !.quantity = @ + delta]
      BY <1>1 DEF Shelf!RecordMovement
    <2>2. AlertsEmpty'
      BY <1>0, <2>1, AlertLineAdded
    <2>3. FreshPending'
      BY <1>1 DEF FreshPending, Shelf!Opened
    <2>4. Shelf!TakenForOrders' = Shelf!TakenForOrders /\ item'.pending = item.pending
      <3>1. /\ Shelf!LedgerLine(delta, NoOrder) \in Shelf!Movement
            /\ Used(Shelf!LedgerLine(delta, NoOrder)) = 0
        BY <1>0, LineType DEF Used
      <3>2. Shelf!TakenForOrders \in Int /\ Shelf!TakenForOrders' = Shelf!TakenForOrders + 0
        BY <1>0, <2>1, <3>1, TakenGrows
      <3> QED  BY <1>0, <2>1, <3>2 DEF Shelf!Item
    <2>5. Shelf!NothingForgotten'
      BY <1>1, <2>4 DEF Shelf!NothingForgotten
    <2> QED  BY <2>2, <2>3, <2>5
  <1>2. ASSUME NEW o \in Deliveries, NEW uses \in Uses, Shelf!Deduct(o, uses)
        PROVE  OwedInv'
    <2> DEFINE due == item.pending + uses * PerUse
               take == Shelf!Take(due)
    <2>1. /\ due \in Nat /\ take \in Nat /\ uses * PerUse \in Nat
          /\ due - take * Grains \in Nat
      BY <1>0, DeductionBounds DEF LedgerInv
    <2>2. /\ IF take > 0
               THEN movements' = Append(movements, Shelf!LedgerLine(-take, o))
               ELSE UNCHANGED movements
          /\ item' = [item EXCEPT !.quantity = @ - take,
                                  !.pending = due - take * Grains]
          /\ owed' = owed + uses * PerUse
          /\ stale' = stale \cup Shelf!Opened
          /\ UNCHANGED <<form, torn>>
      BY <1>2 DEF Shelf!Deduct
    <2> HIDE DEF take
    <2>3. item'.pending = due - take * Grains
      BY <1>0, <2>1, <2>2 DEF Shelf!Item
    <2>4. FreshPending'
      BY <2>2 DEF FreshPending, Shelf!Opened
    <2>5. AlertsEmpty'
      <3>1. CASE take > 0
        <4>1. -take \in Int /\ movements' = Append(movements, Shelf!LedgerLine(-take, o))
          BY <2>1, <2>2, <3>1
        <4> QED  BY <1>0, <4>1, AlertLineAdded
      <3>2. CASE ~(take > 0)
        BY <2>2, <3>2 DEF AlertsEmpty
      <3> QED  BY <3>1, <3>2
    <2>6. Shelf!TakenForOrders \in Int /\ Shelf!TakenForOrders' = Shelf!TakenForOrders + take
      <3>1. CASE take > 0
        <4> DEFINE line == Shelf!LedgerLine(-take, o)
        <4>1. -take \in Int /\ movements' = Append(movements, line)
          BY <2>1, <2>2, <3>1
        <4>2. line \in Shelf!Movement /\ line.order = o /\ line.quantity = -take
          BY <1>0, <4>1, LineType
        <4> HIDE DEF line
        <4>3. Used(line) = take
          BY <2>1, <4>2, StockAssumption DEF Used
        <4> QED  BY <1>0, <4>1, <4>2, <4>3, TakenGrows
      <3>2. CASE ~(take > 0)
        <4>1. Shelf!TakenForOrders \in Int
          BY <1>0, TakenIsInteger
        <4>2. Shelf!TakenForOrders' = Shelf!TakenForOrders
          BY <2>2, <3>2 DEF Shelf!TakenForOrders
        <4> QED  BY <2>1, <3>2, <4>1, <4>2
      <3> QED  BY <3>1, <3>2
    <2>7. Shelf!NothingForgotten'
      <3> SUFFICES ASSUME ~torn
                   PROVE  Shelf!TakenForOrders' * Grains + item'.pending = owed'
        BY <2>2 DEF Shelf!NothingForgotten
      <3>1. Shelf!TakenForOrders * Grains + item.pending = owed
        BY DEF Shelf!NothingForgotten
      <3>2. /\ item.pending \in Int /\ owed \in Int /\ Grains \in Int
            /\ take \in Int
        BY <1>0, <2>1, StockAssumption DEF Shelf!TypeOK, Shelf!Item
      <3>3. Shelf!TakenForOrders' * Grains = Shelf!TakenForOrders * Grains + take * Grains
        BY <2>6, <3>2
      <3>4. /\ Shelf!TakenForOrders * Grains \in Int /\ take * Grains \in Int
            /\ uses * PerUse \in Int
        BY <2>1, <2>6, <3>2
      <3> QED  BY <2>2, <2>3, <3>1, <3>2, <3>3, <3>4
    <2> QED  BY <2>4, <2>5, <2>7
  <1>3. ASSUME UNCHANGED <<item, movements, owed, form, torn>>, stale' = stale
        PROVE  OwedInv'
    BY <1>3 DEF FreshPending, AlertsEmpty, Shelf!NothingForgotten, Shelf!TakenForOrders
  <1>4. ASSUME NEW e \in Editors, Shelf!OpenForm(e) PROVE OwedInv'
    <2>1. FreshPending'
      BY <1>0, <1>4 DEF Shelf!OpenForm, FreshPending, Shelf!TypeOK
    <2> QED
      BY <1>4, <2>1 DEF Shelf!OpenForm, AlertsEmpty, Shelf!NothingForgotten, Shelf!TakenForOrders
  <1>5. ASSUME NEW e \in Editors, NEW active \in BOOLEAN, NEW level \in Levels,
               Shelf!SaveForm(e, active, level)
        PROVE  OwedInv'
    <2>1. form[e] \in Shelf!Item /\ item'.pending = form[e].pending
      BY <1>0, <1>5, OpenFormIsRow DEF Shelf!SaveForm, Shelf!Item
    <2>2. ~torn' => ~torn /\ item'.pending = item.pending
      BY <1>5, <2>1 DEF Shelf!SaveForm, FreshPending
    <2>3. FreshPending'
      BY <1>0, <1>5, <2>2 DEF Shelf!SaveForm, FreshPending, Shelf!TypeOK
    <2>4. Shelf!NothingForgotten'
      BY <1>5, <2>2 DEF Shelf!SaveForm, Shelf!NothingForgotten, Shelf!TakenForOrders
    <2> QED  BY <1>5, <2>3, <2>4 DEF Shelf!SaveForm, AlertsEmpty
  <1> QED
    <2>1. ASSUME NEW amount \in Amounts, Shelf!AddStock(amount) \/ Shelf!RemoveStock(amount)
          PROVE  OwedInv'
      <3>1. amount \in Int /\ -amount \in Int
        BY StockAssumption
      <3> QED  BY <1>1, <2>1, <3>1 DEF Shelf!AddStock, Shelf!RemoveStock
    <2>2. ASSUME NEW o \in Deliveries, Shelf!DeductNothing(o) PROVE OwedInv'
      BY <1>3, <2>2 DEF Shelf!DeductNothing
    <2>3. CASE UNCHANGED Shelf!vars
      BY <1>3, <2>3 DEF Shelf!vars
    <2> QED  BY <1>2, <1>4, <1>5, <2>1, <2>2, <2>3 DEF Shelf!Next

LEMMA InitOwedInv == Shelf!Init => OwedInv
  <1> SUFFICES ASSUME Shelf!Init PROVE OwedInv
    OBVIOUS
  <1>1. Shelf!TypeOK /\ item.pending = 0
    <2>1. PICK level \in Levels :
              item = [quantity |-> 0, pending |-> 0, active |-> TRUE, level |-> level]
      BY DEF Shelf!Init
    <2> QED  BY <2>1, InitLedgerInv DEF LedgerInv
  <1>2. Shelf!TakenForOrders = 0
    <2> DEFINE sum == CHOOSE f : Tally(f, movements)
    <2>1. Tally(sum, movements) /\ Shelf!TakenForOrders = sum[Len(movements)]
      BY <1>1, TallyChosen, TakenIsTally DEF TakenOf, Shelf!TypeOK
    <2> HIDE DEF sum
    <2>2. Len(movements) = 0
      BY DEF Shelf!Init
    <2> QED  BY <2>1, <2>2 DEF Tally
  <1> QED
    BY <1>1, <1>2, StockAssumption
       DEF Shelf!Init, OwedInv, FreshPending, AlertsEmpty, Shelf!NothingForgotten

THEOREM OwedInvariance == Shelf!Spec => []OwedInv
  <1>1. LedgerInv /\ LedgerInv' /\ OwedInv /\ [Shelf!Next]_(Shelf!vars) => OwedInv'
    BY OwedStep
  <1> QED  BY <1>1, InitOwedInv, LedgerInvariance, PTL DEF Shelf!Spec

\* What the delivered orders used is on the ledger or still pending, to the
\* grain, unless an old form was written back: neither the rounding down to
\* hundredths nor an empty shelf forgets any of it.
THEOREM NothingForgottenCorrect == Shelf!Spec => []NothingForgotten
  <1>1. OwedInv => NothingForgotten
    BY DEF OwedInv, NothingForgotten
  <1> QED  BY <1>1, OwedInvariance, PTL

\* Between two alerts that the item ran out there was stock again: the ledger
\* is chained, and the line of an alert starts from what the line before left.
THEOREM OneAlertCorrect == Shelf!Spec => []OneAlertPerEmptying
  <1>1. ASSUME LedgerInv, OwedInv PROVE OneAlertPerEmptying
    <2> SUFFICES ASSUME ~torn, NEW i \in 1..Len(movements),
                        NEW k \in 1..Len(movements), i < k,
                        movements[i].alert = "out_of_stock",
                        movements[k].alert = "out_of_stock"
                 PROVE  \E m \in i+1..k-1 : movements[m].after > 0
      BY DEF OneAlertPerEmptying, Shelf!OneAlertPerEmptying
    <2>1. movements \in Seq(Shelf!Movement) /\ Len(movements) \in Nat
      BY <1>1, LenProperties DEF LedgerInv, Shelf!TypeOK
    <2>2. /\ k - 1 \in 1..Len(movements)
          /\ movements[k-1] \in Shelf!Movement /\ movements[k] \in Shelf!Movement
      BY <2>1, ElementOfSeq
    <2>3. movements[k].after = movements[k-1].after + movements[k].quantity
      BY <1>1 DEF LedgerInv, ShelfIsLast, Chained, Shelf!Before
    <2>4. movements[k-1].after > 0
      BY <1>1, <2>2, <2>3 DEF OwedInv, AlertsEmpty, Shelf!Movement
    <2>5. k - 1 # i
      BY <1>1, <2>2, <2>4 DEF OwedInv, AlertsEmpty, Shelf!Movement
    <2> QED  BY <2>1, <2>4, <2>5
  <1> QED  BY <1>1, LedgerInvariance, OwedInvariance, PTL
=============================================================================
