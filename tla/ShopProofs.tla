----------------------------- MODULE ShopProofs -----------------------------
(* Shop keeps IInv, hence its safety properties, for every set of items,    *)
(* requests and operations.                                                 *)
EXTENDS ShopInvariant, TLAPS

-----------------------------------------------------------------------------
(* Requests and the values they carry.                                      *)

\* A sequence over S holds elements of S.
LEMMA ElementType ==
  ASSUME NEW S, NEW s \in Seq(S), NEW n \in 1..Len(s)
  PROVE  s[n] \in S
  OBVIOUS

\* A sequence without positions is empty.
LEMMA EmptyDomain ==
  ASSUME NEW S, NEW s \in Seq(S), DOMAIN s = {}
  PROVE  s = <<>>
<1>1. Len(s) \in Nat /\ DOMAIN s = 1..Len(s)
  OBVIOUS
<1>2. Len(s) = 0
  BY <1>1
<1> QED BY <1>2

\* What a request asks for is a record of its kind.
LEMMA OpFields ==
  ASSUME TypeOK, NEW r \in Requests
  PROVE  /\ op[r].kind = "order"  => op[r] \in OrderOps
         /\ op[r].kind = "update" => op[r] \in UpdateOps
         /\ op[r].kind = "create" => op[r] \in CreateOps
         /\ op[r].kind = "delete" => op[r] \in DeleteOps
         /\ op[r].kind = "status" => op[r] \in StatusOps
         /\ op[r].kind = "leave"  => op[r] \in LeaveOps
<1>1. op[r] \in Operation
  BY ShopAssumption DEF TypeOK
<1>2. /\ op[r] \in OrderOps  => op[r].kind = "order"
      /\ op[r] \in UpdateOps => op[r].kind = "update"
      /\ op[r] \in CreateOps => op[r].kind = "create"
      /\ op[r] \in DeleteOps => op[r].kind = "delete"
      /\ op[r] \in StatusOps => op[r].kind = "status"
      /\ op[r] \in ListOps   => op[r].kind = "list"
      /\ op[r] \in LeaveOps  => op[r].kind = "leave"
  BY DEF OrderOps, UpdateOps, CreateOps, DeleteOps, StatusOps, ListOps, LeaveOps
<1> QED BY <1>1, <1>2 DEF Operation

\* The line the loop is at names an item and an integer quantity.
LEMMA NextLineType ==
  ASSUME IInv, NEW r \in Requests, pc[r] \in {"line", "decrement"}
  PROVE  NextLine(r) \in [item: Items, qty: Int]
<1>1. op[r].kind = "order"
  BY DEF IInv, Session, LabelMatches, TxLabels
<1>2. op[r].cart \in Seq([item: Items, qty: Int])
  BY <1>1, OpFields DEF IInv, OrderOps, Cart
<1>3. Len(lines[r]) \in Nat /\ Len(lines[r]) < Len(op[r].cart)
  BY DEF IInv, TypeOK, Session, LineLeft
<1>4. Len(op[r].cart) \in Nat
  BY <1>2
<1>5. Len(lines[r]) + 1 \in 1..Len(op[r].cart)
  BY <1>3, <1>4
<1>6. \A n \in 1..Len(op[r].cart) : op[r].cart[n] \in [item: Items, qty: Int]
  BY <1>2, ElementType
<1> QED BY <1>5, <1>6 DEF NextLine

\* The lines of a transaction name items and integer quantities.
LEMMA LineType ==
  ASSUME IInv, NEW r \in Requests, NEW k \in DOMAIN lines[r]
  PROVE  /\ lines[r][k] \in Line
         /\ lines[r][k].item \in Items
         /\ lines[r][k].qty \in Int
<1>1. lines[r] \in Seq(Line)
  BY DEF IInv, TypeOK
<1>2. lines[r][k] \in Line
  BY <1>1
<1> QED BY <1>2 DEF Line

\* Wrapped sums are integers.
LEMMA WrapType ==
  ASSUME NEW n \in Int
  PROVE  Wrap(n) \in Int
<1>1. (n + Int64) \in Int /\ (2 * Int64) \in Nat \ {0}
  BY ShopAssumption
<1>2. \A a \in Int, b \in Nat \ {0} : a % b \in Int
  OBVIOUS
<1>3. (n + Int64) % (2 * Int64) \in Int
  BY <1>1, <1>2
<1> QED BY <1>3, ShopAssumption DEF Wrap

-----------------------------------------------------------------------------
(* The initial states, and what the steps have in common.                   *)

\* IInv holds before the first request.
LEMMA InitIInv == Init => IInv
<1> SUFFICES ASSUME Init PROVE IInv
  OBVIOUS
<1> USE DEF Init, NothingSeen, NothingTaken
<1>1. TypeOK
  <2>1. /\ live  \in [Items -> RowState]
        /\ price \in [Items -> Nat]
        /\ stock \in [Items -> Int]
    BY ShopAssumption
  <2>2. /\ lines \in [Requests -> Seq(Line)]
        /\ seen  \in [Requests -> [price: Int, stock: Int]]
        /\ taken \in [Requests -> [Items -> Int]]
    OBVIOUS
  <2> QED BY <2>1, <2>2 DEF TypeOK, Labels
<1>2. LocksInTx /\ StockNonNegative /\ OrdersRefer
  BY ShopAssumption
  DEF LocksInTx, StockNonNegative, OrdersRefer, OrderedItemsExist, OrderUsersExist
<1>3. ASSUME NEW r \in Requests PROVE Session(r)
  BY ShopAssumption, <1>2
  DEF Session, LabelMatches, LineLeft, ReadsCurrent, TakenCovered,
      InsertsChecked, TxLabels, StockNonNegative
<1> QED BY <1>1, <1>2, <1>3 DEF IInv

\* A step leaves a request alone: its own fields and the rows it has locked.
Spares(q) ==
    /\ op' = op
    /\ pc'[q] = pc[q]
    /\ seen'[q] = seen[q]
    /\ lines'[q] = lines[q]
    /\ taken'[q] = taken[q]
    /\ pc[q] = "commit" /\ op[q].user \in people => op[q].user \in people'
    /\ \A i \in Items : lock[i] = q =>
          /\ lock'[i] = q
          /\ live'[i] = live[i]
          /\ price'[i] = price[i]
          /\ stock'[i] = stock[i]

\* A request that a step leaves alone keeps its part of the invariant.
LEMMA SparedSession ==
  ASSUME IInv, StockNonNegative', NEW q \in Requests, Spares(q)
  PROVE  Session(q)'
<1> USE DEF IInv, Session, Spares
<1>1. LabelMatches(q)' /\ LineLeft(q)' /\ InsertsChecked(q)'
  BY DEF LabelMatches, LineLeft, InsertsChecked, RowsAccepted
<1>2. ReadsCurrent(q)'
  <2>1. \A k \in DOMAIN lines[q] : lines[q][k].item \in Items
    BY LineType
  <2>2. pc[q] = "decrement" => NextLine(q).item \in Items
    BY NextLineType
  <2> QED BY <2>1, <2>2 DEF ReadsCurrent, RowInHand, NextLine
<1>3. TakenCovered(q)'
  BY DEF TakenCovered, StockNonNegative, TypeOK
<1> QED BY <1>1, <1>2, <1>3

\* Every early return and every failure ends in Rollback.
LEMMA RollbackStep ==
  ASSUME IInv, NEW r \in Requests, NEW status \in {400, 404, 500},
         Rollback(r, status)
  PROVE  IInv'
<1> USE DEF Rollback, Answer, Discard, ReleaseLocks, merchRows, NothingSeen,
            NothingTaken
<1>1. TypeOK'
  <2> USE DEF IInv, TypeOK
  <2>1. /\ pc' \in [Requests -> Labels]
        /\ resp' \in [Requests -> {0, 200, 201, 204, 400, 404, 500}]
        /\ conns' \subseteq Requests
    BY DEF Labels
  <2>2. lines' \in [Requests -> Seq(Line)] /\ total' \in [Requests -> Int]
    OBVIOUS
  <2>3. seen' \in [Requests -> [price: Int, stock: Int]]
    OBVIOUS
  <2>4. taken' \in [Requests -> [Items -> Int]]
    OBVIOUS
  <2>5. lock' \in [Items -> Requests \cup {NoOne}]
    OBVIOUS
  <2>6. page' \in [Requests -> SUBSET Order]
    OBVIOUS
  <2> QED BY <2>1, <2>2, <2>3, <2>4, <2>5, <2>6
<1>2. LocksInTx'
  BY DEF IInv, TypeOK, LocksInTx, TxLabels
<1>3. StockNonNegative' /\ OrdersRefer'
  BY DEF IInv, StockNonNegative, OrdersRefer, OrderedItemsExist, OrderUsersExist
<1>4. Session(r)'
  BY <1>3
  DEF IInv, TypeOK, Session, LabelMatches, LineLeft, ReadsCurrent, TakenCovered,
      InsertsChecked, StockNonNegative, TxLabels
<1>5. ASSUME NEW q \in Requests \ {r} PROVE Session(q)'
  <2>1. Spares(q)
    BY DEF IInv, TypeOK, Spares
  <2> QED BY <1>3, <2>1, SparedSession
<1> QED BY <1>1, <1>2, <1>3, <1>4, <1>5 DEF IInv

\* A request without an open transaction holds no lock and has no workspace.
LEMMA OutsideTx ==
  ASSUME IInv, NEW r \in Requests, pc[r] \notin TxLabels
  PROVE  /\ \A i \in Items : lock[i] # r
         /\ lines[r] = <<>>
         /\ \A i \in Items : taken[r][i] = 0
<1>1. \A i \in Items : lock[i] # r
  BY ShopAssumption DEF IInv, LocksInTx
<1>2. DOMAIN lines[r] = {}
  BY <1>1, LineType DEF IInv, Session, ReadsCurrent, RowInHand
<1>3. lines[r] \in Seq(Line)
  BY DEF IInv, TypeOK
<1>4. lines[r] = <<>>
  BY <1>2, <1>3, EmptyDomain
<1> QED BY <1>1, <1>4 DEF IInv, Session, TakenCovered

\* A step that moves one request's program counter and nothing else.
LEMMA QuietStep ==
  ASSUME IInv, NEW r \in Requests, NEW l \in Labels \ {"decrement"},
         pc' = [pc EXCEPT ![r] = l],
         resp' \in [Requests -> {0, 200, 201, 204, 400, 404, 500}],
         conns' \subseteq Requests,
         UNCHANGED <<live, price, stock, lock, orders, people, op>>,
         UNCHANGED <<seen, lines, taken, total, page>>,
         l \in TxLabels \/ \A i \in Items : lock[i] # r,
         l \in TxLabels => op[r].kind = "order",
         l = "write" => op[r].kind = "update",
         l = "items" => op[r].kind = "status",
         l = "attach" => op[r].kind = "list",
         l = "line" => Len(lines[r]) < Len(op[r].cart),
         l = "commit" => RowsAccepted(r)
  PROVE  IInv'
<1>1. TypeOK'
  BY DEF IInv, TypeOK
<1>2. LocksInTx' /\ StockNonNegative' /\ OrdersRefer'
  BY DEF IInv, TypeOK, LocksInTx, StockNonNegative, OrdersRefer, OrderedItemsExist,
         OrderUsersExist
<1>3. Session(r)'
  <2> USE DEF IInv, TypeOK, Session
  <2>1. LabelMatches(r)'
    BY DEF LabelMatches
  <2>2. LineLeft(r)' /\ InsertsChecked(r)'
    BY DEF LineLeft, InsertsChecked, RowsAccepted
  <2>3. ReadsCurrent(r)' /\ TakenCovered(r)'
    BY DEF ReadsCurrent, RowInHand, TakenCovered
  <2> QED BY <2>1, <2>2, <2>3
<1>4. ASSUME NEW q \in Requests \ {r} PROVE Session(q)'
  BY <1>2, SparedSession DEF IInv, TypeOK, Spares
<1> QED BY <1>1, <1>2, <1>3, <1>4 DEF IInv

\* Answering leaves the answers well-typed.
LEMMA AnswerType ==
  ASSUME IInv, NEW r \in Requests, NEW status \in {200, 201, 204, 400, 404, 500},
         Answer(r, status)
  PROVE  /\ pc' = [pc EXCEPT ![r] = "done"]
         /\ pc' \in [Requests -> Labels]
         /\ resp' \in [Requests -> {0, 200, 201, 204, 400, 404, 500}]
         /\ conns' \subseteq Requests
<1>1. status \in {0, 200, 201, 204, 400, 404, 500}
  OBVIOUS
<1> QED BY <1>1 DEF IInv, TypeOK, Answer, Labels

LEMMA AnswerWrittenType ==
  ASSUME IInv, NEW r \in Requests, NEW status \in {200, 201, 204},
         AnswerWritten(r, status)
  PROVE  /\ pc' = [pc EXCEPT ![r] = "done"]
         /\ pc' \in [Requests -> Labels]
         /\ resp' \in [Requests -> {0, 200, 201, 204, 400, 404, 500}]
         /\ conns' \subseteq Requests
<1>1. PICK s \in {status, 500} : Answer(r, s)
  BY DEF AnswerWritten
<1>2. s \in {200, 201, 204, 400, 404, 500}
  OBVIOUS
<1> QED BY <1>1, <1>2, AnswerType

LEMMA GoToType ==
  ASSUME IInv, NEW r \in Requests, NEW l \in Labels, GoTo(r, l)
  PROVE  /\ pc' = [pc EXCEPT ![r] = l]
         /\ pc' \in [Requests -> Labels]
         /\ resp' \in [Requests -> {0, 200, 201, 204, 400, 404, 500}]
         /\ conns' \subseteq Requests
  BY DEF IInv, TypeOK, GoTo

LEMMA ContinueType ==
  ASSUME IInv, NEW r \in Requests, NEW l \in Labels, Continue(r, l)
  PROVE  /\ pc' = [pc EXCEPT ![r] = l]
         /\ pc' \in [Requests -> Labels]
         /\ resp' \in [Requests -> {0, 200, 201, 204, 400, 404, 500}]
         /\ conns' \subseteq Requests
  BY DEF IInv, TypeOK, Continue

\* An answer that changes no table and closes no transaction.
LEMMA QuietAnswer ==
  ASSUME IInv, NEW r \in Requests, NEW status \in {200, 201, 204, 400, 404, 500},
         Answer(r, status), pc[r] \notin TxLabels,
         UNCHANGED <<live, price, stock, lock, orders, people, op>>,
         UNCHANGED <<seen, lines, taken, total, page>>
  PROVE  IInv'
<1>1. "done" \in Labels \ {"decrement"} /\ "done" \notin TxLabels
  BY DEF Labels, TxLabels
<1>2. \A i \in Items : lock[i] # r
  BY OutsideTx
<1> QED BY <1>1, <1>2, AnswerType, QuietStep

-----------------------------------------------------------------------------
(* Placing an order.                                                        *)

\* The check for an empty cart keeps the invariant.
LEMMA PlaceOrderStep ==
  ASSUME IInv, NEW r \in Requests, PlaceOrder(r)
  PROVE  IInv'
<1> USE DEF PlaceOrder, At
<1>1. /\ lines[r] = <<>>
      /\ \A i \in Items : lock[i] # r
  BY OutsideTx DEF TxLabels
<1>2. CASE op[r].cart = <<>>
  <2>1. Answer(r, 400) /\ pc[r] \notin TxLabels
    BY <1>2 DEF TxLabels
  <2> QED BY <2>1, QuietAnswer DEF merchRows, workspace
<1>3. CASE op[r].cart # <<>>
  <2>1. op[r].cart \in Seq([item: Items, qty: Int])
    BY OpFields DEF IInv, OrderOps, Cart
  <2>2. Len(lines[r]) < Len(op[r].cart)
    BY <1>1, <1>3, <2>1
  <2>3. GoTo(r, "line") /\ "line" \in Labels \ {"decrement"}
    BY <1>3 DEF Labels
  <2>4. /\ pc' = [pc EXCEPT ![r] = "line"]
        /\ resp' \in [Requests -> {0, 200, 201, 204, 400, 404, 500}]
        /\ conns' \subseteq Requests
    BY <2>3, GoToType
  <2>5. /\ UNCHANGED <<live, price, stock, lock, orders, people, op>>
        /\ UNCHANGED <<seen, lines, taken, total, page>>
    BY DEF merchRows, workspace
  <2> QED BY <1>1, <2>2, <2>3, <2>4, <2>5, QuietStep DEF TxLabels
<1> QED BY <1>2, <1>3

\* SELECT ... FOR UPDATE takes the lock before it reads the price.
LEMMA ReadPriceStep ==
  ASSUME IInv, NEW r \in Requests, ReadPrice(r)
  PROVE  IInv'
<1> DEFINE i == NextLine(r).item
<1> USE DEF ReadPrice, Statement, At
<1>1. i \in Items
  BY NextLineType
<1>2. CASE live[i] # "live"
  BY <1>2, RollbackStep
<1>3. CASE live[i] = "live"
  <2>1. /\ pc[r] = "line" /\ op[r].kind = "order"
        /\ lock[i] \in {NoOne, r}
        /\ lock' = [lock EXCEPT ![i] = r]
        /\ seen' = [seen EXCEPT ![r].price = price[i]]
        /\ Continue(r, "decrement")
        /\ UNCHANGED <<live, price, stock, orders, people, op, lines, taken, total, page>>
    BY <1>3 DEF RowFree, LockRow, merchRows
  <2>2. /\ pc' = [pc EXCEPT ![r] = "decrement"]
        /\ pc' \in [Requests -> Labels]
        /\ resp' \in [Requests -> {0, 200, 201, 204, 400, 404, 500}]
        /\ conns' \subseteq Requests
    BY <2>1, ContinueType DEF Labels
  <2> HIDE DEF ReadPrice, i
  <2>3. TypeOK'
    <3>1. seen' \in [Requests -> [price: Int, stock: Int]]
      <4>1. seen[r] \in [price: Int, stock: Int] /\ price[i] \in Int
        BY <1>1 DEF IInv, TypeOK
      <4>2. [seen[r] EXCEPT !.price = price[i]] \in [price: Int, stock: Int]
        BY <4>1
      <4>3. seen' = [seen EXCEPT ![r] = [seen[r] EXCEPT !.price = price[i]]]
        BY <2>1
      <4> QED BY <4>2, <4>3 DEF IInv, TypeOK
    <3> QED BY <1>1, <2>1, <2>2, <3>1 DEF IInv, TypeOK
  <2>4. LocksInTx' /\ StockNonNegative' /\ OrdersRefer'
    BY <1>1, <1>3, <2>1, <2>2
    DEF IInv, TypeOK, LocksInTx, StockNonNegative, OrdersRefer, OrderedItemsExist,
        OrderUsersExist, TxLabels
  <2>5. Session(r)'
    <3> USE <2>1, <2>2 DEF IInv, TypeOK, Session
    <3>1. LabelMatches(r)' /\ LineLeft(r)' /\ InsertsChecked(r)'
      BY DEF LabelMatches, LineLeft, InsertsChecked, TxLabels
    <3>2. ReadsCurrent(r)'
      <4>1. NextLine(r)' = NextLine(r) /\ i = NextLine(r).item
        BY DEF NextLine, i
      <4>2. \A k \in DOMAIN lines[r] : lines[r][k].item \in Items
        BY LineType
      <4> QED BY <1>1, <1>3, <4>1, <4>2 DEF ReadsCurrent, RowInHand
    <3>3. TakenCovered(r)'
      BY <1>1 DEF TakenCovered
    <3> QED BY <3>1, <3>2, <3>3
  <2>6. ASSUME NEW q \in Requests \ {r} PROVE Session(q)'
    <3>1. Spares(q)
      BY <1>1, <2>1, <2>2, ShopAssumption DEF IInv, TypeOK, Spares
    <3> QED BY <2>4, <3>1, SparedSession
  <2> QED BY <2>3, <2>4, <2>5, <2>6 DEF IInv
<1> QED BY <1>2, <1>3

\* The decrement stays within the stock of a row that is locked.
LEMMA TakeStockStep ==
  ASSUME IInv, NEW r \in Requests, TakeStock(r)
  PROVE  IInv'
<1> DEFINE line == NextLine(r)
           done == OrderItem(r, line)
           l    == IF Len(lines[r]) + 1 < Len(op[r].cart) THEN "line" ELSE "insert"
<1> USE DEF TakeStock, Runs, At
<1>1. line \in [item: Items, qty: Int] /\ line.item \in Items /\ line.qty \in Int
  BY NextLineType
<1>2. CASE ~StockSuffices(r, line)
  BY <1>2, RollbackStep
<1>3. CASE StockSuffices(r, line)
  <2>1. /\ pc[r] = "decrement" /\ op[r].kind = "order"
        /\ stock[line.item] - taken[r][line.item] >= line.qty
        /\ taken' = [taken EXCEPT ![r][line.item] = @ + line.qty]
        /\ lines' = [lines EXCEPT ![r] = Append(@, done)]
        /\ total' = [total EXCEPT ![r] = AddToTotal(@, line, seen[r].price)]
        /\ Continue(r, l)
        /\ UNCHANGED <<live, price, stock, lock, orders, people, op, seen, page>>
    BY <1>3 DEF StockSuffices, StockInTx, Subtract, merchRows
  <2>2. /\ pc' = [pc EXCEPT ![r] = l] /\ l \in {"line", "insert"}
        /\ pc' \in [Requests -> Labels]
        /\ resp' \in [Requests -> {0, 200, 201, 204, 400, 404, 500}]
        /\ conns' \subseteq Requests
    BY <2>1, ContinueType DEF Labels
  <2>3. done \in Line /\ done.item = line.item /\ done.qty = line.qty
        /\ done.price = seen[r].price
    BY <1>1 DEF Line, OrderItem, IInv, TypeOK
  <2>4. /\ lines[r] \in Seq(Line)
        /\ lines'[r] = Append(lines[r], done)
        /\ lines' \in [Requests -> Seq(Line)]
    BY <2>1, <2>3 DEF IInv, TypeOK
  <2>5. /\ DOMAIN lines'[r] = 1..(Len(lines[r]) + 1) /\ DOMAIN lines[r] = 1..Len(lines[r])
        /\ Len(lines'[r]) = Len(lines[r]) + 1
        /\ Len(lines[r]) \in Nat
        /\ \A k \in DOMAIN lines[r] : lines'[r][k] = lines[r][k]
        /\ lines'[r][Len(lines[r]) + 1] = done
    BY <2>4
  <2>6. /\ taken' \in [Requests -> [Items -> Int]]
        /\ taken'[r][line.item] = taken[r][line.item] + line.qty
        /\ \A i \in Items \ {line.item} : taken'[r][i] = taken[r][i]
        /\ \A q \in Requests \ {r} : taken'[q] = taken[q]
    BY <1>1, <2>1 DEF IInv, TypeOK
  <2> HIDE DEF TakeStock, done, l
  <2>7. TypeOK'
    <3>1. AddToTotal(total[r], line, seen[r].price) \in Int
      <4>1. total[r] + seen[r].price * line.qty \in Int
        BY <1>1 DEF IInv, TypeOK
      <4> QED BY <4>1, WrapType DEF AddToTotal
    <3>2. total' \in [Requests -> Int]
      BY <2>1, <3>1 DEF IInv, TypeOK
    <3> QED BY <2>1, <2>2, <2>4, <2>6, <3>2 DEF IInv, TypeOK
  <2>8. LocksInTx' /\ StockNonNegative' /\ OrdersRefer'
    BY <2>1, <2>2
    DEF IInv, TypeOK, LocksInTx, StockNonNegative, OrdersRefer, OrderedItemsExist,
        OrderUsersExist, TxLabels
  <2>9. Session(r)'
    <3>1. LabelMatches(r)' /\ InsertsChecked(r)'
      BY <2>1, <2>2 DEF LabelMatches, InsertsChecked, IInv, TypeOK
    <3>2. LineLeft(r)'
      BY <2>1, <2>2, <2>5 DEF LineLeft, l, IInv, TypeOK
    <3>3. ReadsCurrent(r)'
      <4>1. RowInHand(r, line.item) /\ done.price = price[line.item]
        BY <2>1, <2>3 DEF IInv, Session, ReadsCurrent
      <4>2. ASSUME NEW k \in DOMAIN lines'[r]
            PROVE  /\ lock'[lines'[r][k].item] = r
                   /\ live'[lines'[r][k].item] = "live"
                   /\ lines'[r][k].price = price'[lines'[r][k].item]
        <5>1. CASE k \in DOMAIN lines[r]
          BY <2>1, <2>5, <5>1 DEF IInv, Session, ReadsCurrent, RowInHand
        <5>2. CASE k = Len(lines[r]) + 1
          BY <2>1, <2>3, <2>5, <4>1, <5>2 DEF RowInHand
        <5> QED BY <2>5, <5>1, <5>2
      <4>3. pc'[r] # "decrement"
        BY <2>2 DEF IInv, TypeOK
      <4> QED BY <4>2, <4>3 DEF ReadsCurrent, RowInHand
    <3>4. TakenCovered(r)'
      <4>1. lock[line.item] = r
        BY <2>1 DEF IInv, Session, ReadsCurrent, RowInHand
      <4>2. ASSUME NEW i \in Items
            PROVE  /\ taken'[r][i] # 0 => lock'[i] = r
                   /\ taken'[r][i] <= stock'[i]
        BY <1>1, <2>1, <2>6, <4>1 DEF IInv, TypeOK, Session, TakenCovered
      <4>3. ASSUME NEW i \in Items, \A k \in DOMAIN lines'[r] : lines'[r][k].qty > 0
            PROVE  taken'[r][i] >= 0
        <5>1. \A k \in DOMAIN lines[r] : lines[r][k].qty > 0
          BY <2>5, <4>3
        <5>2. line.qty > 0
          BY <2>3, <2>5, <4>3
        <5>3. taken[r][i] >= 0
          BY <5>1 DEF IInv, Session, TakenCovered
        <5>4. taken[r][i] \in Int
          BY DEF IInv, TypeOK
        <5> QED BY <1>1, <2>6, <5>2, <5>3, <5>4
      <4> QED BY <4>2, <4>3 DEF TakenCovered
    <3> QED BY <3>1, <3>2, <3>3, <3>4 DEF Session
  <2>10. ASSUME NEW q \in Requests \ {r} PROVE Session(q)'
    <3>1. Spares(q)
      BY <2>1, <2>2, <2>6 DEF IInv, TypeOK, Spares
    <3> QED BY <2>8, <3>1, SparedSession
  <2> QED BY <2>7, <2>8, <2>9, <2>10 DEF IInv
<1> QED BY <1>2, <1>3

\* The INSERTs check the constraints of the tables.
LEMMA InsertOrderStep ==
  ASSUME IInv, NEW r \in Requests, InsertOrder(r)
  PROVE  IInv'
<1> USE DEF InsertOrder, Runs, At
<1>1. CASE RowsAccepted(r)
  <2>1. /\ Continue(r, "commit") /\ op[r].kind = "order"
        /\ UNCHANGED <<live, price, stock, lock, orders, people, op>>
        /\ UNCHANGED <<seen, lines, taken, total, page>>
    BY <1>1 DEF merchRows, workspace
  <2>2. "commit" \in Labels \ {"decrement"} /\ "commit" \in TxLabels
    BY DEF Labels, TxLabels
  <2>3. /\ pc' = [pc EXCEPT ![r] = "commit"]
        /\ resp' \in [Requests -> {0, 200, 201, 204, 400, 404, 500}]
        /\ conns' \subseteq Requests
    BY <2>1, <2>2, ContinueType
  <2> QED BY <1>1, <2>1, <2>2, <2>3, QuietStep
<1>2. CASE ~RowsAccepted(r)
  BY <1>2, RollbackStep
<1> QED BY <1>1, <1>2

\* The commit subtracts what the locks have kept available.
LEMMA CommitStep ==
  ASSUME IInv, NEW r \in Requests, Commit(r)
  PROVE  IInv'
<1>1. /\ pc[r] = "commit" /\ op[r].kind = "order"
      /\ stock' = [i \in Items |-> stock[i] - taken[r][i]]
      /\ orders' = orders \cup {OrderRow(r)}
      /\ lock' = [i \in Items |-> IF lock[i] = r THEN NoOne ELSE lock[i]]
      /\ seen'  = [seen EXCEPT ![r] = NothingSeen]
      /\ lines' = [lines EXCEPT ![r] = <<>>]
      /\ taken' = [taken EXCEPT ![r] = NothingTaken]
      /\ total' = [total EXCEPT ![r] = 0]
      /\ page'  = [page EXCEPT ![r] = {}]
      /\ AnswerWritten(r, 201)
      /\ UNCHANGED <<live, price, people, op>>
  BY DEF Commit, Runs, At, StockInTx, ReleaseLocks, Discard
<1>2. /\ pc' = [pc EXCEPT ![r] = "done"]
      /\ pc' \in [Requests -> Labels]
      /\ resp' \in [Requests -> {0, 200, 201, 204, 400, 404, 500}]
      /\ conns' \subseteq Requests
  BY <1>1, AnswerWrittenType
<1>3. TypeOK'
  <2>1. OrderRow(r) \in Order
    <3>1. op[r].user \in Users \cup {NoOne}
      BY <1>1 DEF IInv, TypeOK, Session, InsertsChecked, RowsAccepted
    <3> QED BY <3>1 DEF IInv, TypeOK, OrderRow, Order, Statuses
  <2>2. orders' \subseteq Order
    BY <1>1, <2>1 DEF IInv, TypeOK
  <2>3. stock' \in [Items -> Int]
    BY <1>1 DEF IInv, TypeOK
  <2>4. lock' \in [Items -> Requests \cup {NoOne}]
    BY <1>1 DEF IInv, TypeOK
  <2>5. seen' \in [Requests -> [price: Int, stock: Int]]
    BY <1>1 DEF IInv, TypeOK, NothingSeen
  <2>6. lines' \in [Requests -> Seq(Line)] /\ total' \in [Requests -> Int]
    BY <1>1 DEF IInv, TypeOK
  <2>7. taken' \in [Requests -> [Items -> Int]]
    BY <1>1 DEF IInv, TypeOK, NothingTaken
  <2>8. page' \in [Requests -> SUBSET Order]
    BY <1>1 DEF IInv, TypeOK
  <2> QED BY <1>1, <1>2, <2>2, <2>3, <2>4, <2>5, <2>6, <2>7, <2>8 DEF IInv, TypeOK
<1>4. StockNonNegative'
  BY <1>1 DEF IInv, TypeOK, Session, TakenCovered, StockNonNegative
<1>5. LocksInTx'
  BY <1>1, <1>2 DEF IInv, TypeOK, LocksInTx
<1>6. OrdersRefer'
  <2>1. \A k \in DOMAIN lines[r] : live[lines[r][k].item] = "live"
    BY DEF IInv, Session, ReadsCurrent, RowInHand
  <2>2. op[r].user \in people \cup {NoOne}
    BY <1>1 DEF IInv, Session, InsertsChecked, RowsAccepted
  <2> QED BY <1>1, <2>1, <2>2
     DEF IInv, OrdersRefer, OrderedItemsExist, OrderUsersExist, OrderRow
<1>7. Session(r)'
  <2>1. pc'[r] = "done" /\ lines'[r] = <<>> /\ \A i \in Items : taken'[r][i] = 0
    BY <1>1, <1>2 DEF IInv, TypeOK, NothingTaken
  <2>2. \A i \in Items : stock'[i] >= 0
    BY <1>4 DEF StockNonNegative
  <2> QED BY <2>1, <2>2
     DEF Session, LabelMatches, LineLeft, ReadsCurrent, TakenCovered, InsertsChecked, TxLabels
<1>8. ASSUME NEW q \in Requests \ {r} PROVE Session(q)'
  <2>1. \A i \in Items : lock[i] = q => taken[r][i] = 0
    BY DEF IInv, TypeOK, Session, TakenCovered
  <2>2. Spares(q)
    BY <1>1, <1>2, <2>1 DEF IInv, TypeOK, Spares
  <2> QED BY <1>4, <2>2, SparedSession
<1> QED BY <1>3, <1>4, <1>5, <1>6, <1>7, <1>8 DEF IInv

-----------------------------------------------------------------------------
(* Administration.                                                          *)

\* A step of a request without a transaction that may change rows no
\* transaction has locked, but neither locks nor orders.
LEMMA AdminStep ==
  ASSUME IInv, NEW r \in Requests, NEW l \in {"write", "items", "attach", "done"},
         pc[r] \notin TxLabels,
         pc' = [pc EXCEPT ![r] = l],
         l = "write" => op[r].kind = "update",
         l = "items" => op[r].kind = "status",
         l = "attach" => op[r].kind = "list",
         TypeOK', OrdersRefer', StockNonNegative',
         UNCHANGED <<lock, op, lines, taken, total>>,
         \A q \in Requests \ {r} : seen'[q] = seen[q],
         \A q \in Requests \ {r} : pc[q] = "commit" /\ op[q].user \in people =>
            op[q].user \in people',
         \A i \in Items : lock[i] # NoOne =>
            live'[i] = live[i] /\ price'[i] = price[i] /\ stock'[i] = stock[i]
  PROVE  IInv'
<1>1. LocksInTx'
  BY ShopAssumption DEF IInv, TypeOK, LocksInTx, TxLabels
<1>2. Session(r)'
  <2>1. lines[r] = <<>> /\ \A i \in Items : taken[r][i] = 0
    BY OutsideTx
  <2>2. pc'[r] = l
    BY DEF IInv, TypeOK
  <2> QED BY <2>1, <2>2
     DEF Session, LabelMatches, LineLeft, ReadsCurrent, TakenCovered, InsertsChecked,
         TxLabels, StockNonNegative
<1>3. ASSUME NEW q \in Requests \ {r} PROVE Session(q)'
  <2>1. Spares(q)
    BY ShopAssumption DEF IInv, TypeOK, Spares
  <2> QED BY <2>1, SparedSession
<1> QED BY <1>1, <1>2, <1>3 DEF IInv

\* The read half of PUT /admin/merch changes no row.
LEMMA ReadItemStep ==
  ASSUME IInv, NEW r \in Requests, ReadItem(r)
  PROVE  IInv'
<1> DEFINE i == op[r].item
<1> USE DEF ReadItem, Runs, At
<1>1. pc[r] \notin TxLabels /\ op[r].kind = "update"
  BY DEF TxLabels
<1>2. i \in Items
  BY <1>1, OpFields DEF IInv, UpdateOps
<1>3. CASE live[i] # "live"
  <2>1. Answer(r, 404) /\ UNCHANGED <<live, price, stock, lock, orders, people, op>>
        /\ UNCHANGED <<seen, lines, taken, total, page>>
    BY <1>3 DEF merchRows
  <2> QED BY <1>1, <2>1, QuietAnswer
<1>4. CASE live[i] = "live"
  <2>1. /\ seen' = [seen EXCEPT ![r] = [price |-> price[i], stock |-> stock[i]]]
        /\ GoTo(r, "write")
        /\ UNCHANGED <<live, price, stock, lock, orders, people, op, lines, taken, total, page>>
    BY <1>4 DEF merchRows
  <2>2. /\ pc' = [pc EXCEPT ![r] = "write"]
        /\ pc' \in [Requests -> Labels]
        /\ resp' \in [Requests -> {0, 200, 201, 204, 400, 404, 500}]
        /\ conns' \subseteq Requests
    BY <2>1, GoToType DEF Labels
  <2>3. TypeOK'
    BY <1>2, <2>1, <2>2 DEF IInv, TypeOK
  <2>4. OrdersRefer' /\ StockNonNegative'
    BY <2>1 DEF IInv, OrdersRefer, OrderedItemsExist, OrderUsersExist, StockNonNegative
  <2>5. \A q \in Requests \ {r} : seen'[q] = seen[q]
    BY <2>1 DEF IInv, TypeOK
  <2> QED BY <1>1, <2>1, <2>2, <2>3, <2>4, <2>5, AdminStep
<1> QED BY <1>3, <1>4

\* The write half waits until no transaction has the row.
LEMMA WriteItemStep ==
  ASSUME IInv, NEW r \in Requests, WriteItem(r)
  PROVE  IInv'
<1> DEFINE i == op[r].item
           p == Given(op[r].price, seen[r].price)
           s == Given(op[r].stock, seen[r].stock)
<1>1. pc[r] = "write" /\ op[r].kind = "update"
  BY DEF WriteItem, Runs, At
<1>2. i \in Items /\ p \in Int /\ s \in Int
  <2>1. op[r] \in UpdateOps
    BY <1>1, OpFields DEF IInv
  <2>2. /\ op[r].price \in Int \cup {NotGiven} /\ op[r].stock \in Int \cup {NotGiven}
        /\ i \in Items
    BY <2>1 DEF UpdateOps
  <2>3. seen[r].price \in Int /\ seen[r].stock \in Int
    BY DEF IInv, TypeOK
  <2> QED BY <2>2, <2>3 DEF Given
<1>3. lock[i] = NoOne
  <2>1. \A j \in Items : lock[j] # r
    BY <1>1, OutsideTx DEF TxLabels
  <2> QED BY <1>2, <2>1 DEF WriteItem, RowFree
<1>4. /\ pc' = [pc EXCEPT ![r] = "done"]
      /\ pc' \in [Requests -> Labels]
      /\ resp' \in [Requests -> {0, 200, 201, 204, 400, 404, 500}]
      /\ conns' \subseteq Requests
  <2>1. Answer(r, 404) \/ Answer(r, 500) \/ AnswerWritten(r, 200)
    BY DEF WriteItem
  <2> QED BY <2>1, AnswerType, AnswerWrittenType
<1>5. /\ seen' = [seen EXCEPT ![r] = NothingSeen]
      /\ UNCHANGED <<live, lock, orders, people, op, lines, taken, total, page>>
  BY DEF WriteItem
<1>6. \/ UNCHANGED <<price, stock>>
      \/ /\ p >= 0 /\ s >= 0
         /\ price' = [price EXCEPT ![i] = p]
         /\ stock' = [stock EXCEPT ![i] = s]
  BY DEF WriteItem
<1> HIDE DEF i, p, s
<1>7. /\ price' \in [Items -> Nat]
      /\ stock' \in [Items -> Int]
      /\ StockNonNegative'
  <2>1. CASE UNCHANGED <<price, stock>>
    BY <2>1 DEF IInv, TypeOK, StockNonNegative
  <2>2. CASE /\ p >= 0 /\ s >= 0
             /\ price' = [price EXCEPT ![i] = p]
             /\ stock' = [stock EXCEPT ![i] = s]
    <3>1. p \in Nat /\ s \in Nat
      BY <1>2, <2>2
    <3>2. price' \in [Items -> Nat]
      BY <1>2, <2>2, <3>1 DEF IInv, TypeOK
    <3>3. stock' \in [Items -> Int]
      BY <1>2, <2>2, <3>1 DEF IInv, TypeOK
    <3>4. StockNonNegative'
      BY <1>2, <2>2, <3>1 DEF IInv, TypeOK, StockNonNegative
    <3> QED BY <3>2, <3>3, <3>4
  <2> QED BY <1>6, <2>1, <2>2
<1>8. TypeOK'
  <2>1. seen' \in [Requests -> [price: Int, stock: Int]]
    BY <1>5 DEF IInv, TypeOK, NothingSeen
  <2> QED BY <1>4, <1>5, <1>7, <2>1 DEF IInv, TypeOK
<1>9. OrdersRefer'
  BY <1>5 DEF IInv, OrdersRefer, OrderedItemsExist, OrderUsersExist
<1>10. StockNonNegative'
  BY <1>7
<1>11. \A j \in Items : lock[j] # NoOne => price'[j] = price[j] /\ stock'[j] = stock[j]
  BY <1>2, <1>3, <1>6 DEF IInv, TypeOK
<1>12. \A q \in Requests \ {r} : seen'[q] = seen[q]
  BY <1>5 DEF IInv, TypeOK
<1>13. pc[r] \notin TxLabels
  BY <1>1 DEF TxLabels
<1> QED BY <1>4, <1>5, <1>8, <1>9, <1>10, <1>11, <1>12, <1>13, AdminStep

\* A new row is nobody's yet.
LEMMA CreateItemStep ==
  ASSUME IInv, NEW r \in Requests, CreateItem(r)
  PROVE  IInv'
<1>1. /\ pc[r] \notin TxLabels /\ op[r].kind = "create"
      /\ UNCHANGED <<lock, orders, people, op, seen, lines, taken, total, page>>
  BY DEF CreateItem, Runs, At, TxLabels, workspace
<1>2. CASE op[r].price < 0 \/ op[r].stock < 0
  <2>1. op[r].price \in Int /\ op[r].stock \in Int
    BY <1>1, OpFields DEF IInv, CreateOps
  <2>2. Answer(r, 500) /\ UNCHANGED <<live, price, stock>>
    BY <1>2, <2>1 DEF CreateItem, merchRows
  <2> QED BY <1>1, <2>2, QuietAnswer
<1>3. CASE /\ op[r].price >= 0 /\ op[r].stock >= 0
           /\ AnswerWritten(r, 201)
           /\ \E i \in Items :
                /\ live[i] = "unborn"
                /\ live'  = [live EXCEPT ![i] = "live"]
                /\ price' = [price EXCEPT ![i] = op[r].price]
                /\ stock' = [stock EXCEPT ![i] = op[r].stock]
  <2>1. PICK i \in Items : /\ live[i] = "unborn"
                           /\ live'  = [live EXCEPT ![i] = "live"]
                           /\ price' = [price EXCEPT ![i] = op[r].price]
                           /\ stock' = [stock EXCEPT ![i] = op[r].stock]
    BY <1>3
  <2>2. lock[i] = NoOne
    BY <2>1 DEF IInv, LocksInTx
  <2>3. op[r].price \in Nat /\ op[r].stock \in Nat
    BY <1>1, <1>3, OpFields DEF IInv, CreateOps
  <2>4. /\ pc' = [pc EXCEPT ![r] = "done"]
        /\ pc' \in [Requests -> Labels]
        /\ resp' \in [Requests -> {0, 200, 201, 204, 400, 404, 500}]
        /\ conns' \subseteq Requests
    BY <1>3, AnswerWrittenType
  <2>5. TypeOK'
    BY <1>1, <2>1, <2>3, <2>4 DEF IInv, TypeOK, RowState
  <2>6. StockNonNegative'
    BY <2>1, <2>3 DEF IInv, TypeOK, StockNonNegative
  <2>7. OrdersRefer'
    BY <1>1, <2>1 DEF IInv, TypeOK, OrdersRefer, OrderedItemsExist, OrderUsersExist
  <2>8. \A j \in Items : lock[j] # NoOne =>
            live'[j] = live[j] /\ price'[j] = price[j] /\ stock'[j] = stock[j]
    BY <2>1, <2>2 DEF IInv, TypeOK
  <2> QED BY <1>1, <2>4, <2>5, <2>6, <2>7, <2>8, AdminStep
<1> QED BY <1>2, <1>3 DEF CreateItem

\* A row is deleted only when it is neither locked nor ordered.
LEMMA DeleteItemStep ==
  ASSUME IInv, NEW r \in Requests, DeleteItem(r)
  PROVE  IInv'
<1> DEFINE i == op[r].item
<1>1. /\ pc[r] \notin TxLabels /\ op[r].kind = "delete"
      /\ UNCHANGED <<price, stock, lock, orders, people, op, seen, lines, taken, total, page>>
  BY DEF DeleteItem, Runs, At, TxLabels, workspace
<1>2. i \in Items
  BY <1>1, OpFields DEF IInv, DeleteOps
<1>3. lock[i] = NoOne
  BY <1>1, <1>2, OutsideTx DEF DeleteItem, RowFree
<1>4. CASE UNCHANGED live /\ (Answer(r, 404) \/ Answer(r, 500))
  BY <1>1, <1>4, QuietAnswer
<1>5. CASE /\ ~Referenced(i)
           /\ live' = [live EXCEPT ![i] = "deleted"]
           /\ AnswerWritten(r, 204)
  <2>1. /\ pc' = [pc EXCEPT ![r] = "done"]
        /\ pc' \in [Requests -> Labels]
        /\ resp' \in [Requests -> {0, 200, 201, 204, 400, 404, 500}]
        /\ conns' \subseteq Requests
    BY <1>5, AnswerWrittenType
  <2>2. TypeOK'
    BY <1>1, <1>2, <1>5, <2>1 DEF IInv, TypeOK, RowState
  <2>3. OrdersRefer'
    <3>1. ASSUME NEW o \in orders, NEW k \in DOMAIN o.lines
          PROVE  live'[o.lines[k].item] = "live"
      <4>1. o \in Order
        BY DEF IInv, TypeOK
      <4>2. o.lines \in Seq(Line) /\ k \in 1..Len(o.lines)
        BY <4>1 DEF Order
      <4>3. o.lines[k] \in Line
        BY <4>2, ElementType
      <4>4. o.lines[k].item \in Items /\ o.lines[k].item # i
        BY <1>5, <4>2, <4>3 DEF Line, Referenced
      <4> QED BY <1>5, <4>4 DEF IInv, TypeOK, OrdersRefer, OrderedItemsExist, OrderUsersExist
    <3> QED BY <1>1, <3>1 DEF IInv, OrdersRefer, OrderedItemsExist, OrderUsersExist
  <2>4. StockNonNegative'
    BY <1>1 DEF IInv, StockNonNegative
  <2>5. \A j \in Items : lock[j] # NoOne => live'[j] = live[j]
    BY <1>2, <1>3, <1>5 DEF IInv, TypeOK
  <2> QED BY <1>1, <2>1, <2>2, <2>3, <2>4, <2>5, AdminStep
<1> QED BY <1>4, <1>5 DEF DeleteItem

\* A status change keeps the line items.
LEMMA UpdateStatusStep ==
  ASSUME IInv, NEW r \in Requests, UpdateStatus(r)
  PROVE  IInv'
<1>1. /\ pc[r] \notin TxLabels /\ op[r].kind = "status"
      /\ UNCHANGED <<live, price, stock, lock, people, op>>
      /\ UNCHANGED <<seen, lines, taken, total, page>>
  BY DEF UpdateStatus, Runs, At, TxLabels, workspace, merchRows
<1>2. CASE UNCHANGED orders /\ (Answer(r, 404) \/ Answer(r, 500))
  BY <1>1, <1>2, QuietAnswer
<1>3. CASE /\ op[r].status \in Statuses
           /\ GoTo(r, "items")
           /\ \E o \in orders :
                orders' = (orders \ {o}) \cup {[o EXCEPT !.status = op[r].status]}
  <2>1. PICK o \in orders :
                orders' = (orders \ {o}) \cup {[o EXCEPT !.status = op[r].status]}
    BY <1>3
  <2> DEFINE n == [o EXCEPT !.status = op[r].status]
  <2>2. o \in Order
    BY DEF IInv, TypeOK
  <2>3. n \in Order /\ n.lines = o.lines /\ n.user = o.user
    BY <1>3, <2>2 DEF Order
  <2> HIDE DEF n
  <2>4. /\ pc' = [pc EXCEPT ![r] = "items"]
        /\ pc' \in [Requests -> Labels]
        /\ resp' \in [Requests -> {0, 200, 201, 204, 400, 404, 500}]
        /\ conns' \subseteq Requests
    BY <1>3, GoToType DEF Labels
  <2>5. TypeOK'
    <3>1. orders' \subseteq Order
      BY <2>1, <2>3 DEF n, IInv, TypeOK
    <3> QED BY <1>1, <2>4, <3>1 DEF IInv, TypeOK
  <2>6. OrdersRefer'
    <3>1. \A m \in orders' : \E b \in orders : m.lines = b.lines /\ m.user = b.user
      BY <2>1, <2>3 DEF n
    <3> QED BY <1>1, <3>1 DEF IInv, OrdersRefer, OrderedItemsExist, OrderUsersExist
  <2>7. StockNonNegative'
    BY <1>1 DEF IInv, StockNonNegative
  <2> QED BY <1>1, <2>4, <2>5, <2>6, <2>7, AdminStep
<1> QED BY <1>2, <1>3 DEF UpdateStatus, StatusKnown

\* Reading the line items back changes nothing.
LEMMA ListOrderItemsStep ==
  ASSUME IInv, NEW r \in Requests, ListOrderItems(r)
  PROVE  IInv'
<1>1. /\ pc[r] \notin TxLabels /\ Answer(r, 200)
      /\ UNCHANGED <<live, price, stock, lock, orders, people, op>>
      /\ UNCHANGED <<seen, lines, taken, total, page>>
  BY DEF ListOrderItems, Runs, At, TxLabels, workspace, merchRows
<1> QED BY <1>1, QuietAnswer

\* A listing writes its own page only.
LEMMA ListingStep ==
  ASSUME IInv, NEW r \in Requests, ListOrders(r) \/ AttachItems(r)
  PROVE  IInv'
<1>1. /\ pc[r] \notin TxLabels /\ op[r].kind = "list"
      /\ GoTo(r, "attach") \/ Answer(r, 200)
      /\ UNCHANGED <<live, price, stock, lock, orders, people, op, seen, lines, taken, total>>
  BY DEF ListOrders, AttachItems, Runs, At, TxLabels, merchRows
<1>2. page' \in [Requests -> SUBSET Order]
  <2>1. CASE ListOrders(r)
    <3>1. \A o \in orders : [o EXCEPT !.lines = <<>>] \in Order
      <4>1. <<>> \in Seq(Line) /\ \A o \in orders : o \in Order
        BY DEF IInv, TypeOK
      <4> QED BY <4>1 DEF Order
    <3>2. {[o EXCEPT !.lines = <<>>] : o \in orders} \in SUBSET Order
      BY <3>1
    <3> QED BY <2>1, <3>2 DEF ListOrders, IInv, TypeOK
  <2>2. CASE AttachItems(r)
    <3>1. PICK o \in page[r], p \in orders :
            page' = [page EXCEPT ![r] = (@ \ {o}) \cup {[o EXCEPT !.lines = p.lines]}]
      BY <2>2 DEF AttachItems
    <3>2. o \in Order /\ p \in Order
      BY DEF IInv, TypeOK
    <3>3. [o EXCEPT !.lines = p.lines] \in Order
      BY <3>2 DEF Order
    <3>4. (page[r] \ {o}) \cup {[o EXCEPT !.lines = p.lines]} \in SUBSET Order
      <4>1. page[r] \in SUBSET Order
        BY DEF IInv, TypeOK
      <4> HIDE DEF Order
      <4> QED BY <3>3, <4>1
    <3> QED BY <3>1, <3>4 DEF IInv, TypeOK
  <2> QED BY <2>1, <2>2
<1>3. PICK l \in {"attach", "done"} :
        /\ pc' = [pc EXCEPT ![r] = l]
        /\ pc' \in [Requests -> Labels]
        /\ resp' \in [Requests -> {0, 200, 201, 204, 400, 404, 500}]
        /\ conns' \subseteq Requests
  BY <1>1, GoToType, AnswerType DEF Labels
<1>4. TypeOK'
  BY <1>1, <1>2, <1>3 DEF IInv, TypeOK
<1>5. OrdersRefer' /\ StockNonNegative'
  BY <1>1 DEF IInv, OrdersRefer, OrderedItemsExist, OrderUsersExist, StockNonNegative
<1> QED BY <1>1, <1>3, <1>4, <1>5, AdminStep

\* A deleted user leaves no order behind, and no transaction about to commit one.
LEMMA DeleteUserStep ==
  ASSUME IInv, NEW r \in Requests, DeleteUser(r)
  PROVE  IInv'
<1> DEFINE u == op[r].user
<1>1. /\ pc[r] \notin TxLabels /\ op[r].kind = "leave"
      /\ UNCHANGED <<live, price, stock, lock, op, seen, lines, taken, total, page>>
  BY DEF DeleteUser, Runs, At, TxLabels, merchRows, workspace
<1>2. CASE UNCHANGED <<orders, people>> /\ Answer(r, 404)
  BY <1>1, <1>2, QuietAnswer
<1>3. CASE people' = people \ {u} /\ ForgetUser(u) /\ AnswerWritten(r, 204)
  <2>1. /\ pc' = [pc EXCEPT ![r] = "done"]
        /\ pc' \in [Requests -> Labels]
        /\ resp' \in [Requests -> {0, 200, 201, 204, 400, 404, 500}]
        /\ conns' \subseteq Requests
    BY <1>3, AnswerWrittenType
  <2>2. ASSUME NEW m \in orders'
        PROVE  /\ m \in Order
               /\ m.user \in people' \cup {NoOne}
               /\ \E o \in orders : m.lines = o.lines
    <3>1. PICK o \in orders :
            m = IF o.user = u THEN [o EXCEPT !.user = NoOne] ELSE o
      BY <1>3 DEF ForgetUser
    <3>2. o \in Order /\ o.user \in people \cup {NoOne}
      BY DEF IInv, TypeOK, OrdersRefer, OrderUsersExist
    <3> QED BY <1>3, <3>1, <3>2 DEF Order
  <2>3. TypeOK'
    BY <1>1, <1>3, <2>1, <2>2 DEF IInv, TypeOK
  <2>4. OrdersRefer'
    BY <1>1, <2>2 DEF IInv, OrdersRefer, OrderedItemsExist, OrderUsersExist
  <2>5. StockNonNegative'
    BY <1>1 DEF IInv, StockNonNegative
  <2>6. \A q \in Requests : pc[q] = "commit" => op[q].user # u
    BY DEF DeleteUser, UserFree
  <2> QED BY <1>1, <1>3, <2>1, <2>3, <2>4, <2>5, <2>6, AdminStep
<1> QED BY <1>2, <1>3 DEF DeleteUser

\* A connection taken from the pool changes nothing else.
LEMMA AcquireStep ==
  ASSUME IInv, NEW r \in Requests, Acquire(r)
  PROVE  IInv'
<1>1. /\ conns' \subseteq Requests
      /\ UNCHANGED <<live, price, stock, lock, orders, people, op, pc, seen, lines, taken,
                     total, page, resp>>
  BY DEF Acquire, merchRows, workspace, IInv, TypeOK
<1> QED BY <1>1
   DEF IInv, TypeOK, LocksInTx, StockNonNegative, OrdersRefer, OrderedItemsExist,
       OrderUsersExist, Session, LabelMatches, LineLeft, ReadsCurrent, RowInHand,
       TakenCovered, InsertsChecked, RowsAccepted, NextLine

-----------------------------------------------------------------------------
(* The theorems.                                                            *)

\* Every step keeps IInv.
LEMMA NextIInv == IInv /\ [Next]_vars => IInv'
<1> SUFFICES ASSUME IInv, [Next]_vars PROVE IInv'
  OBVIOUS
<1>1. ASSUME NEW r \in Requests, Step(r) PROVE IInv'
  BY <1>1, PlaceOrderStep, ReadPriceStep, TakeStockStep, InsertOrderStep, CommitStep,
     ReadItemStep, WriteItemStep, CreateItemStep, DeleteItemStep, UpdateStatusStep,
     ListOrderItemsStep, ListingStep, DeleteUserStep
  DEF Step
<1>2. ASSUME NEW r \in Requests, Acquire(r) \/ Abort(r) \/ DeadlockVictim(r) PROVE IInv'
  BY <1>2, AcquireStep, RollbackStep DEF Abort, DeadlockVictim
<1>3. CASE UNCHANGED vars
  BY <1>3
  DEF vars, IInv, TypeOK, LocksInTx, StockNonNegative, OrdersRefer, OrderedItemsExist,
      OrderUsersExist, Session, LabelMatches, LineLeft, ReadsCurrent, RowInHand,
      TakenCovered, InsertsChecked, RowsAccepted, NextLine
<1> QED BY <1>1, <1>2, <1>3 DEF Next, Quiescent

\* IInv holds in every reachable state.
THEOREM Invariance == Spec => []IInv
<1> QED BY InitIInv, NextIInv, PTL DEF Spec

\* Every variable keeps its type.
THEOREM ShopTypeOK == Spec => []TypeOK
<1>1. IInv => TypeOK
  BY DEF IInv
<1> QED BY Invariance, <1>1, PTL

\* Committed stock never goes below zero.
THEOREM StockIsNeverNegative == Spec => []StockNonNegative
<1>1. IInv => StockNonNegative
  BY DEF IInv
<1> QED BY Invariance, <1>1, PTL

\* An ordered item is never deleted.
THEOREM OrderedItemsAreKept == Spec => []OrderedItemsExist
<1>1. IInv => OrderedItemsExist
  BY DEF IInv, OrdersRefer
<1> QED BY Invariance, <1>1, PTL

\* No order refers to a user who has been deleted.
THEOREM OrdersKeepTheirUsers == Spec => []OrderUsersExist
<1>1. IInv => OrderUsersExist
  BY DEF IInv, OrdersRefer
<1> QED BY Invariance, <1>1, PTL

\* A new order carries the prices in force when it commits.
THEOREM OrdersArePricedAtCommit == Spec => PricedAtCommit
<1>1. ASSUME IInv, Next PROVE NewOrderIsPriced
  <2>1. CASE UNCHANGED orders
    BY <2>1 DEF NewOrderIsPriced
  <2>2. ASSUME NEW r \in Requests, Commit(r) PROVE NewOrderIsPriced
    <3>1. orders' = orders \cup {OrderRow(r)}
      BY <2>2 DEF Commit
    <3>2. \A k \in DOMAIN lines[r] : lines[r][k].price = price[lines[r][k].item]
      BY <1>1 DEF IInv, Session, ReadsCurrent
    <3> QED BY <3>1, <3>2 DEF NewOrderIsPriced, OrderRow
  <2>3. ASSUME NEW r \in Requests, UpdateStatus(r) PROVE NewOrderIsPriced
    <3>1. CASE \E o \in orders :
                 orders' = (orders \ {o}) \cup {[o EXCEPT !.status = op[r].status]}
      <4>1. PICK o \in orders :
                 orders' = (orders \ {o}) \cup {[o EXCEPT !.status = op[r].status]}
        BY <3>1
      <4>2. o \in Order
        BY <1>1 DEF IInv, TypeOK
      <4>3. [o EXCEPT !.status = op[r].status].id = o.id
        BY <4>2 DEF Order
      <4> QED BY <4>1, <4>3 DEF NewOrderIsPriced
    <3> QED BY <2>1, <2>3, <3>1 DEF UpdateStatus
  <2>4. ASSUME NEW r \in Requests, DeleteUser(r) PROVE NewOrderIsPriced
    <3>1. CASE ForgetUser(op[r].user)
      <4>1. ASSUME NEW m \in orders' PROVE \E o \in orders : o.id = m.id
        <5>1. PICK o \in orders :
                m = IF o.user = op[r].user THEN [o EXCEPT !.user = NoOne] ELSE o
          BY <3>1 DEF ForgetUser
        <5>2. o \in Order
          BY <1>1 DEF IInv, TypeOK
        <5> QED BY <5>1, <5>2 DEF Order
      <4> QED BY <4>1 DEF NewOrderIsPriced
    <3> QED BY <2>1, <2>4, <3>1 DEF DeleteUser
  <2>5. ASSUME NEW r \in Requests, Step(r) PROVE NewOrderIsPriced
    BY <2>1, <2>2, <2>3, <2>4, <2>5
    DEF Step, PlaceOrder, ReadPrice, TakeStock, InsertOrder, ReadItem, WriteItem,
        CreateItem, DeleteItem, ListOrderItems, ListOrders, AttachItems, Rollback
  <2> QED BY <1>1, <2>1, <2>5
     DEF Next, Acquire, Abort, DeadlockVictim, Rollback, Quiescent, vars
<1>2. IInv /\ [Next]_vars => [NewOrderIsPriced]_vars
  BY <1>1
<1> QED BY Invariance, <1>2, PTL DEF Spec, PricedAtCommit

\* No order ever raises the stock of an item.
THEOREM OrdersNeverRestock == Spec => OnlyAdminsRestock
<1>1. ASSUME IInv, Next PROVE RestockIsAdmin
  <2>1. CASE UNCHANGED stock
    BY <1>1, <2>1 DEF RestockIsAdmin, IInv, TypeOK
  <2>2. ASSUME NEW r \in Requests, Commit(r) PROVE RestockIsAdmin
    <3>1. /\ pc[r] = "commit"
          /\ \A i \in Items : stock'[i] = stock[i] - taken[r][i]
      BY <2>2 DEF Commit, Runs, At, StockInTx
    <3>2. \A k \in DOMAIN lines[r] : lines[r][k].qty > 0
      <4>1. lines[r] \in Seq(Line)
        BY <1>1 DEF IInv, TypeOK
      <4>2. DOMAIN lines[r] = 1..Len(lines[r])
        BY <4>1
      <4> QED BY <1>1, <3>1, <4>2 DEF IInv, Session, InsertsChecked, RowsAccepted
    <3>3. \A i \in Items : taken[r][i] >= 0
      BY <1>1, <3>2 DEF IInv, Session, TakenCovered
    <3> QED BY <1>1, <3>1, <3>3 DEF RestockIsAdmin, IInv, TypeOK
  <2>3. ASSUME NEW r \in Requests, WriteItem(r) PROVE RestockIsAdmin
    <3>1. pc[r] = "write" /\ op[r].kind = "update"
      BY <2>3 DEF WriteItem, Runs, At
    <3>2. Answer(r, 404) \/ Answer(r, 500) \/ AnswerWritten(r, 200)
      BY <2>3 DEF WriteItem
    <3>3. pc'[r] = "done"
      BY <1>1, <3>2 DEF IInv, TypeOK, Answer, AnswerWritten
    <3> QED BY <3>1, <3>3 DEF RestockIsAdmin
  <2>4. ASSUME NEW r \in Requests, CreateItem(r) PROVE RestockIsAdmin
    <3>1. pc[r] = "begin" /\ op[r].kind = "create"
      BY <2>4 DEF CreateItem, Runs, At
    <3>2. Answer(r, 500) \/ AnswerWritten(r, 201)
      BY <2>4 DEF CreateItem
    <3>3. pc'[r] = "done"
      BY <1>1, <3>2 DEF IInv, TypeOK, Answer, AnswerWritten
    <3> QED BY <3>1, <3>3 DEF RestockIsAdmin
  <2>5. ASSUME NEW r \in Requests, Step(r) PROVE RestockIsAdmin
    BY <2>1, <2>2, <2>3, <2>4, <2>5
    DEF Step, PlaceOrder, ReadPrice, TakeStock, InsertOrder, ReadItem, DeleteItem,
        UpdateStatus, ListOrderItems, ListOrders, AttachItems, DeleteUser, Rollback,
        merchRows
  <2> QED BY <1>1, <2>1, <2>5
     DEF Next, Acquire, Abort, DeadlockVictim, Rollback, Quiescent, vars, merchRows
<1>2. IInv /\ [Next]_vars => [RestockIsAdmin]_vars
  BY <1>1
<1> QED BY Invariance, <1>2, PTL DEF Spec, OnlyAdminsRestock
=============================================================================
