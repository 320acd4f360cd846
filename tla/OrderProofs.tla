----------------------------- MODULE OrderProofs -----------------------------
(* Proofs about what is sold: the orders stored, answered for and listed,    *)
(* the stock and the money they account for, and that Shop implements Till.  *)
EXTENDS ShopProofs, SumProofs

-----------------------------------------------------------------------------
(* What a step leaves alone.                                                *)

\* The answer and the next label of a step that ends its request.
LEMMA AnswerMoves ==
  ASSUME IInv, NEW r \in Requests, NEW s \in {200, 201, 204, 400, 404, 500},
         Answer(r, s) \/ AnswerWritten(r, s)
  PROVE  /\ pc'[r] = "done" /\ resp'[r] \in {s, 500}
         /\ \A q \in Requests \ {r} : pc'[q] = pc[q] /\ resp'[q] = resp[q]
  BY DEF IInv, TypeOK, Answer, AnswerWritten

\* A step within a request gives no answer.
LEMMA GoOnMoves ==
  ASSUME IInv, NEW r \in Requests, NEW l \in Labels, GoTo(r, l) \/ Continue(r, l)
  PROVE  /\ pc'[r] = l /\ resp' = resp
         /\ \A q \in Requests \ {r} : pc'[q] = pc[q]
  BY DEF IInv, TypeOK, GoTo, Continue

\* A rollback answers and forgets.
LEMMA RollbackMoves ==
  ASSUME IInv, NEW r \in Requests, NEW s \in {400, 404, 500}, Rollback(r, s)
  PROVE  /\ pc'[r] = "done" /\ resp'[r] \in {s, 500} /\ lines'[r] = <<>> /\ page'[r] = {}
         /\ orders' = orders /\ op' = op
         /\ \A q \in Requests \ {r} : pc'[q] = pc[q] /\ resp'[q] = resp[q]
         /\ \A q \in Requests \ {r} : lines'[q] = lines[q] /\ page'[q] = page[q]
<1>1. Answer(r, s) /\ Discard(r) /\ orders' = orders /\ op' = op
  BY DEF Rollback
<1>2. /\ pc'[r] = "done" /\ resp'[r] \in {s, 500}
      /\ \A q \in Requests \ {r} : pc'[q] = pc[q] /\ resp'[q] = resp[q]
  BY <1>1, AnswerMoves
<1>3. /\ lines' = [lines EXCEPT ![r] = <<>>] /\ page' = [page EXCEPT ![r] = {}]
      /\ lines \in [Requests -> Seq(Line)] /\ page \in [Requests -> SUBSET Order]
  BY <1>1 DEF Discard, IInv, TypeOK
<1> QED BY <1>1, <1>2, <1>3

\* A transaction that goes on to its next statement, the last one included.
GoesOn(r) ==
    /\ op' = op /\ orders' = orders /\ page' = page
    /\ resp' = resp
    /\ \/ PlaceOrder(r) /\ op[r].cart # <<>> /\ pc'[r] = "line" /\ lines' = lines
       \/ ReadPrice(r) /\ pc'[r] = "decrement" /\ lines' = lines
       \/ /\ TakeStock(r)
          /\ lines' = [lines EXCEPT ![r] = Append(@, OrderItem(r, NextLine(r)))]
          /\ pc'[r] = IF Len(lines[r]) + 1 < Len(op[r].cart) THEN "line" ELSE "insert"
       \/ InsertOrder(r) /\ pc'[r] = "commit" /\ lines' = lines
    /\ \A q \in Requests \ {r} : pc'[q] = pc[q]

\* A request that ends in a rollback, or an empty cart.
Fails(r) ==
    /\ pc[r] # "done"
    /\ pc'[r] = "done" /\ resp'[r] \in {400, 404, 500} /\ lines'[r] = <<>>
    /\ op' = op /\ orders' = orders
    /\ page'[r] \in {page[r], {}}
    /\ \A q \in Requests \ {r} :
          pc'[q] = pc[q] /\ resp'[q] = resp[q] /\ lines'[q] = lines[q] /\ page'[q] = page[q]

\* A step of a call that runs no transaction, the commit of one that does, and
\* a connection taken.
Serves(r) ==
    \/ ReadItem(r) \/ WriteItem(r) \/ CreateItem(r) \/ DeleteItem(r)
    \/ UpdateStatus(r) \/ ListOrderItems(r) \/ DeleteUser(r)

\* The steps of a transaction go on or fail.
LEMMA TransactionMoves ==
  ASSUME IInv, NEW r \in Requests, Filled(r),
         PlaceOrder(r) \/ ReadPrice(r) \/ TakeStock(r) \/ InsertOrder(r) \/ Abort(r)
         \/ DeadlockVictim(r)
  PROVE  GoesOn(r) \/ Fails(r)
<1> USE DEF workspace
<1>0. pc[r] # "done"
  <2>1. Deadlocked(r) => pc[r] = "line"
    BY DEF Deadlocked, Blocked, At
  <2> QED BY <2>1 DEF PlaceOrder, ReadPrice, TakeStock, InsertOrder, Abort, DeadlockVictim,
                      Runs, At
<1>1. ASSUME NEW s \in {400, 404, 500}, Rollback(r, s) PROVE Fails(r)
  BY <1>0, <1>1, RollbackMoves DEF Fails
<1>2. CASE PlaceOrder(r)
  <2>1. pc[r] = "begin" /\ UNCHANGED <<orders, op, lines, page>>
    BY <1>2 DEF PlaceOrder, At
  <2>2. CASE Answer(r, 400)
    BY <1>0, <2>1, <2>2, AnswerMoves DEF Fails, Filled, TxLabels
  <2>3. CASE op[r].cart # <<>> /\ GoTo(r, "line")
    <3>1. pc'[r] = "line" /\ resp' = resp /\ \A q \in Requests \ {r} : pc'[q] = pc[q]
      BY <2>3, GoOnMoves DEF Labels
    <3> QED BY <1>2, <2>1, <2>3, <3>1 DEF GoesOn
  <2> QED BY <1>2, <2>2, <2>3 DEF PlaceOrder
<1>3. CASE ReadPrice(r)
  <2>1. CASE Rollback(r, 404)
    BY <1>1, <2>1
  <2>2. CASE Continue(r, "decrement") /\ UNCHANGED <<orders, op, lines, page>>
    <3>1. pc'[r] = "decrement" /\ resp' = resp /\ \A q \in Requests \ {r} : pc'[q] = pc[q]
      BY <2>2, GoOnMoves DEF Labels
    <3> QED BY <1>3, <2>2, <3>1 DEF GoesOn
  <2> QED BY <1>3, <2>1, <2>2 DEF ReadPrice
<1>4. CASE TakeStock(r)
  <2> DEFINE label == IF Len(lines[r]) + 1 < Len(op[r].cart) THEN "line" ELSE "insert"
             added == [lines EXCEPT ![r] = Append(@, OrderItem(r, NextLine(r)))]
  <2>1. CASE Rollback(r, 400)
    BY <1>1, <2>1
  <2>2. CASE Continue(r, label) /\ lines' = added /\ UNCHANGED <<orders, op, page>>
    <3>1. label \in Labels
      BY DEF Labels
    <3>2. pc'[r] = label /\ resp' = resp /\ \A q \in Requests \ {r} : pc'[q] = pc[q]
      BY <2>2, <3>1, GoOnMoves
    <3> QED BY <1>4, <2>2, <3>2 DEF GoesOn
  <2> QED BY <1>4, <2>1, <2>2 DEF TakeStock
<1>5. CASE InsertOrder(r)
  <2>1. CASE Rollback(r, 500)
    BY <1>1, <2>1
  <2>2. CASE Continue(r, "commit") /\ UNCHANGED <<orders, op, lines, page>>
    <3>1. pc'[r] = "commit" /\ resp' = resp /\ \A q \in Requests \ {r} : pc'[q] = pc[q]
      BY <2>2, GoOnMoves DEF Labels
    <3> QED BY <1>5, <2>2, <3>1 DEF GoesOn
  <2> QED BY <1>5, <2>1, <2>2 DEF InsertOrder
<1> QED BY <1>1, <1>2, <1>3, <1>4, <1>5 DEF Abort, DeadlockVictim

\* A call without a transaction leaves line items and pages alone.
LEMMA ServesMoves ==
  ASSUME IInv, NEW r \in Requests, Serves(r)
  PROVE  /\ pc[r] \notin TxLabels \cup {"done"} /\ op[r].kind # "order" /\ op[r].kind # "list"
         /\ pc'[r] \notin TxLabels
         /\ UNCHANGED <<op, lines, page>>
         /\ pc'[r] # "done" => resp'[r] = resp[r]
         /\ \A q \in Requests \ {r} : pc'[q] = pc[q] /\ resp'[q] = resp[q]
<1>1. /\ pc[r] \in {"begin", "write", "items"} /\ op[r].kind # "order" /\ op[r].kind # "list"
      /\ UNCHANGED <<op, lines, page>>
  BY DEF Serves, ReadItem, WriteItem, CreateItem, DeleteItem, UpdateStatus, ListOrderItems,
         DeleteUser, Runs, At, workspace
<1>2. \/ \E s \in {200, 201, 204, 400, 404, 500} : Answer(r, s) \/ AnswerWritten(r, s)
      \/ GoTo(r, "write") \/ GoTo(r, "items")
  BY DEF Serves, ReadItem, WriteItem, CreateItem, DeleteItem, UpdateStatus, ListOrderItems,
         DeleteUser
<1>3. CASE \E s \in {200, 201, 204, 400, 404, 500} : Answer(r, s) \/ AnswerWritten(r, s)
  BY <1>1, <1>3, AnswerMoves DEF TxLabels
<1>4. CASE GoTo(r, "write") \/ GoTo(r, "items")
  BY <1>1, <1>4, GoOnMoves DEF TxLabels, Labels
<1> QED BY <1>2, <1>3, <1>4

\* The commit ends its request and adds its row.
LEMMA CommitMoves ==
  ASSUME IInv, NEW r \in Requests, Commit(r)
  PROVE  /\ pc[r] = "commit" /\ op[r].kind = "order"
         /\ pc'[r] = "done" /\ resp'[r] \in {201, 500} /\ lines'[r] = <<>> /\ page'[r] = {}
         /\ op' = op
         /\ orders' = orders \cup {OrderRow(r)}
         /\ \A q \in Requests \ {r} : pc'[q] = pc[q] /\ resp'[q] = resp[q]
         /\ \A q \in Requests \ {r} : lines'[q] = lines[q] /\ page'[q] = page[q]
<1>1. /\ AnswerWritten(r, 201) /\ Discard(r) /\ op' = op /\ orders' = orders \cup {OrderRow(r)}
      /\ pc[r] = "commit" /\ op[r].kind = "order"
  BY DEF Commit, Runs, At
<1>2. /\ pc'[r] = "done" /\ resp'[r] \in {201, 500}
      /\ \A q \in Requests \ {r} : pc'[q] = pc[q] /\ resp'[q] = resp[q]
  BY <1>1, AnswerMoves
<1>3. /\ lines' = [lines EXCEPT ![r] = <<>>] /\ page' = [page EXCEPT ![r] = {}]
      /\ lines \in [Requests -> Seq(Line)] /\ page \in [Requests -> SUBSET Order]
  BY <1>1 DEF Discard, IInv, TypeOK
<1> QED BY <1>1, <1>2, <1>3

\* A listing changes only its own page.
LEMMA ListingMoves ==
  ASSUME IInv, NEW r \in Requests, ListOrders(r) \/ AttachItems(r)
  PROVE  /\ op[r].kind = "list" /\ pc[r] \notin TxLabels \cup {"done"}
         /\ pc'[r] \in {"attach", "done"}
         /\ pc'[r] = "attach" => resp'[r] = resp[r]
         /\ pc'[r] = "done" => resp'[r] \in {200, 500}
         /\ UNCHANGED <<op, lines, orders>>
         /\ \A q \in Requests \ {r} : pc'[q] = pc[q] /\ resp'[q] = resp[q]
         /\ \A q \in Requests \ {r} : page'[q] = page[q]
<1>1. /\ op[r].kind = "list" /\ pc[r] \in {"begin", "attach"}
      /\ UNCHANGED <<op, lines, orders>>
  BY DEF ListOrders, AttachItems, Runs, At
<1>2. \A q \in Requests \ {r} : page'[q] = page[q]
  BY DEF ListOrders, AttachItems, IInv, TypeOK
<1>3. Answer(r, 200) \/ GoTo(r, "attach")
  BY DEF ListOrders, AttachItems
<1>4. CASE Answer(r, 200)
  BY <1>1, <1>2, <1>4, AnswerMoves DEF TxLabels
<1>5. CASE GoTo(r, "attach")
  BY <1>1, <1>2, <1>5, GoOnMoves DEF TxLabels, Labels
<1> QED BY <1>3, <1>4, <1>5

Idle == UNCHANGED <<op, orders, pc, resp, lines, page>>

\* Every step is of one of these forms.
LEMMA StepForms ==
  ASSUME IInv, OrdersInv, [Next]_vars
  PROVE  \/ Idle
         \/ \E r \in Requests : \/ GoesOn(r) \/ Fails(r) \/ Serves(r) \/ Commit(r)
                                \/ ListOrders(r) \/ AttachItems(r)
<1>1. ASSUME NEW r \in Requests, Acquire(r) PROVE Idle
  BY <1>1 DEF Acquire, Idle, workspace
<1>2. CASE UNCHANGED vars
  BY <1>2 DEF vars, Idle
<1>3. \A r \in Requests : Filled(r)
  BY DEF OrdersInv
<1> QED BY <1>1, <1>2, <1>3, TransactionMoves DEF Next, Step, Quiescent, Serves

-----------------------------------------------------------------------------
(* The transaction and its cart.                                            *)

\* Line items follow the cart.
LEMMA FilledStep ==
  ASSUME IInv, OrdersInv, [Next]_vars, NEW q \in Requests
  PROVE  Filled(q)'
<1>0. Filled(q) /\ pc[q] \in Labels
  BY DEF OrdersInv, IInv, TypeOK
<1>1. ASSUME UNCHANGED <<op, pc, lines>> PROVE Filled(q)'
  BY <1>0, <1>1 DEF Filled, Follows
<1>2. ASSUME op' = op, pc'[q] = pc[q], lines'[q] = lines[q] PROVE Filled(q)'
  BY <1>0, <1>2 DEF Filled, Follows
<1>3. ASSUME pc'[q] \notin TxLabels, lines'[q] = <<>> PROVE Filled(q)'
  BY <1>3 DEF Filled, TxLabels
<1>4. ASSUME NEW r \in Requests, GoesOn(r) PROVE Filled(q)'
  <2>1. CASE q # r
    <3>1. lines'[q] = lines[q]
      BY <1>4, <2>1 DEF GoesOn, IInv, TypeOK
    <3> QED BY <1>2, <1>4, <2>1, <3>1 DEF GoesOn
  <2>2. CASE q = r /\ PlaceOrder(r) /\ op[r].cart # <<>> /\ pc'[r] = "line" /\ lines' = lines
    <3>1. lines[q] = <<>> /\ op' = op
      BY <1>0, <1>4, <2>2 DEF Filled, PlaceOrder, At, TxLabels, GoesOn
    <3> QED BY <2>2, <3>1 DEF Filled, TxLabels, Follows
  <2>3. CASE q = r /\ ReadPrice(r) /\ pc'[r] = "decrement" /\ lines' = lines
    BY <1>0, <1>4, <2>3 DEF Filled, ReadPrice, At, TxLabels, Follows, GoesOn
  <2>4. CASE /\ q = r /\ TakeStock(r)
             /\ lines' = [lines EXCEPT ![r] = Append(@, OrderItem(r, NextLine(r)))]
             /\ pc'[r] = IF Len(lines[r]) + 1 < Len(op[r].cart) THEN "line" ELSE "insert"
    <3> DEFINE x == OrderItem(r, NextLine(r))
    <3>1. /\ pc[r] = "decrement" /\ op' = op /\ op[r].kind = "order"
          /\ lines'[r] = Append(lines[r], x)
      BY <1>4, <2>4 DEF TakeStock, Runs, At, GoesOn, IInv, TypeOK
    <3>2. /\ op[r].cart # <<>> /\ Follows(lines[r], op[r].cart)
          /\ Len(lines[r]) < Len(op[r].cart)
      BY <1>0, <2>4, <3>1 DEF Filled, TxLabels, IInv, Session, LineLeft
    <3>3. /\ lines[r] \in Seq(Line) /\ Len(lines[r]) \in Nat /\ Len(op[r].cart) \in Nat
          /\ DOMAIN lines[r] = 1..Len(lines[r])
      <4>1. op[r].cart \in Seq([item: Items, qty: Int])
        BY <3>1, OpFields DEF IInv, OrderOps, Cart
      <4>2. lines[r] \in Seq(Line)
        BY DEF IInv, TypeOK
      <4> QED BY <4>1, <4>2
    <3>4. /\ x.item = op[r].cart[Len(lines[r]) + 1].item
          /\ x.qty = op[r].cart[Len(lines[r]) + 1].qty
      BY DEF OrderItem, NextLine
    <3>5. /\ Len(lines'[r]) = Len(lines[r]) + 1
          /\ DOMAIN lines'[r] = 1..(Len(lines[r]) + 1)
          /\ lines'[r][Len(lines[r]) + 1] = x
          /\ \A k \in 1..Len(lines[r]) : lines'[r][k] = lines[r][k]
      BY <3>1, <3>3
    <3>6. Follows(lines'[r], op'[r].cart)
      <4> SUFFICES ASSUME NEW k \in 1..(Len(lines[r]) + 1)
                   PROVE  /\ lines'[r][k].item = op[r].cart[k].item
                          /\ lines'[r][k].qty = op[r].cart[k].qty
        BY <3>1, <3>5 DEF Follows
      <4>1. CASE k = Len(lines[r]) + 1
        BY <4>1, <3>4, <3>5
      <4>2. CASE k \in 1..Len(lines[r])
        BY <4>2, <3>2, <3>3, <3>5 DEF Follows
      <4> QED BY <3>3, <4>1, <4>2
    <3>7. pc'[r] = "insert" => Len(lines'[r]) = Len(op'[r].cart)
      BY <2>4, <3>1, <3>2, <3>3, <3>5
    <3>8. pc'[r] \in {"line", "insert"}
      BY <2>4
    <3> QED BY <2>4, <3>1, <3>2, <3>6, <3>7, <3>8 DEF Filled, TxLabels
  <2>5. CASE q = r /\ InsertOrder(r) /\ pc'[r] = "commit" /\ lines' = lines
    BY <1>0, <1>4, <2>5 DEF Filled, InsertOrder, Runs, At, TxLabels, Follows, GoesOn
  <2> QED BY <1>4, <2>1, <2>2, <2>3, <2>4, <2>5 DEF GoesOn
<1>5. ASSUME NEW r \in Requests, Fails(r) PROVE Filled(q)'
  BY <1>2, <1>3, <1>5 DEF Fails, TxLabels
<1>6. ASSUME NEW r \in Requests, Serves(r) PROVE Filled(q)'
  <2>1. CASE q # r
    BY <1>2, <1>6, <2>1, ServesMoves
  <2>2. CASE q = r
    <3>1. /\ pc[q] \notin TxLabels /\ pc'[q] \notin TxLabels /\ lines' = lines
      BY <1>6, <2>2, ServesMoves
    <3>2. lines'[q] = <<>>
      BY <1>0, <3>1 DEF Filled
    <3> QED BY <1>3, <3>1, <3>2
  <2> QED BY <2>1, <2>2
<1>7. ASSUME NEW r \in Requests, Commit(r) PROVE Filled(q)'
  <2>1. CASE q # r
    BY <1>2, <1>7, <2>1, CommitMoves
  <2>2. CASE q = r
    BY <1>3, <1>7, <2>2, CommitMoves DEF TxLabels
  <2> QED BY <2>1, <2>2
<1>8. ASSUME NEW r \in Requests, ListOrders(r) \/ AttachItems(r) PROVE Filled(q)'
  <2>1. CASE q # r
    BY <1>2, <1>8, <2>1, ListingMoves
  <2>2. CASE q = r
    <3>1. /\ pc[q] \notin TxLabels /\ pc'[q] \notin TxLabels /\ lines' = lines
      BY <1>8, <2>2, ListingMoves DEF TxLabels
    <3>2. lines'[q] = <<>>
      BY <1>0, <3>1 DEF Filled
    <3> QED BY <1>3, <3>1, <3>2
  <2> QED BY <2>1, <2>2
<1> QED BY <1>1, <1>4, <1>5, <1>6, <1>7, <1>8, StepForms DEF Idle

-----------------------------------------------------------------------------
(* The orders table.                                                        *)

\* The image of a finite set under a function is finite.
LEMMA FiniteImage ==
  ASSUME NEW S, IsFiniteSet(S), NEW f, NEW T, T = {f[x] : x \in S}
  PROVE  IsFiniteSet(T)
<1>1. PICK s \in Seq(S) : \A x \in S : \E n \in 1..Len(s) : s[n] = x
  BY DEF IsFiniteSet
<1> DEFINE t == [n \in 1..Len(s) |-> f[s[n]]]
<1>2. t \in Seq(T) /\ Len(t) = Len(s)
  BY <1>1
<1>3. \A y \in T : \E n \in 1..Len(t) : t[n] = y
  BY <1>1, <1>2
<1> QED BY <1>2, <1>3 DEF IsFiniteSet

\* The rows of a step other than a commit are those there were, with their
\* lines and totals.
Reworded(old, new) ==
    /\ IsFiniteSet(new)
    /\ \A p \in old : \E q \in new : Same(p, q)
    /\ \A q \in new : \E p \in old : Same(p, q)
    /\ \A p, q \in new : p.id = q.id => p = q

\* A status change rewords one order, a user's leaving all of that user's.
LEMMA RewordingStep ==
  ASSUME IInv, OrdersInv, NEW r \in Requests, Serves(r)
  PROVE  Reworded(orders, orders')
<1>0. /\ IsFiniteSet(orders) /\ orders \subseteq Order
      /\ \A o, p \in orders : o.id = p.id => o = p
  BY DEF OrdersInv, OnePerRequest, IInv, TypeOK
<1>1. CASE orders' = orders
  BY <1>0, <1>1 DEF Reworded, Same
<1>2. ASSUME NEW o \in orders, NEW s, orders' = (orders \ {o}) \cup {[o EXCEPT !.status = s]}
      PROVE  Reworded(orders, orders')
  <2> DEFINE n == [o EXCEPT !.status = s]
  <2>1. Same(o, n) /\ Same(n, o)
    BY <1>0 DEF Order, Same
  <2>2. IsFiniteSet(orders')
    BY <1>0, <1>2, FS_AddElement, FS_RemoveElement
  <2>3. \A q \in orders' : q = n \/ (q \in orders /\ q # o)
    BY <1>2
  <2>4. \A p \in orders : \E q \in orders' : Same(p, q)
    BY <1>2, <2>1 DEF Same
  <2>5. \A q \in orders' : \E p \in orders : Same(p, q)
    BY <2>1, <2>3 DEF Same
  <2>6. ASSUME NEW p \in orders', NEW q \in orders', p.id = q.id PROVE p = q
    <3>1. n.id = o.id
      BY <2>1 DEF Same
    <3> QED BY <1>0, <2>3, <2>6, <3>1
  <2> QED BY <2>2, <2>4, <2>5, <2>6 DEF Reworded
<1>3. ASSUME NEW u, ForgetUser(u) PROVE Reworded(orders, orders')
  <2> DEFINE f == [o \in orders |-> IF o.user = u THEN [o EXCEPT !.user = NoOne] ELSE o]
  <2>1. orders' = {f[o] : o \in orders}
    BY <1>3 DEF ForgetUser
  <2>2. ASSUME NEW o \in orders PROVE Same(o, f[o])
    BY <1>0 DEF Order, Same
  <2> HIDE DEF f
  <2>3. IsFiniteSet(orders')
    BY <1>0, <2>1, FiniteImage
  <2>4. \A p \in orders : \E q \in orders' : Same(p, q)
    BY <2>1, <2>2
  <2>5. \A q \in orders' : \E p \in orders : Same(p, q)
    BY <2>1, <2>2
  <2>6. ASSUME NEW p \in orders', NEW q \in orders', p.id = q.id PROVE p = q
    <3>1. PICK a \in orders : p = f[a]
      BY <2>1
    <3>2. PICK b \in orders : q = f[b]
      BY <2>1
    <3>3. a.id = b.id
      BY <2>2, <2>6, <3>1, <3>2 DEF Same
    <3> QED BY <1>0, <3>1, <3>2, <3>3
  <2> QED BY <2>3, <2>4, <2>5, <2>6 DEF Reworded
<1>4. \/ orders' = orders
      \/ \E o \in orders : \E s : orders' = (orders \ {o}) \cup {[o EXCEPT !.status = s]}
      \/ \E u : ForgetUser(u)
  BY DEF Serves, ReadItem, WriteItem, CreateItem, DeleteItem, UpdateStatus, ListOrderItems,
         DeleteUser
<1> QED BY <1>1, <1>2, <1>3, <1>4

\* The row a commit adds is a whole cart, and the first of its request.
LEMMA RowIsWhole ==
  ASSUME IInv, OrdersInv, NEW r \in Requests, Commit(r)
  PROVE  /\ OrderRow(r).lines # <<>>
         /\ Len(OrderRow(r).lines) = Len(op[r].cart) /\ Follows(OrderRow(r).lines, op[r].cart)
         /\ \A o \in orders : o.id # r
<1>1. pc[r] = "commit" /\ op[r].kind = "order"
  BY CommitMoves
<1>2. /\ op[r].cart # <<>> /\ Follows(lines[r], op[r].cart)
      /\ Len(lines[r]) = Len(op[r].cart)
  BY <1>1 DEF OrdersInv, Filled, TxLabels
<1>3. op[r].cart \in Seq([item: Items, qty: Int])
  BY <1>1, OpFields DEF IInv, OrderOps, Cart
<1>4. Len(op[r].cart) # 0
  BY <1>2, <1>3
<1>5. lines[r] # <<>>
  BY <1>2, <1>4
<1>6. \A o \in orders : o.id # r
  BY <1>1 DEF OrdersInv, Stored
<1> QED BY <1>2, <1>5, <1>6 DEF OrderRow

\* What a step does to the orders table.
LEMMA OrdersMove ==
  ASSUME IInv, OrdersInv, [Next]_vars
  PROVE  \/ Reworded(orders, orders')
         \/ \E r \in Requests : Commit(r)
<1>1. ASSUME orders' = orders PROVE Reworded(orders, orders')
  BY <1>1 DEF OrdersInv, OnePerRequest, Reworded, Same
<1> QED BY <1>1, StepForms, RewordingStep, ListingMoves DEF Idle, GoesOn, Fails

\* There stays one order for each request, and orders do not go away.
LEMMA OrdersStay ==
  ASSUME IInv, OrdersInv, [Next]_vars
  PROVE  /\ IsFiniteSet(orders') /\ OnePerRequest'
         /\ \A p \in orders : \E q \in orders' : Same(p, q)
<1>1. CASE Reworded(orders, orders')
  BY <1>1 DEF Reworded, OnePerRequest
<1>2. ASSUME NEW r \in Requests, Commit(r)
      PROVE  /\ IsFiniteSet(orders') /\ OnePerRequest'
             /\ \A p \in orders : \E q \in orders' : Same(p, q)
  <2>1. orders' = orders \cup {OrderRow(r)} /\ IsFiniteSet(orders)
    BY <1>2, CommitMoves DEF OrdersInv
  <2>2. IsFiniteSet(orders')
    BY <2>1, FS_AddElement
  <2>3. OrderRow(r).id = r /\ \A o \in orders : o.id # r
    BY <1>2, RowIsWhole DEF OrderRow
  <2> QED BY <2>1, <2>2, <2>3 DEF OnePerRequest, OrdersInv, Same
<1> QED BY <1>1, <1>2, OrdersMove

\* A request that has been answered stays as it is.
LEMMA DoneStays ==
  ASSUME IInv, OrdersInv, [Next]_vars, NEW q \in Requests, pc[q] = "done"
  PROVE  pc'[q] = "done" /\ resp'[q] = resp[q] /\ op' = op
<1>1. ASSUME NEW r \in Requests, GoesOn(r) \/ Fails(r) \/ Serves(r) \/ Commit(r)
                                 \/ ListOrders(r) \/ AttachItems(r)
      PROVE  op' = op /\ (q # r => pc'[q] = pc[q] /\ resp'[q] = resp[q])
  BY <1>1, ServesMoves, CommitMoves, ListingMoves DEF GoesOn, Fails
<1>2. ASSUME NEW r \in Requests, GoesOn(r) \/ Fails(r) \/ Serves(r) \/ Commit(r)
                                 \/ ListOrders(r) \/ AttachItems(r)
      PROVE  pc[r] # "done"
  BY <1>2, ServesMoves, CommitMoves, ListingMoves
     DEF GoesOn, Fails, PlaceOrder, ReadPrice, TakeStock, InsertOrder, At, Runs
<1> QED BY <1>1, <1>2, StepForms DEF Idle

\* A stored order stays the whole cart of a request that has ended.
LEMMA StoredStep ==
  ASSUME IInv, OrdersInv, [Next]_vars, NEW o \in orders'
  PROVE  Stored(o)'
<1>1. ASSUME NEW p \in orders, Same(p, o) PROVE Stored(o)'
  <2>1. Stored(p) /\ p.id \in Requests
    BY DEF OrdersInv, IInv, TypeOK, Order
  <2>2. pc[p.id] = "done"
    BY <2>1 DEF Stored
  <2>3. pc'[p.id] = "done" /\ resp'[p.id] = resp[p.id] /\ op' = op
    BY <2>1, <2>2, DoneStays
  <2> QED BY <1>1, <2>1, <2>3 DEF Stored, Same, Follows
<1>2. ASSUME NEW r \in Requests, Commit(r) PROVE Stored(o)'
  <2>1. CASE o \in orders
    BY <1>1, <2>1 DEF Same
  <2>2. CASE o = OrderRow(r)
    <3>1. o.id = r
      BY <2>2 DEF OrderRow
    <3>2. /\ pc'[r] = "done" /\ resp'[r] \in {201, 500} /\ op' = op /\ op[r].kind = "order"
      BY <1>2, CommitMoves
    <3>3. o.lines # <<>> /\ Len(o.lines) = Len(op[r].cart) /\ Follows(o.lines, op[r].cart)
      BY <1>2, <2>2, RowIsWhole
    <3> QED BY <3>1, <3>2, <3>3 DEF Stored, Follows
  <2> QED BY <1>2, <2>1, <2>2, CommitMoves
<1> QED BY <1>1, <1>2, OrdersMove DEF Reworded

\* Answers are given once, and keep their word.
LEMMA AnsweredStep ==
  ASSUME IInv, OrdersInv, [Next]_vars, NEW q \in Requests
  PROVE  Answered(q)'
<1>0. Answered(q)
  BY DEF OrdersInv
<1>1. CASE pc[q] = "done"
  <2>1. pc'[q] = "done" /\ resp'[q] = resp[q] /\ op' = op
    BY <1>1, DoneStays
  <2>2. \A p \in orders : \E o \in orders' : o.id = p.id
    BY OrdersStay DEF Same
  <2> QED BY <1>0, <2>1, <2>2 DEF Answered
<1>2. CASE pc[q] # "done"
  <2>0. resp[q] = 0
    BY <1>0, <1>2 DEF Answered
  <2>1. ASSUME pc'[q] = pc[q], resp'[q] = resp[q] PROVE Answered(q)'
    BY <1>2, <2>0, <2>1 DEF Answered
  <2>2. ASSUME NEW r \in Requests, GoesOn(r) PROVE Answered(q)'
    <3>1. resp'[q] = 0
      BY <2>0, <2>2 DEF GoesOn
    <3> QED BY <3>1 DEF Answered
  <2>3. ASSUME NEW r \in Requests, Fails(r) PROVE Answered(q)'
    BY <2>1, <2>3 DEF Fails, Answered
  <2>4. ASSUME NEW r \in Requests, Serves(r) PROVE Answered(q)'
    BY <2>0, <2>1, <2>4, ServesMoves DEF Answered
  <2>5. ASSUME NEW r \in Requests, Commit(r) PROVE Answered(q)'
    <3>1. CASE q # r
      BY <2>1, <2>5, <3>1, CommitMoves
    <3>2. CASE q = r
      <4>1. pc'[q] = "done" /\ OrderRow(q) \in orders'
        BY <2>5, <3>2, CommitMoves
      <4> QED BY <4>1 DEF Answered, OrderRow
    <3> QED BY <3>1, <3>2
  <2>6. ASSUME NEW r \in Requests, ListOrders(r) \/ AttachItems(r) PROVE Answered(q)'
    BY <2>0, <2>1, <2>6, ListingMoves DEF Answered
  <2> QED BY <2>1, <2>2, <2>3, <2>4, <2>5, <2>6, StepForms DEF Idle
<1> QED BY <1>1, <1>2

\* No page outgrows the table, and one that is answered lacks nothing.
LEMMA PageStep ==
  ASSUME IInv, OrdersInv, NEW r \in Requests, ListOrders(r) \/ AttachItems(r)
  PROVE  Listing(r)'
<1>0. /\ Listing(r) /\ IsFiniteSet(orders) /\ OnePerRequest /\ \A o \in orders : Stored(o)
      /\ orders \subseteq Order /\ page[r] \subseteq Order
      /\ page \in [Requests -> SUBSET Order] /\ resp[r] = 0
      /\ orders' = orders /\ op' = op
  <2>1. pc[r] # "done" /\ orders' = orders /\ op' = op
    BY ListingMoves
  <2> QED BY <2>1 DEF OrdersInv, IInv, TypeOK, Answered
<1>1. CASE ListOrders(r)
  <2> DEFINE f == [o \in orders |-> [o EXCEPT !.lines = <<>>]]
  <2>1. page'[r] = {f[o] : o \in orders}
    BY <1>0, <1>1 DEF ListOrders
  <2>2. ASSUME NEW o \in orders PROVE f[o].id = o.id /\ f[o].total = o.total /\ f[o].lines = <<>>
    BY <1>0 DEF Order
  <2> HIDE DEF f
  <2>3. IsFiniteSet(page'[r])
    BY <1>0, <2>1, FiniteImage
  <2>4. \A o \in page'[r] : \E p \in orders' :
          p.id = o.id /\ p.total = o.total /\ o.lines \in {<<>>, p.lines}
    BY <1>0, <2>1, <2>2
  <2>5. resp'[r] = 200 => page'[r] = {}
    <3>1. CASE orders = {}
      BY <2>1, <3>1
    <3>2. CASE GoTo(r, "attach")
      BY <1>0, <3>2 DEF GoTo
    <3> QED BY <1>1, <3>1, <3>2 DEF ListOrders
  <2> QED BY <2>3, <2>4, <2>5 DEF Listing
<1>2. CASE AttachItems(r)
  <2>1. PICK o \in page[r], p \in orders :
          /\ o.lines = <<>> /\ p.id = o.id
          /\ page' = [page EXCEPT ![r] = (@ \ {o}) \cup {[o EXCEPT !.lines = p.lines]}]
    BY <1>2 DEF AttachItems
  <2> DEFINE n == [o EXCEPT !.lines = p.lines]
  <2>2. page'[r] = (page[r] \ {o}) \cup {n}
    BY <1>0, <2>1
  <2>3. n.id = p.id /\ n.lines = p.lines /\ n.total = o.total
    BY <1>0, <2>1 DEF Order
  <2>4. \A m \in page[r] : \E s \in orders :
          s.id = m.id /\ s.total = m.total /\ m.lines \in {<<>>, s.lines}
    BY <1>0 DEF Listing
  <2>5. PICK s \in orders : s.id = o.id /\ s.total = o.total
    BY <2>4
  <2>6. s = p
    BY <1>0, <2>1, <2>5 DEF OnePerRequest
  <2>7. \A m \in page'[r] : \E t \in orders' :
          t.id = m.id /\ t.total = m.total /\ m.lines \in {<<>>, t.lines}
    BY <1>0, <2>2, <2>3, <2>4, <2>5, <2>6
  <2>8. IsFiniteSet(page'[r])
    <3>1. IsFiniteSet(page[r])
      BY <1>0 DEF Listing
    <3>2. IsFiniteSet(page[r] \ {o})
      BY <3>1, FS_RemoveElement
    <3>3. IsFiniteSet((page[r] \ {o}) \cup {n})
      BY <3>2, FS_AddElement
    <3> QED BY <2>2, <3>3
  <2>9. ASSUME resp'[r] = 200, NEW m \in page'[r] PROVE m.lines # <<>>
    <3> DEFINE B == {b \in page[r] : b.lines = <<>>}
    <3>1. ~Bare(r)
      BY <1>0, <1>2, <2>9 DEF AttachItems, GoTo
    <3>2. IsFiniteSet(B) /\ ~(Cardinality(B) > 1)
      BY <1>0, <3>1, FS_Subset DEF Bare, Listing
    <3>3. ASSUME NEW b \in B PROVE b = o
      <4>1. IsFiniteSet({o, b}) /\ (b # o => Cardinality({o, b}) = 2)
        <5>1. IsFiniteSet({o}) /\ Cardinality({o}) = 1
          BY FS_Singleton
        <5>2. /\ IsFiniteSet({o} \cup {b})
              /\ b \notin {o} => Cardinality({o} \cup {b}) = Cardinality({o}) + 1
          BY <5>1, FS_AddElement
        <5>3. {o} \cup {b} = {o, b}
          OBVIOUS
        <5>4. IsFiniteSet({o, b}) /\ (b \notin {o} => Cardinality({o, b}) = 1 + 1)
          BY <5>1, <5>2, <5>3
        <5> QED BY <5>4
      <4>2. {o, b} \in SUBSET B
        BY <2>1, <3>3
      <4>3. Cardinality({o, b}) <= Cardinality(B) /\ Cardinality(B) \in Nat
        BY <3>2, <4>2, FS_Subset, FS_CardinalityType
      <4> QED BY <3>2, <4>1, <4>3
    <3>4. CASE m = n
      BY <1>0, <2>3, <3>4 DEF Stored
    <3>5. CASE m \in page[r] /\ m # o
      BY <3>3, <3>5
    <3> QED BY <2>2, <3>4, <3>5
  <2> QED BY <2>7, <2>8, <2>9 DEF Listing
<1> QED BY <1>1, <1>2

\* Listings keep up with the table.
LEMMA PagesStep ==
  ASSUME IInv, OrdersInv, [Next]_vars, NEW q \in Requests
  PROVE  Listing(q)'
<1>0. Listing(q) /\ \A p \in orders : \E t \in orders' : Same(p, t)
  BY OrdersStay DEF OrdersInv
<1>1. ASSUME page'[q] \in {page[q], {}},
             op'[q].kind = "list" /\ resp'[q] = 200 /\ page'[q] # {} =>
                 op[q].kind = "list" /\ resp[q] = 200
      PROVE  Listing(q)'
  <2>1. CASE page'[q] = {}
    <3>1. IsFiniteSet({})
      BY FS_EmptySet
    <3> QED BY <2>1, <3>1 DEF Listing
  <2>2. CASE page'[q] = page[q] /\ page'[q] # {}
    <3>1. \A o \in page[q] : \E p \in orders' :
            p.id = o.id /\ p.total = o.total /\ o.lines \in {<<>>, p.lines}
      BY <1>0 DEF Listing, Same
    <3> QED BY <1>0, <1>1, <2>2, <3>1 DEF Listing
  <2> QED BY <1>1, <2>1, <2>2
<1>2. CASE Idle
  BY <1>1, <1>2 DEF Idle
<1>3. ASSUME NEW r \in Requests, GoesOn(r) PROVE Listing(q)'
  BY <1>1, <1>3 DEF GoesOn
<1>4. ASSUME NEW r \in Requests, Fails(r) PROVE Listing(q)'
  BY <1>1, <1>4 DEF Fails
<1>5. ASSUME NEW r \in Requests, Serves(r) PROVE Listing(q)'
  BY <1>1, <1>5, ServesMoves
<1>6. ASSUME NEW r \in Requests, Commit(r) PROVE Listing(q)'
  BY <1>1, <1>6, CommitMoves
<1>7. ASSUME NEW r \in Requests, ListOrders(r) \/ AttachItems(r) PROVE Listing(q)'
  <2>1. CASE q = r
    BY <1>7, <2>1, PageStep
  <2>2. CASE q # r
    BY <1>1, <1>7, <2>2, ListingMoves
  <2> QED BY <2>1, <2>2
<1> QED BY <1>2, <1>3, <1>4, <1>5, <1>6, <1>7, StepForms

-----------------------------------------------------------------------------
(* The theorems.                                                            *)

\* No order, no page and no answer is there at the start.
LEMMA InitOrdersInv == Init => OrdersInv
<1> SUFFICES ASSUME Init PROVE OrdersInv
  OBVIOUS
<1>1. IsFiniteSet({})
  BY FS_EmptySet
<1> QED BY <1>1
    DEF Init, OrdersInv, OnePerRequest, Filled, Answered, Listing, TxLabels, IInv, TypeOK

\* Every step keeps what is known of orders and answers.
LEMMA NextOrdersInv == IInv /\ OrdersInv /\ [Next]_vars => OrdersInv'
<1> SUFFICES ASSUME IInv, OrdersInv, [Next]_vars PROVE OrdersInv'
  OBVIOUS
<1>1. \A r \in Requests : Filled(r)' /\ Answered(r)' /\ Listing(r)'
  BY FilledStep, AnsweredStep, PagesStep
<1>2. \A o \in orders' : Stored(o)'
  BY StoredStep
<1> QED BY <1>1, <1>2, OrdersStay DEF OrdersInv

\* What is known of orders, transactions, pages and answers always holds.
THEOREM OrdersInvariance == Spec => [](IInv /\ OrdersInv)
<1> QED BY InitIInv, NextIInv, InitOrdersInv, NextOrdersInv, PTL DEF Spec

\* 201 means that the whole cart is stored, once, 4xx that nothing is.
THEOREM AnswersAreHonest == Spec => []AnsweredHonestly
<1>1. IInv /\ OrdersInv => AnsweredHonestly
  <2> SUFFICES ASSUME IInv, OrdersInv, NEW r \in Requests, op[r].kind = "order"
               PROVE  LET mine == {o \in orders : o.id = r} IN
                      /\ resp[r] = 201 =>
                           \E o \in mine :
                             /\ mine = {o}
                             /\ Len(o.lines) = Len(op[r].cart)
                             /\ Follows(o.lines, op[r].cart)
                      /\ resp[r] \in {400, 404} => mine = {}
    BY DEF AnsweredHonestly, Follows
  <2> DEFINE mine == {o \in orders : o.id = r}
  <2>1. ASSUME NEW o \in mine
        PROVE  /\ mine = {o} /\ resp[r] \in {201, 500}
               /\ Len(o.lines) = Len(op[r].cart) /\ Follows(o.lines, op[r].cart)
    BY DEF OrdersInv, OnePerRequest, Stored
  <2>2. resp[r] = 201 => \E o \in mine : TRUE
    BY DEF OrdersInv, Answered
  <2> QED BY <2>1, <2>2
<1> QED BY OrdersInvariance, <1>1, PTL

\* An answered listing shows each order with all its lines and its total.
THEOREM ListingsAreWhole == Spec => []ListedWhole
<1>1. OrdersInv => ListedWhole
  BY DEF OrdersInv, Listing, ListedWhole
<1> QED BY OrdersInvariance, <1>1, PTL

-----------------------------------------------------------------------------
(* Amounts.                                                                 *)

\* Wrapping a summand first makes no difference.
LEMMA WrapAgain ==
  ASSUME NEW a \in Int, NEW b \in Int
  PROVE  Wrap(Wrap(a) + b) = Wrap(a + b)
<1> DEFINE w == 2 * Int64
           x == a + Int64
           y == (x % w) + b
           z == (a + b) + Int64
<1>1. w \in Nat \ {0} /\ Int64 \in Nat /\ x \in Int /\ z \in Int
  BY ShopAssumption
<1>2. Wrap(a) = (x % w) - Int64 /\ Wrap(a + b) = (z % w) - Int64
  BY DEF Wrap
<1> HIDE DEF w
<1>3. PICK q \in Int : x = w * q + (x % w) /\ x % w \in 0..(w - 1)
  BY <1>1, Division, Zenon
<1>4. y \in Int
  BY <1>1, <1>3
<1>5. (Wrap(a) + b) + Int64 = y
  BY <1>1, <1>2, <1>3
<1>6. Wrap(Wrap(a) + b) = (y % w) - Int64
  BY <1>5 DEF Wrap, w
<1>7. PICK p \in Int : y = w * p + (y % w) /\ y % w \in 0..(w - 1)
  BY <1>1, <1>4, Division, Zenon
<1>8. PICK t \in Int : z = w * t + (z % w) /\ z % w \in 0..(w - 1)
  BY <1>1, Division, Zenon
<1>9. z = w * q + y
  BY <1>1, <1>3
<1> HIDE DEF x, y, z
<1>10. q + p \in Int /\ w * (q + p) + (y % w) = w * t + (z % w)
  BY <1>1, <1>4, <1>7, <1>8, <1>9
<1>11. y % w = z % w
  BY <1>1, <1>7, <1>8, <1>10, Remainder
<1> QED BY <1>2, <1>6, <1>11

\* Numbers that fit are not changed by wrapping.
LEMMA WrapFits ==
  ASSUME NEW n \in Nat, n < Int64
  PROVE  Wrap(n) = n
<1> DEFINE w == 2 * Int64
           x == n + Int64
<1>1. w \in Nat \ {0} /\ Int64 \in Nat /\ x \in Int /\ x \in 0..(w - 1)
  BY ShopAssumption
<1>2. Wrap(n) = (x % w) - Int64
  BY DEF Wrap
<1> HIDE DEF w
<1>3. PICK t \in Int : x = w * t + (x % w) /\ x % w \in 0..(w - 1)
  BY <1>1, Division, Zenon
<1>4. x = n + Int64
  OBVIOUS
<1> HIDE DEF x
<1>5. w * 0 + x = w * t + (x % w)
  BY <1>1, <1>3
<1>6. x = x % w
  BY <1>1, <1>3, <1>5, Remainder
<1> QED BY <1>1, <1>2, <1>4, <1>6

\* The quantities of an item on some lines, and what the lines cost.
Quantities(ls, i) == [k \in DOMAIN ls |-> IF ls[k].item = i THEN ls[k].qty ELSE 0]
Costs(ls) == [k \in DOMAIN ls |-> ls[k].price * ls[k].qty]

\* They are numbers, one for each line.
LEMMA AmountsType ==
  ASSUME NEW ls \in Seq(Line), NEW i
  PROVE  /\ Quantities(ls, i) \in Seq(Int) /\ Len(Quantities(ls, i)) = Len(ls)
         /\ Costs(ls) \in Seq(Int) /\ Len(Costs(ls)) = Len(ls)
         /\ Quantity(ls, i) = SumSeq(Quantities(ls, i)) /\ Quantity(ls, i) \in Int
         /\ Due(ls) = SumSeq(Costs(ls)) /\ Due(ls) \in Int
<1>1. Len(ls) \in Nat /\ DOMAIN ls = 1..Len(ls)
  OBVIOUS
<1>2. \A k \in 1..Len(ls) : ls[k].qty \in Int /\ ls[k].price \in Int
  <2> SUFFICES ASSUME NEW k \in 1..Len(ls) PROVE ls[k].qty \in Int /\ ls[k].price \in Int
    OBVIOUS
  <2>1. ls[k] \in Line
    OBVIOUS
  <2> QED BY <2>1 DEF Line
<1>3. Quantities(ls, i) \in [1..Len(ls) -> Int] /\ Costs(ls) \in [1..Len(ls) -> Int]
  BY <1>1, <1>2 DEF Quantities, Costs
<1>4. /\ Quantities(ls, i) \in Seq(Int) /\ Len(Quantities(ls, i)) = Len(ls)
      /\ Costs(ls) \in Seq(Int) /\ Len(Costs(ls)) = Len(ls)
  BY <1>1, <1>3
<1>5. Quantity(ls, i) = SumSeq(Quantities(ls, i)) /\ Due(ls) = SumSeq(Costs(ls))
  BY DEF Quantity, Due, Quantities, Costs
<1> QED BY <1>4, <1>5, SumSeqType

\* Without lines there is nothing to pay and nothing to take.
LEMMA NothingOrdered ==
  ASSUME NEW i
  PROVE  Quantity(<<>>, i) = 0 /\ Due(<<>>) = 0
<1>1. Quantities(<<>>, i) = <<>> /\ Costs(<<>>) = <<>>
  BY DEF Quantities, Costs
<1>2. <<>> \in Seq(Int)
  OBVIOUS
<1>3. SumSeq(<<>>) = 0
  BY <1>2, SumSeqType
<1> QED BY <1>1, <1>3 DEF Quantity, Due, Quantities, Costs

\* A line more adds its quantity and its cost.
LEMMA LineAdded ==
  ASSUME NEW ls \in Seq(Line), NEW x \in Line, NEW i
  PROVE  /\ Quantity(Append(ls, x), i) = Quantity(ls, i) + (IF x.item = i THEN x.qty ELSE 0)
         /\ Due(Append(ls, x)) = Due(ls) + x.price * x.qty
<1> DEFINE new == Append(ls, x)
<1>1. /\ new \in Seq(Line) /\ Len(new) = Len(ls) + 1 /\ Len(ls) \in Nat
      /\ DOMAIN new = 1..(Len(ls) + 1) /\ DOMAIN ls = 1..Len(ls)
      /\ new[Len(ls) + 1] = x /\ \A k \in 1..Len(ls) : new[k] = ls[k]
  OBVIOUS
<1> HIDE DEF new
<1>2. /\ \A k \in 1..Len(ls) : Quantities(new, i)[k] = Quantities(ls, i)[k]
      /\ \A k \in 1..Len(ls) : Costs(new)[k] = Costs(ls)[k]
      /\ Quantities(new, i)[Len(ls) + 1] = IF x.item = i THEN x.qty ELSE 0
      /\ Costs(new)[Len(ls) + 1] = x.price * x.qty
  BY <1>1 DEF Quantities, Costs
<1> DEFINE a == Quantities(ls, i)
           b == Quantities(new, i)
           c == Costs(ls)
           d == Costs(new)
<1>3. /\ a \in Seq(Int) /\ Len(a) = Len(ls) /\ Quantity(ls, i) = SumSeq(a)
      /\ c \in Seq(Int) /\ Len(c) = Len(ls) /\ Due(ls) = SumSeq(c)
  BY AmountsType
<1>4. /\ b \in Seq(Int) /\ Len(b) = Len(new) /\ Quantity(new, i) = SumSeq(b)
      /\ d \in Seq(Int) /\ Len(d) = Len(new) /\ Due(new) = SumSeq(d)
  BY <1>1, AmountsType
<1>5. /\ \A k \in 1..Len(ls) : b[k] = a[k]
      /\ \A k \in 1..Len(ls) : d[k] = c[k]
      /\ b[Len(ls) + 1] = (IF x.item = i THEN x.qty ELSE 0)
      /\ d[Len(ls) + 1] = x.price * x.qty
  BY <1>2
<1> HIDE DEF a, b, c, d
<1>6. Len(b) = Len(a) + 1 /\ Len(d) = Len(c) + 1
  BY <1>1, <1>3, <1>4
<1>7. SumSeq(b) = SumSeq(a) + b[Len(b)]
  BY <1>3, <1>4, <1>5, <1>6, SumSeqAppend
<1>8. SumSeq(d) = SumSeq(c) + d[Len(d)]
  BY <1>3, <1>4, <1>5, <1>6, SumSeqAppend
<1>9. Quantity(new, i) = Quantity(ls, i) + (IF x.item = i THEN x.qty ELSE 0)
  BY <1>1, <1>3, <1>4, <1>5, <1>7
<1>10. Due(new) = Due(ls) + x.price * x.qty
  BY <1>1, <1>3, <1>4, <1>5, <1>8
<1> QED BY <1>9, <1>10 DEF new

\* The same of what lines cost, without an item.
LEMMA CostAdded ==
  ASSUME NEW ls \in Seq(Line), NEW x \in Line
  PROVE  Due(ls) \in Int /\ Due(Append(ls, x)) = Due(ls) + x.price * x.qty
<1>1. /\ Quantity(Append(ls, x), x.item)
            = Quantity(ls, x.item) + (IF x.item = x.item THEN x.qty ELSE 0)
      /\ Due(Append(ls, x)) = Due(ls) + x.price * x.qty
  BY LineAdded
<1>2. Quantity(ls, x.item) \in Int /\ Due(ls) \in Int
  BY AmountsType
<1> QED BY <1>1, <1>2

\* Lines that passed the constraints cost nothing less than 0.
LEMMA DueNatural ==
  ASSUME NEW ls \in Seq(Line), \A k \in DOMAIN ls : ls[k].qty > 0 /\ ls[k].price >= 0
  PROVE  Due(ls) \in Nat
<1>1. Len(ls) \in Nat /\ DOMAIN ls = 1..Len(ls)
  OBVIOUS
<1>2. \A k \in 1..Len(ls) : ls[k].price * ls[k].qty \in Nat
  <2> SUFFICES ASSUME NEW k \in 1..Len(ls) PROVE ls[k].price * ls[k].qty \in Nat
    OBVIOUS
  <2>1. ls[k] \in Line
    OBVIOUS
  <2>2. ls[k].qty \in Nat /\ ls[k].price \in Nat
    BY <1>1, <2>1 DEF Line
  <2>3. \A m, n \in Nat : m * n \in Nat
    OBVIOUS
  <2> QED BY <2>2, <2>3
<1>3. Costs(ls) \in [1..Len(ls) -> Nat]
  BY <1>1, <1>2 DEF Costs
<1>4. Costs(ls) \in Seq(Nat)
  BY <1>1, <1>3
<1> QED BY <1>4, AmountsType, SumSeqNatural

-----------------------------------------------------------------------------
(* What transactions add up.                                                *)

\* A line of the cart is taken.
Collects(r) ==
    /\ Runs(r, "decrement", "order")
    /\ Subtract(r, NextLine(r))
    /\ lines' = [lines EXCEPT ![r] = Append(@, OrderItem(r, NextLine(r)))]
    /\ total' = [total EXCEPT ![r] = AddToTotal(@, NextLine(r), seen[r].price)]

\* A step takes one line, or drops all of a transaction, or neither.
LEMMA TallyForms ==
  ASSUME [Next]_vars
  PROVE  \/ UNCHANGED <<lines, taken, total>>
         \/ \E r \in Requests : Discard(r) \/ Collects(r)
<1> USE DEF workspace
<1>1. ASSUME NEW r \in Requests, Acquire(r) \/ Abort(r) \/ DeadlockVictim(r)
      PROVE  UNCHANGED <<lines, taken, total>> \/ Discard(r)
  BY <1>1 DEF Acquire, Abort, DeadlockVictim, Rollback
<1>2. ASSUME NEW r \in Requests, PlaceOrder(r) \/ ReadPrice(r) \/ InsertOrder(r) \/ Commit(r)
      PROVE  UNCHANGED <<lines, taken, total>> \/ Discard(r)
  BY <1>2 DEF PlaceOrder, ReadPrice, InsertOrder, Commit, Rollback
<1>3. ASSUME NEW r \in Requests, TakeStock(r) PROVE Discard(r) \/ Collects(r)
  BY <1>3 DEF TakeStock, Rollback, Collects
<1>4. ASSUME NEW r \in Requests, \/ ReadItem(r) \/ WriteItem(r) \/ CreateItem(r)
                                 \/ DeleteItem(r) \/ UpdateStatus(r) \/ ListOrderItems(r)
                                 \/ ListOrders(r) \/ AttachItems(r) \/ DeleteUser(r)
      PROVE  UNCHANGED <<lines, taken, total>>
  BY <1>4 DEF ReadItem, WriteItem, CreateItem, DeleteItem, UpdateStatus, ListOrderItems,
              ListOrders, AttachItems, DeleteUser
<1>5. CASE UNCHANGED vars
  BY <1>5 DEF vars
<1> QED BY <1>1, <1>2, <1>3, <1>4, <1>5 DEF Next, Step, Quiescent

\* The sums of a transaction are those of its lines.
LEMMA CountedStep ==
  ASSUME IInv, MoneyInv, [Next]_vars, NEW q \in Requests
  PROVE  Counted(q)'
<1>0. /\ Counted(q)
      /\ lines \in [Requests -> Seq(Line)] /\ taken \in [Requests -> [Items -> Int]]
      /\ total \in [Requests -> Int]
  BY DEF MoneyInv, IInv, TypeOK
<1>1. ASSUME lines'[q] = lines[q], taken'[q] = taken[q], total'[q] = total[q]
      PROVE  Counted(q)'
  BY <1>0, <1>1 DEF Counted
<1>2. ASSUME NEW r \in Requests, Discard(r) PROVE Counted(q)'
  <2>1. CASE q # r
    <3>1. lines'[q] = lines[q] /\ taken'[q] = taken[q] /\ total'[q] = total[q]
      BY <1>0, <1>2, <2>1 DEF Discard
    <3> QED BY <1>1, <3>1
  <2>2. CASE q = r
    <3>1. lines'[q] = <<>> /\ taken'[q] = NothingTaken /\ total'[q] = 0
      BY <1>0, <1>2, <2>2 DEF Discard
    <3>2. 0 \in Nat /\ 0 < Int64
      BY ShopAssumption
    <3>3. Wrap(0) = 0
      BY <3>2, WrapFits
    <3>4. \A i \in Items : taken'[q][i] = Quantity(lines'[q], i)
      BY <3>1, NothingOrdered DEF NothingTaken
    <3>5. total'[q] = Wrap(Due(lines'[q]))
      BY <3>1, <3>3, NothingOrdered
    <3> QED BY <3>4, <3>5 DEF Counted
  <2> QED BY <2>1, <2>2
<1>3. ASSUME NEW r \in Requests, Collects(r) PROVE Counted(q)'
  <2> DEFINE x == OrderItem(r, NextLine(r))
             i0 == NextLine(r).item
             n == NextLine(r).qty
             p == seen[r].price
  <2>1. CASE q # r
    <3>1. lines'[q] = lines[q] /\ taken'[q] = taken[q] /\ total'[q] = total[q]
      BY <1>0, <1>3, <2>1 DEF Collects, Subtract
    <3> QED BY <1>1, <3>1
  <2>2. CASE q = r
    <3>1. NextLine(r) \in [item: Items, qty: Int] /\ p \in Int
      BY <1>3, NextLineType DEF Collects, Runs, At, IInv, TypeOK
    <3>2. i0 \in Items /\ n \in Int
      BY <3>1
    <3>3. x \in Line /\ x.item = i0 /\ x.qty = n /\ x.price = p
      BY <3>1, <3>2 DEF OrderItem, Line
    <3>4. /\ lines'[q] = Append(lines[q], x)
          /\ taken'[q] = [taken[q] EXCEPT ![i0] = @ + n]
          /\ total'[q] = Wrap(total[q] + p * n)
      BY <1>0, <1>3, <2>2 DEF Collects, Subtract, AddToTotal
    <3> HIDE DEF x, i0, n, p
    <3>5. lines[q] \in Seq(Line) /\ taken[q] \in [Items -> Int]
      BY <1>0
    <3>6. ASSUME NEW i \in Items PROVE taken'[q][i] = Quantity(lines'[q], i)
      <4>1. taken[q][i] = Quantity(lines[q], i) /\ taken[q][i] \in Int
        BY <1>0, <3>5 DEF Counted
      <4>2. Quantity(lines'[q], i) = Quantity(lines[q], i) + (IF x.item = i THEN x.qty ELSE 0)
        BY <3>3, <3>4, <3>5, LineAdded
      <4> QED BY <3>2, <3>3, <3>4, <3>5, <4>1, <4>2
    <3>7. total'[q] = Wrap(Due(lines'[q]))
      <4>1. Due(lines[q]) \in Int /\ Due(lines'[q]) = Due(lines[q]) + p * n
        BY <3>3, <3>4, <3>5, CostAdded
      <4>2. total[q] = Wrap(Due(lines[q]))
        BY <1>0 DEF Counted
      <4>3. p * n \in Int
        BY <3>1, <3>2
      <4>4. Wrap(Wrap(Due(lines[q])) + p * n) = Wrap(Due(lines[q]) + p * n)
        BY <4>1, <4>3, WrapAgain
      <4> QED BY <3>4, <4>1, <4>2, <4>4
    <3> QED BY <3>6, <3>7 DEF Counted
  <2> QED BY <2>1, <2>2
<1> QED BY <1>1, <1>2, <1>3, TallyForms

\* The lines of a row that a commit adds have passed the constraints.
LEMMA RowIsCharged ==
  ASSUME IInv, MoneyInv, NEW r \in Requests, Commit(r)
  PROVE  Charged(OrderRow(r)) /\ lines[r] \in Seq(Line)
<1>1. pc[r] = "commit" /\ lines[r] \in Seq(Line) /\ DOMAIN lines[r] = 1..Len(lines[r])
  BY CommitMoves DEF IInv, TypeOK
<1>2. ASSUME NEW k \in DOMAIN lines[r] PROVE lines[r][k].qty > 0 /\ lines[r][k].price >= 0
  <2>1. RowsAccepted(r) /\ ReadsCurrent(r)
    BY <1>1 DEF IInv, Session, InsertsChecked
  <2>2. lines[r][k].item \in Items
    BY LineType
  <2> QED BY <1>1, <2>1, <2>2 DEF RowsAccepted, ReadsCurrent, IInv, TypeOK
<1>3. total[r] = Wrap(Due(lines[r]))
  BY DEF MoneyInv, Counted
<1> QED BY <1>1, <1>2, <1>3 DEF Charged, OrderRow

\* Stored totals stay those of the lines stored.
LEMMA ChargedStep ==
  ASSUME IInv, OrdersInv, MoneyInv, [Next]_vars, NEW o \in orders'
  PROVE  Charged(o)
<1>1. ASSUME NEW p \in orders, Same(p, o) PROVE Charged(o)
  BY <1>1 DEF MoneyInv, Charged, Same
<1>2. ASSUME NEW r \in Requests, Commit(r) PROVE Charged(o)
  BY <1>1, <1>2, RowIsCharged, CommitMoves DEF Same
<1> QED BY <1>1, <1>2, OrdersMove DEF Reworded

-----------------------------------------------------------------------------
(* Stock and sales.                                                         *)

\* Rows that were there at the start stay or are deleted.
LEMMA RowsStayStep ==
  ASSUME IInv, RowsStay, [Next]_vars
  PROVE  RowsStay'
<1>1. ASSUME live' = live PROVE RowsStay'
  BY <1>1 DEF RowsStay
<1>2. ASSUME NEW i \in Items, NEW s \in {"live", "deleted"}, live' = [live EXCEPT ![i] = s]
      PROVE  RowsStay'
  BY <1>2 DEF RowsStay, IInv, TypeOK
<1>3. \/ live' = live
      \/ \E r \in Requests : CreateItem(r) \/ DeleteItem(r)
  BY DEF Next, Step, Acquire, Abort, DeadlockVictim, Quiescent, vars, merchRows, Rollback,
         PlaceOrder, ReadPrice, TakeStock, InsertOrder, Commit, ReadItem, WriteItem,
         UpdateStatus, ListOrderItems, ListOrders, AttachItems, DeleteUser
<1>4. ASSUME NEW r \in Requests, CreateItem(r) PROVE RowsStay'
  BY <1>1, <1>2, <1>4 DEF CreateItem, merchRows
<1>5. ASSUME NEW r \in Requests, DeleteItem(r) PROVE RowsStay'
  <2>1. op[r].item \in Items
    BY <1>5, OpFields DEF DeleteItem, Runs, At, IInv, DeleteOps
  <2> QED BY <1>1, <1>2, <1>5, <2>1 DEF DeleteItem
<1> QED BY <1>1, <1>3, <1>4, <1>5

\* Only commits, edits and creations change stock.
LEMMA StockMoves ==
  ASSUME [Next]_vars
  PROVE  \/ stock' = stock
         \/ \E r \in Requests : Commit(r) \/ WriteItem(r) \/ CreateItem(r)
  BY DEF Next, Step, Acquire, Abort, DeadlockVictim, Quiescent, vars, merchRows, Rollback,
         PlaceOrder, ReadPrice, TakeStock, InsertOrder, ReadItem, DeleteItem,
         UpdateStatus, ListOrderItems, ListOrders, AttachItems, DeleteUser

\* What has been sold of an item according to a set of orders.
SoldIn(os, i) == SumSet([o \in os |-> Quantity(o.lines, i)], os)

\* A quantity is known for every order.
LEMMA SoldType ==
  ASSUME NEW os \in SUBSET Order, IsFiniteSet(os), NEW i
  PROVE  /\ \A o \in os : Quantity(o.lines, i) \in Int
         /\ SoldIn(os, i) \in Int
         /\ os = {} => SoldIn(os, i) = 0
<1>1. ASSUME NEW o \in os PROVE Quantity(o.lines, i) \in Int
  <2>1. o.lines \in Seq(Line)
    BY DEF Order
  <2> QED BY <2>1, AmountsType
<1> DEFINE f == [o \in os |-> Quantity(o.lines, i)]
<1>2. \A o \in os : f[o] \in Int
  BY <1>1
<1> HIDE DEF f
<1>3. SumSet(f, os) \in Int /\ (os = {} => SumSet(f, os) = 0)
  BY <1>2, SumSetType
<1> QED BY <1>1, <1>3 DEF SoldIn, f

\* A commit sells the lines of its transaction.
LEMMA SoldGrows ==
  ASSUME NEW os \in SUBSET Order, IsFiniteSet(os), NEW o \in Order, o \notin os, NEW i
  PROVE  SoldIn(os \cup {o}, i) = SoldIn(os, i) + Quantity(o.lines, i)
<1> DEFINE f == [p \in os |-> Quantity(p.lines, i)]
           g == [p \in os \cup {o} |-> Quantity(p.lines, i)]
<1>1. Quantity(o.lines, i) \in Int
  <2>1. o.lines \in Seq(Line)
    BY DEF Order
  <2> QED BY <2>1, AmountsType
<1>2. g[o] \in Int /\ g[o] = Quantity(o.lines, i)
  BY <1>1
<1>3. \A p \in os : f[p] \in Int /\ g[p] = f[p]
  BY SoldType
<1> HIDE DEF f, g
<1>4. SumSet(g, os \cup {o}) = SumSet(f, os) + g[o]
  <2>1. ASSUME NEW a, NEW b, \A p \in os : a[p] \in Int /\ b[p] = a[p], b[o] \in Int
        PROVE  SumSet(b, os \cup {o}) = SumSet(a, os) + b[o]
    BY <2>1, SumSetGrows
  <2> QED BY <1>2, <1>3, <2>1
<1> QED BY <1>2, <1>4 DEF SoldIn, f, g

\* Orders that are reworded are sold as they were.
LEMMA SoldReworded ==
  ASSUME NEW os \in SUBSET Order, IsFiniteSet(os), NEW ns \in SUBSET Order,
         Reworded(os, ns), \A p, q \in os : p.id = q.id => p = q, NEW i
  PROVE  SoldIn(ns, i) = SoldIn(os, i)
<1> DEFINE f == [o \in os |-> Quantity(o.lines, i)]
           g == [o \in ns |-> Quantity(o.lines, i)]
           b == [o \in os |-> CHOOSE p \in ns : Same(o, p)]
<1>1. ASSUME NEW o \in os PROVE b[o] \in ns /\ Same(o, b[o])
  BY DEF Reworded
<1>2. IsFiniteSet(ns)
  BY DEF Reworded
<1>3. (\A o \in os : f[o] \in Int) /\ (\A o \in ns : g[o] \in Int)
  BY <1>2, SoldType
<1>4. \A o \in os : g[b[o]] = f[o]
  BY <1>1 DEF Same
<1> HIDE DEF b
<1>5. \A o \in os : b[o] \in ns /\ g[b[o]] = f[o]
  BY <1>1, <1>4
<1>6. \A o, p \in os : b[o] = b[p] => o = p
  BY <1>1 DEF Same
<1>7. ns = {b[o] : o \in os}
  <2>1. ASSUME NEW n \in ns PROVE \E o \in os : n = b[o]
    <3>1. PICK o \in os : Same(o, n)
      BY DEF Reworded
    <3>2. n = b[o]
      BY <1>1, <3>1 DEF Reworded, Same
    <3> QED BY <3>2
  <2> QED BY <1>1, <2>1
<1> HIDE DEF f, g
<1>8. SumSet(g, ns) = SumSet(f, os)
  BY <1>2, <1>3, <1>5, <1>6, <1>7, SumSetMapped
<1> QED BY <1>8 DEF SoldIn, f, g

\* What is sold of an item leaves the shelf in the same step.
LEMMA ConservedStep ==
  ASSUME IInv, OrdersInv, MoneyInv, [Next]_vars, NEW i \in Items
  PROVE  \/ stock'[i] + SoldIn(orders', i) = stock[i] + SoldIn(orders, i)
         \/ \E r \in Requests : op[r].kind = "update" /\ op[r].item = i
         \/ Shelf[i].state = "unborn"
<1>0. /\ stock \in [Items -> Int] /\ orders \in SUBSET Order /\ orders' \in SUBSET Order
      /\ IsFiniteSet(orders) /\ SoldIn(orders, i) \in Int
  <2>1. /\ stock \in [Items -> Int] /\ orders \in SUBSET Order /\ IsFiniteSet(orders)
    BY DEF IInv, TypeOK, OrdersInv
  <2>2. orders' \in SUBSET Order
    BY NextIInv DEF IInv, TypeOK
  <2> QED BY <2>1, <2>2, SoldType
<1>1. ASSUME NEW r \in Requests, Commit(r)
      PROVE  stock'[i] + SoldIn(orders', i) = stock[i] + SoldIn(orders, i)
  <2>1. orders' = orders \cup {OrderRow(r)} /\ OrderRow(r) \in Order /\ OrderRow(r) \notin orders
    <3>1. orders' = orders \cup {OrderRow(r)} /\ \A o \in orders : o.id # r
      BY <1>1, CommitMoves, RowIsWhole
    <3> QED BY <1>0, <3>1 DEF OrderRow
  <2>2. SoldIn(orders', i) = SoldIn(orders, i) + Quantity(OrderRow(r).lines, i)
    BY <1>0, <2>1, SoldGrows
  <2>3. /\ OrderRow(r).lines = lines[r] /\ Quantity(lines[r], i) = taken[r][i]
        /\ taken[r][i] \in Int
    BY DEF OrderRow, MoneyInv, Counted, IInv, TypeOK
  <2>4. stock'[i] = stock[i] - taken[r][i]
    BY <1>1 DEF Commit, StockInTx
  <2> QED BY <1>0, <2>2, <2>3, <2>4
<1>2. CASE Reworded(orders, orders')
  <2>1. SoldIn(orders', i) = SoldIn(orders, i)
    BY <1>0, <1>2, SoldReworded DEF OrdersInv, OnePerRequest
  <2>2. CASE stock' = stock
    BY <2>1, <2>2
  <2>3. ASSUME NEW r \in Requests, WriteItem(r)
        PROVE  \/ stock'[i] = stock[i]
               \/ op[r].kind = "update" /\ op[r].item = i
    BY <1>0, <2>3 DEF WriteItem, Runs, At
  <2>4. ASSUME NEW r \in Requests, CreateItem(r)
        PROVE  stock'[i] = stock[i] \/ Shelf[i].state = "unborn"
    <3>1. CASE UNCHANGED merchRows
      BY <3>1 DEF merchRows
    <3>2. CASE \E j \in Items : live[j] = "unborn" /\ stock' = [stock EXCEPT ![j] = op[r].stock]
      BY <1>0, <3>2 DEF MoneyInv, RowsStay
    <3> QED BY <2>4, <3>1, <3>2 DEF CreateItem
  <2> QED BY <1>1, <2>1, <2>2, <2>3, <2>4, StockMoves
<1> QED BY <1>1, <1>2, OrdersMove

\* StockConserved with the sales written out.
Conserved ==
    \A i \in Items :
        (\A r \in Requests : op[r].kind = "update" => op[r].item # i) =>
            (Shelf[i].state # "unborn" => stock[i] + SoldIn(orders, i) = Shelf[i].stock)

\* It says the same.
LEMMA ConservedSays == StockConserved <=> Conserved
  BY DEF StockConserved, Conserved, Sold, SoldIn

\* Shelf and sales together stay what was delivered.
LEMMA StockConservedStep ==
  ASSUME IInv, OrdersInv, MoneyInv, [Next]_vars
  PROVE  StockConserved'
<1>1. op' = op
  BY StepForms, ServesMoves, CommitMoves, ListingMoves DEF Idle, GoesOn, Fails
<1>2. Conserved
  BY ConservedSays DEF MoneyInv
<1>3. Conserved'
  BY <1>1, <1>2, ConservedStep DEF Conserved
<1> QED BY <1>3 DEF StockConserved, Conserved, Sold, SoldIn

\* Nothing is sold and nothing added up at the start.
LEMMA InitMoneyInv == Init => MoneyInv
<1> SUFFICES ASSUME Init PROVE MoneyInv
  OBVIOUS
<1>1. RowsStay
  BY DEF Init, RowsStay
<1>2. Conserved
  <2>1. orders = {} /\ \A i \in Items : stock[i] = Shelf[i].stock /\ Shelf[i].stock \in Nat
    BY ShopAssumption DEF Init
  <2>2. \A i \in Items : SoldIn({}, i) = 0
    <3>1. {} \in SUBSET Order /\ IsFiniteSet({})
      BY FS_EmptySet
    <3> QED BY <3>1, SoldType
  <2> QED BY <2>1, <2>2 DEF Conserved
<1>3. ASSUME NEW r \in Requests PROVE Counted(r)
  <2>1. lines[r] = <<>> /\ taken[r] = NothingTaken /\ total[r] = 0
    BY DEF Init
  <2>2. 0 \in Nat /\ 0 < Int64
    BY ShopAssumption
  <2>3. Wrap(0) = 0
    BY <2>2, WrapFits
  <2> QED BY <2>1, <2>3, NothingOrdered DEF Counted, NothingTaken
<1>4. orders = {}
  BY DEF Init
<1> QED BY <1>1, <1>2, <1>3, <1>4, ConservedSays DEF MoneyInv

\* Every step keeps shelf, sales and sums in agreement.
LEMMA NextMoneyInv == IInv /\ OrdersInv /\ MoneyInv /\ [Next]_vars => MoneyInv'
<1> SUFFICES ASSUME IInv, OrdersInv, MoneyInv, [Next]_vars PROVE MoneyInv'
  OBVIOUS
<1>1. RowsStay'
  BY RowsStayStep DEF MoneyInv
<1>2. \A o \in orders' : Charged(o)
  BY ChargedStep
<1>3. \A o \in orders' : Charged(o)'
  BY <1>2 DEF Charged
<1>4. \A r \in Requests : Counted(r)'
  BY CountedStep
<1> QED BY <1>1, <1>3, <1>4, StockConservedStep DEF MoneyInv

\* Shelf, sales and sums of money always agree.
THEOREM MoneyInvariance == Spec => [](IInv /\ OrdersInv /\ MoneyInv)
<1> QED BY InitIInv, NextIInv, InitOrdersInv, NextOrdersInv, InitMoneyInv, NextMoneyInv,
           PTL DEF Spec

\* Shelf and sales add up to what was delivered, for every item nobody edits.
THEOREM StockIsConserved == Spec => []StockConserved
<1>1. MoneyInv => StockConserved
  BY DEF MoneyInv
<1> QED BY MoneyInvariance, <1>1, PTL

\* A stored total is the sum of its lines unless that does not fit 64 bits.
THEOREM TotalsAreSums == Spec => []TotalIsSum
<1>1. IInv /\ MoneyInv => TotalIsSum
  <2> SUFFICES ASSUME IInv, MoneyInv, NEW o \in orders, Due(o.lines) < Int64
               PROVE  o.total = Due(o.lines)
    BY DEF TotalIsSum
  <2>1. o.lines \in Seq(Line) /\ Charged(o)
    BY DEF IInv, TypeOK, Order, MoneyInv
  <2>2. Due(o.lines) \in Nat
    BY <2>1, DueNatural DEF Charged
  <2> QED BY <2>1, <2>2, WrapFits DEF Charged
<1> QED BY MoneyInvariance, <1>1, PTL

-----------------------------------------------------------------------------
(* Shop implements Till.                                                    *)

\* The abstract sums are the same sums.
LEMMA SameSums ==
  ASSUME NEW ls, NEW i
  PROVE  Register!Wanted(ls, i) = Quantity(ls, i) /\ Register!Owed(ls) = Due(ls)
  BY DEF Register!Wanted, Register!Owed, Register!SumSeq, Quantity, Due, SumSeq

\* A commit sells its cart.
LEMMA CommitSells ==
  ASSUME IInv, OrdersInv, MoneyInv, NEW r \in Requests, Commit(r)
  PROVE  \E o \in orders' : Register!Sell(o)
<1> DEFINE o == OrderRow(r)
<1>1. /\ orders' = orders \cup {o} /\ o.lines = lines[r] /\ o.total = total[r]
      /\ o.id = r /\ o.status = "pending" /\ o.user = op[r].user
      /\ pc[r] = "commit" /\ UNCHANGED <<live, price, people>>
      /\ stock' = [i \in Items |-> StockInTx(r, i)]
  BY CommitMoves DEF OrderRow, Commit
<1>2. o.lines # <<>> /\ \A p \in orders : p.id # o.id
  BY <1>1, RowIsWhole
<1>3. Session(r) /\ Counted(r) /\ RowsAccepted(r) /\ DOMAIN lines[r] = 1..Len(lines[r])
  BY <1>1 DEF IInv, TypeOK, MoneyInv, Session, InsertsChecked
<1>4. o.user \in people \cup {NoOne}
  BY <1>1, <1>3 DEF RowsAccepted
<1>5. ASSUME NEW k \in DOMAIN lines[r]
      PROVE  /\ lines[r][k].qty > 0
             /\ live[lines[r][k].item] = "live"
             /\ lines[r][k].price = price[lines[r][k].item]
  BY <1>3 DEF RowsAccepted, Session, ReadsCurrent, RowInHand
<1>6. \A i \in Items : Quantity(lines[r], i) = taken[r][i]
  BY <1>3 DEF Counted
<1>7. \A i \in Items : taken[r][i] <= stock[i]
  BY <1>3 DEF Session, TakenCovered
<1>8. stock' = [i \in Items |-> stock[i] - Quantity(lines[r], i)]
  BY <1>1, <1>6 DEF StockInTx
<1>9. Due(lines[r]) < Int64 => total[r] = Due(lines[r])
  <2>1. Charged(o) /\ lines[r] \in Seq(Line)
    BY RowIsCharged
  <2>2. Due(lines[r]) \in Nat
    BY <1>1, <2>1, DueNatural DEF Charged
  <2> QED BY <1>1, <2>1, <2>2, WrapFits DEF Charged
<1> HIDE DEF o
<1>10. o \in orders'
  BY <1>1
<1>11. Register!Sell(o)
  BY <1>1, <1>2, <1>4, <1>5, <1>6, <1>7, <1>8, <1>9, SameSums DEF Register!Sell
<1> QED BY <1>10, <1>11

\* An edit delivers, or changes nothing.
LEMMA WriteDelivers ==
  ASSUME IInv, NEW r \in Requests, WriteItem(r)
  PROVE  UNCHANGED Register!till \/ \E i \in Items : Register!Deliver(i)
<1> DEFINE i == op[r].item
           p == Given(op[r].price, seen[r].price)
           s == Given(op[r].stock, seen[r].stock)
<1>1. i \in Items /\ op[r].kind = "update"
  BY OpFields DEF WriteItem, Runs, At, IInv, UpdateOps
<1>2. UNCHANGED <<live, orders, people>>
  BY DEF WriteItem
<1>3. CASE UNCHANGED <<price, stock>>
  BY <1>2, <1>3 DEF Register!till
<1>4. CASE /\ live[i] = "live" /\ p >= 0 /\ s >= 0
           /\ price' = [price EXCEPT ![i] = p]
           /\ stock' = [stock EXCEPT ![i] = s]
  <2>1. /\ live \in [Items -> RowState] /\ price \in [Items -> Nat] /\ stock \in [Items -> Int]
    BY DEF IInv, TypeOK
  <2> HIDE DEF i, p, s
  <2>2. price'[i] = p /\ stock'[i] = s
    BY <1>1, <1>4, <2>1
  <2>3. live' = [live EXCEPT ![i] = "live"]
    BY <1>2, <1>4, <2>1
  <2> QED BY <1>1, <1>2, <1>4, <2>2, <2>3 DEF Register!Deliver
<1> QED BY <1>3, <1>4 DEF WriteItem

\* So does a creation.
LEMMA CreateDelivers ==
  ASSUME IInv, NEW r \in Requests, CreateItem(r)
  PROVE  UNCHANGED Register!till \/ \E i \in Items : Register!Deliver(i)
<1>1. UNCHANGED <<orders, people>>
  BY DEF CreateItem
<1>2. CASE UNCHANGED merchRows
  BY <1>1, <1>2 DEF merchRows, Register!till
<1>3. ASSUME op[r].price >= 0, op[r].stock >= 0, NEW i \in Items, live[i] = "unborn",
             live' = [live EXCEPT ![i] = "live"],
             price' = [price EXCEPT ![i] = op[r].price],
             stock' = [stock EXCEPT ![i] = op[r].stock]
      PROVE  Register!Deliver(i)
  <2>1. price'[i] = op[r].price /\ stock'[i] = op[r].stock
    BY <1>3 DEF IInv, TypeOK
  <2> QED BY <1>1, <1>3, <2>1 DEF Register!Deliver
<1> QED BY <1>2, <1>3 DEF CreateItem

\* A deletion withdraws an item nobody has ordered, or changes nothing.
LEMMA DeleteWithdraws ==
  ASSUME IInv, NEW r \in Requests, DeleteItem(r)
  PROVE  UNCHANGED Register!till \/ \E i \in Items : Register!Withdraw(i)
<1> DEFINE i == op[r].item
<1>1. i \in Items
  BY OpFields DEF DeleteItem, Runs, At, IInv, DeleteOps
<1>2. UNCHANGED <<price, stock, orders, people>>
  BY DEF DeleteItem
<1>3. CASE UNCHANGED live
  BY <1>2, <1>3 DEF Register!till
<1>4. CASE live[i] = "live" /\ ~Referenced(i) /\ live' = [live EXCEPT ![i] = "deleted"]
  <2>1. \A o \in orders : DOMAIN o.lines = 1..Len(o.lines)
    BY DEF IInv, TypeOK, Order
  <2>2. ~Register!Ordered(i)
    BY <1>4, <2>1 DEF Referenced, Register!Ordered
  <2> HIDE DEF i
  <2> QED BY <1>1, <1>2, <1>4, <2>2 DEF Register!Withdraw
<1> QED BY <1>3, <1>4 DEF DeleteItem

\* A status change and a leaving user do what they do in Till.
LEMMA RewordingsMap ==
  ASSUME IInv, NEW r \in Requests, UpdateStatus(r) \/ DeleteUser(r)
  PROVE  \/ UNCHANGED Register!till
         \/ \E o \in orders, s \in Statuses : Register!SetStatus(o, s)
         \/ \E u \in people : Register!Leave(u)
<1>1. CASE UpdateStatus(r)
  <2>1. UNCHANGED <<live, price, stock, people>>
    BY <1>1 DEF UpdateStatus, merchRows
  <2>2. CASE UNCHANGED orders
    BY <2>1, <2>2 DEF Register!till
  <2>3. CASE op[r].status \in Statuses /\ ~UNCHANGED orders
    BY <1>1, <2>1, <2>3 DEF UpdateStatus, Register!SetStatus
  <2> QED BY <1>1, <2>2, <2>3 DEF UpdateStatus, StatusKnown
<1>2. CASE DeleteUser(r)
  <2>1. UNCHANGED <<live, price, stock>>
    BY <1>2 DEF DeleteUser, merchRows
  <2>2. CASE UNCHANGED <<orders, people>>
    BY <2>1, <2>2 DEF Register!till
  <2>3. CASE ~UNCHANGED <<orders, people>>
    BY <1>2, <2>1, <2>3 DEF DeleteUser, Register!Leave, ForgetUser
  <2> QED BY <2>2, <2>3
<1> QED BY <1>1, <1>2

\* Every other step is out of sight.
LEMMA OthersStutter ==
  ASSUME [Next]_vars
  PROVE  \/ UNCHANGED Register!till
         \/ \E r \in Requests : \/ Commit(r) \/ WriteItem(r) \/ CreateItem(r) \/ DeleteItem(r)
                                \/ UpdateStatus(r) \/ DeleteUser(r)
  BY DEF Register!till, Next, Step, Acquire, Abort, DeadlockVictim, Quiescent, vars, merchRows,
         Rollback, PlaceOrder, ReadPrice, TakeStock, InsertOrder, ReadItem, ListOrderItems,
         ListOrders, AttachItems

\* The transactions, statements and locks of Shop do what the steps of Till do.
THEOREM ShopImplementsTill == Spec => ImplementsTill
<1>1. Init => Register!Open
  BY DEF Init, Register!Open
<1>2. IInv /\ OrdersInv /\ MoneyInv /\ [Next]_vars => [Register!Next]_Register!till
  <2> SUFFICES ASSUME IInv, OrdersInv, MoneyInv, [Next]_vars
               PROVE  [Register!Next]_Register!till
    OBVIOUS
  <2> QED BY CommitSells, WriteDelivers, CreateDelivers, DeleteWithdraws, RewordingsMap,
             OthersStutter DEF Register!Next
<1> QED BY <1>1, <1>2, MoneyInvariance, PTL DEF Spec, ImplementsTill, Register!TillSpec

=============================================================================
