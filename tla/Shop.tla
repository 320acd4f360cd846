-------------------------------- MODULE Shop --------------------------------
(***************************************************************************)
(* Merchandise and orders: the handlers of internal/handler/rest/merch.go, *)
(* the services and repositories under them, and the PostgreSQL tables     *)
(* merch_items, orders and order_items they share.                         *)
(*                                                                         *)
(* A request is one HTTP call, served by one goroutine.  What it asks for  *)
(* (op) is fixed when it arrives; when it arrives is the interleaving.     *)
(* Placing an order is a READ COMMITTED transaction of several statements, *)
(* and every statement is a step.  All other handlers run single           *)
(* autocommitted statements.  A statement needs a connection of the pool,  *)
(* and keeps it while it waits for a row lock; a transaction keeps its own *)
(* from BEGIN to the end.                                                  *)
(***************************************************************************)
EXTENDS Integers, Sequences, FiniteSets, Sums

CONSTANTS
    Items,      \* identifiers of merch_items rows
    Requests,   \* HTTP requests; an order carries the identity of its request
    Users,      \* rows of the users table that orders.user_id may reference
    PoolSize,   \* connections of the pgxpool
    Ops,        \* what requests may ask for
    Shelf,      \* the merch_items rows at the start
    NoOne,      \* no lock holder, no user
    NotGiven,   \* a nil field of UpdateMerchItemRequest
    Int64       \* 2^63: total_cents is a Go int64

Statuses == {"pending", "paid", "fulfilled", "cancelled"}

\* The request bodies: PlaceOrderRequest, UpdateMerchItemRequest,
\* CreateMerchItemRequest, and the path parameters of the other handlers.
Cart      == Seq([item: Items, qty: Int])
OrderOps  == [kind: {"order"}, cart: Cart, user: Users \cup {NoOne}]
UpdateOps == [kind: {"update"}, item: Items,
              price: Int \cup {NotGiven}, stock: Int \cup {NotGiven}]
CreateOps == [kind: {"create"}, price: Int, stock: Int]
DeleteOps == [kind: {"delete"}, item: Items]
StatusOps == [kind: {"status"}, order: Requests,
              status: Statuses \cup {"other"}]
ListOps   == [kind: {"list"}]
LeaveOps  == [kind: {"leave"}, user: Users]
Operation == OrderOps \cup UpdateOps \cup CreateOps \cup DeleteOps \cup StatusOps
                \cup ListOps \cup LeaveOps

\* A merch_items row is not there yet, there, or deleted (a UUID never returns).
RowState == {"unborn", "live", "deleted"}

ASSUME ShopAssumption ==
    /\ Ops \subseteq Operation
    /\ Shelf \in [Items -> [state: RowState, price: Nat, stock: Nat]]
    /\ NoOne \notin Requests
    /\ NoOne \notin Users
    /\ NotGiven \notin Int
    /\ Int64 \in Nat \ {0}
    /\ PoolSize \in Nat \ {0}

Line  == [item: Items, qty: Int, price: Int]
Order == [id: Requests, lines: Seq(Line), total: Int, status: Statuses,
          user: Users \cup {NoOne}]

VARIABLES
    live,    \* merch_items: which rows exist
    price,   \* merch_items.price_cents, committed
    stock,   \* merch_items.stock, committed
    lock,    \* the transaction holding each row's FOR UPDATE lock
    orders,  \* orders joined with their order_items, committed
    people,  \* users: which rows exist, committed
    conns,   \* the requests that hold a connection
    op,      \* what each request asks for
    pc,      \* the next statement of each request
    seen,    \* the columns a request has read and still uses
    lines,   \* orderItems of a running transaction
    taken,   \* stock a running transaction has subtracted, per item
    total,   \* totalCents of a running transaction
    page,    \* the orders a listing has read, without items until it has those
    resp     \* HTTP status of the answer, 0 before it

merchRows == <<live, price, stock>>
workspace == <<seen, lines, taken, total, page>>
vars == <<live, price, stock, lock, orders, people, conns, op, pc,
          seen, lines, taken, total, page, resp>>

Labels == {"begin", "line", "decrement", "insert", "commit", "write", "items",
           "attach", "done"}

TypeOK ==
    /\ live   \in [Items -> RowState]
    /\ price  \in [Items -> Nat]
    /\ stock  \in [Items -> Int]
    /\ lock   \in [Items -> Requests \cup {NoOne}]
    /\ orders \subseteq Order
    /\ people \subseteq Users
    /\ conns  \subseteq Requests
    /\ op     \in [Requests -> Ops]
    /\ pc     \in [Requests -> Labels]
    /\ seen   \in [Requests -> [price: Int, stock: Int]]
    /\ lines  \in [Requests -> Seq(Line)]
    /\ taken  \in [Requests -> [Items -> Int]]
    /\ total  \in [Requests -> Int]
    /\ page   \in [Requests -> SUBSET Order]
    /\ resp   \in [Requests -> {0, 200, 201, 204, 400, 404, 500}]

NothingSeen  == [price |-> 0, stock |-> 0]
NothingTaken == [i \in Items |-> 0]

Init ==
    /\ live   = [i \in Items |-> Shelf[i].state]
    /\ price  = [i \in Items |-> Shelf[i].price]
    /\ stock  = [i \in Items |-> Shelf[i].stock]
    /\ lock   = [i \in Items |-> NoOne]
    /\ orders = {}
    /\ people = Users
    /\ conns  = {}
    /\ op     \in [Requests -> Ops]
    /\ pc     = [r \in Requests |-> "begin"]
    /\ seen   = [r \in Requests |-> NothingSeen]
    /\ lines  = [r \in Requests |-> <<>>]
    /\ taken  = [r \in Requests |-> NothingTaken]
    /\ total  = [r \in Requests |-> 0]
    /\ page   = [r \in Requests |-> {}]
    /\ resp   = [r \in Requests |-> 0]

-----------------------------------------------------------------------------
(* How a request ends, and what a transaction sees.                        *)

At(r, label, kind) == pc[r] = label /\ op[r].kind = kind

\* A statement runs on a connection.
Runs(r, label, kind) == At(r, label, kind) /\ r \in conns

\* pgxpool waits for a free connection: before each statement of its own, and
\* before the BEGIN of an order.
Acquire(r) ==
    /\ pc[r] # "done"
    /\ ~At(r, "begin", "order")
    /\ r \notin conns
    /\ Cardinality(conns) < PoolSize
    /\ conns' = conns \cup {r}
    /\ UNCHANGED <<merchRows, lock, orders, people, op, pc, workspace, resp>>

\* The next statement of a transaction; the next statement after one that
\* committed alone, whose connection goes back.
Continue(r, label) ==
    /\ pc' = [pc EXCEPT ![r] = label]
    /\ UNCHANGED <<resp, conns>>

GoTo(r, label) ==
    /\ pc'    = [pc EXCEPT ![r] = label]
    /\ conns' = conns \ {r}
    /\ UNCHANGED resp

Answer(r, status) ==
    /\ pc'    = [pc EXCEPT ![r] = "done"]
    /\ resp'  = [resp EXCEPT ![r] = status]
    /\ conns' = conns \ {r}

\* The acknowledgement of a write that took effect may be lost, or the
\* request's context cancelled: the handler then answers 500 all the same.
AnswerWritten(r, status) == \E s \in {status, 500} : Answer(r, s)

Discard(r) ==
    /\ seen'  = [seen EXCEPT ![r] = NothingSeen]
    /\ lines' = [lines EXCEPT ![r] = <<>>]
    /\ taken' = [taken EXCEPT ![r] = NothingTaken]
    /\ total' = [total EXCEPT ![r] = 0]
    /\ page'  = [page EXCEPT ![r] = {}]

ReleaseLocks(r) == lock' = [i \in Items |-> IF lock[i] = r THEN NoOne ELSE lock[i]]

\* An early return between BEGIN and COMMIT: the deferred tx.Rollback.
Rollback_KeepsLocks(r, status) ==
    /\ Answer(r, status)
    /\ Discard(r)
    /\ UNCHANGED <<merchRows, orders, people, lock, op>>

Rollback(r, status) ==
    /\ Answer(r, status)
    /\ Discard(r)
    /\ ReleaseLocks(r)
    /\ UNCHANGED <<merchRows, orders, people, op>>

NextLine(r)     == op[r].cart[Len(lines[r]) + 1]
RowFree(r, i)   == lock[i] \in {NoOne, r}
StockInTx(r, i) == stock[i] - taken[r][i]

\* Go's int64 arithmetic wraps around.
Wrap(n) == ((n + Int64) % (2 * Int64)) - Int64

-----------------------------------------------------------------------------
(* POST /orders: orderService.PlaceOrder and orderRepository.Create.       *)

PlaceOrder(r) ==
    /\ At(r, "begin", "order")
    /\ IF op[r].cart = <<>> THEN Answer(r, 400) ELSE GoTo(r, "line")
    /\ UNCHANGED <<merchRows, lock, orders, people, op, workspace>>

Statement_OnPool(r) == r \in conns /\ Cardinality(conns) < PoolSize

\* A statement of the transaction runs on the transaction's connection, and
\* does not ask the pool for another.
Statement(r) == r \in conns

LockRow_Skipped(r, i) == UNCHANGED lock

LockRow(r, i) == lock' = [lock EXCEPT ![i] = r]

\* SELECT ... FOR UPDATE: waits for the row lock, then reads the price.
ReadPrice(r) ==
    /\ At(r, "line", "order")
    /\ Statement(r)
    /\ LET i == NextLine(r).item IN
        /\ RowFree(r, i)
        /\ \/ /\ live[i] # "live"
              /\ Rollback(r, 404)
           \/ /\ live[i] = "live"
              /\ LockRow(r, i)
              /\ seen' = [seen EXCEPT ![r].price = price[i]]
              /\ Continue(r, "decrement")
              /\ UNCHANGED <<merchRows, orders, people, op, lines, taken, total, page>>

StockSuffices_Unchecked(r, line) == TRUE

StockSuffices(r, line) == StockInTx(r, line.item) >= line.qty

AddToTotal_PriceOnly(sum, line, cents) == Wrap(sum + cents)

AddToTotal(sum, line, cents) == Wrap(sum + cents * line.qty)

\* The same item may stand on several lines of one cart.
Subtract_Overwrites(r, line) == taken' = [taken EXCEPT ![r][line.item] = line.qty]

Subtract(r, line) == taken' = [taken EXCEPT ![r][line.item] = @ + line.qty]

OrderItem(r, line) == [item |-> line.item, qty |-> line.qty, price |-> seen[r].price]

\* UPDATE merch_items SET stock = stock - $2 WHERE stock >= $2, and the line
\* item with its price snapshot.
TakeStock(r) ==
    /\ Runs(r, "decrement", "order")
    /\ LET line == NextLine(r) IN
        \/ /\ ~StockSuffices(r, line)
           /\ Rollback(r, 400)
        \/ /\ StockSuffices(r, line)
           /\ Subtract(r, line)
           /\ lines' = [lines EXCEPT ![r] = Append(@, OrderItem(r, line))]
           /\ total' = [total EXCEPT ![r] = AddToTotal(@, line, seen[r].price)]
           /\ Continue(r, IF Len(lines[r]) + 1 < Len(op[r].cart)
                          THEN "line" ELSE "insert")
           /\ UNCHANGED <<merchRows, lock, orders, people, op, seen, page>>

\* The constraints of orders and order_items that an INSERT can trip.
RowsAccepted_AnyQuantity(r) == op[r].user \in people \cup {NoOne}

RowsAccepted(r) ==
    /\ op[r].user \in people \cup {NoOne}
    /\ \A k \in 1..Len(lines[r]) : lines[r][k].qty > 0

\* INSERT INTO orders and INSERT INTO order_items; no other session sees the
\* rows before the commit, so they are one step.  The foreign key locks the
\* row of the user against deletion until then.
InsertOrder(r) ==
    /\ Runs(r, "insert", "order")
    /\ \/ /\ RowsAccepted(r)
          /\ Continue(r, "commit")
          /\ UNCHANGED <<merchRows, lock, orders, people, op, workspace>>
       \/ /\ ~RowsAccepted(r)
          /\ Rollback(r, 500)

OrderRow_FirstLine(r) ==
    [id |-> r, lines |-> SubSeq(lines[r], 1, 1), total |-> total[r],
     status |-> "pending", user |-> op[r].user]

\* The lines are kept in the order of the cart, which is a convenience of the
\* model: order_items has no column for a position.
OrderRow(r) ==
    [id |-> r, lines |-> lines[r], total |-> total[r],
     status |-> "pending", user |-> op[r].user]

\* The commit publishes everything at once.
Commit(r) ==
    /\ Runs(r, "commit", "order")
    /\ stock'  = [i \in Items |-> StockInTx(r, i)]
    /\ orders' = orders \cup {OrderRow(r)}
    /\ ReleaseLocks(r)
    /\ Discard(r)
    /\ AnswerWritten(r, 201)
    /\ UNCHANGED <<live, price, people, op>>

-----------------------------------------------------------------------------
(* PUT, POST and DELETE on /admin/merch.                                   *)

Given(new, old) == IF new = NotGiven THEN old ELSE new

\* GetByID in merchService.UpdateItem and again in merchItemRepository.Update;
\* only the second result is used.
ReadItem(r) ==
    /\ Runs(r, "begin", "update")
    /\ LET i == op[r].item IN
        \/ /\ live[i] # "live"
           /\ Answer(r, 404)
           /\ UNCHANGED seen
        \/ /\ live[i] = "live"
           /\ seen' = [seen EXCEPT ![r] = [price |-> price[i], stock |-> stock[i]]]
           /\ GoTo(r, "write")
    /\ UNCHANGED <<merchRows, lock, orders, people, op, lines, taken, total, page>>

\* UPDATE merch_items SET every column WHERE id: waits for the row lock, finds
\* no row if it has been deleted meanwhile, fails on the CHECK constraints.
WriteItem(r) ==
    /\ Runs(r, "write", "update")
    /\ LET i == op[r].item
           p == Given(op[r].price, seen[r].price)
           s == Given(op[r].stock, seen[r].stock)
       IN
        /\ RowFree(r, i)
        /\ \/ /\ live[i] # "live"
              /\ Answer(r, 404)
              /\ UNCHANGED <<price, stock>>
           \/ /\ live[i] = "live"
              /\ p < 0 \/ s < 0
              /\ Answer(r, 500)
              /\ UNCHANGED <<price, stock>>
           \/ /\ live[i] = "live"
              /\ p >= 0 /\ s >= 0
              /\ price' = [price EXCEPT ![i] = p]
              /\ stock' = [stock EXCEPT ![i] = s]
              /\ AnswerWritten(r, 200)
    /\ seen' = [seen EXCEPT ![r] = NothingSeen]
    /\ UNCHANGED <<live, lock, orders, people, op, lines, taken, total, page>>

\* uuid.New() never returns an identifier that has been in use.
CreateItem(r) ==
    /\ Runs(r, "begin", "create")
    /\ \/ /\ op[r].price < 0 \/ op[r].stock < 0
          /\ Answer(r, 500)
          /\ UNCHANGED merchRows
       \/ /\ op[r].price >= 0 /\ op[r].stock >= 0
          /\ \E i \in Items :
                /\ live[i] = "unborn"
                /\ live'  = [live EXCEPT ![i] = "live"]
                /\ price' = [price EXCEPT ![i] = op[r].price]
                /\ stock' = [stock EXCEPT ![i] = op[r].stock]
          /\ AnswerWritten(r, 201)
    /\ UNCHANGED <<lock, orders, people, op, workspace>>

\* order_items.merch_item_id REFERENCES merch_items without ON DELETE.
Referenced_Ignored(i) == FALSE

Referenced(i) == \E o \in orders : \E k \in 1..Len(o.lines) : o.lines[k].item = i

DeleteItem(r) ==
    /\ Runs(r, "begin", "delete")
    /\ LET i == op[r].item IN
        /\ RowFree(r, i)
        /\ \/ /\ live[i] # "live"
              /\ Answer(r, 404)
              /\ UNCHANGED live
           \/ /\ live[i] = "live"
              /\ Referenced(i)
              /\ Answer(r, 500)
              /\ UNCHANGED live
           \/ /\ live[i] = "live"
              /\ ~Referenced(i)
              /\ live' = [live EXCEPT ![i] = "deleted"]
              /\ AnswerWritten(r, 204)
    /\ UNCHANGED <<price, stock, lock, orders, people, op, workspace>>

-----------------------------------------------------------------------------
(* PUT /admin/orders/:id/status, GET /admin/orders, and DELETE /users/:id. *)

StatusKnown_Anything(status) == TRUE

\* orders.status is of the ENUM type order_status.
StatusKnown(status) == status \in Statuses

UpdateStatus(r) ==
    /\ Runs(r, "begin", "status")
    /\ \/ /\ ~StatusKnown(op[r].status)
          /\ Answer(r, 500)
          /\ UNCHANGED orders
       \/ /\ StatusKnown(op[r].status)
          /\ \A o \in orders : o.id # op[r].order
          /\ Answer(r, 404)
          /\ UNCHANGED orders
       \/ /\ StatusKnown(op[r].status)
          /\ \E o \in orders :
                /\ o.id = op[r].order
                /\ orders' = (orders \ {o}) \cup {[o EXCEPT !.status = op[r].status]}
          /\ GoTo(r, "items")
    /\ UNCHANGED <<merchRows, lock, people, op, workspace>>

\* listOrderItems, a statement of its own, for the answer.
ListOrderItems(r) ==
    /\ Runs(r, "items", "status")
    /\ Answer(r, 200)
    /\ UNCHANGED <<merchRows, lock, orders, people, op, workspace>>

\* SELECT FROM orders; the items follow, one statement for each order.
ListOrders(r) ==
    /\ Runs(r, "begin", "list")
    /\ page' = [page EXCEPT ![r] = {[o EXCEPT !.lines = <<>>] : o \in orders}]
    /\ IF orders = {} THEN Answer(r, 200) ELSE GoTo(r, "attach")
    /\ UNCHANGED <<merchRows, lock, orders, people, op, seen, lines, taken, total>>

Bare_LastForgotten(r) == Cardinality({o \in page[r] : o.lines = <<>>}) > 2

\* Some order other than the one at hand still lacks its items.
Bare(r) == Cardinality({o \in page[r] : o.lines = <<>>}) > 1

\* listOrderItems; its SELECT promises no order, and the model keeps that of the cart.
AttachItems(r) ==
    /\ Runs(r, "attach", "list")
    /\ \E o \in page[r], p \in orders :
        /\ o.lines = <<>>
        /\ p.id = o.id
        /\ page' = [page EXCEPT ![r] = (@ \ {o}) \cup {[o EXCEPT !.lines = p.lines]}]
    /\ IF Bare(r) THEN GoTo(r, "attach") ELSE Answer(r, 200)
    /\ UNCHANGED <<merchRows, lock, orders, people, op, seen, lines, taken, total>>

UserFree_Ignored(u) == TRUE

\* No open transaction has inserted an order of this user.
UserFree(u) == \A q \in Requests : pc[q] = "commit" => op[q].user # u

\* orders.user_id REFERENCES users ON DELETE SET NULL.
ForgetUser(u) ==
    orders' = {IF o.user = u THEN [o EXCEPT !.user = NoOne] ELSE o : o \in orders}

DeleteUser(r) ==
    /\ Runs(r, "begin", "leave")
    /\ LET u == op[r].user IN
        /\ UserFree(u)
        /\ \/ /\ u \notin people
              /\ Answer(r, 404)
              /\ UNCHANGED <<orders, people>>
           \/ /\ u \in people
              /\ people' = people \ {u}
              /\ ForgetUser(u)
              /\ AnswerWritten(r, 204)
    /\ UNCHANGED <<merchRows, lock, op, workspace>>

-----------------------------------------------------------------------------
(* Failures.                                                               *)

\* A statement fails, the client goes away (which cancels the request's
\* context) or the process dies.  What has been committed stays.
Abort(r) ==
    /\ pc[r] # "done"
    /\ Rollback(r, 500)

\* PostgreSQL aborts one transaction of a cycle of lock waits.
Blocked(r) == At(r, "line", "order") /\ ~RowFree(r, NextLine(r).item)
WaitsFor(r) == lock[NextLine(r).item]

Deadlocked(r) ==
    \E S \in SUBSET Requests :
        /\ r \in S
        /\ \A s \in S : Blocked(s) /\ WaitsFor(s) \in S
        /\ \A s \in S : \E t \in S : WaitsFor(t) = s

DeadlockVictim(r) ==
    /\ Deadlocked(r)
    /\ Rollback(r, 500)

\* Every request has been answered.
Quiescent ==
    /\ \A r \in Requests : pc[r] = "done"
    /\ UNCHANGED vars

Step(r) ==
    \/ PlaceOrder(r) \/ ReadPrice(r) \/ TakeStock(r) \/ InsertOrder(r) \/ Commit(r)
    \/ ReadItem(r) \/ WriteItem(r) \/ CreateItem(r) \/ DeleteItem(r)
    \/ UpdateStatus(r) \/ ListOrderItems(r) \/ ListOrders(r) \/ AttachItems(r)
    \/ DeleteUser(r)

Next ==
    \/ \E r \in Requests : Step(r) \/ Acquire(r) \/ Abort(r) \/ DeadlockVictim(r)
    \/ Quiescent

Spec == Init /\ [][Next]_vars

\* A goroutine that can run does; the pool serves its waiters in order, and so
\* does PostgreSQL with the waiters for a row lock, which are enabled and
\* disabled again as the lock changes hands; it looks for deadlocks after
\* deadlock_timeout.
FairSpec ==
    /\ Spec
    /\ \A r \in Requests :
        /\ SF_vars(Step(r))
        /\ SF_vars(Acquire(r))
        /\ WF_vars(DeadlockVictim(r))

-----------------------------------------------------------------------------
(* What the shop promises.                                                 *)

Quantity(ls, i) == SumSeq([k \in DOMAIN ls |-> IF ls[k].item = i THEN ls[k].qty ELSE 0])

Due(ls) == SumSeq([k \in DOMAIN ls |-> ls[k].price * ls[k].qty])

Sold(i) == SumSet([o \in orders |-> Quantity(o.lines, i)], orders)

\* Stock never goes below zero, whatever orders and edits interleave, although
\* a transaction subtracts from a value read before it commits.
StockNonNegative == \A i \in Items : stock[i] >= 0

\* What is on the shelf and what has been sold add up to what was delivered,
\* for every item that no administrator edits: orders that fail half-way
\* through the cart leave no trace, and none is subtracted twice.
StockConserved ==
    \A i \in Items :
        (\A r \in Requests : op[r].kind = "update" => op[r].item # i) =>
            (Shelf[i].state # "unborn" => stock[i] + Sold(i) = Shelf[i].stock)

\* Only an administrator's PUT (or the creation of the row) raises stock: an
\* order with a negative quantity subtracts it inside its transaction, and is
\* stopped only when the line items are inserted.
RestockIsAdmin ==
    \A i \in Items : stock'[i] > stock[i] =>
        \E r \in Requests : /\ pc[r] # "done" /\ pc'[r] = "done"
                            /\ op[r].kind \in {"update", "create"}

OnlyAdminsRestock == [][RestockIsAdmin]_vars

\* The price snapshot of every line of a new order is the price the item has
\* when the order commits: the row lock keeps price edits out in between.
NewOrderIsPriced ==
    \A o \in orders' : (\A p \in orders : p.id # o.id) =>
        \A k \in DOMAIN o.lines : o.lines[k].price = price[o.lines[k].item]

PricedAtCommit == [][NewOrderIsPriced]_vars

\* The stored total is the sum of the stored line items whenever that sum fits
\* a signed 64-bit integer (intermediate overflows cancel out).
TotalIsSum ==
    \A o \in orders : Due(o.lines) < Int64 => o.total = Due(o.lines)

\* An item that some order contains is never deleted, even when the DELETE
\* races the order's transaction.
OrderedItemsExist ==
    \A o \in orders : \A k \in DOMAIN o.lines : live[o.lines[k].item] = "live"

\* 201 means that the whole cart is stored once, a row of order_items for every
\* line of the cart; a 4xx answer to an order means that nothing is.  (500 promises
\* neither.)
AnsweredHonestly ==
    \A r \in Requests : op[r].kind = "order" =>
        LET mine == {o \in orders : o.id = r} IN
        /\ resp[r] = 201 =>
              \E o \in mine :
                  /\ mine = {o}
                  /\ Len(o.lines) = Len(op[r].cart)
                  /\ \A k \in DOMAIN o.lines :
                        /\ o.lines[k].item = op[r].cart[k].item
                        /\ o.lines[k].qty = op[r].cart[k].qty
        /\ resp[r] \in {400, 404} => mine = {}

\* An order refers to a user who exists or to nobody, although users are deleted
\* while orders of theirs are on the way.
OrderUsersExist == \A o \in orders : o.user \in people \cup {NoOne}

\* A listing is read in many statements while orders are placed and changed and
\* users deleted; each order on it comes with all its lines and its total.
ListedWhole ==
    \A r \in Requests : op[r].kind = "list" /\ resp[r] = 200 =>
        \A o \in page[r] : \E p \in orders :
            /\ p.id = o.id
            /\ p.lines = o.lines
            /\ p.total = o.total

\* Seen from the committed tables, everything happens at once: an order is sold
\* whole at its commit or not at all, at current prices out of current stock.
Register == INSTANCE Till WITH MaxTotal <- Int64

ImplementsTill == Register!TillSpec

\* Every request is answered: no transaction that ends in an early return
\* leaves a lock or a connection behind, cycles of waiting orders are broken,
\* and no transaction waits for a second connection while it holds one.
EveryRequestAnswered == \A r \in Requests : <>(pc[r] = "done")

-----------------------------------------------------------------------------
(* What the documentation says and the code does not do.                   *)

\* api/openapi.yaml: "Only provided fields are updated."  (UpdateMerchItem)
OnlyProvidedFieldsUpdated ==
    [][\A r \in Requests : At(r, "write", "update") /\ resp'[r] = 200 =>
          LET i == op[r].item IN
          /\ op[r].stock = NotGiven => stock'[i] = stock[i]
          /\ op[r].price = NotGiven => price'[i] = price[i]]_vars

=============================================================================
