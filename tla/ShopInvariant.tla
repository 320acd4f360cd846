--------------------------- MODULE ShopInvariant ---------------------------
(* The inductive invariant behind the safety properties of Shop.            *)
EXTENDS Shop

TxLabels == {"line", "decrement", "insert", "commit"}

\* Only an open transaction holds locks, and only of rows that are there.
LocksInTx ==
    \A i \in Items : lock[i] # NoOne => pc[lock[i]] \in TxLabels /\ live[i] = "live"

\* Each label belongs to one kind of request.
LabelMatches(r) ==
    /\ pc[r] \in TxLabels => op[r].kind = "order"
    /\ pc[r] = "write" => op[r].kind = "update"
    /\ pc[r] = "items" => op[r].kind = "status"
    /\ pc[r] = "attach" => op[r].kind = "list"

\* The rows an order refers to are there.
OrdersRefer == OrderedItemsExist /\ OrderUsersExist

\* While the loop over the cart runs there is a line left to do.
LineLeft(r) ==
    pc[r] \in {"line", "decrement"} => Len(lines[r]) < Len(op[r].cart)

\* A transaction holds the lock of every row it has read, the row is there,
\* and what it remembers of it is current.
RowInHand(r, i) == lock[i] = r /\ live[i] = "live"

ReadsCurrent(r) ==
    /\ \A k \in DOMAIN lines[r] :
          /\ RowInHand(r, lines[r][k].item)
          /\ lines[r][k].price = price[lines[r][k].item]
    /\ pc[r] = "decrement" =>
          /\ RowInHand(r, NextLine(r).item)
          /\ seen[r].price = price[NextLine(r).item]

\* What it has subtracted belongs to rows it has locked, is covered by the
\* committed stock, and is not negative as long as no quantity is.
TakenCovered(r) ==
    \A i \in Items :
        /\ taken[r][i] # 0 => lock[i] = r
        /\ taken[r][i] <= stock[i]
        /\ (\A k \in DOMAIN lines[r] : lines[r][k].qty > 0) => taken[r][i] >= 0

\* The INSERTs have passed the constraints.
InsertsChecked(r) == pc[r] = "commit" => RowsAccepted(r)

Session(r) ==
    /\ LabelMatches(r)
    /\ LineLeft(r)
    /\ ReadsCurrent(r)
    /\ TakenCovered(r)
    /\ InsertsChecked(r)

IInv ==
    /\ TypeOK
    /\ LocksInTx
    /\ StockNonNegative
    /\ OrdersRefer
    /\ \A r \in Requests : Session(r)

-----------------------------------------------------------------------------
(* What the orders table and the answers say.                               *)

Same(o, p) == o.id = p.id /\ o.lines = p.lines /\ o.total = p.total

\* Line items are those of a cart, from its beginning.
Follows(ls, cart) ==
    \A k \in DOMAIN ls : ls[k].item = cart[k].item /\ ls[k].qty = cart[k].qty

\* A transaction has done a part of its cart, all of it when it inserts, and
\* nothing is left of it afterwards.
Filled(r) ==
    /\ pc[r] \in TxLabels =>
          /\ op[r].cart # <<>>
          /\ Follows(lines[r], op[r].cart)
    /\ pc[r] \in {"insert", "commit"} => Len(lines[r]) = Len(op[r].cart)
    /\ pc[r] \notin TxLabels => lines[r] = <<>>

\* An answer is given once, and 201 to an order only with its row.
Answered(r) ==
    /\ pc[r] # "done" => resp[r] = 0
    /\ op[r].kind = "order" /\ resp[r] = 201 => \E o \in orders : o.id = r

\* A stored order is the whole cart of a request that has ended.
Stored(o) ==
    /\ op[o.id].kind = "order" /\ pc[o.id] = "done" /\ resp[o.id] \in {201, 500}
    /\ o.lines # <<>>
    /\ Len(o.lines) = Len(op[o.id].cart) /\ Follows(o.lines, op[o.id].cart)

OnePerRequest == \A o, p \in orders : o.id = p.id => o = p

\* An order on a listing is stored, and has its lines or none yet; none lacks
\* them when the listing is answered.
Listing(r) ==
    /\ IsFiniteSet(page[r])
    /\ \A o \in page[r] : \E p \in orders :
          p.id = o.id /\ p.total = o.total /\ o.lines \in {<<>>, p.lines}
    /\ op[r].kind = "list" /\ resp[r] = 200 => \A o \in page[r] : o.lines # <<>>

OrdersInv ==
    /\ IsFiniteSet(orders)
    /\ OnePerRequest
    /\ \A o \in orders : Stored(o)
    /\ \A r \in Requests : Filled(r) /\ Answered(r) /\ Listing(r)

-----------------------------------------------------------------------------
(* Quantities and sums of money.                                            *)

\* A transaction has subtracted the quantities of its lines and added up what
\* they cost, as far as 64 bits go.
Counted(r) ==
    /\ \A i \in Items : taken[r][i] = Quantity(lines[r], i)
    /\ total[r] = Wrap(Due(lines[r]))

\* So has a stored order, whose lines passed the constraints.
Charged(o) ==
    /\ \A k \in DOMAIN o.lines : o.lines[k].qty > 0 /\ o.lines[k].price >= 0
    /\ o.total = Wrap(Due(o.lines))

\* A row that was there at the start never returns to where creations draw from.
RowsStay == \A i \in Items : Shelf[i].state # "unborn" => live[i] # "unborn"

MoneyInv ==
    /\ RowsStay
    /\ StockConserved
    /\ \A o \in orders : Charged(o)
    /\ \A r \in Requests : Counted(r)

=============================================================================
