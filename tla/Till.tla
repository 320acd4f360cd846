-------------------------------- MODULE Till --------------------------------
(* What the shop promises, without transactions, statements or locks: every *)
(* change of the committed tables is one step, and a sale is the whole cart *)
(* or nothing.  Shop is shown to implement it.                              *)
EXTENDS Integers, Sequences, Sums

CONSTANTS Items, Users, NoOne, Statuses, MaxTotal

VARIABLES
    live,    \* which items are there
    price,
    stock,
    orders,  \* what has been sold
    people   \* the users there are

till == <<live, price, stock, orders, people>>

Wanted(ls, i) == SumSeq([k \in DOMAIN ls |-> IF ls[k].item = i THEN ls[k].qty ELSE 0])

Owed(ls) == SumSeq([k \in DOMAIN ls |-> ls[k].price * ls[k].qty])

Open ==
    /\ orders = {}
    /\ people = Users

\* The cart is sold as a whole: at the prices of this moment, out of the stock
\* of this moment, to a user who exists or to nobody.
Sell(o) ==
    /\ \A p \in orders : p.id # o.id
    /\ orders' = orders \cup {o}
    /\ o.status = "pending"
    /\ o.user \in people \cup {NoOne}
    /\ o.lines # <<>>
    /\ \A k \in DOMAIN o.lines : LET line == o.lines[k] IN
        /\ line.qty > 0
        /\ live[line.item] = "live"
        /\ line.price = price[line.item]
    /\ \A i \in Items : Wanted(o.lines, i) <= stock[i]
    /\ stock' = [i \in Items |-> stock[i] - Wanted(o.lines, i)]
    /\ Owed(o.lines) < MaxTotal => o.total = Owed(o.lines)
    /\ UNCHANGED <<live, price, people>>

\* Administration of one item; a deleted item never returns, and an ordered one
\* is never deleted.
Ordered(i) == \E o \in orders : \E k \in DOMAIN o.lines : o.lines[k].item = i

Deliver(i) ==
    /\ live[i] \in {"unborn", "live"}
    /\ live'  = [live EXCEPT ![i] = "live"]
    /\ price' = [price EXCEPT ![i] = price'[i]] /\ price'[i] >= 0
    /\ stock' = [stock EXCEPT ![i] = stock'[i]] /\ stock'[i] >= 0
    /\ UNCHANGED <<orders, people>>

Withdraw(i) ==
    /\ live[i] = "live" /\ ~Ordered(i)
    /\ live' = [live EXCEPT ![i] = "deleted"]
    /\ UNCHANGED <<price, stock, orders, people>>

\* Nothing about a sale ever changes but its status, and its user on leaving.
SetStatus(o, s) ==
    /\ orders' = (orders \ {o}) \cup {[o EXCEPT !.status = s]}
    /\ UNCHANGED <<live, price, stock, people>>

Leave(u) ==
    /\ people' = people \ {u}
    /\ orders' = {IF o.user = u THEN [o EXCEPT !.user = NoOne] ELSE o : o \in orders}
    /\ UNCHANGED <<live, price, stock>>

Next ==
    \/ \E o \in orders' : Sell(o)
    \/ \E i \in Items : Deliver(i) \/ Withdraw(i)
    \/ \E o \in orders, s \in Statuses : SetStatus(o, s)
    \/ \E u \in people : Leave(u)

TillSpec == Open /\ [][Next]_till

=============================================================================
