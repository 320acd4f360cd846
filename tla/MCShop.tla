------------------------------- MODULE MCShop -------------------------------
(* Small instances of Shop for TLC.                                         *)
EXTENDS ShopInvariant, TLC

CONSTANTS mug, cap, new, r1, r2, r3, bob, none, nil

MCItems == {mug, cap, new}

\* Two mugs and one cap; `new` is the identifier a creation will draw.
MCShelf ==
    (mug :> [state |-> "live",   price |-> 3, stock |-> 2]) @@
    (cap :> [state |-> "live",   price |-> 2, stock |-> 1]) @@
    (new :> [state |-> "unborn", price |-> 0, stock |-> 0])

OneLine(i, n) == <<[item |-> i, qty |-> n]>>

OrderFor(cart, user) == [kind |-> "order", cart |-> cart, user |-> user]

\* Carts that race for the last pieces, name the same item twice, lock in
\* opposite orders, ask for too much, for nothing, for a missing item, and for
\* a negative quantity.
Carts == {OneLine(mug, 1) \o OneLine(cap, 1), OneLine(cap, 1) \o OneLine(mug, 1),
          OneLine(mug, 1) \o OneLine(mug, 1), OneLine(mug, 1) \o OneLine(cap, -1)}

OddCarts == {<<>>, OneLine(mug, 3), OneLine(mug, 2) \o OneLine(new, 1)}

Edit(i, p, s) == [kind |-> "update", item |-> i, price |-> p, stock |-> s]

Orders == {OrderFor(c, none) : c \in Carts}

OddOrders == {OrderFor(c, none) : c \in OddCarts} \cup {OrderFor(OneLine(cap, 1), bob)}

Edits == {Edit(mug, 4, nil), Edit(mug, nil, 3)}

Deletes == {[kind |-> "delete", item |-> cap]}

Creates == {[kind |-> "create", price |-> 0, stock |-> 1]}

StatusChanges == {[kind |-> "status", order |-> r, status |-> s] :
                    r \in Requests, s \in {"cancelled", "other"}}

BadEdits == {Edit(mug, -1, nil), [kind |-> "create", price |-> 1, stock |-> -1]}

\* DELETE /users/:id and GET /admin/orders.
Leaves   == {[kind |-> "leave", user |-> bob]}
Listings == {[kind |-> "list"]}

OpsAll      == Orders \cup Edits \cup OddOrders \cup Deletes \cup Creates
                  \cup StatusChanges \cup BadEdits \cup Leaves \cup Listings
OpsLiveness == {OrderFor(OneLine(mug, 1) \o OneLine(cap, 1), none),
                OrderFor(OneLine(cap, 1) \o OneLine(mug, 1), none)}
               \cup {Edit(mug, nil, 3)} \cup Deletes
OpsEditing  == Orders \cup {Edit(mug, 4, nil)}

RequestSymmetry == Permutations(Requests)

=============================================================================
