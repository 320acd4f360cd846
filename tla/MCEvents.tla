------------------------------ MODULE MCEvents ------------------------------
(* Small instances of Events for TLC.                                       *)
EXTENDS Events, TLC

CONSTANTS gig, x, y, mon, tue, jazz, folk, r1, r2, r3, r4, nil, unborn, removed, nothing

\* One event on Monday; two identifiers that creations will draw.
MCIds     == {gig, x, y}
MCPlanned == (gig :> [day |-> mon, title |-> jazz]) @@ [e \in {x, y} |-> unborn]

Creation(d, t)  == [kind |-> "create", day |-> d, title |-> t]
Edit(e, d, t)   == [kind |-> "update", event |-> e, day |-> d, title |-> t]
Deletion(e)     == [kind |-> "delete", event |-> e]

OpsPlanning ==
    {Creation(d, folk) : d \in {mon, tue}} \cup
    {Edit(gig, tue, nil), Edit(gig, nil, folk), Edit(x, mon, folk)} \cup
    {Deletion(gig), Deletion(x)}

RequestSymmetry == Permutations(Requests)

=============================================================================
