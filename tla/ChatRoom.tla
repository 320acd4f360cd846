----------------------------- MODULE ChatRoom ------------------------------
(* What the WebSocket chat promises: one log of messages, in which every    *)
(* message stands once, and for each client a feed that repeats the log     *)
(* from the point where the client joined, in order and without gaps.       *)
EXTENDS Naturals, Sequences

CONSTANTS
    Clients,    \* connections
    Messages,   \* what clients may post
    NotJoined   \* the start of a client that has not joined; no number

VARIABLES
    log,        \* messages in the order of the room
    start,      \* the length of the log when a client joined
    feed        \* what each client has been sent

room == <<log, start, feed>>

RoomInit ==
    /\ log   = <<>>
    /\ start = [c \in Clients |-> NotJoined]
    /\ feed  = [c \in Clients |-> <<>>]

Join(c) ==
    /\ start[c] = NotJoined
    /\ start' = [start EXCEPT ![c] = Len(log)]
    /\ UNCHANGED <<log, feed>>

Post(m) ==
    /\ \A k \in DOMAIN log : log[k] # m
    /\ log' = Append(log, m)
    /\ UNCHANGED <<start, feed>>

Deliver(c) ==
    /\ start[c] # NotJoined
    /\ LET next == start[c] + Len(feed[c]) + 1 IN
        /\ next <= Len(log)
        /\ feed' = [feed EXCEPT ![c] = Append(@, log[next])]
    /\ UNCHANGED <<log, start>>

RoomNext ==
    \/ \E c \in Clients : Join(c) \/ Deliver(c)
    \/ \E m \in Messages : Post(m)

RoomSpec == RoomInit /\ [][RoomNext]_room

=============================================================================
