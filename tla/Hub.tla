-------------------------------- MODULE Hub ---------------------------------
(* The WebSocket chat: the event loop of internal/handler/ws/hub.go and the *)
(* two goroutines per connection of internal/handler/ws/chat.go.            *)
(*                                                                          *)
(* A client is one connection; a peer that reconnects is another client.    *)
(* Channel operations, socket reads and socket writes are the steps.        *)
EXTENDS Naturals, Sequences, FiniteSets

CONSTANTS
    Clients,        \* connections
    BroadcastCap,   \* capacity of Hub.broadcast (256)
    SendCap,        \* capacity of Client.send (256)
    MaxSent,        \* bound: how many messages each peer sends
    NoMsg,          \* a goroutine holds no message
    NotJoined       \* a client that has not been registered

ASSUME HubAssumption ==
    /\ BroadcastCap \in Nat \ {0}
    /\ SendCap \in Nat \ {0}
    /\ MaxSent \in [Clients -> Nat]
    /\ NotJoined \notin Nat

\* Peers number their messages; the code never looks inside one.
Message == [from: Clients, n: Nat \ {0}]

AllMessages == UNION {[from: {c}, n: 1..MaxSent[c]] : c \in Clients}

ASSUME NoMsgAssumption == NoMsg \notin Message

VARIABLES
    clients,    \* Hub.clients
    broadcast,  \* Hub.broadcast
    current,    \* the message the hub is handing out
    todo,       \* the clients it has not offered it to yet
    send,       \* Client.send: what is buffered
    closed,     \* Client.send: closed by the hub
    reader,     \* where ServeWS and readPump are
    out,        \* the message readPump is about to enqueue
    writer,     \* where writePump is
    held,       \* the message writePump is writing
    open,       \* the server has not closed the connection
    peer,       \* the other end
    panicked,   \* a closed channel was closed or sent to
    log,        \* history: messages in the order the hub took them
    joined,     \* history: length of the log at registration
    written,    \* history: messages written to the socket
    sent        \* history: how many messages the peer has sent

hubVars    == <<clients, broadcast, current, todo>>
chanVars   == <<send, closed, panicked>>
readerVars == <<reader, out>>
writerVars == <<writer, held>>
history    == <<log, joined, written, sent>>
vars == <<hubVars, chanVars, readerVars, writerVars, open, peer, history>>

ReaderStates == {"idle", "registering", "reading", "broadcasting",
                 "unregistering", "closing", "done"}
WriterStates == {"none", "ranging", "writing", "done"}

TypeOK ==
    /\ clients   \subseteq Clients
    /\ broadcast \in Seq(Message) /\ Len(broadcast) <= BroadcastCap
    /\ current   \in Message \cup {NoMsg}
    /\ todo      \subseteq clients
    /\ send      \in [Clients -> Seq(Message)]
    /\ \A c \in Clients : Len(send[c]) <= SendCap
    /\ closed    \in [Clients -> BOOLEAN]
    /\ reader    \in [Clients -> ReaderStates]
    /\ out       \in [Clients -> Message \cup {NoMsg}]
    /\ writer    \in [Clients -> WriterStates]
    /\ held      \in [Clients -> Message \cup {NoMsg}]
    /\ open      \in [Clients -> BOOLEAN]
    /\ peer      \in [Clients -> {"up", "stalled", "gone"}]
    /\ panicked  \in BOOLEAN
    /\ log       \in Seq(Message)
    /\ joined    \in [Clients -> Nat \cup {NotJoined}]
    /\ written   \in [Clients -> Seq(Message)]
    /\ sent      \in [Clients -> Nat]

Init ==
    /\ clients   = {}
    /\ broadcast = <<>>
    /\ current   = NoMsg
    /\ todo      = {}
    /\ send      = [c \in Clients |-> <<>>]
    /\ closed    = [c \in Clients |-> FALSE]
    /\ reader    = [c \in Clients |-> "idle"]
    /\ out       = [c \in Clients |-> NoMsg]
    /\ writer    = [c \in Clients |-> "none"]
    /\ held      = [c \in Clients |-> NoMsg]
    /\ open      = [c \in Clients |-> FALSE]
    /\ peer      = [c \in Clients |-> "up"]
    /\ panicked  = FALSE
    /\ log       = <<>>
    /\ joined    = [c \in Clients |-> NotJoined]
    /\ written   = [c \in Clients |-> <<>>]
    /\ sent      = [c \in Clients |-> 0]

-----------------------------------------------------------------------------
(* ServeWS and readPump.                                                    *)

MoveReader(c, from, to) ==
    /\ reader[c] = from
    /\ reader' = [reader EXCEPT ![c] = to]

\* The upgrade succeeds; the goroutine waits to hand the client to the hub.
Connect(c) ==
    /\ MoveReader(c, "idle", "registering")
    /\ open' = [open EXCEPT ![c] = TRUE]
    /\ UNCHANGED <<hubVars, chanVars, out, writerVars, peer, history>>

\* What is in flight may still be read after either end has closed.
ReadMessage(c) ==
    /\ MoveReader(c, "reading", "broadcasting")
    /\ sent[c] < MaxSent[c]
    /\ sent' = [sent EXCEPT ![c] = @ + 1]
    /\ out'  = [out EXCEPT ![c] = [from |-> c, n |-> sent[c] + 1]]
    /\ UNCHANGED <<hubVars, chanVars, writerVars, open, peer, log, joined, written>>

Enqueue_OrDrop(m) ==
    broadcast' = IF Len(broadcast) < BroadcastCap THEN Append(broadcast, m) ELSE broadcast

\* A send to a full channel blocks.
Enqueue(m) ==
    /\ Len(broadcast) < BroadcastCap
    /\ broadcast' = Append(broadcast, m)

Broadcast(c) ==
    /\ MoveReader(c, "broadcasting", "reading")
    /\ Enqueue(out[c])
    /\ out' = [out EXCEPT ![c] = NoMsg]
    /\ UNCHANGED <<clients, current, todo, chanVars, writerVars, open, peer, history>>

\* The connection is lost or closed, or the peer breaks the protocol.
ReadError(c) ==
    /\ MoveReader(c, "reading", "unregistering")
    /\ UNCHANGED <<hubVars, chanVars, out, writerVars, open, peer, history>>

ReaderClose(c) ==
    /\ MoveReader(c, "closing", "done")
    /\ open' = [open EXCEPT ![c] = FALSE]
    /\ UNCHANGED <<hubVars, chanVars, out, writerVars, peer, history>>

-----------------------------------------------------------------------------
(* writePump.                                                               *)

WriterTake(c) ==
    /\ writer[c] = "ranging"
    /\ send[c] # <<>>
    /\ writer' = [writer EXCEPT ![c] = "writing"]
    /\ held'   = [held EXCEPT ![c] = Head(send[c])]
    /\ send'   = [send EXCEPT ![c] = Tail(@)]
    /\ UNCHANGED <<hubVars, closed, panicked, readerVars, open, peer, history>>

\* The socket takes the message unless its buffer is full; when the peer has
\* gone, the kernel may still accept it.
WriteOk(c) ==
    /\ writer[c] = "writing"
    /\ open[c] /\ peer[c] # "stalled"
    /\ writer'  = [writer EXCEPT ![c] = "ranging"]
    /\ held'    = [held EXCEPT ![c] = NoMsg]
    /\ written' = [written EXCEPT ![c] = Append(@, held[c])]
    /\ UNCHANGED <<hubVars, chanVars, readerVars, open, peer, log, joined, sent>>

\* A write error ends the loop; the deferred Close runs.
WriteFail(c) ==
    /\ writer[c] = "writing"
    /\ ~open[c] \/ peer[c] = "gone"
    /\ writer' = [writer EXCEPT ![c] = "done"]
    /\ held'   = [held EXCEPT ![c] = NoMsg]
    /\ open'   = [open EXCEPT ![c] = FALSE]
    /\ UNCHANGED <<hubVars, chanVars, readerVars, peer, history>>

\* The range ends once the channel is closed and drained.
WriterExit(c) ==
    /\ writer[c] = "ranging"
    /\ closed[c] /\ send[c] = <<>>
    /\ writer' = [writer EXCEPT ![c] = "done"]
    /\ open'   = [open EXCEPT ![c] = FALSE]
    /\ UNCHANGED <<hubVars, chanVars, readerVars, held, peer, history>>

-----------------------------------------------------------------------------
(* Hub.Run.  The select is reached when nothing is left to hand out.        *)

Selecting_Always == TRUE

Selecting == todo = {}

\* close(client.send)
CloseSend(c) ==
    /\ closed'   = [closed EXCEPT ![c] = TRUE]
    /\ panicked' = (panicked \/ closed[c])

\* case <-h.register; the waiting goroutine goes on, and starts writePump.
HubRegister(c) ==
    /\ Selecting
    /\ MoveReader(c, "registering", "reading")
    /\ clients' = clients \cup {c}
    /\ writer'  = [writer EXCEPT ![c] = "ranging"]
    /\ joined'  = [joined EXCEPT ![c] = Len(log)]
    /\ UNCHANGED <<broadcast, current, todo, chanVars, out, held, open, peer,
                   log, written, sent>>

Forget_Unconditionally(c) ==
    /\ clients' = clients \ {c}
    /\ CloseSend(c)

Forget_LeavesChannelOpen(c) ==
    /\ clients' = clients \ {c}
    /\ UNCHANGED <<closed, panicked>>

\* A client that was dropped as slow is no longer in the map.
Forget(c) ==
    /\ clients' = clients \ {c}
    /\ IF c \in clients THEN CloseSend(c) ELSE UNCHANGED <<closed, panicked>>

\* case <-h.unregister
HubUnregister(c) ==
    /\ Selecting
    /\ MoveReader(c, "unregistering", "closing")
    /\ Forget(c)
    /\ UNCHANGED <<broadcast, current, todo, send, out, writerVars, open, peer, history>>

\* case <-h.broadcast; the loop over the map begins.
HubTake ==
    /\ Selecting
    /\ broadcast # <<>>
    /\ broadcast' = Tail(broadcast)
    /\ log'       = Append(log, Head(broadcast))
    /\ todo'      = clients
    /\ current'   = IF clients = {} THEN NoMsg ELSE Head(broadcast)
    /\ UNCHANGED <<clients, chanVars, readerVars, writerVars, open, peer,
                   joined, written, sent>>

Offer_SkipsSlow(c) ==
    /\ UNCHANGED <<clients, closed, panicked>>
    /\ send' = IF Len(send[c]) < SendCap
               THEN [send EXCEPT ![c] = Append(@, current)] ELSE send

Offer_Blocks(c) ==
    /\ Len(send[c]) < SendCap
    /\ send' = [send EXCEPT ![c] = Append(@, current)]
    /\ UNCHANGED <<clients, closed, panicked>>

\* The inner select: a client whose buffer is full is dropped.
Offer(c) ==
    \/ /\ Len(send[c]) < SendCap
       /\ send'     = [send EXCEPT ![c] = Append(@, current)]
       /\ panicked' = (panicked \/ closed[c])
       /\ UNCHANGED <<clients, closed>>
    \/ /\ Len(send[c]) >= SendCap
       /\ clients' = clients \ {c}
       /\ CloseSend(c)
       /\ UNCHANGED send

\* One turn of the loop; a map is traversed in any order.
HubSend(c) ==
    /\ c \in todo
    /\ todo'    = todo \ {c}
    /\ current' = IF todo = {c} THEN NoMsg ELSE current
    /\ Offer(c)
    /\ UNCHANGED <<broadcast, readerVars, writerVars, open, peer, history>>

-----------------------------------------------------------------------------
(* The peers.                                                               *)

SetPeer(c, from, to) ==
    /\ reader[c] # "idle"
    /\ peer[c] \in from
    /\ peer' = [peer EXCEPT ![c] = to]
    /\ UNCHANGED <<hubVars, chanVars, readerVars, writerVars, open, history>>

PeerGone(c)   == SetPeer(c, {"up", "stalled"}, "gone")
PeerStall(c)  == SetPeer(c, {"up"}, "stalled")
PeerResume(c) == SetPeer(c, {"stalled"}, "up")

-----------------------------------------------------------------------------

ReaderStep(c) == Connect(c) \/ ReadMessage(c) \/ Broadcast(c) \/ ReadError(c) \/ ReaderClose(c)
WriterStep(c) == WriterTake(c) \/ WriteOk(c) \/ WriteFail(c) \/ WriterExit(c)
HubStep(c)    == HubRegister(c) \/ HubUnregister(c) \/ HubSend(c)
PeerStep(c)   == PeerGone(c) \/ PeerStall(c) \/ PeerResume(c)

\* Every peer has gone and every goroutine but the hub's has returned.
Quiescent ==
    /\ \A c \in Clients : reader[c] = "done" /\ writer[c] = "done"
    /\ broadcast = <<>> /\ Selecting
    /\ \A c \in Clients : peer[c] = "gone"
    /\ UNCHANGED vars

Next ==
    \/ \E c \in Clients : ReaderStep(c) \/ WriterStep(c) \/ HubStep(c) \/ PeerStep(c)
    \/ HubTake \/ Quiescent

Spec == Init /\ [][Next]_vars

\* Runnable goroutines run.  Go's select picks among the ready cases at random
\* and senders blocked on a channel wait in line, so a goroutine that waits for
\* the hub is not passed over for ever; a socket that takes data again and again
\* wakes its writer.  Peers promise nothing.
WaitForHub(c) == Broadcast(c) \/ HubRegister(c) \/ HubUnregister(c)

\* A reader is sure to notice a lost or closed connection only.
ReadsNothing(c) == (peer[c] = "gone" \/ ~open[c]) /\ ReadError(c)

FairSpec ==
    /\ Spec
    /\ WF_vars(HubTake)
    /\ \A c \in Clients :
        /\ SF_vars(WaitForHub(c))
        /\ WF_vars(ReadsNothing(c) \/ ReaderClose(c))
        /\ WF_vars(HubSend(c))
        /\ SF_vars(WriterStep(c))

-----------------------------------------------------------------------------
(* What the chat promises.                                                  *)

\* The hub closes each channel once and never sends to a closed one, although
\* a client can be dropped as slow and unregister itself afterwards.
NoPanic == ~panicked

\* What has been written to a client, is being written and is buffered for it.
Pipeline(c) ==
    written[c] \o (IF held[c] = NoMsg THEN <<>> ELSE <<held[c]>>) \o send[c]

\* A registered client misses nothing: until a write fails, its pipeline is the
\* log from the point where it joined, but for the message the hub is handing
\* out at the moment.
MembersMissNothing ==
    \A c \in clients : writer[c] # "done" =>
        Pipeline(c) = SubSeq(log, joined[c] + 1, Len(log) - (IF c \in todo THEN 1 ELSE 0))

\* Each peer's messages enter the log in the order it sent them, once, and
\* none that the server has read is lost on the way: what has been taken from
\* the peer is queued or logged, in order, but for the one its reader holds.
Passed  == log \o broadcast
From(c) == {k \in DOMAIN Passed : Passed[k].from = c}
Due(c)  == IF out[c] = NoMsg THEN sent[c] ELSE sent[c] - 1

SendersKeepOrder ==
    \A c \in Clients :
        /\ out[c] # NoMsg => out[c] = [from |-> c, n |-> sent[c]]
        /\ {Passed[k].n : k \in From(c)} = 1..Due(c)
        /\ \A j, k \in From(c) : j < k => Passed[j].n < Passed[k].n

\* The feeds follow the log: the hub implements the abstract room.
Room == INSTANCE ChatRoom WITH
            Messages <- AllMessages, start <- joined, feed <- written

ImplementsRoom == Room!RoomSpec

\* A peer that is gone costs nothing in the end: both goroutines finish, the
\* connection is closed and the map forgets the client.
GoneIsCleanedUp ==
    \A c \in Clients :
        (peer[c] = "gone") ~>
            /\ reader[c] = "done" /\ writer[c] = "done"
            /\ ~open[c] /\ c \notin clients

\* Every message read from a socket is handed to every member, whatever other
\* peers do: a stalled one holds up neither the hub nor the senders.
HandedOut(m) == current # m /\ \E k \in DOMAIN log : log[k] = m

AcceptedIsHandedOut == \A m \in AllMessages : (sent[m.from] >= m.n) ~> HandedOut(m)

\* hub.go: "slow client - drop and disconnect".
Dropped(c) == joined[c] # NotJoined /\ c \notin clients

SlowIsDisconnected == \A c \in Clients : Dropped(c) ~> ~open[c]

=============================================================================
