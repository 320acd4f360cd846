------------------------------ MODULE HubProofs ------------------------------
(* Proofs about Hub, for any number of clients and any capacities: that it  *)
(* never closes a channel twice nor sends to a closed one, that it          *)
(* implements ChatRoom, and that nothing is missed or out of order.         *)
EXTENDS Hub, SequenceTheorems, TLAPS

\* The map holds open channels only, and no client that has yet to register.
OpenInMap ==
    \A c \in Clients :
        /\ c \in clients => ~closed[c]
        /\ reader[c] \in {"idle", "registering"} => ~closed[c] /\ c \notin clients

\* Who is in the middle of passing a message on holds one.
MessagesInHand ==
    /\ todo # {} => current \in Message
    /\ \A c \in Clients :
        /\ reader[c] = "broadcasting" => out[c] \in Message
        /\ writer[c] = "writing" => held[c] \in Message

IInv == TypeOK /\ OpenInMap /\ MessagesInHand /\ NoPanic

\* The initial states satisfy the invariant.
LEMMA InitIInv == Init => IInv
<1> SUFFICES ASSUME Init PROVE IInv
  OBVIOUS
<1>1. /\ <<>> \in Seq(Message) /\ Len(<<>>) <= BroadcastCap
      /\ send \in [Clients -> Seq(Message)] /\ \A c \in Clients : Len(send[c]) <= SendCap
      /\ written \in [Clients -> Seq(Message)]
  BY HubAssumption DEF Init
<1>2. TypeOK
  BY <1>1 DEF Init, TypeOK, ReaderStates, WriterStates
<1> QED BY <1>2 DEF Init, IInv, OpenInMap, MessagesInHand, NoPanic

\* What a peer sends is a message.
LEMMA NewMessage ==
  ASSUME NEW c \in Clients, NEW k \in Nat
  PROVE  [from |-> c, n |-> k + 1] \in Message
BY DEF Message

\* readPump and ServeWS preserve the invariant.
LEMMA ReaderSteps == ASSUME IInv, NEW c \in Clients, ReaderStep(c) PROVE IInv'
<1> USE DEF IInv, TypeOK, OpenInMap, MessagesInHand, NoPanic, ReaderStates, WriterStates,
            hubVars, chanVars, readerVars, writerVars, history, MoveReader
<1>1. CASE Connect(c)
  BY <1>1 DEF Connect
<1>2. CASE ReadMessage(c)
  <2>1. [from |-> c, n |-> sent[c] + 1] \in Message
    BY NewMessage
  <2>2. sent' \in [Clients -> Nat]
    BY <1>2 DEF ReadMessage
  <2> QED BY <1>2, <2>1, <2>2 DEF ReadMessage
<1>3. CASE Broadcast(c)
  <2>1. broadcast' \in Seq(Message) /\ Len(broadcast') <= BroadcastCap
    BY <1>3, HubAssumption DEF Broadcast, Enqueue
  <2> QED BY <1>3, <2>1 DEF Broadcast
<1>4. CASE ReadError(c)
  BY <1>4 DEF ReadError
<1>5. CASE ReaderClose(c)
  BY <1>5 DEF ReaderClose
<1> QED BY <1>1, <1>2, <1>3, <1>4, <1>5 DEF ReaderStep

\* writePump preserves the invariant.
LEMMA WriterSteps == ASSUME IInv, NEW c \in Clients, WriterStep(c) PROVE IInv'
<1> USE DEF IInv, TypeOK, OpenInMap, MessagesInHand, NoPanic, ReaderStates, WriterStates,
            hubVars, chanVars, readerVars, writerVars, history
<1>1. CASE WriterTake(c)
  <2>1. /\ Head(send[c]) \in Message
        /\ Tail(send[c]) \in Seq(Message)
        /\ Len(Tail(send[c])) <= SendCap
    BY <1>1, HubAssumption DEF WriterTake
  <2>2. send' \in [Clients -> Seq(Message)] /\ \A d \in Clients : Len(send'[d]) <= SendCap
    BY <1>1, <2>1 DEF WriterTake
  <2> QED BY <1>1, <2>1, <2>2 DEF WriterTake
<1>2. CASE WriteOk(c)
  <2>1. written' \in [Clients -> Seq(Message)]
    BY <1>2 DEF WriteOk
  <2> QED BY <1>2, <2>1 DEF WriteOk
<1>3. CASE WriteFail(c)
  BY <1>3 DEF WriteFail
<1>4. CASE WriterExit(c)
  BY <1>4 DEF WriterExit
<1> QED BY <1>1, <1>2, <1>3, <1>4 DEF WriterStep

\* Run preserves the invariant: what it closes is in the map, and so is
\* everything it sends to.
LEMMA HubSteps ==
  ASSUME IInv, HubTake \/ \E c \in Clients : HubStep(c)
  PROVE  IInv'
<1> USE DEF IInv, TypeOK, OpenInMap, MessagesInHand, NoPanic, ReaderStates, WriterStates,
            hubVars, chanVars, readerVars, writerVars, history
<1>1. CASE HubTake
  <2>1. /\ Head(broadcast) \in Message
        /\ Tail(broadcast) \in Seq(Message)
        /\ Len(Tail(broadcast)) <= BroadcastCap
    BY <1>1, HubAssumption DEF HubTake
  <2>2. log' \in Seq(Message)
    BY <1>1, <2>1 DEF HubTake
  <2> QED BY <1>1, <2>1, <2>2 DEF HubTake
<1>2. ASSUME NEW c \in Clients, HubRegister(c) PROVE IInv'
  <2>1. joined' \in [Clients -> Nat \cup {NotJoined}]
    BY <1>2 DEF HubRegister
  <2> QED BY <1>2, <2>1 DEF HubRegister, Selecting, MoveReader
<1>3. ASSUME NEW c \in Clients, HubUnregister(c) PROVE IInv'
  <2>1. closed' \in [Clients -> BOOLEAN] /\ panicked' = FALSE
    BY <1>3 DEF HubUnregister, Forget, CloseSend
  <2>2. \A d \in Clients : closed'[d] => closed[d] \/ d = c
    BY <1>3 DEF HubUnregister, Forget, CloseSend
  <2> QED BY <1>3, <2>1, <2>2 DEF HubUnregister, Forget, Selecting, MoveReader
<1>4. ASSUME NEW c \in Clients, HubSend(c) PROVE IInv'
  <2>1. c \in clients /\ ~closed[c] /\ current \in Message
    BY <1>4 DEF HubSend
  <2>2. CASE Len(send[c]) < SendCap
    <3>1. send' = [send EXCEPT ![c] = Append(@, current)]
      BY <1>4, <2>2, HubAssumption DEF HubSend, Offer
    <3>2. send' \in [Clients -> Seq(Message)] /\ \A d \in Clients : Len(send'[d]) <= SendCap
      BY <2>1, <2>2, <3>1, HubAssumption
    <3> QED BY <1>4, <2>1, <2>2, <3>2, HubAssumption DEF HubSend, Offer
  <2>3. CASE Len(send[c]) >= SendCap
    <3>1. /\ clients' = clients \ {c} /\ send' = send
          /\ closed' = [closed EXCEPT ![c] = TRUE] /\ panicked' = FALSE
      BY <1>4, <2>1, <2>3, HubAssumption DEF HubSend, Offer, CloseSend
    <3> QED BY <1>4, <2>1, <3>1 DEF HubSend
  <2>4. Len(send[c]) < SendCap \/ Len(send[c]) >= SendCap
    BY HubAssumption
  <2> QED BY <2>2, <2>3, <2>4
<1> QED BY <1>1, <1>2, <1>3, <1>4 DEF HubStep

\* The invariant is inductive.
LEMMA NextIInv == IInv /\ [Next]_vars => IInv'
<1> SUFFICES ASSUME IInv, [Next]_vars PROVE IInv'
  OBVIOUS
<1>1. ASSUME NEW c \in Clients, PeerStep(c) PROVE IInv'
  <2>1. /\ peer' \in [Clients -> {"up", "stalled", "gone"}]
        /\ UNCHANGED <<hubVars, chanVars, readerVars, writerVars, open, history>>
    BY <1>1 DEF PeerStep, PeerGone, PeerStall, PeerResume, SetPeer, IInv, TypeOK
  <2> QED BY <2>1 DEF IInv, TypeOK, OpenInMap, MessagesInHand, NoPanic,
                      hubVars, chanVars, readerVars, writerVars, history
<1>2. CASE UNCHANGED vars
  BY <1>2 DEF vars, IInv, TypeOK, OpenInMap, MessagesInHand, NoPanic,
              hubVars, chanVars, readerVars, writerVars, history
<1> QED BY <1>1, <1>2, ReaderSteps, WriterSteps, HubSteps DEF Next, Quiescent

\* The inductive invariant of Hub.
THEOREM Invariance == Spec => []IInv
<1> QED BY InitIInv, NextIInv, PTL DEF Spec

\* Every variable keeps its type: in particular no channel outgrows its
\* capacity, and the clients still to be served are in the map.
THEOREM HubTypeOK == Spec => []TypeOK
<1>1. IInv => TypeOK
  BY DEF IInv
<1> QED BY Invariance, <1>1, PTL

\* However slow clients, disconnects and broadcasts interleave, the hub never
\* panics on a closed channel.
THEOREM HubNeverPanics == Spec => []NoPanic
<1>1. IInv => NoPanic
  BY DEF IInv
<1> QED BY Invariance, <1>1, PTL

-----------------------------------------------------------------------------
(* The invariant: what is on its way to a client is a piece of the log.     *)

Writing(c) == IF writer[c] = "writing" THEN 1 ELSE 0
Pending(c) == IF c \in todo THEN 1 ELSE 0

\* The last entry of the log that has been written to a client, and the last
\* one that has been put into its channel.
WrittenUpTo(c) == joined[c] + Len(written[c])
BufferedUpTo(c) == WrittenUpTo(c) + Writing(c) + Len(send[c])

\* A client joins, its writer starts and its reader starts reading in one step.
JoinedTogether(c) ==
    /\ joined[c] = NotJoined <=> reader[c] \in {"idle", "registering"}
    /\ joined[c] = NotJoined <=> writer[c] = "none"
    /\ joined[c] = NotJoined => send[c] = <<>> /\ written[c] = <<>>
    /\ c \in clients => joined[c] # NotJoined
    /\ held[c] # NoMsg <=> writer[c] = "writing"

\* While the writer runs, what is written, being written and buffered continues
\* the log from where the client joined.
FeedIsLog(c) ==
    joined[c] # NotJoined /\ writer[c] # "done" =>
        /\ BufferedUpTo(c) <= Len(log)
        /\ c \in clients => BufferedUpTo(c) + Pending(c) = Len(log)
        /\ \A k \in 1..Len(written[c]) : written[c][k] = log[joined[c] + k]
        /\ writer[c] = "writing" => held[c] = log[WrittenUpTo(c) + 1]
        /\ \A k \in 1..Len(send[c]) : send[c][k] = log[WrittenUpTo(c) + Writing(c) + k]

\* The hub is handing out the last entry of the log.
HandsOutLast == todo # {} => log # <<>> /\ current = log[Len(log)]

Feeding ==
    /\ HandsOutLast
    /\ \A c \in Clients : JoinedTogether(c) /\ FeedIsLog(c)

-----------------------------------------------------------------------------
(* The invariant: no message enters the log twice.                          *)

\* A message that has been read, and not more than its sender may send.
Known(m) == m.n <= sent[m.from] /\ m.n <= MaxSent[m.from]

\* What a reader holds is the newest message of its peer.
OutIsNewest(c) ==
    /\ sent[c] <= MaxSent[c]
    /\ reader[c] = "broadcasting" => out[c] = [from |-> c, n |-> sent[c]]

OutIsFresh(c) ==
    reader[c] = "broadcasting" =>
        /\ \A k \in 1..Len(broadcast) : broadcast[k] # out[c]
        /\ \A k \in 1..Len(log) : log[k] # out[c]

ReadIsKnown ==
    /\ \A k \in 1..Len(broadcast) : Known(broadcast[k])
    /\ \A k \in 1..Len(log) : Known(log[k])

QueuedOnce == \A j, k \in 1..Len(broadcast) : broadcast[j] = broadcast[k] => j = k

QueuedIsNotLogged ==
    \A j \in 1..Len(log), k \in 1..Len(broadcast) : log[j] # broadcast[k]

Posting ==
    /\ \A c \in Clients : OutIsNewest(c) /\ OutIsFresh(c)
    /\ ReadIsKnown /\ QueuedOnce /\ QueuedIsNotLogged

RInv == Feeding /\ Posting

-----------------------------------------------------------------------------

\* The initial states satisfy the invariant.
LEMMA InitRInv == Init => RInv
<1> SUFFICES ASSUME Init PROVE RInv
  OBVIOUS
<1>1. Feeding
  BY HubAssumption DEF Init, Feeding, HandsOutLast, JoinedTogether, FeedIsLog
<1>2. Posting
  BY HubAssumption DEF Init, Posting, OutIsNewest, OutIsFresh, ReadIsKnown, QueuedOnce,
                       QueuedIsNotLogged
<1> QED BY <1>1, <1>2 DEF RInv

\* A step that leaves a client's side and the log alone keeps its feed; the hub
\* may forget the client.
LEMMA FeedFrame ==
  ASSUME IInv, NEW c \in Clients, JoinedTogether(c), FeedIsLog(c), log' = log,
         joined'[c] = joined[c], written'[c] = written[c],
         writer'[c] = writer[c], held'[c] = held[c], send'[c] = send[c],
         c \in clients' => c \in clients /\ (c \in todo' <=> c \in todo),
         reader[c] \in {"idle", "registering"} <=> reader'[c] \in {"idle", "registering"}
  PROVE  JoinedTogether(c)' /\ FeedIsLog(c)'
BY DEF JoinedTogether, FeedIsLog, BufferedUpTo, WrittenUpTo, Writing, Pending

\* Every reader step keeps the feeds.
LEMMA ReaderFeeds ==
  ASSUME IInv, Feeding, NEW c \in Clients, ReaderStep(c)
  PROVE  Feeding'
<1>1. /\ UNCHANGED <<log, joined, written, todo, writer, held, send, clients, current>>
      /\ \A d \in Clients : reader[d] \in {"idle", "registering"}
                           <=> reader'[d] \in {"idle", "registering"}
  BY DEF ReaderStep, Connect, ReadMessage, Broadcast, ReadError, ReaderClose, MoveReader,
         hubVars, chanVars, writerVars, history, IInv, TypeOK
<1>2. \A d \in Clients : JoinedTogether(d)' /\ FeedIsLog(d)'
  BY <1>1, FeedFrame DEF Feeding
<1> QED BY <1>1, <1>2 DEF Feeding, HandsOutLast

\* A writer keeps the feeds: it moves the first buffered entry on.
LEMMA WriterFeeds ==
  ASSUME IInv, Feeding, NEW c \in Clients, WriterStep(c)
  PROVE  Feeding'
<1>1. UNCHANGED <<log, joined, todo, clients, current, reader>>
  BY DEF WriterStep, WriterTake, WriteOk, WriteFail, WriterExit, hubVars, readerVars, history
<1>2. ASSUME NEW d \in Clients, d # c PROVE JoinedTogether(d)' /\ FeedIsLog(d)'
  <2>1. /\ writer'[d] = writer[d] /\ held'[d] = held[d] /\ send'[d] = send[d]
        /\ written'[d] = written[d]
    BY <1>2 DEF WriterStep, WriterTake, WriteOk, WriteFail, WriterExit, chanVars, history,
                IInv, TypeOK
  <2> QED BY <1>1, <1>2, <2>1
          DEF Feeding, JoinedTogether, FeedIsLog, BufferedUpTo, WrittenUpTo, Writing, Pending
<1>3. JoinedTogether(c)' /\ FeedIsLog(c)'
  <2> USE DEF IInv, TypeOK, Feeding, JoinedTogether, hubVars, chanVars, readerVars, history
  <2>1. CASE WriterTake(c)
    <3>1. /\ writer[c] = "ranging" /\ writer'[c] = "writing"
          /\ send[c] # <<>> /\ held'[c] = Head(send[c]) /\ send'[c] = Tail(send[c])
          /\ written' = written
      BY <2>1 DEF WriterTake
    <3>2. /\ send[c] \in Seq(Message) /\ written[c] \in Seq(Message)
          /\ Len(send[c]) >= 1 /\ Len(send'[c]) = Len(send[c]) - 1
          /\ \A k \in 1..Len(send'[c]) : send'[c][k] = send[c][k + 1]
          /\ held'[c] = send[c][1] /\ held'[c] \in Message
      BY <3>1
    <3>3. joined[c] \in Nat /\ joined'[c] = joined[c]
      BY <1>1, <3>1
    <3>4. JoinedTogether(c)'
      BY <1>1, <3>1, <3>2, <3>3, NoMsgAssumption
    <3>5. /\ WrittenUpTo(c) \in Nat /\ WrittenUpTo(c)' = WrittenUpTo(c)
          /\ Writing(c) = 0 /\ Writing(c)' = 1
      BY <3>1, <3>2, <3>3 DEF WrittenUpTo, Writing
    <3>6. BufferedUpTo(c)' = BufferedUpTo(c) /\ Pending(c)' = Pending(c)
      BY <1>1, <3>2, <3>5 DEF BufferedUpTo, Pending
    <3>7. /\ BufferedUpTo(c) <= Len(log)
          /\ c \in clients => BufferedUpTo(c) + Pending(c) = Len(log)
          /\ \A k \in 1..Len(written[c]) : written[c][k] = log[joined[c] + k]
          /\ \A k \in 1..Len(send[c]) : send[c][k] = log[WrittenUpTo(c) + k]
      BY <3>1, <3>2, <3>3, <3>5 DEF FeedIsLog
    <3>8. held'[c] = log[WrittenUpTo(c) + 1]
      BY <3>2, <3>7
    <3>9. \A k \in 1..Len(send'[c]) : send'[c][k] = log[WrittenUpTo(c) + 1 + k]
      <4> TAKE k \in 1..Len(send'[c])
      <4>1. k + 1 \in 1..Len(send[c]) /\ send'[c][k] = send[c][k + 1]
        BY <3>2
      <4>2. send[c][k + 1] = log[WrittenUpTo(c) + (k + 1)]
        BY <3>7, <4>1
      <4> QED BY <3>5, <4>1, <4>2
    <3> QED BY <1>1, <3>1, <3>4, <3>5, <3>6, <3>7, <3>8, <3>9 DEF FeedIsLog
  <2>2. CASE WriteOk(c)
    <3>1. /\ writer[c] = "writing" /\ writer'[c] = "ranging" /\ held'[c] = NoMsg
          /\ written'[c] = Append(written[c], held[c]) /\ send' = send
      BY <2>2 DEF WriteOk
    <3>2. /\ send[c] \in Seq(Message) /\ written[c] \in Seq(Message) /\ held[c] \in Message
          /\ Len(written'[c]) = Len(written[c]) + 1
          /\ \A k \in 1..Len(written[c]) : written'[c][k] = written[c][k]
          /\ written'[c][Len(written[c]) + 1] = held[c]
      BY <3>1 DEF MessagesInHand
    <3>3. joined[c] \in Nat /\ joined'[c] = joined[c]
      BY <1>1, <3>1
    <3>4. JoinedTogether(c)'
      BY <1>1, <3>1, <3>2, <3>3
    <3>5. /\ WrittenUpTo(c) \in Nat /\ WrittenUpTo(c)' = WrittenUpTo(c) + 1
          /\ WrittenUpTo(c) = joined[c] + Len(written[c])
          /\ Writing(c) = 1 /\ Writing(c)' = 0
      <4>1. Len(written[c]) \in Nat
        BY <3>2
      <4>2. /\ WrittenUpTo(c) = joined[c] + Len(written[c])
            /\ WrittenUpTo(c)' = joined[c] + (Len(written[c]) + 1)
        BY <3>2, <3>3 DEF WrittenUpTo
      <4>3. Writing(c) = 1 /\ Writing(c)' = 0
        BY <3>1 DEF Writing
      <4> HIDE DEF IInv, TypeOK, Feeding
      <4> QED BY <3>3, <4>1, <4>2, <4>3
    <3>6. BufferedUpTo(c)' = BufferedUpTo(c) /\ Pending(c)' = Pending(c)
      BY <1>1, <3>1, <3>2, <3>5 DEF BufferedUpTo, Pending
    <3>7. /\ BufferedUpTo(c) <= Len(log)
          /\ c \in clients => BufferedUpTo(c) + Pending(c) = Len(log)
          /\ \A k \in 1..Len(written[c]) : written[c][k] = log[joined[c] + k]
          /\ held[c] = log[WrittenUpTo(c) + 1]
          /\ \A k \in 1..Len(send[c]) : send[c][k] = log[WrittenUpTo(c) + 1 + k]
      BY <3>1, <3>2, <3>3, <3>5 DEF FeedIsLog
    <3>8. \A k \in 1..Len(written'[c]) : written'[c][k] = log[joined[c] + k]
      <4> TAKE k \in 1..Len(written'[c])
      <4>1. CASE k \in 1..Len(written[c])
        BY <3>2, <3>7, <4>1
      <4>2. CASE k = Len(written[c]) + 1
        <5>1. joined[c] + k = WrittenUpTo(c) + 1
          BY <3>2, <3>3, <3>5, <4>2
        <5> QED BY <3>2, <3>7, <4>2, <5>1
      <4> QED BY <3>2, <4>1, <4>2
    <3>9. \A k \in 1..Len(send'[c]) : send'[c][k] = log[WrittenUpTo(c)' + Writing(c)' + k]
      BY <3>1, <3>2, <3>5, <3>7
    <3> QED BY <1>1, <3>1, <3>3, <3>4, <3>6, <3>7, <3>8, <3>9 DEF FeedIsLog
  <2>3. CASE WriteFail(c) \/ WriterExit(c)
    <3>1. writer'[c] = "done" /\ held'[c] = NoMsg /\ joined[c] # NotJoined
      BY <2>3 DEF WriteFail, WriterExit
    <3> QED BY <1>1, <3>1 DEF FeedIsLog
  <2> QED BY <2>1, <2>2, <2>3 DEF WriterStep
<1> QED BY <1>1, <1>2, <1>3 DEF Feeding, HandsOutLast

\* The hub keeps the feeds: it opens one at the end of the log, adds an entry to
\* the log and owes it to every member, and pays it into one channel at a time.
LEMMA HubFeeds ==
  ASSUME IInv, Feeding, HubTake \/ \E c \in Clients : HubStep(c)
  PROVE  Feeding'
<1> USE DEF IInv, TypeOK, hubVars, chanVars, readerVars, writerVars, history
<1>1. ASSUME NEW c \in Clients, HubRegister(c) PROVE Feeding'
  <2>1. /\ reader[c] = "registering" /\ reader'[c] = "reading"
        /\ joined'[c] = Len(log) /\ writer'[c] = "ranging"
        /\ UNCHANGED <<send, written, held, log, todo, current>>
        /\ todo = {} /\ clients' = clients \cup {c}
        /\ \A d \in Clients \ {c} : /\ reader'[d] = reader[d] /\ joined'[d] = joined[d]
                                    /\ writer'[d] = writer[d]
    BY <1>1 DEF HubRegister, Selecting, MoveReader
  <2>2. ASSUME NEW d \in Clients, d # c PROVE JoinedTogether(d)' /\ FeedIsLog(d)'
    BY <2>1, <2>2, FeedFrame DEF Feeding
  <2>3. send[c] = <<>> /\ written[c] = <<>> /\ held[c] = NoMsg /\ Len(log) \in Nat
    BY <2>1 DEF Feeding, JoinedTogether
  <2>4. JoinedTogether(c)'
    BY <2>1, <2>3, HubAssumption DEF JoinedTogether
  <2>5. BufferedUpTo(c)' = Len(log) /\ Pending(c)' = 0
    BY <2>1, <2>3 DEF BufferedUpTo, WrittenUpTo, Writing, Pending
  <2>6. FeedIsLog(c)'
    BY <2>1, <2>3, <2>5 DEF FeedIsLog
  <2> QED BY <2>1, <2>2, <2>4, <2>6 DEF Feeding, HandsOutLast
<1>2. ASSUME NEW c \in Clients, HubUnregister(c) PROVE Feeding'
  <2>1. /\ UNCHANGED <<log, joined, written, writer, held, send, todo, current>>
        /\ clients' \subseteq clients
        /\ \A d \in Clients : reader[d] \in {"idle", "registering"}
                              <=> reader'[d] \in {"idle", "registering"}
    BY <1>2 DEF HubUnregister, Forget, MoveReader
  <2>2. \A d \in Clients : JoinedTogether(d)' /\ FeedIsLog(d)'
    BY <2>1, FeedFrame DEF Feeding
  <2> QED BY <2>1, <2>2 DEF Feeding, HandsOutLast
<1>3. CASE HubTake
  <2>1. /\ log' = Append(log, Head(broadcast)) /\ Head(broadcast) \in Message
        /\ UNCHANGED <<clients, reader, writer, held, send, joined, written>>
        /\ todo = {} /\ todo' = clients
        /\ clients # {} => current' = Head(broadcast)
    BY <1>3 DEF HubTake, Selecting
  <2>2. /\ Len(log) \in Nat /\ Len(log') = Len(log) + 1
        /\ log'[Len(log) + 1] = Head(broadcast)
        /\ \A k \in 1..Len(log) : log'[k] = log[k]
    BY <2>1
  <2>3. HandsOutLast'
    BY <2>1, <2>2 DEF HandsOutLast
  <2>4. ASSUME NEW d \in Clients PROVE JoinedTogether(d)' /\ FeedIsLog(d)'
    <3>1. JoinedTogether(d)'
      BY <2>1 DEF Feeding, JoinedTogether
    <3>2. SUFFICES ASSUME joined[d] # NotJoined, writer[d] # "done" PROVE FeedIsLog(d)'
      BY <2>1, <3>1 DEF FeedIsLog
    <3>3. /\ joined[d] \in Nat /\ WrittenUpTo(d) \in Nat /\ Writing(d) \in 0..1
          /\ Len(written[d]) \in Nat /\ Len(send[d]) \in Nat
          /\ WrittenUpTo(d) = joined[d] + Len(written[d])
          /\ BufferedUpTo(d) = WrittenUpTo(d) + Writing(d) + Len(send[d])
          /\ writer[d] = "writing" => Writing(d) = 1
      BY <3>2 DEF WrittenUpTo, BufferedUpTo, Writing
    <3>4. /\ WrittenUpTo(d)' = WrittenUpTo(d) /\ Writing(d)' = Writing(d)
          /\ BufferedUpTo(d)' = BufferedUpTo(d) /\ BufferedUpTo(d) \in Nat
      BY <2>1, <3>3 DEF WrittenUpTo, BufferedUpTo, Writing
    <3>5. /\ BufferedUpTo(d) <= Len(log)
          /\ d \in clients => BufferedUpTo(d) = Len(log)
          /\ \A k \in 1..Len(written[d]) : written[d][k] = log[joined[d] + k]
          /\ writer[d] = "writing" => held[d] = log[WrittenUpTo(d) + 1]
          /\ \A k \in 1..Len(send[d]) : send[d][k] = log[WrittenUpTo(d) + Writing(d) + k]
      BY <2>1, <3>2, <3>4 DEF Feeding, FeedIsLog, Pending
    <3> HIDE DEF IInv, TypeOK
    <3>6. \A k \in 1..Len(written[d]) : written[d][k] = log'[joined[d] + k]
      <4> TAKE k \in 1..Len(written[d])
      <4>1. joined[d] + k \in 1..Len(log)
        <5>1. WrittenUpTo(d) <= Len(log)
          BY <2>2, <3>3, <3>5
        <5>2. joined[d] + k <= WrittenUpTo(d)
          BY <3>3
        <5> QED BY <2>2, <3>3, <5>1, <5>2
      <4> QED BY <2>2, <3>5, <4>1
    <3>7. writer[d] = "writing" => held[d] = log'[WrittenUpTo(d) + 1]
      BY <2>2, <3>3, <3>4, <3>5
    <3>8. \A k \in 1..Len(send[d]) : send[d][k] = log'[WrittenUpTo(d) + Writing(d) + k]
      <4> TAKE k \in 1..Len(send[d])
      <4>1. WrittenUpTo(d) + Writing(d) + k \in 1..Len(log)
        BY <2>2, <3>3, <3>4, <3>5
      <4> QED BY <2>2, <3>5, <4>1
    <3>9. /\ BufferedUpTo(d) <= Len(log')
          /\ d \in clients => BufferedUpTo(d) + Pending(d)' = Len(log')
      BY <2>1, <2>2, <3>4, <3>5 DEF Pending
    <3> QED BY <2>1, <3>4, <3>6, <3>7, <3>8, <3>9 DEF FeedIsLog
  <2> QED BY <2>3, <2>4 DEF Feeding
<1>4. ASSUME NEW c \in Clients, HubSend(c) PROVE Feeding'
  <2>1. /\ UNCHANGED <<log, joined, written, writer, held, reader>>
        /\ c \in todo /\ todo' = todo \ {c} /\ c \in clients
        /\ todo # {c} => current' = current
    BY <1>4 DEF HubSend
  <2>2. log # <<>> /\ current = log[Len(log)]
    BY <2>1 DEF Feeding, HandsOutLast
  <2>3. HandsOutLast'
    BY <2>1, <2>2 DEF HandsOutLast
  <2>4. ASSUME NEW d \in Clients, d # c PROVE JoinedTogether(d)' /\ FeedIsLog(d)'
    <3>1. send'[d] = send[d] /\ clients' \subseteq clients
      BY <1>4, <2>4 DEF HubSend, Offer
    <3> QED BY <2>1, <2>4, <3>1, FeedFrame DEF Feeding
  <2>5. JoinedTogether(c)' /\ FeedIsLog(c)'
    <3>1. CASE c \notin clients' /\ send' = send
      BY <2>1, <3>1, FeedFrame DEF Feeding
    <3>2. CASE clients' = clients /\ send' = [send EXCEPT ![c] = Append(@, current)]
      <4>1. JoinedTogether(c)'
        BY <2>1, <3>2 DEF Feeding, JoinedTogether
      <4>2. SUFFICES ASSUME writer[c] # "done" PROVE FeedIsLog(c)'
        BY <2>1, <4>1 DEF FeedIsLog
      <4>3. joined[c] \in Nat
        BY <2>1 DEF Feeding, JoinedTogether
      <4>4. /\ send[c] \in Seq(Message) /\ Len(send[c]) \in Nat /\ current \in Message
            /\ Len(send'[c]) = Len(send[c]) + 1 /\ Len(log) \in Nat
            /\ \A k \in 1..Len(send[c]) : send'[c][k] = send[c][k]
            /\ send'[c][Len(send[c]) + 1] = current
        BY <2>1, <3>2 DEF MessagesInHand
      <4>5. /\ WrittenUpTo(c) \in Nat /\ WrittenUpTo(c)' = WrittenUpTo(c)
            /\ Writing(c) \in 0..1 /\ Writing(c)' = Writing(c)
            /\ BufferedUpTo(c) = WrittenUpTo(c) + Writing(c) + Len(send[c])
            /\ Pending(c) = 1 /\ Pending(c)' = 0
        BY <2>1, <4>3 DEF WrittenUpTo, Writing, BufferedUpTo, Pending
      <4>6. BufferedUpTo(c)' = WrittenUpTo(c) + Writing(c) + (Len(send[c]) + 1)
        BY <4>4, <4>5 DEF BufferedUpTo
      <4>7. /\ BufferedUpTo(c) + 1 = Len(log)
            /\ \A k \in 1..Len(written[c]) : written[c][k] = log[joined[c] + k]
            /\ writer[c] = "writing" => held[c] = log[WrittenUpTo(c) + 1]
            /\ \A k \in 1..Len(send[c]) : send[c][k] = log[WrittenUpTo(c) + Writing(c) + k]
        BY <2>1, <4>2, <4>3, <4>5, HubAssumption DEF Feeding, FeedIsLog
      <4> HIDE DEF IInv, TypeOK
      <4>8. BufferedUpTo(c)' = Len(log)
        BY <4>4, <4>5, <4>6, <4>7
      <4>9. \A k \in 1..Len(send'[c]) : send'[c][k] = log[WrittenUpTo(c) + Writing(c) + k]
        <5> TAKE k \in 1..Len(send'[c])
        <5>1. CASE k \in 1..Len(send[c])
          BY <4>4, <4>7, <5>1
        <5>2. CASE k = Len(send[c]) + 1
          <6>1. WrittenUpTo(c) + Writing(c) + k = Len(log)
            BY <4>4, <4>5, <4>7, <5>2
          <6> QED BY <2>2, <4>4, <5>2, <6>1
        <5> QED BY <4>4, <5>1, <5>2
      <4> QED BY <2>1, <4>4, <4>5, <4>7, <4>8, <4>9 DEF FeedIsLog
    <3> QED BY <1>4, <2>1, <3>1, <3>2 DEF HubSend, Offer
  <2> QED BY <2>3, <2>4, <2>5 DEF Feeding
<1> QED BY <1>1, <1>2, <1>3, <1>4 DEF HubStep

\* A step that neither reads, enqueues nor takes a message keeps the posting
\* invariant.
LEMMA PostFrame ==
  ASSUME Posting, UNCHANGED <<log, broadcast, sent, out>>,
         \A c \in Clients : reader'[c] = "broadcasting" => reader[c] = "broadcasting"
  PROVE  Posting'
BY DEF Posting, OutIsNewest, OutIsFresh, ReadIsKnown, QueuedOnce, QueuedIsNotLogged, Known

\* A message just read is newer than all that are queued or logged.
LEMMA ReadPosts ==
  ASSUME IInv, Posting, NEW c \in Clients, ReadMessage(c)
  PROVE  Posting'
<1> DEFINE m == [from |-> c, n |-> sent[c] + 1]
<1>1. /\ UNCHANGED <<log, broadcast>> /\ out'[c] = m /\ sent'[c] = sent[c] + 1
      /\ sent[c] \in Nat /\ sent[c] < MaxSent[c] /\ MaxSent[c] \in Nat
      /\ \A d \in Clients \ {c} :
            sent'[d] = sent[d] /\ out'[d] = out[d] /\ reader'[d] = reader[d]
  BY HubAssumption DEF ReadMessage, MoveReader, IInv, TypeOK, hubVars, history
<1>2. /\ \A k \in 1..Len(broadcast) : broadcast[k] \in Message /\ Known(broadcast[k])
      /\ \A k \in 1..Len(log) : log[k] \in Message /\ Known(log[k])
  BY DEF Posting, ReadIsKnown, IInv, TypeOK
<1>3. \A x \in Message : Known(x) =>
            x # m /\ x.n <= sent'[x.from] /\ x.n <= MaxSent[x.from]
  <2> TAKE x \in Message
  <2>1. x.from \in Clients /\ x.n \in Nat /\ sent[x.from] \in Nat
    BY DEF Message, IInv, TypeOK
  <2>2. sent'[x.from] \in Nat /\ sent'[x.from] >= sent[x.from]
    BY <1>1, <2>1
  <2>3. x = m => ~Known(x)
    BY <1>1 DEF Known
  <2> HAVE Known(x)
  <2> QED BY <2>1, <2>2, <2>3 DEF Known
<1>4. ASSUME NEW d \in Clients PROVE OutIsNewest(d)' /\ OutIsFresh(d)'
  <2>1. CASE d = c
    BY <1>1, <1>2, <1>3, <2>1 DEF OutIsNewest, OutIsFresh
  <2>2. CASE d # c
    BY <1>1, <2>2 DEF Posting, OutIsNewest, OutIsFresh
  <2> QED BY <2>1, <2>2
<1>5. ReadIsKnown'
  BY <1>1, <1>2, <1>3 DEF ReadIsKnown, Known
<1>6. QueuedOnce' /\ QueuedIsNotLogged'
  BY <1>1 DEF Posting, QueuedOnce, QueuedIsNotLogged
<1> QED BY <1>4, <1>5, <1>6 DEF Posting

\* A message enters the queue once.
LEMMA BroadcastPosts ==
  ASSUME IInv, Posting, NEW c \in Clients, Broadcast(c)
  PROVE  Posting'
<1>1. /\ UNCHANGED <<log, sent>> /\ broadcast' = Append(broadcast, out[c])
      /\ reader[c] = "broadcasting" /\ reader'[c] = "reading" /\ out[c] \in Message
      /\ \A d \in Clients \ {c} : out'[d] = out[d] /\ reader'[d] = reader[d]
  BY DEF Broadcast, Enqueue, MoveReader, history, IInv, TypeOK, MessagesInHand
<1>2. /\ Len(broadcast) \in Nat /\ Len(broadcast') = Len(broadcast) + 1
      /\ broadcast'[Len(broadcast) + 1] = out[c]
      /\ \A k \in 1..Len(broadcast) : broadcast'[k] = broadcast[k]
  BY <1>1 DEF IInv, TypeOK
<1>3. /\ Known(out[c]) /\ out[c].from = c
      /\ \A k \in 1..Len(broadcast) : broadcast[k] # out[c]
      /\ \A k \in 1..Len(log) : log[k] # out[c]
  <2>1. out[c] = [from |-> c, n |-> sent[c]] /\ sent[c] <= MaxSent[c] /\ sent[c] \in Nat
    BY <1>1 DEF Posting, OutIsNewest, IInv, TypeOK
  <2> QED BY <1>1, <2>1 DEF Posting, OutIsFresh, Known
<1>4. ASSUME NEW d \in Clients PROVE OutIsNewest(d)' /\ OutIsFresh(d)'
  <2>1. CASE d = c
    BY <1>1, <2>1 DEF Posting, OutIsNewest, OutIsFresh
  <2>2. CASE d # c
    <3>1. ASSUME reader[d] = "broadcasting" PROVE out[d].from = d
      <4>1. out[d] = [from |-> d, n |-> sent[d]]
        BY <3>1 DEF Posting, OutIsNewest
      <4> QED BY <4>1
    <3> QED BY <1>1, <1>2, <1>3, <2>2, <3>1 DEF Posting, OutIsNewest, OutIsFresh
  <2> QED BY <2>1, <2>2
<1>5. ReadIsKnown'
  BY <1>1, <1>2, <1>3 DEF Posting, ReadIsKnown, Known
<1>6. QueuedOnce'
  BY <1>2, <1>3 DEF Posting, QueuedOnce
<1>7. QueuedIsNotLogged'
  BY <1>1, <1>2, <1>3 DEF Posting, QueuedIsNotLogged
<1> QED BY <1>4, <1>5, <1>6, <1>7 DEF Posting

\* The hub moves the first message of the queue to the log.
LEMMA TakePosts ==
  ASSUME IInv, Posting, HubTake
  PROVE  Posting'
<1>1. /\ UNCHANGED <<reader, out, sent>> /\ broadcast # <<>>
      /\ broadcast' = Tail(broadcast) /\ log' = Append(log, Head(broadcast))
  BY DEF HubTake, readerVars
<1>2. /\ Len(broadcast) \in Nat /\ Len(broadcast') = Len(broadcast) - 1
      /\ 1 \in 1..Len(broadcast)
      /\ \A k \in 1..Len(broadcast') : /\ k + 1 \in 1..Len(broadcast)
                                       /\ broadcast'[k] = broadcast[k + 1]
      /\ Len(log) \in Nat /\ Len(log') = Len(log) + 1
      /\ log'[Len(log) + 1] = broadcast[1]
      /\ \A k \in 1..Len(log) : log'[k] = log[k]
  BY <1>1 DEF IInv, TypeOK
<1>3. \A d \in Clients : OutIsNewest(d)'
  BY <1>1 DEF Posting, OutIsNewest
<1>4. \A d \in Clients : OutIsFresh(d)'
  BY <1>1, <1>2 DEF Posting, OutIsFresh, QueuedIsNotLogged
<1>5. ReadIsKnown'
  BY <1>1, <1>2 DEF Posting, ReadIsKnown, Known
<1>6. QueuedOnce'
  BY <1>2 DEF Posting, QueuedOnce
<1>7. QueuedIsNotLogged'
  <2>1. ASSUME NEW j \in 1..Len(log'), NEW k \in 1..Len(broadcast')
        PROVE  log'[j] # broadcast'[k]
    <3>1. CASE j \in 1..Len(log)
      BY <1>2, <3>1 DEF Posting, QueuedIsNotLogged
    <3>2. CASE j = Len(log) + 1
      BY <1>2, <3>2 DEF Posting, QueuedOnce
    <3> QED BY <1>2, <3>1, <3>2
  <2> QED BY <2>1 DEF QueuedIsNotLogged
<1> QED BY <1>3, <1>4, <1>5, <1>6, <1>7 DEF Posting

\* The invariant is inductive on the reachable states.
LEMMA NextRInv == IInv /\ RInv /\ [Next]_vars => RInv'
<1> SUFFICES ASSUME IInv, RInv, [Next]_vars PROVE RInv'
  OBVIOUS
<1>1. ASSUME NEW c \in Clients, ReaderStep(c) PROVE RInv'
  <2>1. Posting'
    <3>1. CASE Connect(c) \/ ReadError(c) \/ ReaderClose(c)
      <4>1. /\ UNCHANGED <<log, broadcast, sent, out>>
            /\ \A d \in Clients : reader'[d] = "broadcasting" => reader[d] = "broadcasting"
        BY <3>1 DEF Connect, ReadError, ReaderClose, MoveReader, hubVars, history, IInv, TypeOK
      <4> QED BY <4>1, PostFrame DEF RInv
    <3> QED BY <1>1, <3>1, ReadPosts, BroadcastPosts DEF ReaderStep, RInv
  <2> QED BY <1>1, <2>1, ReaderFeeds DEF RInv
<1>2. ASSUME NEW c \in Clients, WriterStep(c) PROVE RInv'
  <2>1. UNCHANGED <<log, broadcast, sent, out, reader>>
    BY <1>2 DEF WriterStep, WriterTake, WriteOk, WriteFail, WriterExit, hubVars, readerVars,
                history
  <2> QED BY <1>2, <2>1, PostFrame, WriterFeeds DEF RInv
<1>3. ASSUME NEW c \in Clients, HubStep(c) PROVE RInv'
  <2>1. /\ UNCHANGED <<log, broadcast, sent, out>>
        /\ \A d \in Clients : reader'[d] = "broadcasting" => reader[d] = "broadcasting"
    BY <1>3 DEF HubStep, HubRegister, HubUnregister, HubSend, MoveReader, readerVars, history,
                IInv, TypeOK
  <2> QED BY <1>3, <2>1, PostFrame, HubFeeds DEF RInv
<1>4. CASE HubTake
  BY <1>4, TakePosts, HubFeeds DEF RInv
<1>5. ASSUME NEW c \in Clients, PeerStep(c) PROVE RInv'
  <2>1. UNCHANGED <<hubVars, chanVars, readerVars, writerVars, history>>
    BY <1>5 DEF PeerStep, PeerGone, PeerStall, PeerResume, SetPeer
  <2>2. Posting'
    BY <2>1, PostFrame DEF RInv, hubVars, readerVars, history
  <2>3. Feeding'
    <3>1. \A d \in Clients : JoinedTogether(d)' /\ FeedIsLog(d)'
      BY <2>1, FeedFrame DEF RInv, Feeding, hubVars, chanVars, readerVars, writerVars, history
    <3> QED BY <2>1, <3>1 DEF RInv, Feeding, HandsOutLast, hubVars, history
  <2> QED BY <2>2, <2>3 DEF RInv
<1>6. CASE UNCHANGED vars
  BY <1>6 DEF vars, RInv, Feeding, HandsOutLast, JoinedTogether, FeedIsLog, BufferedUpTo,
              WrittenUpTo, Writing, Pending, Posting, OutIsNewest, OutIsFresh, ReadIsKnown,
              QueuedOnce, QueuedIsNotLogged, Known,
              hubVars, chanVars, readerVars, writerVars, history
<1> QED BY <1>1, <1>2, <1>3, <1>4, <1>5, <1>6 DEF Next, Quiescent

\* Both invariants hold of every behaviour.
LEMMA FeedInvariance == Spec => []RInv
<1> QED BY InitRInv, NextRInv, Invariance, PTL DEF Spec

-----------------------------------------------------------------------------
(* The refinement.                                                          *)

\* What the hub takes from the queue is a message a peer may send, and new to
\* the log.
LEMMA TakenIsNew ==
  ASSUME IInv, RInv, broadcast # <<>>
  PROVE  /\ Head(broadcast) \in AllMessages
         /\ \A k \in DOMAIN log : log[k] # Head(broadcast)
<1> DEFINE m == Head(broadcast)
<1>1. /\ 1 \in 1..Len(broadcast) /\ m = broadcast[1] /\ m \in Message
      /\ DOMAIN log = 1..Len(log)
  BY DEF IInv, TypeOK
<1>2. m.n <= MaxSent[m.from] /\ \A k \in 1..Len(log) : log[k] # m
  BY <1>1 DEF RInv, Posting, ReadIsKnown, QueuedIsNotLogged, Known
<1>3. /\ m.from \in Clients /\ m.n \in 1..MaxSent[m.from]
      /\ m = [from |-> m.from, n |-> m.n]
  BY <1>1, <1>2, HubAssumption DEF Message
<1>4. m \in [from: {m.from}, n: 1..MaxSent[m.from]]
  BY <1>3
<1> HIDE DEF m
<1>5. m \in AllMessages
  BY <1>3, <1>4 DEF AllMessages
<1> QED BY <1>1, <1>2, <1>5 DEF m

\* Every step of the hub is a step of the room or none at all: a registration is
\* a Join, a message taken a Post, a message written a Deliver.
LEMMA StepRefines ==
  ASSUME IInv, RInv, [Next]_vars
  PROVE  [Room!RoomNext]_(Room!room)
<1> USE DEF Room!room
<1>1. ASSUME NEW c \in Clients, ReaderStep(c) PROVE UNCHANGED Room!room
  BY <1>1 DEF ReaderStep, Connect, ReadMessage, Broadcast, ReadError, ReaderClose, history
<1>2. ASSUME NEW c \in Clients, WriteOk(c) PROVE Room!Deliver(c)
  <2>1. /\ writer[c] = "writing" /\ UNCHANGED <<log, joined>>
        /\ written' = [written EXCEPT ![c] = Append(@, held[c])]
    BY <1>2 DEF WriteOk
  <2>2. /\ joined[c] # NotJoined /\ joined[c] \in Nat
        /\ Len(written[c]) \in Nat /\ Len(send[c]) \in Nat /\ Len(log) \in Nat
    BY <2>1 DEF RInv, Feeding, JoinedTogether, IInv, TypeOK
  <2>3. /\ joined[c] + Len(written[c]) + 1 + Len(send[c]) <= Len(log)
        /\ held[c] = log[joined[c] + Len(written[c]) + 1]
    BY <2>1, <2>2 DEF RInv, Feeding, FeedIsLog, BufferedUpTo, WrittenUpTo, Writing
  <2>4. joined[c] + Len(written[c]) + 1 <= Len(log)
    BY <2>2, <2>3
  <2> QED BY <2>1, <2>2, <2>3, <2>4 DEF Room!Deliver
<1>3. ASSUME NEW c \in Clients, WriterTake(c) \/ WriteFail(c) \/ WriterExit(c)
      PROVE  UNCHANGED Room!room
  BY <1>3 DEF WriterTake, WriteFail, WriterExit, history
<1>4. ASSUME NEW c \in Clients, HubRegister(c) PROVE Room!Join(c)
  <2>1. joined[c] = NotJoined
    BY <1>4 DEF HubRegister, MoveReader, RInv, Feeding, JoinedTogether
  <2> QED BY <1>4, <2>1 DEF HubRegister, Room!Join
<1>5. ASSUME NEW c \in Clients, HubUnregister(c) \/ HubSend(c) PROVE UNCHANGED Room!room
  BY <1>5 DEF HubUnregister, HubSend, history
<1>6. CASE HubTake
  <2>1. Room!Post(Head(broadcast))
    BY <1>6, TakenIsNew DEF HubTake, Room!Post
  <2>2. Head(broadcast) \in AllMessages
    BY <1>6, TakenIsNew DEF HubTake
  <2> QED BY <2>1, <2>2 DEF Room!RoomNext
<1>7. ASSUME NEW c \in Clients, PeerStep(c) PROVE UNCHANGED Room!room
  BY <1>7 DEF PeerStep, PeerGone, PeerStall, PeerResume, SetPeer, history
<1>8. CASE UNCHANGED vars
  BY <1>8 DEF vars, history
<1> QED BY <1>1, <1>2, <1>3, <1>4, <1>5, <1>6, <1>7, <1>8
        DEF Next, WriterStep, HubStep, Quiescent, Room!RoomNext

\* The hub implements the room: whatever clients, disconnects and slow writers do
\* in between, what is written to a client repeats one log, in order and without
\* gaps, from the point where the client joined, and no message is in it twice.
THEOREM HubImplementsRoom == Spec => ImplementsRoom
<1>1. Init => Room!RoomInit
  BY DEF Init, Room!RoomInit
<1>2. IInv /\ RInv /\ [Next]_vars => [Room!RoomNext]_(Room!room)
  BY StepRefines
<1>3. Spec => Room!RoomSpec
  BY <1>1, <1>2, Invariance, FeedInvariance, PTL DEF Spec, Room!RoomSpec
<1> QED BY <1>3 DEF ImplementsRoom

-----------------------------------------------------------------------------
(* Members miss nothing.                                                    *)

\* If one sequence repeats a log from a point on, and another goes on from there,
\* so does their concatenation.
LEMMA LogContinues ==
  ASSUME NEW j \in Nat, NEW l \in Seq(Message),
         NEW x \in Seq(Message), NEW y \in Seq(Message),
         \A k \in 1..Len(x) : x[k] = l[j + k],
         \A k \in 1..Len(y) : y[k] = l[j + Len(x) + k]
  PROVE  \A k \in 1..Len(x \o y) : (x \o y)[k] = l[j + k]
<1> TAKE k \in 1..Len(x \o y)
<1>1. /\ Len(x) \in Nat /\ Len(y) \in Nat /\ k \in 1..(Len(x) + Len(y))
      /\ (x \o y)[k] = IF k <= Len(x) THEN x[k] ELSE y[k - Len(x)]
  BY ConcatProperties
<1>2. CASE k <= Len(x)
  BY <1>1, <1>2
<1>3. CASE k > Len(x)
  <2>1. k - Len(x) \in 1..Len(y) /\ j + Len(x) + (k - Len(x)) = j + k
    BY <1>1, <1>3
  <2>2. y[k - Len(x)] = l[j + Len(x) + (k - Len(x))]
    BY <2>1
  <2> QED BY <1>1, <1>3, <2>1, <2>2
<1> QED BY <1>1, <1>2, <1>3

\* A sequence that repeats a log from a point on is a piece of it.
LEMMA LogPiece ==
  ASSUME NEW j \in Nat, NEW l \in Seq(Message), NEW x \in Seq(Message),
         j + Len(x) <= Len(l),
         \A k \in 1..Len(x) : x[k] = l[j + k]
  PROVE  x = SubSeq(l, j + 1, j + Len(x))
<1> DEFINE piece == SubSeq(l, j + 1, j + Len(x))
<1>1. Len(x) \in Nat /\ Len(l) \in Nat /\ j + 1 \in Int /\ j + Len(x) \in Int
  OBVIOUS
<1>2. \A i \in (j + 1)..(j + Len(x)) : l[i] \in Message
  BY <1>1
<1>3. /\ piece \in Seq(Message)
      /\ Len(piece) = IF j + 1 <= j + Len(x) THEN (j + Len(x)) - (j + 1) + 1 ELSE 0
      /\ \A i \in 1..((j + Len(x)) - (j + 1) + 1) : piece[i] = l[(j + 1) + i - 1]
  BY <1>1, <1>2, SubSeqProperties
<1> HIDE DEF piece
<1>4. Len(piece) = Len(x) /\ \A i \in 1..Len(x) : piece[i] = l[j + i]
  BY <1>1, <1>3
<1>5. x = piece
  BY <1>3, <1>4, SeqEqual
<1> QED BY <1>5 DEF piece

\* The invariant says entry by entry what MembersMissNothing says of the
\* sequences.
LEMMA PipelineIsLog ==
  ASSUME IInv, RInv
  PROVE  MembersMissNothing
<1> SUFFICES ASSUME NEW c \in clients, writer[c] # "done"
             PROVE  Pipeline(c) = SubSeq(log, joined[c] + 1, Len(log) - Pending(c))
  BY DEF MembersMissNothing, Pending
<1> DEFINE inHand == IF held[c] = NoMsg THEN <<>> ELSE <<held[c]>>
           begun  == written[c] \o inHand
<1>1. /\ c \in Clients /\ joined[c] \in Nat /\ joined[c] # NotJoined
      /\ held[c] # NoMsg <=> writer[c] = "writing"
      /\ written[c] \in Seq(Message) /\ send[c] \in Seq(Message) /\ log \in Seq(Message)
  BY HubAssumption DEF RInv, Feeding, JoinedTogether, IInv, TypeOK
<1>2. /\ inHand \in Seq(Message) /\ Len(inHand) = Writing(c)
      /\ \A k \in 1..Len(inHand) : inHand[k] = held[c]
      /\ Writing(c) \in 0..1 /\ (Writing(c) = 1 => writer[c] = "writing")
  BY <1>1 DEF Writing, IInv, TypeOK, MessagesInHand
<1>3. /\ Len(written[c]) \in Nat /\ Len(send[c]) \in Nat /\ Len(log) \in Nat
      /\ WrittenUpTo(c) = joined[c] + Len(written[c])
      /\ BufferedUpTo(c) = WrittenUpTo(c) + Writing(c) + Len(send[c])
      /\ BufferedUpTo(c) + Pending(c) = Len(log) /\ Pending(c) \in 0..1
  BY <1>1 DEF RInv, Feeding, FeedIsLog, WrittenUpTo, BufferedUpTo, Pending
<1>4. /\ \A k \in 1..Len(written[c]) : written[c][k] = log[joined[c] + k]
      /\ writer[c] = "writing" => held[c] = log[WrittenUpTo(c) + 1]
      /\ \A k \in 1..Len(send[c]) : send[c][k] = log[WrittenUpTo(c) + Writing(c) + k]
  BY <1>1 DEF RInv, Feeding, FeedIsLog
<1> HIDE DEF inHand
<1>5. /\ begun \in Seq(Message) /\ Len(begun) = Len(written[c]) + Writing(c)
      /\ \A k \in 1..Len(begun) : begun[k] = log[joined[c] + k]
  <2>1. \A k \in 1..Len(inHand) : inHand[k] = log[joined[c] + Len(written[c]) + k]
    BY <1>2, <1>3, <1>4
  <2>2. \A k \in 1..Len(written[c] \o inHand) : (written[c] \o inHand)[k] = log[joined[c] + k]
    BY <1>1, <1>2, <1>4, <2>1, LogContinues
  <2>3. /\ written[c] \o inHand \in Seq(Message)
        /\ Len(written[c] \o inHand) = Len(written[c]) + Len(inHand)
    BY <1>1, <1>2, ConcatProperties
  <2> QED BY <1>2, <2>2, <2>3
<1>6. Pipeline(c) = begun \o send[c]
  BY DEF Pipeline, inHand
<1> HIDE DEF begun
<1>7. /\ Pipeline(c) \in Seq(Message) /\ Len(Pipeline(c)) = Len(begun) + Len(send[c])
      /\ \A k \in 1..Len(Pipeline(c)) : Pipeline(c)[k] = log[joined[c] + k]
  <2>1. \A k \in 1..Len(send[c]) : send[c][k] = log[joined[c] + Len(begun) + k]
    <3>1. joined[c] + Len(begun) = WrittenUpTo(c) + Writing(c)
      BY <1>1, <1>2, <1>3, <1>5
    <3> QED BY <1>4, <3>1
  <2>2. \A k \in 1..Len(begun \o send[c]) : (begun \o send[c])[k] = log[joined[c] + k]
    BY <1>1, <1>5, <2>1, LogContinues
  <2>3. /\ begun \o send[c] \in Seq(Message)
        /\ Len(begun \o send[c]) = Len(begun) + Len(send[c])
    BY <1>1, <1>5, ConcatProperties
  <2> QED BY <1>6, <2>2, <2>3
<1>8. joined[c] + Len(Pipeline(c)) = Len(log) - Pending(c)
  <2>1. BufferedUpTo(c) = joined[c] + Len(written[c]) + Writing(c) + Len(send[c])
    BY <1>1, <1>3
  <2>2. Len(Pipeline(c)) = Len(written[c]) + Writing(c) + Len(send[c])
    BY <1>5, <1>7
  <2>3. /\ joined[c] \in Nat /\ Len(written[c]) \in Nat /\ Writing(c) \in Nat
        /\ Len(send[c]) \in Nat /\ Pending(c) \in Nat /\ Len(log) \in Nat
        /\ BufferedUpTo(c) + Pending(c) = Len(log)
    BY <1>1, <1>2, <1>3
  <2>4. BufferedUpTo(c) \in Nat /\ Len(Pipeline(c)) \in Nat
    BY <2>1, <2>2, <2>3
  <2>5. joined[c] + Len(Pipeline(c)) = BufferedUpTo(c)
    BY <2>1, <2>2, <2>3, <2>4
  <2> QED BY <2>3, <2>4, <2>5
<1>9. joined[c] + Len(Pipeline(c)) <= Len(log)
  BY <1>3, <1>8
<1> QED BY <1>1, <1>7, <1>8, <1>9, LogPiece

\* A registered client misses nothing: until a write to it fails, what has been
\* written, is being written and is buffered is the log since it joined.
THEOREM NothingIsMissed == Spec => []MembersMissNothing
<1> QED BY PipelineIsLog, Invariance, FeedInvariance, PTL

-----------------------------------------------------------------------------
(* Senders keep their order.                                                *)

\* A reader holds a message exactly while it waits to pass it on.
HoldsOut == \A c \in Clients : out[c] # NoMsg <=> reader[c] = "broadcasting"

OrderInv == HoldsOut /\ SendersKeepOrder

\* A step that passes nothing on and reads nothing keeps the order.
LEMMA OrderFrame ==
  ASSUME IInv, OrderInv, UNCHANGED <<sent, out>>, log' \o broadcast' = Passed,
         \A c \in Clients : reader'[c] = "broadcasting" <=> reader[c] = "broadcasting"
  PROVE  OrderInv'
<1>1. Passed' = Passed
  BY DEF Passed
<1>2. \A c \in Clients : From(c)' = From(c) /\ Due(c)' = Due(c)
  BY <1>1 DEF From, Due
<1> QED BY <1>1, <1>2 DEF OrderInv, HoldsOut, SendersKeepOrder

\* A message read is one more that is due, and held.
LEMMA ReadKeepsOrder ==
  ASSUME IInv, OrderInv, NEW c \in Clients, ReadMessage(c)
  PROVE  OrderInv'
<1>1. /\ Passed' = Passed /\ out[c] = NoMsg /\ sent[c] \in Nat
      /\ out'[c] = [from |-> c, n |-> sent[c] + 1] /\ sent'[c] = sent[c] + 1
      /\ reader'[c] = "broadcasting" /\ out'[c] # NoMsg
  <2>1. [from |-> c, n |-> sent[c] + 1] # NoMsg
    BY NewMessage, NoMsgAssumption DEF IInv, TypeOK
  <2> QED BY <2>1 DEF ReadMessage, MoveReader, Passed, hubVars, OrderInv, HoldsOut, IInv, TypeOK
<1>2. \A d \in Clients \ {c} :
        out'[d] = out[d] /\ sent'[d] = sent[d] /\ reader'[d] = reader[d]
  BY DEF ReadMessage, MoveReader, IInv, TypeOK
<1>3. Due(c)' = Due(c) /\ \A d \in Clients \ {c} : Due(d)' = Due(d)
  BY <1>1, <1>2 DEF Due
<1>4. \A d \in Clients : From(d)' = From(d)
  BY <1>1 DEF From
<1>5. HoldsOut'
  BY <1>1, <1>2 DEF OrderInv, HoldsOut
<1>6. SendersKeepOrder'
  <2> SUFFICES ASSUME NEW d \in Clients
               PROVE  /\ out'[d] # NoMsg => out'[d] = [from |-> d, n |-> sent'[d]]
                      /\ {Passed'[k].n : k \in From(d)'} = 1..Due(d)'
                      /\ \A j, k \in From(d)' : j < k => Passed'[j].n < Passed'[k].n
    BY DEF SendersKeepOrder
  <2>1. out'[d] # NoMsg => out'[d] = [from |-> d, n |-> sent'[d]]
    BY <1>1, <1>2 DEF OrderInv, SendersKeepOrder
  <2>2. Due(d)' = Due(d) /\ From(d)' = From(d) /\ Passed' = Passed
    BY <1>1, <1>3, <1>4
  <2>3. /\ {Passed[k].n : k \in From(d)} = 1..Due(d)
        /\ \A j, k \in From(d) : j < k => Passed[j].n < Passed[k].n
    BY DEF OrderInv, SendersKeepOrder
  <2> QED BY <2>1, <2>2, <2>3
<1> QED BY <1>5, <1>6 DEF OrderInv

\* The message passed on is the newest of its peer, and goes behind all others.
LEMMA BroadcastKeepsOrder ==
  ASSUME IInv, OrderInv, NEW c \in Clients, Broadcast(c)
  PROVE  OrderInv'
<1> DEFINE m == [from |-> c, n |-> sent[c]]
           e == Len(Passed) + 1
<1>1. /\ out[c] = m /\ out[c] # NoMsg /\ out'[c] = NoMsg /\ reader'[c] = "reading"
      /\ UNCHANGED <<sent, log>> /\ broadcast' = Append(broadcast, m)
      /\ \A d \in Clients \ {c} : out'[d] = out[d] /\ reader'[d] = reader[d]
      /\ sent[c] \in Nat /\ m \in Message
  <2>1. reader[c] = "broadcasting" /\ out[c] # NoMsg /\ out[c] \in Message
    BY DEF Broadcast, MoveReader, OrderInv, HoldsOut, IInv, MessagesInHand
  <2>2. out[c] = m
    BY <2>1 DEF OrderInv, SendersKeepOrder
  <2> QED BY <2>1, <2>2 DEF Broadcast, MoveReader, Enqueue, history, IInv, TypeOK
<1>2. log \in Seq(Message) /\ broadcast \in Seq(Message)
  BY DEF IInv, TypeOK
<1>3. /\ Passed \in Seq(Message) /\ Passed' = Append(Passed, m)
      /\ Len(Passed) \in Nat /\ DOMAIN Passed = 1..Len(Passed) /\ DOMAIN Passed' = 1..e
      /\ Passed'[e] = m
      /\ \A k \in 1..Len(Passed) : Passed'[k] = Passed[k]
  <2>1. Passed \in Seq(Message)
    BY <1>2, ConcatProperties DEF Passed
  <2>2. log \o Append(broadcast, m) = Append(log \o broadcast, m)
    <3>1. <<m>> \in Seq(Message)
      BY <1>1
    <3>2. log \o (broadcast \o <<m>>) = (log \o broadcast) \o <<m>>
      BY <1>2, <3>1, ConcatAssociative
    <3>3. Append(broadcast, m) = broadcast \o <<m>>
      BY <1>1, <1>2, AppendIsConcat
    <3>4. Append(log \o broadcast, m) = (log \o broadcast) \o <<m>>
      BY <1>1, <2>1, AppendIsConcat DEF Passed
    <3> QED BY <3>2, <3>3, <3>4
  <2>3. Passed' = Append(Passed, m)
    BY <1>1, <2>2 DEF Passed
  <2> QED BY <1>1, <2>1, <2>3
<1>4. From(c)' = From(c) \cup {e} /\ \A d \in Clients \ {c} : From(d)' = From(d)
  BY <1>3 DEF From
<1>5. Due(c) = sent[c] - 1 /\ Due(c)' = sent[c] /\ \A d \in Clients \ {c} : Due(d)' = Due(d)
  BY <1>1 DEF Due
<1>6. HoldsOut'
  BY <1>1 DEF OrderInv, HoldsOut
<1>7. ASSUME NEW d \in Clients
      PROVE  /\ out[d] # NoMsg => out[d] = [from |-> d, n |-> sent[d]]
             /\ {Passed[k].n : k \in From(d)} = 1..Due(d)
             /\ \A j, k \in From(d) : j < k => Passed[j].n < Passed[k].n
             /\ From(d) \subseteq 1..Len(Passed)
  BY <1>3 DEF OrderInv, SendersKeepOrder, From
<1>8. SendersKeepOrder'
  <2> SUFFICES ASSUME NEW d \in Clients
               PROVE  /\ out'[d] # NoMsg => out'[d] = [from |-> d, n |-> sent'[d]]
                      /\ {Passed'[k].n : k \in From(d)'} = 1..Due(d)'
                      /\ \A j, k \in From(d)' : j < k => Passed'[j].n < Passed'[k].n
    BY DEF SendersKeepOrder
  <2>1. CASE d # c
    <3>1. /\ From(d)' = From(d) /\ Due(d)' = Due(d) /\ out'[d] = out[d] /\ sent' = sent
          /\ \A k \in From(d) : Passed'[k] = Passed[k]
      BY <1>1, <1>3, <1>4, <1>5, <1>7, <2>1
    <3> QED BY <1>7, <3>1
  <2>2. CASE d = c
    <3>1. \A k \in From(c) : Passed'[k] = Passed[k] /\ k < e /\ Passed[k].n \in 1..(sent[c] - 1)
      BY <1>3, <1>5, <1>7
    <3> DEFINE new == {Passed'[k].n : k \in From(c)'}
               old == {Passed[k].n : k \in From(c)}
    <3>2. new = old \cup {sent[c]}
      <4>1. Passed'[e].n = sent[c]
        BY <1>3
      <4>2. \A x : x \in new <=> \E k \in From(c) \cup {e} : x = Passed'[k].n
        BY <1>4
      <4>3. \A x : x \in old <=> \E k \in From(c) : x = Passed'[k].n
        BY <3>1
      <4> QED BY <4>1, <4>2, <4>3
    <3>3. new = 1..sent[c]
      <4>1. sent[c] \in Nat \ {0}
        BY <1>1 DEF Message
      <4>2. old = 1..(sent[c] - 1)
        BY <1>5, <1>7
      <4> HIDE DEF new, old
      <4> QED BY <3>2, <4>1, <4>2
    <3>4. ASSUME NEW j \in From(c)', NEW k \in From(c)', j < k
          PROVE  Passed'[j].n < Passed'[k].n
      <4>0. e \in Int /\ \A i \in From(c) : i \in Int
        BY <1>3, <1>7
      <4>1. j \in From(c)
        BY <1>4, <3>1, <3>4, <4>0
      <4>2. CASE k = e
        <5>1. Passed'[j].n \in 1..(sent[c] - 1)
          BY <3>1, <4>1
        <5>2. Passed'[e].n = sent[c]
          BY <1>3
        <5>3. Passed'[k].n = sent[c]
          BY <4>2, <5>2
        <5> QED BY <1>1, <5>1, <5>3
      <4>3. CASE k \in From(c)
        BY <1>7, <3>1, <3>4, <4>1, <4>3
      <4> QED BY <1>4, <4>2, <4>3
    <3> QED BY <1>1, <1>5, <2>2, <3>3, <3>4
  <2> QED BY <2>1, <2>2
<1> QED BY <1>6, <1>8 DEF OrderInv

\* The hub moves the first message of the queue to the end of the log.
LEMMA TakeKeepsOrder ==
  ASSUME IInv, OrderInv, HubTake
  PROVE  OrderInv'
<1>1. /\ UNCHANGED <<reader, out, sent>> /\ broadcast # <<>>
      /\ broadcast' = Tail(broadcast) /\ log' = Append(log, Head(broadcast))
      /\ log \in Seq(Message) /\ broadcast \in Seq(Message)
  BY DEF HubTake, readerVars, IInv, TypeOK
<1>2. log' \o broadcast' = log \o broadcast
  <2>1. /\ log' \in Seq(Message) /\ broadcast' \in Seq(Message)
        /\ Len(log') = Len(log) + 1 /\ Len(broadcast') = Len(broadcast) - 1
        /\ Len(log) \in Nat /\ Len(broadcast) \in Nat \ {0}
        /\ log'[Len(log) + 1] = broadcast[1]
        /\ \A k \in 1..Len(log) : log'[k] = log[k]
        /\ \A k \in 1..Len(broadcast') : broadcast'[k] = broadcast[k + 1]
    BY <1>1
  <2>2. /\ log' \o broadcast' \in Seq(Message) /\ log \o broadcast \in Seq(Message)
        /\ Len(log' \o broadcast') = Len(log') + Len(broadcast')
        /\ Len(log \o broadcast) = Len(log) + Len(broadcast)
        /\ \A k \in 1..(Len(log') + Len(broadcast')) : (log' \o broadcast')[k] =
               IF k <= Len(log') THEN log'[k] ELSE broadcast'[k - Len(log')]
        /\ \A k \in 1..(Len(log) + Len(broadcast)) : (log \o broadcast)[k] =
               IF k <= Len(log) THEN log[k] ELSE broadcast[k - Len(log)]
    BY <1>1, <2>1, ConcatProperties
  <2>3. Len(log' \o broadcast') = Len(log \o broadcast)
    BY <2>1, <2>2
  <2>4. ASSUME NEW k \in 1..Len(log \o broadcast)
        PROVE  (log' \o broadcast')[k] = (log \o broadcast)[k]
    <3>1. CASE k <= Len(log)
      BY <2>1, <2>2, <2>4, <3>1
    <3>2. CASE k = Len(log) + 1
      BY <2>1, <2>2, <2>4, <3>2
    <3>3. CASE k > Len(log) + 1
      <4>1. /\ k - Len(log') \in 1..Len(broadcast')
            /\ (k - Len(log')) + 1 = k - Len(log)
        BY <2>1, <2>2, <2>4, <3>3
      <4>2. broadcast'[k - Len(log')] = broadcast[k - Len(log)]
        BY <2>1, <4>1
      <4> QED BY <2>1, <2>2, <2>4, <3>3, <4>2
    <3> QED BY <2>1, <2>2, <3>1, <3>2, <3>3
  <2> QED BY <2>2, <2>3, <2>4, SeqEqual
<1> QED BY <1>1, <1>2, OrderFrame DEF Passed

\* Every step keeps the order.
LEMMA NextOrderInv == IInv /\ OrderInv /\ [Next]_vars => OrderInv'
<1> SUFFICES ASSUME IInv, OrderInv, [Next]_vars PROVE OrderInv'
  OBVIOUS
<1> USE DEF hubVars, chanVars, readerVars, writerVars, history
<1>1. ASSUME NEW c \in Clients, ReaderStep(c) PROVE OrderInv'
  <2>1. CASE Connect(c) \/ ReadError(c) \/ ReaderClose(c)
    <3>1. /\ UNCHANGED <<log, broadcast, sent, out>>
          /\ \A d \in Clients : reader'[d] = "broadcasting" <=> reader[d] = "broadcasting"
      BY <2>1 DEF Connect, ReadError, ReaderClose, MoveReader, IInv, TypeOK
    <3> QED BY <3>1, OrderFrame DEF Passed
  <2> QED BY <1>1, <2>1, ReadKeepsOrder, BroadcastKeepsOrder DEF ReaderStep
<1>2. ASSUME NEW c \in Clients, WriterStep(c) \/ PeerStep(c) PROVE OrderInv'
  <2>1. UNCHANGED <<log, broadcast, sent, out, reader>>
    BY <1>2 DEF WriterStep, WriterTake, WriteOk, WriteFail, WriterExit, PeerStep, PeerGone,
                PeerStall, PeerResume, SetPeer
  <2> QED BY <2>1, OrderFrame DEF Passed
<1>3. ASSUME NEW c \in Clients, HubStep(c) PROVE OrderInv'
  <2>1. /\ UNCHANGED <<log, broadcast, sent, out>>
        /\ \A d \in Clients : reader'[d] = "broadcasting" <=> reader[d] = "broadcasting"
    BY <1>3 DEF HubStep, HubRegister, HubUnregister, HubSend, MoveReader, IInv, TypeOK
  <2> QED BY <2>1, OrderFrame DEF Passed
<1>4. CASE UNCHANGED vars
  BY <1>4, OrderFrame DEF vars, Passed
<1> QED BY <1>1, <1>2, <1>3, <1>4, TakeKeepsOrder DEF Next, Quiescent

\* Each peer's messages are logged in the order it sent them, once, and none
\* that has been read is lost.
THEOREM OrderIsKept == Spec => []SendersKeepOrder
<1>1. Init => OrderInv
  <2> SUFFICES ASSUME Init PROVE OrderInv
    OBVIOUS
  <2>1. Passed = <<>>
    BY ConcatEmptySeq DEF Init, Passed
  <2>2. \A c \in Clients : From(c) = {} /\ Due(c) = 0
    BY <2>1 DEF Init, From, Due
  <2> QED BY <2>2 DEF Init, OrderInv, HoldsOut, SendersKeepOrder
<1>2. OrderInv => SendersKeepOrder
  BY DEF OrderInv
<1> QED BY <1>1, <1>2, NextOrderInv, Invariance, PTL DEF Spec

=============================================================================
