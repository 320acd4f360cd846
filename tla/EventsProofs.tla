---------------------------- MODULE EventsProofs ----------------------------
(* Proofs that Events keeps one event per day, never brings one back, and   *)
(* answers a creation with 201 only when it has made a row.                 *)
EXTENDS Events, FiniteSetTheorems, TLAPS

\* What an update holds is a row, and a request does what it was asked to: the
\* part of TypeOK and of the labels that the induction needs.
LabelMatches ==
    \A r \in Requests :
        /\ pc[r] = "insert" => op[r].kind = "create"
        /\ pc[r] \in {"read", "write"} => op[r].kind = "update"
        /\ pc[r] = "write" => seen[r] \in Row

IInv == TypeOK /\ LabelMatches /\ OneEventPerDay

\* An operation has the fields of its kind.
LEMMA OpFields ==
  ASSUME NEW o \in Ops
  PROVE  /\ o.kind = "create" => o.day \in Days /\ o.title \in Titles
         /\ o.kind = "update" => /\ o.event \in EventIds
                                 /\ o.day \in Days \cup {NotGiven}
                                 /\ o.title \in Titles \cup {NotGiven}
         /\ o.kind = "delete" => o.event \in EventIds
BY EventsAssumption DEF CreateOps, UpdateOps, DeleteOps

\* Putting a row on a free day keeps the days unique.
LEMMA PutKeepsUnique ==
  ASSUME IInv, NEW e \in EventIds, NEW row \in Row, ~TakenByOther(row.day, e),
         events' = [events EXCEPT ![e] = row]
  PROVE  OneEventPerDay'
<1>1. events \in [EventIds -> Row \cup {Unborn, Removed}]
  BY DEF IInv, TypeOK
<1> SUFFICES ASSUME NEW f \in EventIds, NEW g \in EventIds,
                    events'[f] \in Row, events'[g] \in Row,
                    events'[f].day = events'[g].day
             PROVE  f = g
  BY DEF OneEventPerDay, Unique
<1>2. CASE f # e /\ g # e
  BY <1>1, <1>2 DEF IInv, OneEventPerDay, Unique
<1>3. CASE f = e /\ g # e
  BY <1>1, <1>3 DEF TakenByOther, Exists
<1>4. CASE f # e /\ g = e
  BY <1>1, <1>4 DEF TakenByOther, Exists
<1> QED BY <1>2, <1>3, <1>4

\* Losing a row keeps the days unique.
LEMMA RemoveKeepsUnique ==
  ASSUME IInv, NEW e \in EventIds, events' = [events EXCEPT ![e] = Removed]
  PROVE  OneEventPerDay'
<1>1. events \in [EventIds -> Row \cup {Unborn, Removed}] /\ Removed \notin Row
  BY EventsAssumption DEF IInv, TypeOK
<1> QED BY <1>1 DEF IInv, OneEventPerDay, Unique

\* The initial states satisfy the invariant.
LEMMA InitIInv == Init => IInv
BY EventsAssumption DEF Init, IInv, TypeOK, LabelMatches, OneEventPerDay, Labels

\* Each action preserves the invariant.
LEMMA NextIInv == IInv /\ [Next]_vars => IInv'
<1> SUFFICES ASSUME IInv, [Next]_vars PROVE IInv'
  OBVIOUS
<1> USE DEF GoTo, Answer, AnswerWritten, Labels
<1>0. IInv /\ UNCHANGED vars => IInv'
  BY DEF vars, IInv, TypeOK, LabelMatches, OneEventPerDay, Unique
<1>1. ASSUME NEW r \in Requests, CheckDay(r) PROVE IInv'
  BY <1>1 DEF CheckDay, At, IInv, TypeOK, LabelMatches, OneEventPerDay, Unique
<1>2. ASSUME NEW r \in Requests, InsertEvent(r) PROVE IInv'
  <2>1. CASE InsertRefused(op[r].day)
    BY <1>2, <2>1 DEF InsertEvent, At, IInv, TypeOK, LabelMatches, OneEventPerDay, Unique
  <2>2. CASE ~InsertRefused(op[r].day)
    <3> DEFINE row == [day |-> op[r].day, title |-> op[r].title]
    <3>1. op[r] \in Ops /\ op[r].kind = "create"
      BY <1>2 DEF InsertEvent, At, IInv, TypeOK
    <3>2. row \in Row
      BY <3>1, OpFields DEF Row
    <3>3. PICK e \in EventIds : NewId(e) /\ events' = [events EXCEPT ![e] = row]
      BY <1>2, <2>2 DEF InsertEvent
    <3>4. ~TakenByOther(row.day, e)
      BY <2>2 DEF InsertRefused, Taken, TakenByOther
    <3> HIDE DEF row
    <3>5. OneEventPerDay'
      BY <3>2, <3>3, <3>4, PutKeepsUnique
    <3> QED BY <1>2, <2>2, <3>2, <3>3, <3>5 DEF InsertEvent, At, IInv, TypeOK, LabelMatches
  <2> QED BY <2>1, <2>2
<1>3. ASSUME NEW r \in Requests, CheckNewDay(r) PROVE IInv'
  BY <1>3 DEF CheckNewDay, At, IInv, TypeOK, LabelMatches, OneEventPerDay, Unique
<1>4. ASSUME NEW r \in Requests, ReadEvent(r) PROVE IInv'
  BY <1>4 DEF ReadEvent, Exists, At, IInv, TypeOK, LabelMatches, OneEventPerDay, Unique
<1>5. ASSUME NEW r \in Requests, WriteEvent(r) PROVE IInv'
  <2> DEFINE e == op[r].event
  <2>1. op[r] \in Ops /\ op[r].kind = "update" /\ seen[r] \in Row
    BY <1>5 DEF WriteEvent, At, IInv, TypeOK, LabelMatches
  <2>2. e \in EventIds /\ Edited(r) \in Row
    BY <2>1, OpFields DEF Edited, Given, Row
  <2>3. CASE events' = events
    BY <1>5, <2>3 DEF WriteEvent, At, IInv, TypeOK, LabelMatches, OneEventPerDay, Unique
  <2>4. CASE /\ ~TakenByOther(Edited(r).day, e)
             /\ events' = [events EXCEPT ![e] = Edited(r)]
    <3>1. OneEventPerDay'
      BY <2>2, <2>4, PutKeepsUnique
    <3> QED BY <1>5, <2>2, <2>4, <3>1 DEF WriteEvent, At, IInv, TypeOK, LabelMatches
  <2> QED BY <1>5, <2>3, <2>4 DEF WriteEvent
<1>6. ASSUME NEW r \in Requests, DeleteEvent(r) PROVE IInv'
  <2> DEFINE e == op[r].event
  <2>1. e \in EventIds
    BY <1>6, OpFields DEF DeleteEvent, At, IInv, TypeOK
  <2>2. CASE events' = events
    BY <1>6, <2>2 DEF DeleteEvent, At, IInv, TypeOK, LabelMatches, OneEventPerDay, Unique
  <2>3. CASE events' = [events EXCEPT ![e] = Removed]
    <3>1. OneEventPerDay'
      BY <2>1, <2>3, RemoveKeepsUnique
    <3> QED BY <1>6, <2>1, <2>3, <3>1 DEF DeleteEvent, At, IInv, TypeOK, LabelMatches
  <2> QED BY <1>6, <2>2, <2>3 DEF DeleteEvent
<1>7. ASSUME NEW r \in Requests, Abort(r) PROVE IInv'
  BY <1>7 DEF Abort, IInv, TypeOK, LabelMatches, OneEventPerDay, Unique
<1> QED BY <1>0, <1>1, <1>2, <1>3, <1>4, <1>5, <1>6, <1>7
        DEF Next, Create, Update, Quiescent

\* The inductive invariant of Events: types, labels and unique days.
THEOREM Invariance == Spec => []IInv
<1> QED BY InitIInv, NextIInv, PTL DEF Spec

\* Every variable keeps its type.
THEOREM EventsTypeOK == Spec => []TypeOK
<1>1. IInv => TypeOK
  BY DEF IInv
<1> QED BY Invariance, <1>1, PTL

\* No interleaving of creations, edits and deletions ever puts two events on
\* one day: the look-up of the service alone would not prevent it.
THEOREM OneEventPerDayAlways == Spec => []OneEventPerDay
<1>1. IInv => OneEventPerDay
  BY DEF IInv
<1> QED BY Invariance, <1>1, PTL

\* No step brings a deleted event back, not even the second half of an update
\* that read the event before it was deleted.
THEOREM RemovedIsForGood == Spec => RemovedForGood
<1> DEFINE Kept == \A e \in EventIds : events[e] = Removed => events'[e] = Removed
<1>1. IInv /\ [Next]_vars => [Kept]_events
  <2> SUFFICES ASSUME IInv, [Next]_vars, events' # events,
                      NEW e \in EventIds, events[e] = Removed
               PROVE  events'[e] = Removed
    OBVIOUS
  <2>1. events \in [EventIds -> Row \cup {Unborn, Removed}]
    BY DEF IInv, TypeOK
  <2>2. Removed \notin Row /\ Removed # Unborn
    BY EventsAssumption
  <2>3. ASSUME NEW r \in Requests, InsertEvent(r) PROVE events'[e] = Removed
    BY <2>1, <2>2, <2>3 DEF InsertEvent, NewId
  <2>4. ASSUME NEW r \in Requests, WriteEvent(r) PROVE events'[e] = Removed
    BY <2>1, <2>2, <2>4 DEF WriteEvent, RowMissing, Exists
  <2>5. ASSUME NEW r \in Requests, DeleteEvent(r) PROVE events'[e] = Removed
    BY <2>1, <2>5 DEF DeleteEvent
  <2> QED BY <2>3, <2>4, <2>5
          DEF Next, Create, Update, Quiescent, vars, CheckDay, CheckNewDay, ReadEvent, Abort
<1> QED BY Invariance, <1>1, PTL DEF Spec, RemovedForGood

-----------------------------------------------------------------------------
(* Creations are accounted for.                                             *)

\* What has to be counted is finite, and a request is answered once: nothing
\* that has not been answered has been counted.
Counting ==
    /\ IsFiniteSet(Created)
    /\ IsFiniteSet(Asked({201})) /\ IsFiniteSet(Asked({201, 500}))
    /\ \A r \in Requests : pc[r] # "done" => resp[r] = 0
    /\ \A e \in EventIds : events[e] = Unborn => Planned[e] = Unborn
    /\ CreatedOnce

CInv == IInv /\ Counting

\* One more element is counted as one more.
LEMMA OneMore ==
  ASSUME NEW A, IsFiniteSet(A), NEW x, x \notin A, NEW B, B = A \cup {x}
  PROVE  IsFiniteSet(B) /\ Cardinality(A) \in Nat /\ Cardinality(B) = Cardinality(A) + 1
BY FS_AddElement, FS_CardinalityType

\* An answer adds its request to those counted under its status, if it was a
\* creation.
LEMMA AnswerCounts ==
  ASSUME IInv, Counting, NEW r \in Requests, pc[r] # "done",
         op' = op, resp' = [resp EXCEPT ![r] = resp'[r]]
  PROVE  /\ r \notin Asked({201}) /\ r \notin Asked({201, 500})
         /\ Asked({201})' = IF resp'[r] = 201 /\ op[r].kind = "create"
                            THEN Asked({201}) \cup {r} ELSE Asked({201})
         /\ Asked({201, 500})' = IF resp'[r] \in {201, 500} /\ op[r].kind = "create"
                                 THEN Asked({201, 500}) \cup {r} ELSE Asked({201, 500})
<1>1. resp \in [Requests -> {0, 200, 201, 204, 404, 409, 500}] /\ resp[r] = 0
  BY DEF IInv, TypeOK, Counting
<1>2. r \notin Asked({201}) /\ r \notin Asked({201, 500})
  BY <1>1 DEF Asked
<1>3. Asked({201})' = IF resp'[r] = 201 /\ op[r].kind = "create"
                     THEN Asked({201}) \cup {r} ELSE Asked({201})
  BY <1>1 DEF Asked
<1>4. Asked({201, 500})' = IF resp'[r] \in {201, 500} /\ op[r].kind = "create"
                          THEN Asked({201, 500}) \cup {r} ELSE Asked({201, 500})
  BY <1>1 DEF Asked
<1> QED BY <1>2, <1>3, <1>4

\* A step that creates no row keeps the accounts, unless it answers 201.
LEMMA SameRowsCounted ==
  ASSUME IInv, Counting, NEW r \in Requests, pc[r] # "done", op' = op,
         \/ UNCHANGED resp
         \/ /\ pc'[r] = "done"
            /\ \E s \in {200, 204, 404, 409, 500} : resp' = [resp EXCEPT ![r] = s],
         \A q \in Requests : pc'[q] # "done" => pc[q] # "done",
         \A e \in EventIds : events'[e] = Unborn <=> events[e] = Unborn
  PROVE  Counting'
<1>1. Created' = Created
  BY DEF Created
<1>2. \A q \in Requests : pc'[q] # "done" => resp'[q] = 0
  BY DEF IInv, TypeOK, Counting
<1>3. CASE UNCHANGED resp
  <2>1. Asked({201})' = Asked({201}) /\ Asked({201, 500})' = Asked({201, 500})
    BY <1>3 DEF Asked
  <2> QED BY <1>1, <1>2, <2>1 DEF Counting, CreatedOnce
<1>4. CASE \E s \in {200, 204, 404, 409, 500} : resp' = [resp EXCEPT ![r] = s]
  <2>1. PICK s \in {200, 204, 404, 409, 500} : resp' = [resp EXCEPT ![r] = s]
    BY <1>4
  <2>2. /\ r \notin Asked({201, 500}) /\ Asked({201})' = Asked({201})
        /\ Asked({201, 500})' \in {Asked({201, 500}), Asked({201, 500}) \cup {r}}
    <3>0. resp' = [resp EXCEPT ![r] = resp'[r]] /\ resp'[r] # 201
      BY <2>1 DEF IInv, TypeOK
    <3>1. IInv /\ Counting /\ pc[r] # "done" /\ op' = op /\ resp' = [resp EXCEPT ![r] = resp'[r]]
      BY <3>0
    <3>2. /\ r \notin Asked({201, 500})
          /\ Asked({201})' = IF resp'[r] = 201 /\ op[r].kind = "create"
                             THEN Asked({201}) \cup {r} ELSE Asked({201})
          /\ Asked({201, 500})' = IF resp'[r] \in {201, 500} /\ op[r].kind = "create"
                                  THEN Asked({201, 500}) \cup {r} ELSE Asked({201, 500})
      BY <3>1, AnswerCounts
    <3> QED BY <3>0, <3>2
  <2>3. /\ IsFiniteSet(Asked({201, 500})')
        /\ Cardinality(Asked({201, 500})) \in Nat
        /\ Cardinality(Asked({201, 500})') \in {Cardinality(Asked({201, 500})),
                                               Cardinality(Asked({201, 500})) + 1}
    BY <2>2, OneMore, FS_CardinalityType DEF Counting
  <2>4. Cardinality(Created) \in Nat
    BY FS_CardinalityType DEF Counting
  <2> QED BY <1>1, <1>2, <2>2, <2>3, <2>4 DEF Counting, CreatedOnce
<1> QED BY <1>3, <1>4

\* At the start nothing has been created or answered.
LEMMA InitCounting == Init => Counting
<1> SUFFICES ASSUME Init PROVE Counting
  OBVIOUS
<1>1. Created = {} /\ Asked({201}) = {} /\ Asked({201, 500}) = {}
  BY DEF Init, Created, Asked
<1> QED BY <1>1, FS_EmptySet DEF Init, Counting, CreatedOnce

\* A successful insert adds one row to those created.
LEMMA InsertCounts ==
  ASSUME IInv, Counting, NEW r \in Requests, InsertEvent(r), ~InsertRefused(op[r].day)
  PROVE  Counting'
<1>0. /\ events \in [EventIds -> Row \cup {Unborn, Removed}]
      /\ pc \in [Requests -> Labels] /\ op[r].kind = "create" /\ pc[r] = "insert"
      /\ resp \in [Requests -> {0, 200, 201, 204, 404, 409, 500}]
      /\ op[r] \in Ops /\ op' = op
  BY DEF IInv, TypeOK, InsertEvent, At
<1>1. PICK e \in EventIds :
        /\ events[e] = Unborn
        /\ events' = [events EXCEPT ![e] = [day |-> op[r].day, title |-> op[r].title]]
  BY DEF InsertEvent, NewId
<1>2. PICK s \in {201, 500} : resp' = [resp EXCEPT ![r] = s] /\ pc' = [pc EXCEPT ![r] = "done"]
  BY DEF InsertEvent, AnswerWritten, Answer
<1>3. events'[e] # Unborn
  BY <1>0, <1>1, OpFields, EventsAssumption DEF Row
<1>4. Created' = Created \cup {e} /\ e \notin Created
  BY <1>0, <1>1, <1>3 DEF Created, Counting
<1>5. /\ IsFiniteSet(Created') /\ Cardinality(Created') = Cardinality(Created) + 1
      /\ Cardinality(Created) \in Nat
  BY <1>4, FS_AddElement, FS_CardinalityType DEF Counting
<1>6. /\ r \notin Asked({201}) /\ r \notin Asked({201, 500})
      /\ Asked({201})' \in {Asked({201}), Asked({201}) \cup {r}}
      /\ Asked({201, 500})' = Asked({201, 500}) \cup {r}
  <2>1. resp' = [resp EXCEPT ![r] = resp'[r]] /\ resp'[r] \in {201, 500} /\ pc[r] # "done"
    BY <1>0, <1>2
  <2>1a. /\ IInv /\ Counting /\ pc[r] # "done" /\ op' = op
         /\ resp' = [resp EXCEPT ![r] = resp'[r]]
    BY <1>0, <2>1
  <2>2. /\ r \notin Asked({201}) /\ r \notin Asked({201, 500})
        /\ Asked({201})' = IF resp'[r] = 201 /\ op[r].kind = "create"
                           THEN Asked({201}) \cup {r} ELSE Asked({201})
        /\ Asked({201, 500})' = IF resp'[r] \in {201, 500} /\ op[r].kind = "create"
                                THEN Asked({201, 500}) \cup {r} ELSE Asked({201, 500})
    BY <2>1a, AnswerCounts
  <2> QED BY <1>0, <2>1, <2>2
<1>7. /\ IsFiniteSet(Asked({201})')
      /\ Cardinality(Asked({201})) \in Nat
      /\ Cardinality(Asked({201})') \in {Cardinality(Asked({201})), Cardinality(Asked({201})) + 1}
      /\ IsFiniteSet(Asked({201, 500})')
      /\ Cardinality(Asked({201, 500})) \in Nat
      /\ Cardinality(Asked({201, 500})') = Cardinality(Asked({201, 500})) + 1
  BY <1>6, OneMore, FS_CardinalityType DEF Counting
<1>8. \A q \in Requests : pc'[q] # "done" => resp'[q] = 0
  BY <1>0, <1>2 DEF Counting
<1>9. \A f \in EventIds : events'[f] = Unborn => Planned[f] = Unborn
  BY <1>0, <1>1, <1>3 DEF Counting
<1>10. CreatedOnce'
  BY <1>5, <1>7 DEF Counting, CreatedOnce
<1> QED BY <1>5, <1>7, <1>8, <1>9, <1>10 DEF Counting

\* Every action keeps the accounts.
LEMMA NextCounting == CInv /\ [Next]_vars => Counting'
<1> SUFFICES ASSUME IInv, Counting, [Next]_vars PROVE Counting'
  BY DEF CInv
<1>0. /\ events \in [EventIds -> Row \cup {Unborn, Removed}]
      /\ pc \in [Requests -> Labels] /\ op \in [Requests -> Ops]
      /\ Unborn \notin Row /\ Unborn # Removed
  BY EventsAssumption DEF IInv, TypeOK
<1> USE DEF GoTo, Answer, AnswerWritten, At
<1>1. ASSUME NEW r \in Requests, CheckDay(r) PROVE Counting'
  BY <1>0, <1>1, SameRowsCounted DEF CheckDay
<1>2. ASSUME NEW r \in Requests, InsertEvent(r) PROVE Counting'
  <2>1. CASE InsertRefused(op[r].day)
    BY <1>0, <1>2, <2>1, SameRowsCounted DEF InsertEvent
  <2> QED BY <1>2, <2>1, InsertCounts
<1>3. ASSUME NEW r \in Requests, CheckNewDay(r) PROVE Counting'
  BY <1>0, <1>3, SameRowsCounted DEF CheckNewDay
<1>4. ASSUME NEW r \in Requests, ReadEvent(r) PROVE Counting'
  BY <1>0, <1>4, SameRowsCounted DEF ReadEvent
<1>5. ASSUME NEW r \in Requests, WriteEvent(r) PROVE Counting'
  <2>1. op[r].event \in EventIds /\ Edited(r) \in Row
    <3>1. op[r] \in Ops /\ op[r].kind = "update" /\ seen[r] \in Row
      BY <1>5 DEF WriteEvent, IInv, TypeOK, LabelMatches
    <3> QED BY <3>1, OpFields DEF Edited, Given, Row
  <2>2. \A e \in EventIds : events'[e] = Unborn <=> events[e] = Unborn
    BY <1>0, <1>5, <2>1 DEF WriteEvent, RowMissing, Exists
  <2>3. /\ op' = op /\ pc[r] # "done" /\ pc' = [pc EXCEPT ![r] = "done"]
        /\ \E s \in {200, 204, 404, 409, 500} : resp' = [resp EXCEPT ![r] = s]
    BY <1>5 DEF WriteEvent
  <2>4. pc'[r] = "done" /\ \A q \in Requests : pc'[q] # "done" => pc[q] # "done"
    BY <1>0, <2>3
  <2> QED BY <2>2, <2>3, <2>4, SameRowsCounted
<1>6. ASSUME NEW r \in Requests, DeleteEvent(r) PROVE Counting'
  <2>1. op[r].event \in EventIds
    BY <1>0, <1>6, OpFields DEF DeleteEvent
  <2>2. \A e \in EventIds : events'[e] = Unborn <=> events[e] = Unborn
    BY <1>0, <1>6, <2>1 DEF DeleteEvent, Exists
  <2>3. /\ op' = op /\ pc[r] # "done" /\ pc' = [pc EXCEPT ![r] = "done"]
        /\ \E s \in {200, 204, 404, 409, 500} : resp' = [resp EXCEPT ![r] = s]
    BY <1>6 DEF DeleteEvent
  <2>4. pc'[r] = "done" /\ \A q \in Requests : pc'[q] # "done" => pc[q] # "done"
    BY <1>0, <2>3
  <2> QED BY <2>2, <2>3, <2>4, SameRowsCounted
<1>7. ASSUME NEW r \in Requests, Abort(r) PROVE Counting'
  <2>1. /\ op' = op /\ pc[r] # "done" /\ pc' = [pc EXCEPT ![r] = "done"]
        /\ events' = events
        /\ \E s \in {200, 204, 404, 409, 500} : resp' = [resp EXCEPT ![r] = s]
    BY <1>7 DEF Abort
  <2>2. pc'[r] = "done" /\ \A q \in Requests : pc'[q] # "done" => pc[q] # "done"
    BY <1>0, <2>1
  <2>3. \A e \in EventIds : events'[e] = Unborn <=> events[e] = Unborn
    BY <2>1
  <2> QED BY <2>1, <2>2, <2>3, SameRowsCounted
<1>8. CASE UNCHANGED vars
  BY <1>8 DEF vars, Counting, CreatedOnce, Created, Asked
<1> QED BY <1>1, <1>2, <1>3, <1>4, <1>5, <1>6, <1>7, <1>8
        DEF Next, Create, Update, Quiescent

\* A creation answered 201 has made a row, and one answered 409 none: never do
\* the answers 201 exceed the rows created, nor these the answers 201 and 500.
THEOREM CreationsAreCounted == Spec => []CreatedOnce
<1>1. Init => CInv
  BY InitIInv, InitCounting DEF CInv
<1>2. CInv /\ [Next]_vars => CInv'
  BY NextIInv, NextCounting DEF CInv
<1>3. CInv => CreatedOnce
  BY DEF CInv, Counting
<1> QED BY <1>1, <1>2, <1>3, PTL DEF Spec

=============================================================================
