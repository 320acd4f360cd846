------------------------------- MODULE Events -------------------------------
(* Events: the admin handlers of internal/handler/rest/event.go over        *)
(* internal/service/event.go, internal/repository/postgres/event.go and the *)
(* events table.  There may be one event per calendar day; the service      *)
(* looks a day up before it writes, in a statement of its own, and the      *)
(* UNIQUE constraint decides.  Every statement is a step.                   *)
EXTENDS Naturals, FiniteSets

CONSTANTS
    EventIds,   \* identifiers of events rows
    Days,       \* values of event_date
    Titles,     \* stands for the columns that nothing constrains
    Requests,   \* HTTP requests
    Ops,        \* what requests may ask for
    Planned,    \* the rows at the start
    NotGiven,   \* a nil field of UpdateEventRequest
    Unborn, Removed,    \* no row yet, and no longer
    Nothing     \* a request has read no row

Row == [day: Days, title: Titles]

CreateOps == [kind: {"create"}, day: Days, title: Titles]
UpdateOps == [kind: {"update"}, event: EventIds,
              day: Days \cup {NotGiven}, title: Titles \cup {NotGiven}]
DeleteOps == [kind: {"delete"}, event: EventIds]

\* No two rows have one day.
Unique(table) ==
    \A e, f \in EventIds :
        table[e] \in Row /\ table[f] \in Row /\ table[e].day = table[f].day => e = f

ASSUME EventsAssumption ==
    /\ Ops \subseteq CreateOps \cup UpdateOps \cup DeleteOps
    /\ Planned \in [EventIds -> Row \cup {Unborn}]
    /\ Unique(Planned)
    /\ Unborn \notin Row /\ Removed \notin Row /\ Unborn # Removed
    /\ Nothing \notin Row
    /\ NotGiven \notin Days \cup Titles

VARIABLES
    events,     \* the table
    op,         \* what each request asks for
    pc,         \* its next statement
    seen,       \* the row an update has read
    resp        \* HTTP status of the answer, 0 before it

vars == <<events, op, pc, seen, resp>>

Labels == {"begin", "insert", "read", "write", "done"}

TypeOK ==
    /\ events \in [EventIds -> Row \cup {Unborn, Removed}]
    /\ op     \in [Requests -> Ops]
    /\ pc     \in [Requests -> Labels]
    /\ seen   \in [Requests -> Row \cup {Nothing}]
    /\ resp   \in [Requests -> {0, 200, 201, 204, 404, 409, 500}]

Init ==
    /\ events = Planned
    /\ op     \in [Requests -> Ops]
    /\ pc     = [r \in Requests |-> "begin"]
    /\ seen   = [r \in Requests |-> Nothing]
    /\ resp   = [r \in Requests |-> 0]

-----------------------------------------------------------------------------

At(r, label, kind) == pc[r] = label /\ op[r].kind = kind

GoTo(r, label) ==
    /\ pc' = [pc EXCEPT ![r] = label]
    /\ UNCHANGED resp

Answer(r, status) ==
    /\ pc'   = [pc EXCEPT ![r] = "done"]
    /\ resp' = [resp EXCEPT ![r] = status]

\* The acknowledgement of a write that took effect may be lost.
AnswerWritten(r, status) == \E s \in {status, 500} : Answer(r, s)

Exists(e) == events[e] \in Row

\* The day belongs to an event other than the one that may have it.
TakenByOther(d, e) == \E f \in EventIds \ {e} : Exists(f) /\ events[f].day = d

Taken(d) == \E f \in EventIds : Exists(f) /\ events[f].day = d

-----------------------------------------------------------------------------
(* POST /admin/events                                                       *)

\* GetByDate in eventService.Create.
CheckDay(r) ==
    /\ At(r, "begin", "create")
    /\ IF Taken(op[r].day) THEN Answer(r, 409) ELSE GoTo(r, "insert")
    /\ UNCHANGED <<events, op, seen>>

\* uuid.New() never returns an identifier that has been in use.
NewId_Recycled(e) == ~Exists(e)

NewId(e) == events[e] = Unborn

InsertRefused_Never(d) == FALSE

\* event_date DATE NOT NULL UNIQUE; the error has no name of its own.
InsertRefused(d) == Taken(d)

InsertEvent(r) ==
    /\ At(r, "insert", "create")
    /\ \/ /\ InsertRefused(op[r].day)
          /\ Answer(r, 500)
          /\ UNCHANGED events
       \/ /\ ~InsertRefused(op[r].day)
          /\ \E e \in EventIds :
              /\ NewId(e)
              /\ events' = [events EXCEPT ![e] = [day |-> op[r].day, title |-> op[r].title]]
          /\ AnswerWritten(r, 201)
    /\ UNCHANGED <<op, seen>>

-----------------------------------------------------------------------------
(* PUT /admin/events/:id                                                    *)

\* GetByDate in eventService.Update, only when a day is given.
CheckNewDay(r) ==
    /\ At(r, "begin", "update")
    /\ IF op[r].day # NotGiven /\ TakenByOther(op[r].day, op[r].event)
       THEN Answer(r, 409) ELSE GoTo(r, "read")
    /\ UNCHANGED <<events, op, seen>>

\* GetByID in eventRepository.Update.
ReadEvent(r) ==
    /\ At(r, "read", "update")
    /\ LET e == op[r].event IN
        \/ /\ ~Exists(e)
           /\ Answer(r, 404)
           /\ UNCHANGED seen
        \/ /\ Exists(e)
           /\ seen' = [seen EXCEPT ![r] = events[e]]
           /\ GoTo(r, "write")
    /\ UNCHANGED <<events, op>>

Given_Verbatim(new, old) == new

Given(new, old) == IF new = NotGiven THEN old ELSE new

Edited(r) == [day   |-> Given(op[r].day, seen[r].day),
              title |-> Given(op[r].title, seen[r].title)]

RowMissing_Upserted(e) == FALSE

RowMissing(e) == ~Exists(e)

\* UPDATE events SET every column WHERE id = $1 RETURNING ...
WriteEvent(r) ==
    /\ At(r, "write", "update")
    /\ LET e == op[r].event IN
        \/ /\ RowMissing(e)
           /\ Answer(r, 404)
           /\ UNCHANGED events
        \/ /\ ~RowMissing(e)
           /\ TakenByOther(Edited(r).day, e)
           /\ Answer(r, 500)
           /\ UNCHANGED events
        \/ /\ ~RowMissing(e)
           /\ ~TakenByOther(Edited(r).day, e)
           /\ events' = [events EXCEPT ![e] = Edited(r)]
           /\ AnswerWritten(r, 200)
    /\ seen' = [seen EXCEPT ![r] = Nothing]
    /\ UNCHANGED op

-----------------------------------------------------------------------------
(* DELETE /admin/events/:id                                                 *)

DeleteEvent(r) ==
    /\ At(r, "begin", "delete")
    /\ LET e == op[r].event IN
        \/ /\ ~Exists(e)
           /\ Answer(r, 404)
           /\ UNCHANGED events
        \/ /\ Exists(e)
           /\ events' = [events EXCEPT ![e] = Removed]
           /\ AnswerWritten(r, 204)
    /\ UNCHANGED <<op, seen>>

\* A statement fails, the client goes away or the process dies.
Abort(r) ==
    /\ pc[r] # "done"
    /\ Answer(r, 500)
    /\ seen' = [seen EXCEPT ![r] = Nothing]
    /\ UNCHANGED <<events, op>>

\* Every request has been answered.
Quiescent ==
    /\ \A r \in Requests : pc[r] = "done"
    /\ UNCHANGED vars

Create(r) == CheckDay(r) \/ InsertEvent(r)
Update(r) == CheckNewDay(r) \/ ReadEvent(r) \/ WriteEvent(r)

Next ==
    \/ \E r \in Requests : Create(r) \/ Update(r) \/ DeleteEvent(r) \/ Abort(r)
    \/ Quiescent

Spec == Init /\ [][Next]_vars

-----------------------------------------------------------------------------

\* There is never more than one event on a day, although two requests may both
\* have found the day free before either of them writes.
OneEventPerDay == Unique(events)

\* A deleted event stays deleted, although an update may have read it before
\* and writes it back afterwards.
RemovedForGood == [][\A e \in EventIds : events[e] = Removed => events'[e] = Removed]_events

\* Every creation answered 201 has made one row of its own and every refused
\* one none, whatever happened to the rows since; a 500 may stand for either.
Created  == {e \in EventIds : Planned[e] = Unborn /\ events[e] # Unborn}
Asked(S) == {r \in Requests : op[r].kind = "create" /\ resp[r] \in S}

CreatedOnce ==
    /\ Cardinality(Asked({201})) <= Cardinality(Created)
    /\ Cardinality(Created) <= Cardinality(Asked({201, 500}))

=============================================================================
