# Verification of the voronka backend

The backend of a music club: a REST API for merchandise, orders and events,
passwordless sign-in through Telegram, and a WebSocket chat, written in Go over
PostgreSQL.  This directory holds TLA+ models of its stateful parts, the TLC
configurations that check them on small instances, and TLAPS proofs for every
value of the constants.

    tlc -config MCShopAll.cfg MCShop          # a run; PROJECT.json lists them all
    tlapm ShopProofs.tla                      # a module of proofs

## 1. The system

One process runs an HTTP server (a goroutine per request), the Telegram bot (a
goroutine per update), and the chat hub (one goroutine, and two per
connection).  Handlers call services, services call repositories, repositories
run SQL statements on a pool.  The parts share nothing but the database and the
pool, except inside the chat, which has no database and communicates through
channels.  `cmd/app` and `internal/app` start everything and stop it on a
signal; Docker starts it again.

| Component | State | Operations | What is hard | What makes it correct |
|---|---|---|---|---|
| Merchandise and orders (`repository/postgres/order.go`, `merch_item.go`) | tables `merch_items`, `orders`, `order_items`, `users`; the pool | place an order (a transaction); create, edit, delete an item; change an order's status; list orders; delete a user | races for the last piece, lock cycles, connections held while waiting, edits between two statements, quantities and totals at their limits, lost acknowledgements | stock is conserved and never negative, orders carry current prices and right totals, ordered items and users exist, lists are whole, every request is answered |
| Chat (`handler/ws/hub.go`, `chat.go`) | the client map, one broadcast channel, a send channel per client | connect, read, broadcast, register, unregister, hand out, drop, write, close | blocking channels, slow clients, who closes what, goroutines that end in any order | no panic, no gap and no reordering for members, everything is cleaned up |
| Authentication (`service/auth.go`, `repository/postgres/auth.go`, `handler/telegram/bot.go`) | tables `pending_registrations`, `confirmed_registrations`, `login_codes`, `refresh_tokens`, `users` | register, confirm, poll, verify, refresh, delete a user | no transactions at all, swallowed errors, expiry, repeated deliveries | one user per account, no sessions without a user, pairs handed out once, codes needed for sign-in, deleted users locked out |
| Events (`service/event.go`, `repository/postgres/event.go`) | table `events` | create, edit, delete | check-then-act on the day, read-modify-write | one event per day, deletions last |
| Users (`service/user.go`, `repository/postgres/user.go`) | table `users` | create (by the bot), rename, delete | cascades into sign-in and orders, access tokens that outlive their user | with Authentication and orders |
| Telegram bot (`handler/telegram/bot.go`) | the offset and channel of updates | receive updates, start with a token, reply, send a code | updates run concurrently, come again after a crash or are lost in it | what users are told is true, waiting messages are answered, few are missed |
| App (`app/app.go`, `wire.go`, `cmd/app/main.go`) | running servers | start, signal, shutdown, restart | shutdown waits for some goroutines and cuts off others | what users were told stays true, shutdown ends |
| Upload (`handler/rest/upload.go`) | files | upload | partial writes | an answered URL names a file written to its end |

Left out because they keep no state: the admin token, request ids and
logging of the middleware, configuration, the admin page, the handlers that
only read (but see the listing of orders).  `message.go` and
`ChatService` are constructed but called by nothing; neither are
`DecrementStock` and the `create` handler of users.  The hazards of the code, line by line, and the properties
that look after each are in `PROJECT.json`.

## 2. The modules

    Sums <- SumProofs
    Sums <- Till <- Shop <- ShopInvariant <- ShopProofs <- OrderProofs (-> SumProofs)
                                          <- MCShop
    ChatRoom <- Hub <- HubProofs                    Events <- EventsProofs
                    <- MCHub                               <- MCEvents
    Auth <- AuthProofs <- SignInProofs <- AppProofs (-> App)
         <- MCAuth
         <- App <- MCApp

(An arrow means EXTENDS, except that Hub instantiates ChatRoom and Shop
instantiates Till.)  `Sums` adds up sequences and finite sets with recursive
functions, about which `SumProofs` can prove things.

### Shop and Till

A request is one HTTP call; `op[r]` is what it asks for, `pc[r]` its next SQL
statement.  `PlaceOrder` is `orderService.PlaceOrder`; `ReadPrice` the SELECT
FOR UPDATE, `TakeStock` the guarded UPDATE of a line, `InsertOrder` the INSERTs
and their constraints, `Commit` the commit.  The committed tables are `live`,
`price`, `stock` and `orders`; `taken[r]` is what an open transaction has
subtracted and nobody else sees, `lock` the row locks.  Every early return is
`Rollback`, which is the deferred `tx.Rollback`.  The other handlers run single
autocommitted statements: `ReadItem` and `WriteItem` (PUT), `CreateItem`,
`DeleteItem`, `UpdateStatus` and `ListOrderItems`, `ListOrders` with one
`AttachItems` for each order, and `DeleteUser`.  `Abort` stands for
everything that makes a statement fail (an error, a cancelled context, a crash)
at any point, also the numeric ranges of the INT columns; `DeadlockVictim` for
PostgreSQL's detector.  A commit or write whose acknowledgement is lost answers
500 and has happened (`AnswerWritten`).  `total` wraps like an int64: `Int64`
stands for 2^63.  The two reads of PUT are one step, because only the second
one's result is used and nothing is written between them.

`conns` is who holds a connection of the pool (`Acquire`).  A transaction keeps
its connection from BEGIN to the end, also while it waits for a row lock; every
other statement takes one and gives it back (`Continue` and `GoTo`).  Deleting a
user waits for open transactions that have inserted an order of theirs
(`UserFree`: the key lock of the foreign key), and takes the user out of the
orders (`ForgetUser`).  A listing's orders are bare until their items arrive.
The limit of a listing and its filter are left out.  The lines of an order are
a sequence in the order of the cart, for convenience: `order_items` has no
column for it, and the code promises the lines, not their order.

`Till` is what the shop promises with all of this hidden: sales, deliveries,
withdrawals, status changes and departures, each in one step.  Its variables
are the committed tables, so the refinement mapping is the identity.

### Hub and ChatRoom

A client is one connection.  Its reader is `ServeWS` and `readPump` (`reader`),
its writer `writePump` (`writer`); `send`, `closed` are its channel, `open` its
socket.  The hub's select is enabled while `todo`, the rest of the loop over
the client map, is empty; each turn of the loop is `HubSend`.  Channel
operations block as in Go.  A peer may stall (its socket takes no more data) or
go, or break the protocol (`ReadError`, any failure of a read).  `panicked` records a second close or a send on a closed channel.  The
mutex of the hub is not modelled: only the goroutine of `Run` takes it.
`ChatRoom` is what the chat promises: one log, and a feed per client which
repeats it from where the client joined.

### Auth

Every SQL statement is a step, since nothing runs in a transaction.  Time
counts seconds.  A pair of tokens is its user and the second of minting,
because the JWT contains nothing else that varies (its two readings of the clock
and the INSERT fall into one second in the model); a row of `refresh_tokens` is
the pair whose hash it holds.  `Flaky` switches on the failures of statements
whose error the service swallows or takes for "not found"; failures that are
reported are `Abort`.  An account stands for a Telegram id together with its
username; changing the username at Telegram is not modelled.  Telegram's updates
are requests like the others and may repeat.

The calls on users come with an access token that a client has been given;
`AccessValid` is all that is asked of it (no table is read).  Anybody with a
token may rename or delete anybody, as in the code.  `DeleteUser` cascades like
the foreign keys; `left` remembers when, for `RemovedAreLockedOut` only.
`Rename` is PUT: its look-up and its write, without the value.

### App

App extends Auth with what surrounds it.  `Requests` are HTTP calls and
handlers; a handler is the number of an update with the life of the process it
runs in, so that a redelivered update has a handler of its own.  A call takes
Auth's steps (`Call`), a handler starts with `Dispatch` (`go handleUpdate` and
its first statement), goes on with `Handle` and ends with `Reply`.  `Send`,
`Fetch` and `Acknowledge` are Telegram and the library's polling goroutine:
`fetched` is its offset and lives in memory, `acked` is what Telegram has been
told to forget, and what lies between `taken` and `fetched` is in the channel.
After the signal the context of the handlers is cancelled, so their statements
fail (`Abort`), while their replies and the HTTP calls, which have contexts of
their own, go on.  `Stop` is the exit of `Shutdown` when the HTTP calls
are through (`Drained`, which is net/http's contract; hijacked WebSockets do not
count), `StopLate` the one after ten seconds, `Kill` the sudden death of the
process; each ends whatever was open where it was (`EndProcess`).  A power cut of
the machine is not modelled.  `ListenerFails` is an error of ListenAndServe, which
is logged and leaves the process and its bot running.  `Restart` keeps the tables
and the files, and polls from the first message Telegram has not forgotten
(`FirstOffset`).  An upload is
a file that is created, filled and only then named to the client.

### Events

Look-up, insert, read and write of an event are a step each.  `Titles` stands
for all the columns that nothing constrains.

## 3. The runs

| Run | Shows |
|---|---|
| `shop` | three concurrent requests among racing, empty, excessive and otherwise odd carts, edits, creations, deletions of items and users, status changes and listings: stock is conserved and not negative, only admins raise it, prices and totals are right, ordered items and users exist, lists are whole, answers are honest, and Shop implements Till |
| `shop_live` | every request is answered, lock cycles and an exhausted pool included |
| `hub_room` | no panic, no gaps for members, senders keep their order, and Hub implements ChatRoom |
| `hub_live` | gone peers are cleaned up; accepted messages are handed out whatever others do |
| `auth_join` | one user per account, pairs claimable and claimed once, no orphan rows |
| `auth_signin` | sessions last, sign-in needs a requested code, no orphan rows, a deleted user is locked out when the last access token expires |
| `app` | across a restart: "Verified!" is true, a link registers once, an answered URL names a file written to its end, messages are missed only in the channel of a process that ended, waiting messages are answered, a shutdown ends |
| `events` | one event per day, deletions last, creations are accounted for |

The other runs show where the code departs from what its documents say; each is
a finding in `PROJECT.json`:

- `shop_partial_update`: PUT writes back columns nobody provided, so editing a
  price gives stock back that was sold in between;
- `hub_slow`: a slow client is dropped but not disconnected;
- `auth_rotate` and `auth_reuse`: a refresh token can be used twice, in the
  second of its minting or by two requests at once.

Smaller departures, seen in the code and visible in the models but without a
run of their own: an order stores the user its body names, or none, and never
the authenticated caller (`OrderRow`; `api/openapi.yaml:335` says "Set when the
order was placed by an authenticated user."); insufficient stock is answered 400 where
`api/openapi.yaml:667` says 409 (`TakeStock`); a day that is taken between
look-up and insert is answered 500 (`InsertEvent`);
PUT on events has the read-modify-write of PUT on merchandise, so editing a title
can undo an edit of the day (`ReadEvent`, `WriteEvent`); `code_sent` is true also when Telegram refused the message (`SendMessage`); an
update acknowledged shortly before a crash is never handled (`Acknowledge`,
`Kill`), and its user waits in vain.

**Bounds.**  Shop: two items with stock 2 and 1 and a third to be created,
three requests; three are enough for two orders of a cycle and an admin in
between, and stock runs out.  The pool has a connection for each of them in
`shop` and two for three in `shop_live`, so that somebody waits for it.  `Int64` is 7, so that totals of two lines wrap.  An identifier is needed for each creation; a creation without
one can only fail.  Hub: channels of capacity 1, so that they fill at once; two
peers with two messages each (one with three in the liveness runs), so that one
client is dropped while the other waits in the loop.  `MaxSent` bounds what
peers send.  Auth: four requests, two accounts, two links, two codes; `MaxNow` bounds
the clock, and the lifetimes are short enough for everything to expire within
it.  App: one account, two user identifiers (a redelivered message must not make a
second user), one link opened twice (at most one of the messages comes again in the
second life), two calls (a registration and a poll, or polls), one upload, a
channel of one place; time stands still there, since expiry is in the Auth runs.
`Scenario` in MCApp fixes the order in which calls and identifiers are used and
keeps the upload and the sign-in apart: they share the process only.  A channel of
one place and two messages are enough to lose one and to notice if two were lost.  Events: four requests, two days, two new identifiers.

**Fairness.**  Shop: a request that can run does, and waiters for a row lock
or for a connection are served in order, so nobody waits for ever behind others
(SF of `Step` and `Acquire`, which others' turns disable); the deadlock
detector runs (WF).  Aborts are never required.  Hub:
runnable goroutines run; Go's select chooses at random among the ready cases and
blocked senders queue, hence SF for the steps that wait for the hub; a socket
that takes data again and again wakes its writer (SF).  A reader need not
notice a breach of the protocol (`ReadsNothing`).  Peers promise nothing.
App: the polling goroutine, the loop, the handlers and `main` run on (WF), and
the timer of the shutdown fires (WF of `StopLate`; it is what ends a shutdown
whose clients hold their calls open).  Nothing is assumed of clients, signals,
kills or restarts.  Auth and Events have safety properties only: their requests
are loop-free.

**Deadlock** is checked in every run; `Quiescent` is the state in which all is
done, `Retired` the process that nobody starts again.

## 4. The proofs

All safety properties of the runs that pass, and both refinements, are proved
for every value of the constants that the modules' assumptions admit.

*Shop, one transaction* (ShopProofs, `ShopAssumption` only).  `IInv` strengthens
the properties by: locks belong to open transactions and to rows that exist
(`LocksInTx`); labels match the kind of request; a transaction holds the lock of
every row it has read, and what it remembers of the row is what is committed
(`ReadsCurrent`); what it has subtracted belongs to such rows, is covered by the
committed stock, and is not negative unless some quantity is (`TakenCovered`);
before the commit the constraints have been checked.  `OrdersRefer` says that
stored orders name existing items and users only, and that a transaction before
its commit names an existing user: the key lock keeps the user there
(`UserFree`).  Without the locks the stored price could be stale and two
transactions could spend the same stock; without `TakenCovered` the commit could
make stock negative.  `Invariance` gives `TypeOK`, `StockNonNegative`,
`OrderedItemsExist`, `OrderUsersExist`, and step by step `PricedAtCommit` and
`OnlyAdminsRestock`.

*Shop, what is stored and answered* (OrderProofs).  `OrdersInv`: the lines of a
transaction repeat its cart from the beginning, all of it when it inserts
(`Filled`); a stored order is the whole cart of a request that has ended with 201
or 500 (`Stored`), one for each request; 201 is there only with its row
(`Answered`); every order of a page is stored with the same total, and has the
same lines or none yet (`Listing`).  The last needs that nothing but status and
user of a stored order ever changes (`Reworded`), or a listing could show the
lines of one version and the total of another.  Hence `AnsweredHonestly` and
`ListedWhole`; the latter also counts: `Bare` sees at most one order without
lines, so the one attached was the last.

*Shop, stock and money* (OrderProofs, SumProofs).  `MoneyInv`: what a
transaction has subtracted is the sum of the quantities on its lines, and its
total the sum of their costs modulo 2 * `Int64` (`Counted`), so of stored orders
too, whose quantities are positive and prices not negative (`Charged`); rows
that were there at the start never return to where creations draw from
(`RowsStay`).  SumProofs derives what is needed of sums (a line more adds its
amount, an order more adds its own, orders reworded add up to the same) by
induction on sets of numbers and on the parts of a finite set; the library's
induction theorems, whose parameters are operators, are not needed for that.
`WrapAgain` says that wrapping a summand first makes no difference, so
intermediate overflows cancel out, and `WrapFits` that a sum that fits is not
changed.  Hence `TotalIsSum`, `StockConserved`, and `ImplementsTill`: a commit
is a `Sell`, an edit or creation that succeeds a `Deliver`, a deletion a
`Withdraw`, a status change and a leaving user their namesakes, every other step
a stutter.

*Hub* (HubProofs, `HubAssumption`).  The map holds open channels only and no
client that has yet to register; whoever is passing a message on holds one;
clients still to be served are in the map.  Hence `TypeOK` and `NoPanic`.

*Hub implements ChatRoom* (`HubAssumption`, `NoMsgAssumption`).  `RInv` has two
parts.  `Feeding` says where each client stands in the log: the k-th entry of
what was written, of what is being written and of what is buffered is the entry
of the log at the matching index after `joined`, and for a member the three end
where the log ends, one short while the hub still owes it the current message.
`Posting` says that no message is in two places: a reader holds the newest
message of its peer, everything queued or logged is older, and queue and log
have nothing in common.  With both, a registration is a `Join`, a message taken
a `Post`, a successful write a `Deliver`, and every other step a stutter.
`MembersMissNothing` is `Feeding` read as an equality of sequences.
`SendersKeepOrder` is inductive once a client holds a message exactly while its
reader broadcasts (`HoldsOut`): log and queue together (`Passed`) only grow at
the end, or hand an entry from one to the other.

*Events* (EventsProofs, `EventsAssumption`).  Days are unique, and an update
about to write holds a row.  Every write goes through the UNIQUE constraint,
which is what carries `OneEventPerDay`; the service's look-up is not needed.
`RemovedForGood` follows step by step.  `CreatedOnce` compares two
cardinalities; `Counting` adds that both sets are finite and that a request is
answered once, so that one step adds at most one to each.

*Auth* (AuthProofs, `AuthAssumption`).  `AInv` adds two things to the
properties.  `Session` says what a label or an outcome tells of its request: an
outcome is there only at the end, a confirmation that stores a pair has one, a
request that rotates a token has presented it.  `Minted` says of every pair that
is remembered, waits to be claimed or has been handed out that its user exists
or did, that it was minted no later than that user was deleted, and that its
session is there unless its token was presented or its user deleted.  The
foreign keys carry it past the look-ups that are stale by then: without the
condition on `LiveUsers` in `IssueTokens` a sign-in under way at the deletion
would mint a later token.  Hence `OneUserPerAccount`, which needs the UNIQUE
columns only, `NoOrphanSessions`, `SessionsLast`, `VerifiedIsClaimable` and, step
by step, `RemovedAreLockedOut`.

*Sign-in* (SignInProofs).  `SignInv` adds where things come from: a login code in
the table, and one a request has accepted, was generated by a registration
request of that account (`CodesKnown`, across deletion and the lookups that are
stale by then: `HasRead`); no two confirmations have made one user or minted one
pair (`OneUserEach`); a pair that waits or has been claimed comes from an ended
confirmation of that link and never is in both places (`Claims`).  Hence
`SignInNeedsCode` and `ClaimedOnce`.  That two claims do not get the same pair
rests on DELETE ... RETURNING being one statement, and on the pair's user being
new with each confirmation.

*App* (AppProofs, `AppAssumption`).  App takes Auth's steps on the same tables, so
`AInv` and `SignInv` hold in App, through crashes and restarts, by the lemmas
about Auth (`SignInSurvives`).  `LinksKnown` adds that confirmations of one link
are for one account and that a settled one has the user of that account; with
the UNIQUE column on accounts this makes registrations by a link one
(`LinkRegistersOnce`).  The property excepts links whose user is deleted in
between: two handlers can both have found the link pending, and once the first
one's user is gone the second creates another.  `Fresh` says that an update which
has not left the channel has no handler in this life or the next, `Handling` that
a reply tells the handler's outcome, `FilesWritten` that a URL is answered after
the last write.  Hence `ToldTruth` and `UrlServesWholeFile`.  `LossIsBounded` is
inductive by itself: dispatching a message takes it from what could be missed,
only a restart adds to it (`MissedStep`), namely what was acknowledged and not
taken, which lay in the channel and is no more than that holds.  (It counts
messages without a handler; one whose handler was cut off is not among them.)

**Only model-checked**: the liveness properties (`EveryRequestAnswered`, those
of `hub_live`, and App's), which need ENABLED and temporal reasoning beyond the
prover; and that the code departs from its documents, which are counterexamples.

## 5. Plan

Done, in this order: Shop with its proofs; ChatRoom and Hub, with the proof of
the refinement; Auth; Events; the pool, listings and the deletion of users in
Shop, with Till; the calls on users in Auth; App with the bot's loop, the life
of the process and uploads; the proofs about Auth; then those about orders, sums,
sign-in, App, and the refinement of Till.

Next: the WebSocket goroutines at the end of the process (Hub composed with the
life cycle of App).

**Not modelled**, and why: usernames that change at Telegram between two calls
(an account's name and id are one value; a user whose name has changed cannot
sign in any more, since nothing updates `users.tg_username`); errors of
`Close` on an uploaded file, and power cuts: the file is never synced, so an
answered URL may name a truncated file after one; the values of names, addresses and texts, which
nothing decides on; exits for a bad configuration; the filter and the limit of
listings; the admin token, logging and CORS, which keep no state; `message.go`
and the files under `db/queries`, which no code that runs uses.
