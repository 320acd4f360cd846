-------------------------------- MODULE Auth --------------------------------
(* Passwordless sign-in: internal/service/auth.go over the repositories of  *)
(* internal/repository/postgres/auth.go and user.go, called by the handlers *)
(* of internal/handler/rest/auth.go and by the Telegram bot; and the calls  *)
(* on users that middleware.Auth lets through.                              *)
(*                                                                          *)
(* Nothing here runs in a transaction: every SQL statement commits alone,   *)
(* is one step, and a request may fail between any two of them.  Some       *)
(* statements have their error swallowed.  Time counts seconds, the         *)
(* resolution of the dates in a JWT: a token is its user and its second.    *)
EXTENDS Integers, FiniteSets

CONSTANTS
    Accounts,       \* Telegram accounts: an id with its username
    UserIds,        \* identifiers of users rows
    Links,          \* deeplink tokens
    Codes,          \* login codes
    Requests,       \* HTTP calls and Telegram updates
    Kinds,          \* bound: which operations requests ask for
    Start,          \* the users at the start, with one session each
    LinkTTL, CodeTTL, RefreshTTL, AccessTTL,   \* lifetimes, in seconds
    MaxNow,         \* bound: the last second
    Flaky,          \* statements whose error the service swallows may fail
    Unborn, Removed, None

Pair == [user: UserIds, sec: Nat]       \* an access and a refresh token

AllKinds == {"register", "confirm", "poll", "verify", "refresh", "rename", "delete"}

Operation ==
    [kind: {"register"}, who: Accounts] \cup
    [kind: {"confirm"}, link: Links, who: Accounts] \cup
    [kind: {"poll"}, link: Links] \cup
    [kind: {"verify"}, who: Accounts, code: Codes] \cup
    [kind: {"refresh"}, token: Pair] \cup
    [kind: {"rename", "delete"}, user: UserIds, token: Pair]

ASSUME AuthAssumption ==
    /\ Start \in [UserIds -> Accounts \cup {Unborn}]
    /\ \A u, v \in UserIds : Start[u] # Unborn /\ Start[u] = Start[v] => u = v
    /\ Unborn # Removed /\ Unborn \notin Accounts /\ Removed \notin Accounts
    /\ None \notin UserIds \cup Pair \cup Codes \cup Operation
    /\ Kinds \subseteq AllKinds
    /\ {LinkTTL, CodeTTL, RefreshTTL, AccessTTL, MaxNow} \subseteq Nat
    /\ Flaky \in BOOLEAN

VARIABLES
    now,        \* the clock
    users,      \* users: the account of each row
    left,       \* when each row was deleted
    links,      \* pending_registrations, by token
    confirmed,  \* confirmed_registrations, by token
    codes,      \* login_codes, by user
    refresh,    \* refresh_tokens; a row is as good as its hash
    pc,         \* the next statement of each request
    op,         \* what each request asks for
    user,       \* the user a request has read or created
    good,       \* the verdict on the code or token it has read
    code,       \* the code it has generated
    pair,       \* the pair it has minted or claimed
    resp        \* its outcome

tables  == <<users, left, links, confirmed, codes, refresh>>
session == <<user, good, code, pair>>
vars == <<now, tables, pc, op, session, resp>>

Labels == {"begin", "upsert", "send", "pending", "expired", "create", "forget",
           "code", "burn", "rotate", "issue", "store", "name", "done"}

Outcomes == {"none", "deeplink", "code_sent", "pair", "ok", "refused", "unauthorized",
             "failed"}

LiveUsers  == {u \in UserIds : users[u] \in Accounts}
HasUser(a) == \E u \in UserIds : users[u] = a

TypeOK ==
    /\ now       \in 0..MaxNow
    /\ users     \in [UserIds -> Accounts \cup {Unborn, Removed}]
    /\ left      \in [UserIds -> 0..MaxNow]
    /\ links     \in [Links -> [who: Accounts, until: Nat] \cup {Unborn, Removed}]
    /\ confirmed \in [Links -> Pair \cup {None}]
    /\ codes     \in [UserIds -> [code: Codes, until: Nat] \cup {None}]
    /\ refresh   \subseteq Pair
    /\ pc        \in [Requests -> Labels]
    /\ op        \in [Requests -> Operation \cup {None}]
    /\ user      \in [Requests -> UserIds \cup {None}]
    /\ good      \in [Requests -> BOOLEAN]
    /\ code      \in [Requests -> Codes \cup {None}]
    /\ pair      \in [Requests -> Pair \cup {None}]
    /\ resp      \in [Requests -> Outcomes]

FirstPairs == {[user |-> u, sec |-> 0] : u \in {v \in UserIds : Start[v] # Unborn}}

Init ==
    /\ now       = 0
    /\ users     = Start
    /\ left      = [u \in UserIds |-> 0]
    /\ links     = [l \in Links |-> Unborn]
    /\ confirmed = [l \in Links |-> None]
    /\ codes     = [u \in UserIds |-> None]
    /\ refresh   = FirstPairs
    /\ pc        = [r \in Requests |-> "begin"]
    /\ op        = [r \in Requests |-> None]
    /\ user      = [r \in Requests |-> None]
    /\ good      = [r \in Requests |-> FALSE]
    /\ code      = [r \in Requests |-> None]
    /\ pair      = [r \in Requests |-> None]
    /\ resp      = [r \in Requests |-> "none"]

-----------------------------------------------------------------------------

\* A request arrives.
Asks(r, o) ==
    /\ pc[r] = "begin"
    /\ o.kind \in Kinds
    /\ op' = [op EXCEPT ![r] = o]

At(r, label) == pc[r] = label /\ UNCHANGED op

GoTo(r, label) ==
    /\ pc' = [pc EXCEPT ![r] = label]
    /\ UNCHANGED resp

Answer(r, outcome) ==
    /\ pc'   = [pc EXCEPT ![r] = "done"]
    /\ resp' = [resp EXCEPT ![r] = outcome]

\* The write has taken effect, but its acknowledgement may be lost.
AnswerWritten(r, outcome) == \E o \in {outcome, "failed"} : Answer(r, o)

Remember(r, u, ok) ==
    /\ user' = [user EXCEPT ![r] = u]
    /\ good' = [good EXCEPT ![r] = ok]
    /\ UNCHANGED <<code, pair>>

\* time.Now().Add(ttl)
ExpiresAt_Backwards(ttl) == now - ttl

ExpiresAt(ttl) == now + ttl

-----------------------------------------------------------------------------
(* POST /auth/register                                                      *)

\* GetByTgUsername decides between a login code and a new registration.
RegisterLookup(r) ==
    /\ \E a \in Accounts :
        /\ Asks(r, [kind |-> "register", who |-> a])
        /\ \/ /\ ~HasUser(a)
              /\ GoTo(r, "pending")
              /\ UNCHANGED session
           \/ \E u \in LiveUsers :
              /\ users[u] = a
              /\ GoTo(r, "upsert")
              /\ Remember(r, u, TRUE)
    /\ UNCHANGED <<now, tables>>

\* One code per user: a second request replaces the first one's code.  The
\* foreign key refuses a user deleted meanwhile.
UpsertLoginCode(r) ==
    /\ At(r, "upsert")
    /\ \/ /\ user[r] \in LiveUsers
          /\ \E k \in Codes :
              /\ codes' = [codes EXCEPT ![user[r]] = [code |-> k, until |-> ExpiresAt(CodeTTL)]]
              /\ code'  = [code EXCEPT ![r] = k]
          /\ GoTo(r, "send")
       \/ /\ user[r] \notin LiveUsers
          /\ Answer(r, "failed")
          /\ UNCHANGED <<codes, code>>
    /\ UNCHANGED <<now, users, left, links, confirmed, refresh, user, good, pair>>

\* The bot may fail to deliver the code; the answer is the same.
SendMessage(r) ==
    /\ At(r, "send")
    /\ Answer(r, "code_sent")
    /\ UNCHANGED <<now, tables, session>>

CreatePending(r) ==
    /\ At(r, "pending")
    /\ \E l \in Links :
        /\ links[l] = Unborn
        /\ links' = [links EXCEPT ![l] = [who |-> op[r].who, until |-> ExpiresAt(LinkTTL)]]
    /\ AnswerWritten(r, "deeplink")
    /\ UNCHANGED <<now, users, left, confirmed, codes, refresh, session>>

-----------------------------------------------------------------------------
(* Telegram: /start <token>                                                 *)

LinkLive(l)    == links[l] \notin {Unborn, Removed}
LinkExpired(l) == now > links[l].until

\* A lookup that fails is answered like one that finds nothing.
GetPending(r) ==
    /\ \E l \in Links, a \in Accounts :
        /\ Asks(r, [kind |-> "confirm", link |-> l, who |-> a])
        /\ \/ /\ ~LinkLive(l) \/ Flaky
              /\ Answer(r, "refused")
           \/ /\ LinkLive(l) /\ LinkExpired(l)
              /\ GoTo(r, "expired")
           \/ /\ LinkLive(l) /\ ~LinkExpired(l)
              /\ links[l].who # a
              /\ Answer(r, "refused")
           \/ /\ LinkLive(l) /\ ~LinkExpired(l)
              /\ links[l].who = a
              /\ GoTo(r, "create")
    /\ UNCHANGED <<now, tables, session>>

\* DELETE FROM pending_registrations; the error is ignored.
RemoveLink(l) ==
    \/ /\ links' = [links EXCEPT ![l] = Removed]
    \/ /\ Flaky
       /\ UNCHANGED links

DropExpired(r) ==
    /\ At(r, "expired")
    /\ RemoveLink(op[r].link)
    /\ Answer(r, "refused")
    /\ UNCHANGED <<now, users, left, confirmed, codes, refresh, session>>

Taken_NotUnique(a) == FALSE

\* users.tg_id (001_init.sql) and users.tg_username (003_auth.sql) are UNIQUE.
Taken(a) == HasUser(a)

CreateUser(r) ==
    /\ At(r, "create")
    /\ \/ /\ Taken(op[r].who)
          /\ Answer(r, "failed")
          /\ UNCHANGED <<users, session>>
       \/ /\ ~Taken(op[r].who)
          /\ \E u \in UserIds :
              /\ users[u] = Unborn
              /\ users' = [users EXCEPT ![u] = op[r].who]
              /\ Remember(r, u, TRUE)
          /\ GoTo(r, "forget")
    /\ UNCHANGED <<now, left, links, confirmed, codes, refresh>>

DeletePending(r) ==
    /\ At(r, "forget")
    /\ RemoveLink(op[r].link)
    /\ GoTo(r, "issue")
    /\ UNCHANGED <<now, users, left, confirmed, codes, refresh, session>>

StoreRow_ErrorIgnored(r) ==
    /\ confirmed' \in {confirmed, [confirmed EXCEPT ![op[r].link] = pair[r]]}
    /\ Answer(r, "ok")

\* The token is the primary key of confirmed_registrations.
StoreRow(r) ==
    \/ /\ confirmed[op[r].link] = None
       /\ confirmed' = [confirmed EXCEPT ![op[r].link] = pair[r]]
       /\ AnswerWritten(r, "ok")
    \/ /\ confirmed[op[r].link] # None
       /\ Answer(r, "failed")
       /\ UNCHANGED confirmed

StoreConfirmed(r) ==
    /\ At(r, "store")
    /\ StoreRow(r)
    /\ UNCHANGED <<now, users, left, links, codes, refresh, session>>

-----------------------------------------------------------------------------
(* POST /auth/confirm                                                       *)

RemoveClaimed_Kept(l) == UNCHANGED confirmed

RemoveClaimed(l) == confirmed' = [confirmed EXCEPT ![l] = None]

\* DELETE ... RETURNING.
ClaimConfirmed(r) ==
    /\ \E l \in Links :
        /\ Asks(r, [kind |-> "poll", link |-> l])
        /\ \/ /\ confirmed[l] = None
              /\ Answer(r, "refused")
              /\ UNCHANGED <<confirmed, pair>>
           \/ /\ confirmed[l] # None
              /\ RemoveClaimed(l)
              /\ pair' = [pair EXCEPT ![r] = confirmed[l]]
              /\ AnswerWritten(r, "pair")
    /\ UNCHANGED <<now, users, left, links, codes, refresh, user, good, code>>

-----------------------------------------------------------------------------
(* POST /auth/verify                                                        *)

VerifyLookup(r) ==
    /\ \E a \in Accounts, k \in Codes :
        /\ Asks(r, [kind |-> "verify", who |-> a, code |-> k])
        /\ \/ /\ ~HasUser(a) \/ Flaky
              /\ Answer(r, "refused")
              /\ UNCHANGED session
           \/ \E u \in LiveUsers :
              /\ users[u] = a
              /\ GoTo(r, "code")
              /\ Remember(r, u, FALSE)
    /\ UNCHANGED <<now, tables>>

Accepts_AnyCode(c, k) == c # None /\ now <= c.until

Accepts(c, k) == c # None /\ now <= c.until /\ c.code = k

\* A lookup that fails counts as one that finds nothing.
Verdicts(found) == IF Flaky THEN {found, FALSE} ELSE {found}

GetLoginCode(r) ==
    /\ At(r, "code")
    /\ \E ok \in Verdicts(Accepts(codes[user[r]], op[r].code)) : Remember(r, user[r], ok)
    /\ GoTo(r, "burn")
    /\ UNCHANGED <<now, tables>>

\* The code is spent whether it was right or wrong.
DeleteLoginCode(r) ==
    /\ At(r, "burn")
    /\ \/ codes' = [codes EXCEPT ![user[r]] = None]
       \/ Flaky /\ UNCHANGED codes
    /\ IF good[r] THEN GoTo(r, "issue") ELSE Answer(r, "refused")
    /\ UNCHANGED <<now, users, left, links, confirmed, refresh, session>>

-----------------------------------------------------------------------------
(* POST /auth/refresh                                                       *)

\* What clients have been given.
Handed == FirstPairs \cup {pair[r] : r \in {q \in Requests : resp[q] = "pair"}}

ExpiryOf(token) == token.sec + RefreshTTL

\* The signature and the date are checked before the row is looked up.
GetRefreshToken(r) ==
    /\ \E t \in Handed :
        /\ Asks(r, [kind |-> "refresh", token |-> t])
        /\ \/ /\ now >= ExpiryOf(t)
              /\ Answer(r, "refused")
              /\ UNCHANGED session
           \/ /\ now < ExpiryOf(t)
              /\ \E ok \in Verdicts(t \in refresh) : Remember(r, t.user, ok)
              /\ GoTo(r, "rotate")
    /\ UNCHANGED <<now, tables>>

RowsToDelete_OfUser(t) == {x \in refresh : x.user = t.user}

RowsToDelete(t) == {t}

DeleteRefreshToken(r) ==
    /\ At(r, "rotate")
    /\ \/ refresh' = refresh \ RowsToDelete(op[r].token)
       \/ Flaky /\ UNCHANGED refresh
    /\ IF good[r] THEN GoTo(r, "issue") ELSE Answer(r, "refused")
    /\ UNCHANGED <<now, users, left, links, confirmed, codes, session>>

\* issueTokens: the hash is UNIQUE, and the foreign key refuses a user deleted
\* meanwhile.  The readings of the clock and the INSERT fall into one second.
IssueTokens(r) ==
    /\ At(r, "issue")
    /\ LET new == [user |-> user[r], sec |-> now] IN
        \/ /\ new \notin refresh /\ user[r] \in LiveUsers
           /\ refresh' = refresh \cup {new}
           /\ pair'    = [pair EXCEPT ![r] = new]
           /\ IF op[r].kind = "confirm" THEN GoTo(r, "store") ELSE AnswerWritten(r, "pair")
        \/ /\ new \in refresh \/ user[r] \notin LiveUsers
           /\ Answer(r, "failed")
           /\ UNCHANGED <<refresh, pair>>
    /\ UNCHANGED <<now, users, left, links, confirmed, codes, user, good, code>>

-----------------------------------------------------------------------------
(* PUT and DELETE on /users/:id, behind middleware.Auth.                    *)

AccessValid_AsRefresh(t) == now < ExpiryOf(t)

\* The signature, the date and the type of an access token are all there is to
\* check: no row is looked up, and any user may name any other.
AccessValid(t) == now < t.sec + AccessTTL

Authenticated(r, kind) ==
    \E u \in UserIds, t \in Handed :
        /\ Asks(r, [kind |-> kind, user |-> u, token |-> t])
        /\ AccessValid(t)

Unauthorized(r) ==
    /\ \E u \in UserIds, t \in Handed, kind \in {"rename", "delete"} :
        /\ Asks(r, [kind |-> kind, user |-> u, token |-> t])
        /\ ~AccessValid(t)
    /\ Answer(r, "unauthorized")
    /\ UNCHANGED <<now, tables, session>>

\* userService.Update: GetByID, then UPDATE ... RETURNING.  The name itself is
\* left out.
RenameLookup(r) ==
    /\ Authenticated(r, "rename")
    /\ IF op'[r].user \in LiveUsers THEN GoTo(r, "name") ELSE Answer(r, "refused")
    /\ UNCHANGED <<now, tables, session>>

Rename(r) ==
    /\ At(r, "name")
    /\ IF op[r].user \in LiveUsers THEN AnswerWritten(r, "ok") ELSE Answer(r, "refused")
    /\ UNCHANGED <<now, tables, session>>

Cascade_Nowhere(u) == UNCHANGED <<codes, refresh>>

\* ON DELETE CASCADE of login_codes and refresh_tokens.
Cascade(u) ==
    /\ codes'   = [codes EXCEPT ![u] = None]
    /\ refresh' = {x \in refresh : x.user # u}

DeleteUser(r) ==
    /\ Authenticated(r, "delete")
    /\ LET u == op'[r].user IN
        \/ /\ u \notin LiveUsers
           /\ Answer(r, "refused")
           /\ UNCHANGED <<users, left, codes, refresh>>
        \/ /\ u \in LiveUsers
           /\ users' = [users EXCEPT ![u] = Removed]
           /\ left'  = [left EXCEPT ![u] = now]
           /\ Cascade(u)
           /\ AnswerWritten(r, "ok")
    /\ UNCHANGED <<now, links, confirmed, session>>

-----------------------------------------------------------------------------

\* A statement fails, the client goes away or the process dies: what has been
\* committed stays.
Abort(r) ==
    /\ pc[r] \notin {"begin", "done"}
    /\ Answer(r, "failed")
    /\ UNCHANGED <<now, tables, op, session>>

Tick ==
    /\ now < MaxNow
    /\ now' = now + 1
    /\ UNCHANGED <<tables, pc, op, session, resp>>

\* Every request has been answered.
Quiescent ==
    /\ \A r \in Requests : pc[r] = "done"
    /\ now = MaxNow
    /\ UNCHANGED vars

Register(r) == RegisterLookup(r) \/ UpsertLoginCode(r) \/ SendMessage(r) \/ CreatePending(r)
Confirm(r)  == GetPending(r) \/ DropExpired(r) \/ CreateUser(r) \/ DeletePending(r)
                  \/ StoreConfirmed(r)
Verify(r)   == VerifyLookup(r) \/ GetLoginCode(r) \/ DeleteLoginCode(r)
Refresh(r)  == GetRefreshToken(r) \/ DeleteRefreshToken(r)
OnUsers(r)  == Unauthorized(r) \/ RenameLookup(r) \/ Rename(r) \/ DeleteUser(r)

\* A step of an HTTP call; a confirmation comes from the bot, and shares the
\* issuing of tokens.
Serve(r) ==
    \/ Register(r) \/ ClaimConfirmed(r) \/ Verify(r) \/ Refresh(r) \/ OnUsers(r)
    \/ IssueTokens(r) \/ Abort(r)

Next ==
    \/ \E r \in Requests : Serve(r) \/ Confirm(r)
    \/ Tick \/ Quiescent

Spec == Init /\ [][Next]_vars

-----------------------------------------------------------------------------
(* What sign-in promises.                                                   *)

Is(r, kind) == op[r] # None /\ op[r].kind = kind

\* A Telegram account has at most one user, however its links race.
OneUserPerAccount == \A u, v \in LiveUsers : users[u] = users[v] => u = v

\* No code and no session outlives its user, although the requests that create
\* them have looked the user up in an earlier statement.
NoOrphanSessions ==
    /\ \A t \in refresh : t.user \in LiveUsers
    /\ \A u \in UserIds : codes[u] # None => u \in LiveUsers

\* When the bot answers "Verified!", the browser's poll finds the pair, or one
\* has already taken it.
VerifiedIsClaimable ==
    \A r \in Requests : Is(r, "confirm") /\ resp[r] = "ok" =>
        \/ confirmed[op[r].link] = pair[r]
        \/ \E q \in Requests : Is(q, "poll") /\ pair[q] = pair[r]

\* A confirmed pair is handed to one poll only.
ClaimedOnce ==
    \A r, q \in Requests :
        Is(r, "poll") /\ Is(q, "poll") /\ pair[r] # None /\ pair[r] = pair[q] => r = q

\* A session that a client was given lasts until somebody presents its token,
\* its user is deleted or its time is up: signing in elsewhere, or rotating
\* another session, does not end it.
SessionsLast ==
    \A t \in Handed :
        \/ t \in refresh
        \/ t.user \notin LiveUsers
        \/ \E r \in Requests : Is(r, "refresh") /\ op[r].token = t

\* A sign-in by code goes back to a registration request for the same account
\* that generated this code.
SignInNeedsCode ==
    \A r \in Requests : Is(r, "verify") /\ pair[r] # None =>
        \E q \in Requests : /\ Is(q, "register")
                            /\ op[q].who = op[r].who
                            /\ code[q] = op[r].code

\* A user who has been deleted is locked out AccessTTL later at the latest: the
\* sign-ins under way at the deletion cannot mint another token.  (Access
\* tokens are not revoked.)
RemovedAreLockedOut ==
    [][\A r \in Requests :
          /\ op'[r] # op[r]
          /\ op'[r].kind \in {"rename", "delete"}
          /\ resp'[r] # "unauthorized"
          /\ users[op'[r].token.user] = Removed
          => now < left[op'[r].token.user] + AccessTTL]_vars

-----------------------------------------------------------------------------
(* What the documentation says and the code does not do.                    *)

\* api/openapi.yaml: "The old refresh token is immediately invalidated".
OldTokenIsInvalid ==
    \A r \in Requests : Is(r, "refresh") /\ resp[r] = "pair" => op[r].token \notin refresh

\* api/openapi.yaml: "Single-use - rotated on each refresh."  (Of two requests
\* with one token that each got a different pair, at most one succeeds.)
RefreshIsSingleUse ==
    \A r, q \in Requests :
        /\ Is(r, "refresh") /\ Is(q, "refresh")
        /\ resp[r] = "pair" /\ resp[q] = "pair"
        /\ op[r].token = op[q].token
        /\ op[r].token \notin {pair[r], pair[q]}
        => r = q

=============================================================================
