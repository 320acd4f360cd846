----------------------------- MODULE AppProofs -----------------------------
(* Proofs about the process around sign-in: what the bot tells its users    *)
(* stays true through crashes and restarts, a link completes one            *)
(* registration, answered uploads are whole, and few messages are missed.   *)
EXTENDS App, SignInProofs, FiniteSetTheorems

\* A confirmation that has found its link pending, and one that has created its
\* user.
Past(r) == /\ Is(r, "confirm")
           /\ pc[r] \in {"create", "forget", "issue", "store"} \/ resp[r] = "ok"

Settled(r) == /\ Is(r, "confirm")
              /\ pc[r] \in {"forget", "issue", "store"} \/ resp[r] = "ok"

\* Confirmations of one link are for one account, and a settled one has the
\* user of that account.
LinksKnown ==
    /\ \A r \in Requests : Past(r) =>
        \/ links[op[r].link] = Removed
        \/ links[op[r].link] # Unborn /\ links[op[r].link].who = op[r].who
    /\ \A r, q \in Requests :
        Past(r) /\ Past(q) /\ op[r].link = op[q].link => op[r].who = op[q].who
    /\ \A r \in Requests : Settled(r) =>
        user[r] \in UserIds /\ users[user[r]] \in {op[r].who, Removed}

\* An update that has not left the channel has no handler, in this life of the
\* process or the next.
Fresh ==
    \A k \in 1..MaxSent, l \in 1..Lives :
        l > life \/ (l = life /\ k > taken) => pc[<<k, l>>] = "begin"

\* What a handler does, and what it has said.
Handling(h) ==
    /\ op[h] # None       => op[h].kind = "confirm"
    /\ told[h] # "none"   => pc[h] = "done"
    /\ told[h] = "verified" => resp[h] = "ok"

\* A file is complete before its URL is answered.
FilesWritten == \A w \in Uploads : put[w] \in {"answer", "url"} => file[w] = "whole"

SignedIn == AInv /\ SignInv /\ LinksKnown

ProcessInv ==
    /\ AppTypeOK
    /\ Fresh
    /\ \A h \in Handlers : Handling(h)
    /\ FilesWritten
    /\ LossIsBounded

AppInv == SignedIn /\ ProcessInv

-----------------------------------------------------------------------------
(* Links.                                                                   *)

\* A link that was created stays, or is used up.
LEMMA LinksChange ==
  ASSUME AInv, [Next]_vars, NEW l \in Links, links[l] # Unborn
  PROVE  links'[l] \in {links[l], Removed}
<1>0. links \in [Links -> [who: Accounts, until: Nat] \cup {Unborn, Removed}]
  BY DEF AInv, TypeOK
<1>1. ASSUME NEW r \in Requests, Serve(r) \/ Confirm(r)
      PROVE  links' = links \/ CreatePending(r) \/ DropExpired(r) \/ DeletePending(r)
  BY <1>1 DEF Serve, Confirm, Register, Verify, Refresh, OnUsers, tables, RegisterLookup,
      SendMessage, GetPending, VerifyLookup, GetLoginCode, GetRefreshToken, Unauthorized,
      RenameLookup, Rename, Abort, UpsertLoginCode, CreateUser, StoreConfirmed, ClaimConfirmed,
      DeleteLoginCode, DeleteRefreshToken, IssueTokens, DeleteUser
<1>2. ASSUME NEW r \in Requests, CreatePending(r) PROVE links'[l] = links[l]
  BY <1>0, <1>2 DEF CreatePending
<1>3. ASSUME NEW r \in Requests, DropExpired(r) \/ DeletePending(r)
      PROVE  links'[l] \in {links[l], Removed}
  BY <1>0, <1>3 DEF DropExpired, DeletePending, RemoveLink
<1> QED BY <1>1, <1>2, <1>3 DEF Next, Tick, Quiescent, vars, tables

\* A confirmation gets past its look-up by finding its link pending, for its
\* account.
LEMMA OwnPast ==
  ASSUME AInv, NEW r \in Requests, Memory(r), Serve(r) \/ Confirm(r), Past(r)'
  PROVE  \/ Past(r) /\ op'[r] = op[r] /\ pc[r] # "begin"
         \/ /\ GetPending(r) /\ pc'[r] = "create" /\ links' = links
            /\ op'[r].link \in Links
            /\ links[op'[r].link] \notin {Unborn, Removed}
            /\ links[op'[r].link].who = op'[r].who
<1>0. /\ pc \in [Requests -> Labels] /\ op \in [Requests -> Operation \cup {None}]
      /\ resp \in [Requests -> Outcomes] /\ Session(r)
  BY DEF AInv, TypeOK
<1> USE DEF Asks, At, GoTo, Answer, AnswerWritten
<1>1. CASE pc[r] = "begin"
  <2>1. GetPending(r)
    BY <1>1, Arrives DEF Past, Is
  <2>2. ~StoreConfirmed(r)
    BY <1>1 DEF StoreConfirmed
  <2>3. pc'[r] \in {"create", "forget", "issue", "store"}
    BY <2>2, OkMeansStored DEF Past
  <2>4. PICK l \in Links, a \in Accounts :
          /\ op' = [op EXCEPT ![r] = [kind |-> "confirm", link |-> l, who |-> a]]
          /\ LinkLive(l) /\ links[l].who = a /\ pc'[r] = "create"
    BY <1>0, <2>1, <2>3 DEF GetPending
  <2>5. op'[r].link = l /\ op'[r].who = a
    BY <1>0, <2>4
  <2>6. links' = links
    BY <2>1 DEF GetPending, tables
  <2> QED BY <2>1, <2>4, <2>5, <2>6 DEF LinkLive
<1>2. CASE pc[r] # "begin"
  <2>1. Is(r, "confirm") /\ op'[r] = op[r]
    BY <1>2, OpKept DEF Memory, Next, Is, Past
  <2>2. CASE resp'[r] = "ok"
    <3>1. StoreConfirmed(r)
      BY <2>2, OkMeansStored DEF Past
    <3> QED BY <1>2, <2>1, <3>1 DEF StoreConfirmed, Past
  <2>3. CASE pc'[r] \in {"create", "forget", "issue", "store"}
    <3> USE <1>0, <1>2, <2>3
    <3>1. ~SendMessage(r) /\ ~CreatePending(r) /\ ~DropExpired(r) /\ ~Rename(r) /\ ~Abort(r)
      BY DEF SendMessage, CreatePending, DropExpired, Rename, Abort
    <3>2. ~GetLoginCode(r) /\ ~UpsertLoginCode(r)
      BY DEF GetLoginCode, UpsertLoginCode
    <3>3. ~DeleteRefreshToken(r) /\ ~DeleteLoginCode(r)
      BY <2>1 DEF DeleteRefreshToken, DeleteLoginCode, Session, Memory, Is
    <3>4. CreateUser(r) \/ DeletePending(r) \/ IssueTokens(r) \/ StoreConfirmed(r)
      BY <3>1, <3>2, <3>3 DEF Serve, Confirm, Register, Verify, Refresh, OnUsers,
         RegisterLookup, GetPending, VerifyLookup, GetRefreshToken, Unauthorized, RenameLookup,
         ClaimConfirmed, DeleteUser, Authenticated
    <3>5. pc[r] \in {"create", "forget", "issue", "store"}
      BY <3>4 DEF CreateUser, DeletePending, IssueTokens, StoreConfirmed
    <3> QED BY <2>1, <3>5 DEF Past
  <2> QED BY <2>2, <2>3 DEF Past
<1> QED BY <1>1, <1>2

\* A confirmation is settled by creating a user for its account.
LEMMA OwnSettled ==
  ASSUME AInv, NEW r \in Requests, Memory(r), Serve(r) \/ Confirm(r), Settled(r)'
  PROVE  /\ op'[r] = op[r]
         /\ \/ Settled(r) /\ user'[r] = user[r]
            \/ user'[r] \in UserIds /\ users'[user'[r]] = op[r].who
<1>0. /\ pc \in [Requests -> Labels] /\ user \in [Requests -> UserIds \cup {None}]
      /\ users \in [UserIds -> Accounts \cup {Unborn, Removed}]
      /\ resp \in [Requests -> Outcomes] /\ Session(r)
  BY DEF AInv, TypeOK
<1>1. Past(r)'
  BY DEF Past, Settled
<1>2. ~GetPending(r)
  <2>1. SUFFICES ASSUME GetPending(r) PROVE FALSE
    OBVIOUS
  <2>2. pc'[r] \in {"create", "expired", "done"} /\ ~StoreConfirmed(r)
    BY <1>0, <2>1 DEF GetPending, StoreConfirmed, Asks, At, GoTo, Answer
  <2> QED BY <2>2, OkMeansStored DEF Settled
<1>3. Past(r) /\ op'[r] = op[r] /\ pc[r] # "begin"
  BY <1>1, <1>2, OwnPast
<1>4. CASE CreateUser(r)
  <2>1. resp'[r] # "ok"
    <3>1. ~StoreConfirmed(r)
      BY <1>4 DEF CreateUser, StoreConfirmed, At
    <3> QED BY <1>1, <3>1, OkMeansStored DEF Past
  <2>2. ~Taken(op[r].who)
    BY <1>0, <1>4, <2>1 DEF CreateUser, Answer, Settled
  <2>3. PICK u \in UserIds : /\ users' = [users EXCEPT ![u] = op[r].who]
                             /\ Remember(r, u, TRUE)
    BY <1>4, <2>2 DEF CreateUser
  <2> QED BY <1>0, <1>3, <2>3 DEF Remember
<1>5. CASE ~CreateUser(r)
  <2>1. user'[r] = user[r]
    BY <1>3, <1>5, Remembers DEF RegisterLookup, VerifyLookup, GetRefreshToken, Asks
  <2>2. Settled(r)
    <3>1. CASE pc[r] = "create"
      <4>1. Abort(r)
        BY <1>5, <3>1 DEF Serve, Confirm, Register, Verify, Refresh, OnUsers,
           RegisterLookup, GetPending, VerifyLookup, GetRefreshToken, Unauthorized, RenameLookup,
           ClaimConfirmed, DeleteUser, Authenticated, SendMessage, CreatePending, DropExpired,
           Rename, GetLoginCode, UpsertLoginCode, DeleteRefreshToken, DeleteLoginCode,
           DeletePending, IssueTokens, StoreConfirmed, Asks, At
      <4> QED BY <1>0, <4>1 DEF Abort, Answer, Settled
    <3> QED BY <1>3, <3>1 DEF Past, Settled
  <2> QED BY <1>3, <2>1, <2>2
<1> QED BY <1>4, <1>5

\* Every step keeps what is known of links.
LEMMA LinksStep ==
  ASSUME AInv, SignInv, LinksKnown, [Next]_vars
  PROVE  LinksKnown'
<1>0. /\ op \in [Requests -> Operation \cup {None}]
      /\ links \in [Links -> [who: Accounts, until: Nat] \cup {Unborn, Removed}]
      /\ Unborn # Removed /\ Unborn \notin Accounts
      /\ \A r \in Requests : Memory(r)
  BY AuthAssumption DEF AInv, TypeOK, SignInv
<1>F. ASSUME NEW r \in Requests, Is(r, "confirm")
      PROVE  op[r].link \in Links /\ op[r].who \in Accounts
  BY <1>0, <1>F DEF Is, Operation
<1>1. ASSUME NEW r \in Requests, Past(r)'
      PROVE  \/ Past(r) /\ op'[r] = op[r]
             \/ /\ GetPending(r) /\ links' = links
                /\ op'[r].link \in Links
                /\ links[op'[r].link] \notin {Unborn, Removed}
                /\ links[op'[r].link].who = op'[r].who
  <2>1. CASE Serve(r) \/ Confirm(r)
    BY <1>0, <1>1, <2>1, OwnPast
  <2>2. ASSUME NEW q \in Requests, Serve(q) \/ Confirm(q), q # r
        PROVE  Past(r) /\ op'[r] = op[r]
    BY <1>1, <2>2, OthersKeep DEF Past, Is
  <2>3. CASE UNCHANGED <<op, pc, resp>>
    BY <1>1, <2>3 DEF Past, Is
  <2> QED BY <2>1, <2>2, <2>3 DEF Next, Tick, Quiescent, vars
<1>2. ASSUME NEW r \in Requests, Past(r)'
      PROVE  \/ links'[op'[r].link] = Removed
             \/ links'[op'[r].link] # Unborn /\ links'[op'[r].link].who = op'[r].who
  <2>1. CASE Past(r) /\ op'[r] = op[r]
    <3> DEFINE l == op[r].link
    <3>1. l \in Links
      BY <1>F, <2>1 DEF Past
    <3>2. \/ links[l] = Removed
          \/ links[l] # Unborn /\ links[l].who = op[r].who
      BY <2>1 DEF LinksKnown
    <3>3. links'[l] \in {links[l], Removed}
      BY <1>0, <3>1, <3>2, LinksChange
    <3> QED BY <2>1, <3>2, <3>3
  <2> QED BY <1>1, <1>2, <2>1
<1>3. ASSUME NEW r \in Requests, NEW q \in Requests, Past(r)', Past(q)',
             op'[r].link = op'[q].link
      PROVE  op'[r].who = op'[q].who
  <2>1. ASSUME NEW x \in Requests, NEW y \in Requests, Past(x), op'[x] = op[x],
               GetPending(y), op'[x].link = op'[y].link,
               links[op'[y].link] \notin {Unborn, Removed},
               links[op'[y].link].who = op'[y].who
        PROVE  op'[x].who = op'[y].who
    BY <2>1 DEF LinksKnown
  <2>2. ASSUME GetPending(r), GetPending(q) PROVE r = q
    BY <1>0, <2>2 DEF GetPending, Asks, GoTo, Answer, AInv, TypeOK
  <2>3. CASE (Past(r) /\ op'[r] = op[r]) /\ (Past(q) /\ op'[q] = op[q])
    BY <1>3, <2>3 DEF LinksKnown
  <2> QED BY <1>1, <1>3, <2>1, <2>2, <2>3
<1>4. ASSUME NEW r \in Requests, Settled(r)'
      PROVE  user'[r] \in UserIds /\ users'[user'[r]] \in {op'[r].who, Removed}
  <2>1. CASE Settled(r) /\ user'[r] = user[r] /\ op'[r] = op[r]
    <3>1. user[r] \in UserIds /\ users[user[r]] \in {op[r].who, Removed}
      BY <2>1 DEF LinksKnown
    <3>2. op[r].who \in Accounts
      BY <1>F, <2>1 DEF Settled
    <3>3. users'[user[r]] \in {users[user[r]], Removed}
      BY <1>0, <3>1, <3>2, UsersKept
    <3> QED BY <2>1, <3>1, <3>3
  <2>2. CASE Serve(r) \/ Confirm(r)
    BY <1>0, <1>4, <2>1, <2>2, OwnSettled
  <2>3. ASSUME NEW q \in Requests, Serve(q) \/ Confirm(q), q # r
        PROVE  Settled(r) /\ user'[r] = user[r] /\ op'[r] = op[r]
    BY <1>4, <2>3, OthersKeep, OthersRemember DEF Settled, Is
  <2>4. CASE UNCHANGED <<op, pc, resp, session>>
    BY <1>4, <2>1, <2>4 DEF Settled, Is, session
  <2> QED BY <2>1, <2>2, <2>3, <2>4 DEF Next, Tick, Quiescent, vars
<1> QED BY <1>2, <1>3, <1>4 DEF LinksKnown

-----------------------------------------------------------------------------
(* The steps of the process, as far as sign-in is concerned.                *)

\* A handler that begins after the signal is refused.
Refused(r) ==
    /\ pc[r] = "begin"
    /\ \E l \in Links, a \in Accounts :
        op' = [op EXCEPT ![r] = [kind |-> "confirm", link |-> l, who |-> a]]
    /\ Answer(r, "refused")
    /\ UNCHANGED <<now, tables, session>>

\* The end of the process answers every request.
CutOff ==
    /\ pc'   = [r \in Requests |-> IF pc[r] = "begin" THEN "begin" ELSE "done"]
    /\ resp' = [r \in Requests |-> IF pc[r] \in {"begin", "done"} THEN resp[r] ELSE "failed"]
    /\ UNCHANGED <<now, tables, op, session>>

\* A handler is a request; the one that is started next has not begun.
LEMMA NextHandler ==
  ASSUME ProcessInv, taken < fetched
  PROVE  /\ taken + 1 \in 1..MaxSent /\ taken + 1 \in 1..Len(sent) /\ life \in 1..Lives
         /\ <<taken + 1, life>> \in Handlers /\ <<taken + 1, life>> \in Requests
         /\ pc[<<taken + 1, life>>] = "begin"
         /\ sent[taken + 1] \in [link: Links, who: Accounts]
<1>1. /\ taken \in 0..fetched /\ fetched \in 0..Len(sent) /\ Len(sent) <= MaxSent
      /\ life \in 1..Lives /\ sent \in Seq([link: Links, who: Accounts])
      /\ MaxSent \in Nat /\ Lives \in Nat
  BY AppAssumption DEF ProcessInv, AppTypeOK
<1>2. Len(sent) \in Nat
  BY <1>1
<1>3. taken + 1 \in 1..MaxSent /\ taken + 1 \in 1..Len(sent)
  BY <1>1, <1>2
<1>4. <<taken + 1, life>> \in Handlers
  BY <1>1, <1>3 DEF Handlers
<1>5. pc[<<taken + 1, life>>] = "begin"
  BY <1>1, <1>3 DEF ProcessInv, Fresh
<1>6. sent[taken + 1] \in [link: Links, who: Accounts]
  <2> DEFINE Message == [link: Links, who: Accounts]  i == taken + 1
  <2>1. sent \in Seq(Message) /\ i \in 1..Len(sent)
    BY <1>1, <1>3
  <2> HIDE DEF Message, i
  <2>2. sent[i] \in Message
    BY <2>1
  <2> QED BY <2>2 DEF Message, i
<1> QED BY <1>1, <1>3, <1>4, <1>5, <1>6, AppAssumption

\* To sign-in, a step of the process is a step of its own, a refusal, or the end.
LEMMA AppSteps ==
  ASSUME ProcessInv, [AppNext]_appVars
  PROVE  [Next]_vars \/ CutOff \/ \E r \in Handlers : Refused(r)
<1>1. ASSUME NEW c \in Calls, Call(c) PROVE Next
  BY <1>1, AppAssumption DEF Call, Next
<1>2. ASSUME NEW c \in Calls, PanicInSend(c) PROVE Next
  <2>1. Abort(c) /\ c \in Requests
    BY <1>2, AppAssumption DEF PanicInSend, Abort
  <2> QED BY <2>1 DEF Next, Serve
<1>3. ASSUME NEW w \in Uploads, Upload(w) PROVE UNCHANGED vars
  BY <1>3 DEF Upload, ReceiveUpload, CreateFile, CopyFile, CopyEnds, AnswerUrl, PutGoes
<1>4. ASSUME NEW h \in Handlers, Handle(h) PROVE Next
  BY <1>4, AppAssumption DEF Handle, Next, Serve
<1>5. ASSUME NEW h \in Handlers, Reply(h) PROVE UNCHANGED vars
  BY <1>5 DEF Reply
<1>6. CASE Dispatch
  <2> DEFINE r == <<taken + 1, life>>
  <2>1. r \in Handlers /\ r \in Requests /\ pc[r] = "begin"
        /\ sent[taken + 1] \in [link: Links, who: Accounts]
    BY <1>6, NextHandler DEF Dispatch
  <2>2. CASE GetPending(r)
    BY <2>1, <2>2 DEF Next, Confirm
  <2>3. CASE /\ op' = [op EXCEPT ![r] = Confirmation(taken + 1)]
             /\ Answer(r, "refused")
             /\ UNCHANGED <<now, tables, session>>
    <3>1. sent[taken + 1].link \in Links /\ sent[taken + 1].who \in Accounts
      BY <2>1
    <3> HIDE DEF r
    <3> QED BY <2>1, <2>3, <3>1 DEF Refused, Confirmation
  <2> QED BY <1>6, <2>2, <2>3 DEF Dispatch
<1>7. ASSUME Send \/ Fetch \/ Acknowledge \/ Signal \/ StopPolling \/ ListenerFails \/ CloseListener
             \/ Restart \/ Retired \/ UNCHANGED appVars
      PROVE  UNCHANGED vars
  BY <1>7 DEF Send, Fetch, Acknowledge, Signal, StopPolling, ListenerFails, CloseListener,
              Restart, Retired, appVars
<1>8. ASSUME Stop \/ StopLate \/ Kill PROVE CutOff
  BY <1>8 DEF Stop, StopLate, Kill, EndProcess, CutOff
<1> QED BY <1>1, <1>2, <1>3, <1>4, <1>5, <1>6, <1>7, <1>8 DEF AppNext

\* The end of the process leaves sign-in as it should be: no statement of a
\* request depends on a later one.
LEMMA CutOffStep ==
  ASSUME SignedIn, CutOff
  PROVE  SignedIn'
<1>0. /\ pc \in [Requests -> Labels] /\ resp \in [Requests -> Outcomes]
      /\ op \in [Requests -> Operation \cup {None}]
      /\ TypeOK /\ AInv /\ SignInv /\ LinksKnown
  BY DEF SignedIn, AInv, TypeOK
<1>1. /\ UNCHANGED <<now, users, left, links, confirmed, codes, refresh, op, user, good, code>>
      /\ UNCHANGED pair
      /\ \A r \in Requests : /\ pc'[r] = IF pc[r] = "begin" THEN "begin" ELSE "done"
                             /\ resp'[r] \in {resp[r], "failed"}
                             /\ pc[r] = "begin" => resp'[r] = resp[r]
  BY DEF CutOff, tables, session
<1>2. TypeOK'
  <2>1. pc' \in [Requests -> Labels] /\ resp' \in [Requests -> Outcomes]
    BY <1>0 DEF CutOff, Labels, Outcomes
  <2> QED BY <1>0, <1>1, <2>1 DEF TypeOK
<1>3. ASSUME NEW r \in Requests PROVE Session(r)'
  <2>1. Session(r)
    BY <1>0 DEF AInv
  <2> QED BY <1>1, <2>1 DEF Session, Is
<1>4. OneUserPerAccount' /\ NoOrphanSessions'
  BY <1>0, <1>1 DEF AInv, OneUserPerAccount, NoOrphanSessions, LiveUsers
<1>5. TokensMinted'
  BY <1>0, <1>1 DEF AInv, TokensMinted, Minted, Lasting, LiveUsers, Is
<1>6. VerifiedIsClaimable'
  BY <1>0, <1>1 DEF AInv, VerifiedIsClaimable, Is
<1>7. AInv'
  BY <1>2, <1>3, <1>4, <1>5, <1>6 DEF AInv
<1>8. ASSUME NEW r \in Requests PROVE Memory(r)' /\ HasRead(r)'
  <2>1. Memory(r) /\ HasRead(r)
    BY <1>0 DEF SignInv
  <2> QED BY <1>1, <2>1 DEF Memory, HasRead, Is
<1>9. CodesKnown'
  BY <1>0, <1>1 DEF SignInv, CodesKnown, Generated, Is
<1>10. OneUserEach'
  BY <1>0, <1>1 DEF SignInv, OneUserEach, Is
<1>11. Claims'
  BY <1>0, <1>1 DEF SignInv, Claims, ClaimedOnce, Source, Is
<1>12. SignInv'
  BY <1>8, <1>9, <1>10, <1>11 DEF SignInv
<1>13. ASSUME NEW r \in Requests PROVE (Past(r)' => Past(r)) /\ (Settled(r)' => Settled(r))
  BY <1>1 DEF Past, Settled, Is
<1>14. LinksKnown'
  BY <1>0, <1>1, <1>13 DEF LinksKnown
<1> QED BY <1>7, <1>12, <1>14 DEF SignedIn

\* So does the refusal of a handler.
LEMMA RefusedStep ==
  ASSUME SignedIn, NEW h \in Requests, Refused(h)
  PROVE  SignedIn'
<1>0. /\ pc \in [Requests -> Labels] /\ resp \in [Requests -> Outcomes]
      /\ op \in [Requests -> Operation \cup {None}] /\ None \notin Operation
      /\ TypeOK /\ AInv /\ SignInv /\ LinksKnown
  BY AuthAssumption DEF SignedIn, AInv, TypeOK
<1>1. /\ UNCHANGED <<now, users, left, links, confirmed, codes, refresh, user, good, code>>
      /\ UNCHANGED pair
      /\ pc' = [pc EXCEPT ![h] = "done"] /\ resp' = [resp EXCEPT ![h] = "refused"]
  BY DEF Refused, tables, session, Answer
<1>2. PICK l \in Links, a \in Accounts :
        op' = [op EXCEPT ![h] = [kind |-> "confirm", link |-> l, who |-> a]]
  BY DEF Refused
<1>3. op'[h] # None /\ op'[h].kind = "confirm" /\ op'[h] \in Operation
  BY <1>0, <1>2 DEF Operation
<1>4. op[h] = None /\ pc[h] = "begin" /\ user[h] = None /\ pair[h] = None /\ code[h] = None
  BY <1>0 DEF Refused, AInv, Session, SignInv, Memory
<1>5. ASSUME NEW r \in Requests, r # h
      PROVE  op'[r] = op[r] /\ pc'[r] = pc[r] /\ resp'[r] = resp[r]
  BY <1>0, <1>1, <1>2, <1>5
<1>6. pc'[h] = "done" /\ resp'[h] = "refused"
  BY <1>0, <1>1
<1>T. TypeOK'
  <2>1. op' \in [Requests -> Operation \cup {None}]
    BY <1>0, <1>2, <1>3
  <2>2. pc' \in [Requests -> Labels] /\ resp' \in [Requests -> Outcomes]
    BY <1>0, <1>1 DEF Labels, Outcomes
  <2> QED BY <1>0, <1>1, <2>1, <2>2 DEF TypeOK
<1>7. ASSUME NEW r \in Requests PROVE Session(r)'
  <2>1. Session(r)
    BY <1>0 DEF AInv
  <2>2. CASE r = h
    BY <1>1, <1>3, <1>4, <1>6, <2>1, <2>2 DEF Session, Is
  <2>3. CASE r # h
    BY <1>1, <1>5, <2>1, <2>3 DEF Session, Is
  <2> QED BY <2>2, <2>3
<1>8. OneUserPerAccount' /\ NoOrphanSessions'
  BY <1>0, <1>1 DEF AInv, OneUserPerAccount, NoOrphanSessions, LiveUsers
<1>9. ASSUME NEW r \in Requests, op[r] # None PROVE op'[r] = op[r]
  BY <1>4, <1>5, <1>9
<1>10. TokensMinted'
  <2>1. ASSUME NEW t, Minted(t)
        PROVE  /\ t.sec <= now' /\ users'[t.user] # Unborn
               /\ users'[t.user] = Removed => t.sec <= left'[t.user]
               /\ \/ t \in refresh'
                  \/ users'[t.user] \notin Accounts
                  \/ t.user \notin UserIds
                  \/ \E r \in Requests : Is(r, "refresh")' /\ op'[r].token = t
    BY <1>1, <1>9, <2>1 DEF Minted, Lasting, LiveUsers, Is
  <2> QED BY <1>0, <1>1, <2>1 DEF AInv, TokensMinted, Minted, Lasting, LiveUsers
<1>11. VerifiedIsClaimable'
  <2> SUFFICES ASSUME NEW r \in Requests, Is(r, "confirm")', resp'[r] = "ok"
               PROVE  \/ confirmed'[op'[r].link] = pair'[r]
                      \/ \E q \in Requests : Is(q, "poll")' /\ pair'[q] = pair'[r]
    BY DEF VerifiedIsClaimable
  <2>1. r # h
    BY <1>6
  <2>2. \/ confirmed[op[r].link] = pair[r]
        \/ \E q \in Requests : Is(q, "poll") /\ pair[q] = pair[r]
    BY <1>0, <1>5, <2>1 DEF AInv, VerifiedIsClaimable, Is
  <2> QED BY <1>1, <1>5, <1>9, <2>1, <2>2 DEF Is
<1>12. AInv'
  BY <1>T, <1>7, <1>8, <1>10, <1>11 DEF AInv
<1>13. ASSUME NEW r \in Requests PROVE Memory(r)' /\ HasRead(r)'
  <2>1. Memory(r) /\ HasRead(r)
    BY <1>0 DEF SignInv
  <2>2. CASE r = h
    BY <1>1, <1>3, <1>4, <1>6, <2>1, <2>2 DEF Memory, HasRead, Is
  <2>3. CASE r # h
    BY <1>1, <1>5, <2>1, <2>3 DEF Memory, HasRead, Is
  <2> QED BY <2>2, <2>3
<1>14. ASSUME NEW r \in Requests, NEW k \in {"verify", "poll", "register"}, Is(r, k)'
       PROVE  Is(r, k) /\ op'[r] = op[r] /\ pc'[r] = pc[r] /\ r # h
  BY <1>3, <1>5, <1>14 DEF Is
<1>15. CodesKnown'
  <2>1. ASSUME NEW b, NEW k, Generated(b, k)
        PROVE  \E q \in Requests : Is(q, "register")' /\ op'[q].who = b /\ code'[q] = k
    BY <1>1, <1>9, <2>1 DEF Generated, Is
  <2>2. ASSUME NEW u \in UserIds, codes'[u] # None PROVE Generated(users[u], codes[u].code)'
    <3>1. Generated(users[u], codes[u].code)
      BY <1>0, <1>1, <2>2 DEF SignInv, CodesKnown
    <3> QED BY <1>1, <2>1, <3>1 DEF Generated
  <2>3. ASSUME NEW r \in Requests, Is(r, "verify")',
               \/ pair'[r] # None \/ pc'[r] = "issue"
               \/ pc'[r] = "burn" /\ good'[r]
        PROVE  Generated(op[r].who, op[r].code)'
    <3>1. Is(r, "verify") /\ op'[r] = op[r] /\ pc'[r] = pc[r]
      BY <1>14, <2>3
    <3>2. Generated(op[r].who, op[r].code)
      BY <1>0, <1>1, <2>3, <3>1 DEF SignInv, CodesKnown
    <3> QED BY <2>1, <3>1, <3>2 DEF Generated
  <2> QED BY <2>2, <2>3 DEF CodesKnown
<1>16. OneUserEach'
  <2>1. ASSUME NEW r \in Requests, Is(r, "confirm")', user'[r] # None \/ pair'[r] # None
        PROVE  Is(r, "confirm")
    BY <1>1, <1>4, <1>5, <2>1 DEF Is
  <2> QED BY <1>0, <1>1, <2>1 DEF SignInv, OneUserEach
<1>17. Claims'
  <2>1. ASSUME NEW r \in Requests, NEW k, NEW t, Source(r, k, t)
        PROVE  Is(r, "confirm")' /\ pc'[r] = "done" /\ op'[r].link = k /\ pair'[r] = t
    BY <1>1, <1>4, <1>5, <2>1 DEF Source, Is
  <2>2. \A m \in Links : confirmed'[m] # None =>
          \E r \in Requests : Is(r, "confirm")' /\ pc'[r] = "done" /\ op'[r].link = m
                              /\ pair'[r] = confirmed'[m]
    BY <1>0, <1>1, <2>1 DEF SignInv, Claims
  <2>3. ASSUME NEW p \in Requests, Is(p, "poll")', pair'[p] # None
        PROVE  /\ \E r \in Requests : Is(r, "confirm")' /\ pc'[r] = "done"
                                      /\ op'[r].link = op'[p].link /\ pair'[r] = pair'[p]
               /\ confirmed'[op'[p].link] # pair'[p]
    <3>1. Is(p, "poll") /\ op'[p] = op[p]
      BY <1>14, <2>3
    <3>2. /\ \E r \in Requests : Source(r, op[p].link, pair[p])
          /\ confirmed[op[p].link] # pair[p]
      BY <1>0, <1>1, <2>3, <3>1 DEF SignInv, Claims
    <3> QED BY <1>1, <2>1, <3>1, <3>2
  <2>4. ClaimedOnce'
    BY <1>0, <1>1, <1>14 DEF SignInv, Claims, ClaimedOnce
  <2> QED BY <2>2, <2>3, <2>4 DEF Claims, Source
<1>18. SignInv'
  BY <1>13, <1>15, <1>16, <1>17 DEF SignInv
<1>19. ASSUME NEW r \in Requests
       PROVE  /\ Past(r)' => Past(r) /\ op'[r] = op[r]
              /\ Settled(r)' => Settled(r) /\ op'[r] = op[r]
  BY <1>5, <1>6 DEF Past, Settled, Is
<1>20. LinksKnown'
  BY <1>0, <1>1, <1>19 DEF LinksKnown
<1> QED BY <1>12, <1>18, <1>20 DEF SignedIn

\* The process keeps what is known of sign-in.
LEMMA SignedInStep ==
  ASSUME AppInv, [AppNext]_appVars
  PROVE  SignedIn'
<1>1. CASE [Next]_vars
  BY <1>1, NextAInv, NextSignInv, LinksStep DEF AppInv, SignedIn
<1> QED BY <1>1, AppSteps, CutOffStep, RefusedStep, AppAssumption DEF AppInv

-----------------------------------------------------------------------------
(* The steps of the process, as far as the process is concerned.            *)

\* A call leaves the handlers alone.
LEMMA CallsKeepHandlers ==
  ASSUME AppInv, NEW c \in Calls, Call(c) \/ PanicInSend(c), NEW h \in Handlers
  PROVE  /\ op'[h] = op[h] /\ pc'[h] = pc[h] /\ resp'[h] = resp[h]
         /\ UNCHANGED <<process, updates, files>>
<1>1. c \in Requests /\ h \in Requests /\ c # h
  BY AppAssumption
<1>2. Serve(c) \/ Confirm(c)
  BY DEF Call, PanicInSend, Serve, Abort
<1> QED BY <1>1, <1>2, OthersKeep DEF AppInv, SignedIn, Call, PanicInSend

\* What a step may do to a handler: nothing, start it, move it on, let it
\* answer its user, or cut it off.
LEMMA HandlerMoves ==
  ASSUME AppInv, [AppNext]_appVars, NEW h \in Handlers
  PROVE  \/ op'[h] = op[h] /\ pc'[h] = pc[h] /\ resp'[h] = resp[h] /\ told'[h] = told[h]
         \/ /\ Dispatch /\ h = <<taken + 1, life>> /\ told'[h] = told[h]
            /\ pc[h] = "begin" /\ op'[h].kind = "confirm"
         \/ op'[h] = op[h] /\ pc[h] \notin {"begin", "done"} /\ told'[h] = told[h]
         \/ /\ op'[h] = op[h] /\ pc'[h] = pc[h] /\ resp'[h] = resp[h]
            /\ pc[h] = "done" /\ (told'[h] = "verified" => resp[h] = "ok")
         \/ /\ op'[h] = op[h] /\ pc'[h] = (IF pc[h] = "begin" THEN "begin" ELSE "done")
            /\ pc[h] \in {"begin", "done"} => resp'[h] = resp[h]
            /\ told'[h] \in {told[h], "lost"} /\ (pc[h] = "begin" => told'[h] = told[h])
<1>0. /\ told \in [Handlers -> {"none", "verified", "sorry", "unsent", "lost"}]
      /\ op \in [Requests -> Operation \cup {None}] /\ pc \in [Requests -> Labels]
      /\ resp \in [Requests -> Outcomes]
      /\ h \in Requests /\ AInv /\ SignInv /\ ProcessInv
  BY AppAssumption DEF AppInv, SignedIn, ProcessInv, AppTypeOK, TypeOK
<1> DEFINE Same == op'[h] = op[h] /\ pc'[h] = pc[h] /\ resp'[h] = resp[h] /\ told'[h] = told[h]
<1>1. ASSUME NEW c \in Calls, Call(c) \/ PanicInSend(c) PROVE Same
  BY <1>1, CallsKeepHandlers DEF updates
<1>2. ASSUME NEW w \in Uploads, Upload(w) PROVE Same
  BY <1>2 DEF Upload, ReceiveUpload, CreateFile, CopyFile, CopyEnds, AnswerUrl, PutGoes, vars,
              updates
<1>3. ASSUME NEW g \in Handlers, Handle(g)
      PROVE  Same \/ (op'[h] = op[h] /\ pc[h] \notin {"begin", "done"} /\ told'[h] = told[h])
  <2>1. g \in Requests /\ (Serve(g) \/ Confirm(g)) /\ pc[g] # "begin" /\ told' = told
    BY <1>3, AppAssumption DEF Handle, Serve, updates
  <2>2. CASE g = h
    <3>1. pc[h] # "done"
      BY <1>0, <2>1, <2>2, OkMeansStored
    <3>2. op'[h] = op[h]
      BY <1>0, <2>1, <2>2, OpKept DEF SignInv, Memory, Next
    <3> QED BY <2>1, <2>2, <3>1, <3>2
  <2>3. CASE g # h
    BY <1>0, <2>1, <2>3, OthersKeep
  <2> QED BY <2>2, <2>3
<1>4. ASSUME NEW g \in Handlers, Reply(g)
      PROVE  \/ Same
             \/ /\ op'[h] = op[h] /\ pc'[h] = pc[h] /\ resp'[h] = resp[h]
                /\ pc[h] = "done" /\ (told'[h] = "verified" => resp[h] = "ok")
  <2>1. op' = op /\ pc' = pc /\ resp' = resp
    BY <1>4 DEF Reply, vars
  <2>2. CASE g # h
    BY <1>0, <1>4, <2>1, <2>2 DEF Reply
  <2>3. CASE g = h
    BY <1>0, <1>4, <2>1, <2>3 DEF Reply, ReplyText, ReplyDue
  <2> QED BY <2>2, <2>3
<1>5. ASSUME Dispatch
      PROVE  \/ Same
             \/ /\ Dispatch /\ h = <<taken + 1, life>> /\ told'[h] = told[h]
                /\ pc[h] = "begin" /\ op'[h].kind = "confirm"
  <2> DEFINE r == <<taken + 1, life>>
  <2>1. r \in Handlers /\ r \in Requests /\ pc[r] = "begin"
        /\ sent[taken + 1] \in [link: Links, who: Accounts]
    BY <1>0, <1>5, NextHandler DEF Dispatch
  <2>2. told' = told
    BY <1>5 DEF Dispatch
  <2>3. Refused(r) \/ GetPending(r)
    <3>1. sent[taken + 1].link \in Links /\ sent[taken + 1].who \in Accounts
      BY <2>1
    <3> QED BY <1>5, <2>1, <3>1 DEF Dispatch, Refused, Confirmation
  <2>4. op'[r].kind = "confirm"
    <3>1. op' = [op EXCEPT ![r] = Confirmation(taken + 1)] \/ op'[r] = Confirmation(taken + 1)
      BY <1>5 DEF Dispatch
    <3>2. op'[r] = Confirmation(taken + 1)
      BY <1>0, <2>1, <3>1
    <3> QED BY <3>2 DEF Confirmation
  <2>5. CASE h = r
    BY <1>5, <2>1, <2>2, <2>4, <2>5
  <2>6. CASE h # r
    <3> HIDE DEF r
    <3>1. op'[h] = op[h] /\ pc'[h] = pc[h] /\ resp'[h] = resp[h]
      BY <1>0, <2>1, <2>3, <2>6, OthersKeep DEF Refused, Answer, Confirm
    <3> QED BY <2>2, <3>1
  <2> QED BY <2>5, <2>6
<1>6. ASSUME Send \/ Fetch \/ Acknowledge \/ Signal \/ StopPolling \/ ListenerFails \/ CloseListener
             \/ Restart \/ Retired \/ UNCHANGED appVars
      PROVE  Same
  BY <1>6 DEF Send, Fetch, Acknowledge, Signal, StopPolling, ListenerFails, CloseListener,
              Restart, Retired, appVars, vars, updates
<1>7. ASSUME EndProcess
      PROVE  /\ op'[h] = op[h] /\ pc'[h] = (IF pc[h] = "begin" THEN "begin" ELSE "done")
             /\ pc[h] \in {"begin", "done"} => resp'[h] = resp[h]
             /\ told'[h] \in {told[h], "lost"} /\ (pc[h] = "begin" => told'[h] = told[h])
  BY <1>0, <1>7 DEF EndProcess
<1>8. Stop \/ StopLate \/ Kill => EndProcess
  BY DEF Stop, StopLate, Kill
<1> HIDE DEF Same
<1>9. \/ Same
      \/ /\ Dispatch /\ h = <<taken + 1, life>> /\ told'[h] = told[h]
         /\ pc[h] = "begin" /\ op'[h].kind = "confirm"
      \/ op'[h] = op[h] /\ pc[h] \notin {"begin", "done"} /\ told'[h] = told[h]
      \/ /\ op'[h] = op[h] /\ pc'[h] = pc[h] /\ resp'[h] = resp[h]
         /\ pc[h] = "done" /\ (told'[h] = "verified" => resp[h] = "ok")
      \/ EndProcess
  BY <1>1, <1>2, <1>3, <1>4, <1>5, <1>6, <1>8 DEF AppNext
<1> QED BY <1>7, <1>9 DEF Same

\* Handlers go on doing and saying what they should.
LEMMA HandlingStep ==
  ASSUME AppInv, [AppNext]_appVars, NEW h \in Handlers
  PROVE  Handling(h)'
<1>1. /\ Handling(h) /\ told[h] \in {"none", "verified", "sorry", "unsent", "lost"}
      /\ h \in Requests /\ AInv /\ SignInv
  BY AppAssumption DEF AppInv, SignedIn, ProcessInv, AppTypeOK
<1>2. pc[h] # "begin" => op[h] # None
  BY <1>1 DEF SignInv, Memory
<1>3. Session(h)
  BY <1>1 DEF AInv
<1> QED BY <1>1, <1>2, <1>3, HandlerMoves DEF Handling, Session

\* Handlers that have not been started stay so.
LEMMA FreshStep ==
  ASSUME AppInv, [AppNext]_appVars
  PROVE  Fresh'
<1>0. /\ life \in 1..Lives /\ taken \in Nat /\ acked \in Nat /\ Lives \in Nat /\ MaxSent \in Nat
      /\ Fresh
  BY AppAssumption DEF AppInv, ProcessInv, AppTypeOK
<1>1. \/ life' = life /\ taken' = taken
      \/ Dispatch /\ life' = life /\ taken' = taken + 1
      \/ life' = life + 1 /\ ~Dispatch
  <2>1. ASSUME NEW c \in Calls, Call(c) \/ PanicInSend(c) PROVE life' = life /\ taken' = taken
    BY <2>1 DEF Call, PanicInSend, process, updates
  <2>2. ASSUME NEW w \in Uploads, Upload(w) PROVE life' = life /\ taken' = taken
    BY <2>2 DEF Upload, ReceiveUpload, CreateFile, CopyFile, CopyEnds, AnswerUrl, PutGoes,
                process, updates
  <2>3. ASSUME NEW h \in Handlers, Handle(h) \/ Reply(h) PROVE life' = life /\ taken' = taken
    BY <2>3 DEF Handle, Reply, process, updates
  <2>4. ASSUME Send \/ Fetch \/ Acknowledge \/ Signal \/ StopPolling \/ ListenerFails \/ CloseListener
               \/ Stop \/ StopLate \/ Kill \/ Retired \/ UNCHANGED appVars
        PROVE  life' = life /\ taken' = taken
    BY <2>4 DEF Send, Fetch, Acknowledge, Signal, StopPolling, ListenerFails, CloseListener, Stop, StopLate,
                Kill, EndProcess, Retired, appVars, process, updates
  <2>5. Dispatch => life' = life /\ taken' = taken + 1
    BY DEF Dispatch, process
  <2>6. Restart => life' = life + 1
    BY DEF Restart
  <2> QED BY <2>1, <2>2, <2>3, <2>4, <2>5, <2>6 DEF AppNext
<1> SUFFICES ASSUME NEW k \in 1..MaxSent, NEW l \in 1..Lives,
                    l > life' \/ (l = life' /\ k > taken')
             PROVE  pc'[<<k, l>>] = "begin"
  BY DEF Fresh
<1>2. <<k, l>> \in Handlers
  BY DEF Handlers
<1>3. l > life \/ (l = life /\ k > taken)
  BY <1>0, <1>1
<1>4. pc[<<k, l>>] = "begin"
  BY <1>0, <1>3 DEF Fresh
<1>5. ~(Dispatch /\ <<k, l>> = <<taken + 1, life>>)
  <2>1. Dispatch => life' = life /\ taken' = taken + 1
    BY DEF Dispatch, process
  <2>2. <<k, l>> = <<taken + 1, life>> => k = taken + 1 /\ l = life
    OBVIOUS
  <2> QED BY <1>0, <2>1, <2>2
<1> QED BY <1>2, <1>4, <1>5, HandlerMoves

\* The variables of the process keep their types.
LEMMA ProcessTypes ==
  ASSUME AppInv, [AppNext]_appVars
  PROVE  AppTypeOK'
<1> DEFINE Message == [link: Links, who: Accounts]
           Told == {"none", "verified", "sorry", "unsent", "lost"}
           Put  == Running \cup {"begin", "url", "refused", "failed", "lost"}
           TProc == /\ proc \in {"up", "signalled", "draining", "down"}
                    /\ listening \in BOOLEAN
                    /\ life \in 1..Lives
                    /\ bot  \in {"absent", "polling", "stopped"}
           TUpd == /\ sent \in Seq(Message) /\ Len(sent) <= MaxSent
                   /\ {acked, taken} \subseteq 0..fetched /\ fetched \in 0..Len(sent)
                   /\ fetched - taken <= ChanCap
           TFile == /\ put \in [Uploads -> Put]
                    /\ file \in [Uploads -> {"none", "partial", "whole"}]
           TTold == told \in [Handlers -> Told]
<1>0. TypeOK'
  BY SignedInStep DEF SignedIn, AInv
<1>A. /\ TProc /\ TUpd /\ TFile /\ TTold
      /\ {MaxSent, ChanCap, Lives} \subseteq Nat \ {0}
  BY AppAssumption DEF AppInv, ProcessInv, AppTypeOK
<1>1. ASSUME NEW c \in Calls, Call(c) \/ PanicInSend(c)
      PROVE  UNCHANGED <<process, updates, files>>
  BY <1>1 DEF Call, PanicInSend
<1>2. TProc'
  <2>1. ASSUME NEW w \in Uploads, Upload(w) PROVE UNCHANGED process
    BY <2>1 DEF Upload, ReceiveUpload, CreateFile, CopyFile, CopyEnds, AnswerUrl, PutGoes
  <2>2. ASSUME NEW h \in Handlers, Handle(h) \/ Reply(h) PROVE UNCHANGED process
    BY <2>2 DEF Handle, Reply
  <2>3. ASSUME Send \/ Fetch \/ Acknowledge \/ Dispatch \/ Retired \/ UNCHANGED appVars
        PROVE  UNCHANGED process
    BY <2>3 DEF Send, Fetch, Acknowledge, Dispatch, Retired, appVars
  <2>4. ASSUME Signal \/ StopPolling \/ ListenerFails \/ CloseListener PROVE TProc'
    BY <1>A, <2>4 DEF Signal, StopPolling, ListenerFails, CloseListener
  <2>5. ASSUME EndProcess PROVE TProc'
    BY <1>A, <2>5 DEF EndProcess
  <2>6. Stop \/ StopLate \/ Kill => EndProcess
    BY DEF Stop, StopLate, Kill
  <2>7. CASE Restart
    BY <1>A, <2>7 DEF Restart
  <2>8. UNCHANGED process => TProc'
    BY <1>A DEF process
  <2> HIDE DEF TProc
  <2> QED BY <1>1, <2>1, <2>2, <2>3, <2>4, <2>5, <2>6, <2>7, <2>8 DEF AppNext
<1>3. TUpd'
  <2> DEFINE quiet == UNCHANGED <<sent, acked, fetched, taken>>
  <2>0. quiet => TUpd'
    BY <1>A
  <2>1. ASSUME NEW w \in Uploads, Upload(w) PROVE quiet
    BY <2>1 DEF Upload, ReceiveUpload, CreateFile, CopyFile, CopyEnds, AnswerUrl, PutGoes,
                updates
  <2>2. ASSUME NEW h \in Handlers, Handle(h) \/ Reply(h) PROVE quiet
    BY <2>2 DEF Handle, Reply, updates
  <2>3. ASSUME Signal \/ StopPolling \/ ListenerFails \/ CloseListener \/ Stop \/ StopLate \/ Kill \/ Retired
               \/ UNCHANGED appVars
        PROVE  quiet
    BY <2>3 DEF Signal, StopPolling, ListenerFails, CloseListener, Stop, StopLate, Kill, EndProcess, Retired,
                appVars, updates
  <2>4. CASE Send
    <3>1. PICK l \in Links, a \in Accounts : sent' = Append(sent, [link |-> l, who |-> a])
      BY <2>4 DEF Send
    <3>2. [link |-> l, who |-> a] \in Message
      OBVIOUS
    <3>3. sent \in Seq(Message) /\ Len(sent) \in Nat
      BY <1>A
    <3> DEFINE m == [link |-> l, who |-> a]
    <3> HIDE DEF m, Message
    <3>4. sent' \in Seq(Message) /\ Len(sent') = Len(sent) + 1
      BY <3>1, <3>2, <3>3 DEF m
    <3>5. Len(sent) < MaxSent /\ UNCHANGED <<acked, fetched, taken>>
      BY <2>4 DEF Send
    <3> QED BY <1>A, <3>3, <3>4, <3>5
  <2>5. CASE Fetch
    <3>1. fetched < Len(sent) /\ fetched' = fetched + 1 /\ UNCHANGED <<sent, acked, taken>>
          /\ fetched - taken < ChanCap /\ Len(sent) \in Nat
      BY <1>A, <2>5 DEF Fetch, Room
    <3> HIDE DEF Message
    <3> QED BY <1>A, <3>1
  <2>6. CASE Acknowledge
    <3>1. acked' = fetched /\ UNCHANGED <<sent, fetched, taken>> /\ Len(sent) \in Nat
      BY <1>A, <2>6 DEF Acknowledge
    <3> HIDE DEF Message
    <3> QED BY <1>A, <3>1
  <2>7. CASE Dispatch
    <3>1. taken < fetched /\ taken' = taken + 1 /\ UNCHANGED <<sent, fetched, acked>>
          /\ Len(sent) \in Nat
      BY <1>A, <2>7 DEF Dispatch
    <3> HIDE DEF Message
    <3> QED BY <1>A, <3>1
  <2>8. CASE Restart
    <3>1. fetched' = acked /\ taken' = acked /\ UNCHANGED <<sent, acked>> /\ Len(sent) \in Nat
      BY <1>A, <2>8 DEF Restart, FirstOffset
    <3> HIDE DEF Message
    <3> QED BY <1>A, <3>1
  <2>9. ASSUME NEW c \in Calls, Call(c) \/ PanicInSend(c) PROVE quiet
    BY <1>1, <2>9 DEF updates
  <2> HIDE DEF TUpd, quiet
  <2> QED BY <2>0, <2>1, <2>2, <2>3, <2>4, <2>5, <2>6, <2>7, <2>8, <2>9 DEF AppNext
<1>4. TFile'
  <2>1. ASSUME NEW w \in Uploads, Upload(w) PROVE TFile'
    <3>1. /\ \E s \in Put : put' = [put EXCEPT ![w] = s]
          /\ file' = file \/ \E s \in {"partial", "whole"} : file' = [file EXCEPT ![w] = s]
      BY <2>1 DEF Upload, ReceiveUpload, CreateFile, CopyFile, CopyEnds, AnswerUrl, PutGoes,
                  Running
    <3> HIDE DEF Put
    <3> QED BY <1>A, <3>1
  <2>2. ASSUME EndProcess PROVE TFile'
    BY <1>A, <2>2 DEF EndProcess
  <2>3. Stop \/ StopLate \/ Kill => EndProcess
    BY DEF Stop, StopLate, Kill
  <2>4. ASSUME \/ Send \/ Fetch \/ Acknowledge \/ Dispatch \/ Retired \/ UNCHANGED appVars
               \/ Signal \/ StopPolling \/ ListenerFails \/ CloseListener \/ Restart
               \/ \E h \in Handlers : Handle(h) \/ Reply(h)
               \/ \E c \in Calls : Call(c) \/ PanicInSend(c)
        PROVE  UNCHANGED files
    BY <1>1, <2>4 DEF Send, Fetch, Acknowledge, Dispatch, Retired, appVars, Signal, StopPolling,
           ListenerFails, CloseListener, Restart, Handle, Reply
  <2>5. UNCHANGED files => TFile'
    BY <1>A DEF files
  <2> HIDE DEF TFile
  <2> QED BY <2>1, <2>2, <2>3, <2>4, <2>5 DEF AppNext
<1>5. TTold'
  <2>1. ASSUME NEW h \in Handlers, Reply(h) PROVE TTold'
    BY <1>A, <2>1 DEF Reply, ReplyText
  <2>2. ASSUME EndProcess PROVE TTold'
    BY <1>A, <2>2 DEF EndProcess
  <2>3. Stop \/ StopLate \/ Kill => EndProcess
    BY DEF Stop, StopLate, Kill
  <2>4. ASSUME \/ Send \/ Fetch \/ Acknowledge \/ Dispatch \/ Retired \/ UNCHANGED appVars
               \/ Signal \/ StopPolling \/ ListenerFails \/ CloseListener \/ Restart
               \/ \E h \in Handlers : Handle(h)
               \/ \E c \in Calls : Call(c) \/ PanicInSend(c)
               \/ \E w \in Uploads : Upload(w)
        PROVE  told' = told
    BY <1>1, <2>4 DEF Send, Fetch, Acknowledge, Dispatch, Retired, appVars, Signal, StopPolling,
           ListenerFails, CloseListener, Restart, Handle, updates, Upload, ReceiveUpload, CreateFile, CopyFile,
           CopyEnds, AnswerUrl, PutGoes
  <2>5. told' = told => TTold'
    BY <1>A
  <2> HIDE DEF TTold
  <2> QED BY <2>1, <2>2, <2>3, <2>4, <2>5 DEF AppNext
<1> QED BY <1>0, <1>2, <1>3, <1>4, <1>5 DEF AppTypeOK

\* A file that was complete stays so, and only a complete one gets a URL.
LEMMA FilesStep ==
  ASSUME AppInv, [AppNext]_appVars
  PROVE  FilesWritten'
<1>0. /\ put \in [Uploads -> Running \cup {"begin", "url", "refused", "failed", "lost"}]
      /\ file \in [Uploads -> {"none", "partial", "whole"}] /\ FilesWritten
  BY DEF AppInv, ProcessInv, AppTypeOK
<1>1. ASSUME NEW w \in Uploads, Upload(w) PROVE FilesWritten'
  <2>1. ReceiveUpload(w) => FilesWritten'
    BY <1>0 DEF ReceiveUpload, PutGoes, FilesWritten
  <2>2. CreateFile(w) => FilesWritten'
    BY <1>0 DEF CreateFile, PutGoes, FilesWritten
  <2>3. CopyFile(w) => FilesWritten'
    BY <1>0 DEF CopyFile, CopyEnds, PutGoes, FilesWritten
  <2>4. AnswerUrl(w) => FilesWritten'
    BY <1>0 DEF AnswerUrl, PutGoes, FilesWritten
  <2> QED BY <1>1, <2>1, <2>2, <2>3, <2>4 DEF Upload
<1>2. ASSUME EndProcess PROVE FilesWritten'
  BY <1>0, <1>2 DEF EndProcess, FilesWritten
<1>3. Stop \/ StopLate \/ Kill => EndProcess
  BY DEF Stop, StopLate, Kill
<1>4. ASSUME \/ Send \/ Fetch \/ Acknowledge \/ Dispatch \/ Retired \/ UNCHANGED appVars
             \/ Signal \/ StopPolling \/ ListenerFails \/ CloseListener \/ Restart
             \/ \E h \in Handlers : Handle(h) \/ Reply(h)
             \/ \E c \in Calls : Call(c) \/ PanicInSend(c)
      PROVE  UNCHANGED files
  BY <1>4 DEF Send, Fetch, Acknowledge, Dispatch, Retired, appVars, Signal, StopPolling,
         ListenerFails, CloseListener, Restart, Handle, Reply, Call, PanicInSend
<1>5. UNCHANGED files => FilesWritten'
  BY <1>0 DEF files, FilesWritten
<1> QED BY <1>1, <1>2, <1>3, <1>4, <1>5 DEF AppNext

\* What can be missed: a restart adds what has been acknowledged and not taken.
LEMMA MissedStep ==
  ASSUME AppInv, [AppNext]_appVars
  PROVE  \/ Missed' \subseteq Missed /\ acked' >= acked /\ life' = life
         \/ /\ Missed' \subseteq Missed \cup (taken + 1 .. acked)
            /\ Missed' \subseteq 1..acked' /\ acked' = acked /\ life' = life + 1
<1>0. /\ acked \in Nat /\ taken \in Nat /\ acked <= fetched /\ fetched \in Nat
      /\ life \in 1..Lives /\ Lives \in Nat /\ MaxSent \in Nat /\ taken <= MaxSent
      /\ SignInv /\ AInv /\ ProcessInv
  <2>1. /\ acked \in 0..fetched /\ taken \in 0..fetched /\ fetched \in 0..Len(sent)
        /\ Len(sent) <= MaxSent /\ life \in 1..Lives /\ sent \in Seq([link: Links, who: Accounts])
    BY DEF AppInv, ProcessInv, AppTypeOK
  <2>2. Len(sent) \in Nat /\ Lives \in Nat /\ MaxSent \in Nat
    BY <2>1, AppAssumption
  <2> HIDE AppAssumption
  <2> QED BY <2>1, <2>2 DEF AppInv, SignedIn
<1>1. ASSUME NEW h \in Handlers, pc'[h] = "begin" PROVE pc[h] = "begin"
  <2>1. h \in Requests
    BY AppAssumption
  <2>2. op'[h] = None
    BY <1>1, <2>1, SignedInStep DEF SignedIn, AInv, Session
  <2>3. op'[h] = op[h] \/ pc[h] = "begin"
    BY HandlerMoves
  <2> QED BY <1>0, <2>1, <2>2, <2>3 DEF SignInv, Memory
<1>2. ASSUME taken' = taken, acked' >= acked, life' = life
      PROVE  Missed' \subseteq Missed
  <2> SUFFICES ASSUME NEW k \in 1..taken, \A l \in 1..Lives : pc'[<<k, l>>] = "begin"
               PROVE  \A l \in 1..Lives : pc[<<k, l>>] = "begin"
    BY <1>2 DEF Missed
  <2> QED BY <1>0, <1>1 DEF Handlers
<1>3. CASE Dispatch
  <2> DEFINE r == <<taken + 1, life>>
  <2>1. r \in Requests /\ r \in Handlers /\ taken' = taken + 1 /\ acked' = acked /\ life' = life
        /\ sent[taken + 1] \in [link: Links, who: Accounts]
    BY <1>0, <1>3, NextHandler DEF Dispatch, process
  <2>2. op'[r] # None
    <3>1. op' = [op EXCEPT ![r] = Confirmation(taken + 1)] \/ op'[r] = Confirmation(taken + 1)
      BY <1>3 DEF Dispatch
    <3>2. op'[r] = Confirmation(taken + 1)
      BY <1>0, <2>1, <3>1 DEF AInv, TypeOK
    <3>3. Confirmation(taken + 1) \in Operation
      <4>1. sent[taken + 1].link \in Links /\ sent[taken + 1].who \in Accounts
        BY <2>1
      <4> QED BY <4>1 DEF Confirmation, Operation
    <3> QED BY <3>2, <3>3, AuthAssumption
  <2>3. pc'[r] # "begin"
    BY <2>1, <2>2, SignedInStep DEF SignedIn, AInv, Session
  <2>4. Missed' \subseteq Missed
    <3> SUFFICES ASSUME NEW k \in 1..(taken + 1), \A l \in 1..Lives : pc'[<<k, l>>] = "begin"
                 PROVE  k \in 1..taken /\ \A l \in 1..Lives : pc[<<k, l>>] = "begin"
      BY <2>1 DEF Missed
    <3>1. k # taken + 1
      BY <1>0, <2>3
    <3> QED BY <1>0, <1>1, <3>1 DEF Handlers
  <2> QED BY <1>0, <2>1, <2>4
<1>4. CASE Restart
  <2>1. taken' = acked /\ acked' = acked /\ life' = life + 1 /\ pc' = pc
    BY <1>4 DEF Restart, FirstOffset, vars
  <2>2. Missed' \subseteq 1..acked
    BY <2>1 DEF Missed
  <2>3. Missed' \subseteq Missed \cup (taken + 1 .. acked)
    <3> SUFFICES ASSUME NEW k \in 1..acked, \A l \in 1..Lives : pc[<<k, l>>] = "begin",
                        k \notin taken + 1 .. acked
                 PROVE  k \in 1..taken
      BY <2>1 DEF Missed
    <3> QED BY <1>0
  <2> QED BY <2>1, <2>2, <2>3
<1>5. \/ taken' = taken /\ acked' >= acked /\ life' = life
      \/ Dispatch \/ Restart
  <2> DEFINE still == taken' = taken /\ acked' = acked /\ life' = life
  <2>1. ASSUME NEW c \in Calls, Call(c) \/ PanicInSend(c) PROVE still
    BY <2>1 DEF Call, PanicInSend, process, updates
  <2>2. ASSUME NEW w \in Uploads, Upload(w) PROVE still
    BY <2>2 DEF Upload, ReceiveUpload, CreateFile, CopyFile, CopyEnds, AnswerUrl, PutGoes,
                process, updates
  <2>3. ASSUME NEW h \in Handlers, Handle(h) \/ Reply(h) PROVE still
    BY <2>3 DEF Handle, Reply, process, updates
  <2>4. ASSUME Send \/ Fetch \/ Signal \/ StopPolling \/ ListenerFails \/ CloseListener
               \/ Stop \/ StopLate \/ Kill \/ Retired \/ UNCHANGED appVars
        PROVE  still
    BY <2>4 DEF Send, Fetch, Signal, StopPolling, ListenerFails, CloseListener, Stop, StopLate,
                Kill, EndProcess, Retired, appVars, process, updates
  <2>5. Acknowledge => taken' = taken /\ acked' >= acked /\ life' = life
    BY <1>0 DEF Acknowledge, process
  <2>6. still => taken' = taken /\ acked' >= acked /\ life' = life
    BY <1>0
  <2> HIDE DEF still
  <2> QED BY <2>1, <2>2, <2>3, <2>4, <2>5, <2>6 DEF AppNext
<1> QED BY <1>2, <1>3, <1>4, <1>5

\* Every end of the process adds a channel of messages at most.
LEMMA LossStep ==
  ASSUME AppInv, [AppNext]_appVars
  PROVE  LossIsBounded'
<1>0. /\ acked \in Nat /\ taken \in Nat /\ acked <= fetched /\ fetched \in Nat
      /\ fetched - taken <= ChanCap /\ acked' \in Nat
      /\ life \in Nat /\ ChanCap \in Nat
      /\ Missed \subseteq 1..acked /\ Cardinality(Missed) <= ChanCap * (life - 1)
  <2>1. /\ acked \in 0..fetched /\ taken \in 0..fetched /\ fetched \in 0..Len(sent)
        /\ fetched - taken <= ChanCap /\ life \in 1..Lives /\ LossIsBounded
        /\ sent \in Seq([link: Links, who: Accounts])
    BY DEF AppInv, ProcessInv, AppTypeOK
  <2>2. acked' \in 0..fetched' /\ fetched' \in 0..Len(sent)'
        /\ sent' \in Seq([link: Links, who: Accounts])
    BY ProcessTypes DEF AppTypeOK
  <2>3. Len(sent) \in Nat /\ Len(sent)' \in Nat
    BY <2>1, <2>2
  <2>4. ChanCap \in Nat /\ Lives \in Nat
    BY AppAssumption
  <2> HIDE AppAssumption
  <2> QED BY <2>1, <2>2, <2>3, <2>4 DEF LossIsBounded
<1>1. IsFiniteSet(Missed) /\ Cardinality(Missed) \in Nat
  <2>1. IsFiniteSet(1..acked)
    BY <1>0, FS_Interval
  <2>2. IsFiniteSet(Missed)
    BY <1>0, <2>1, FS_Subset
  <2> QED BY <2>2, FS_CardinalityType
<1>2. CASE Missed' \subseteq Missed /\ acked' >= acked /\ life' = life
  <2>1. Cardinality(Missed') <= Cardinality(Missed)
    BY <1>1, <1>2, FS_Subset
  <2>2. Cardinality(Missed') <= ChanCap * (life' - 1)
    <3>1. ChanCap * (life' - 1) = ChanCap * (life - 1)
      BY <1>2
    <3>2. ChanCap * (life - 1) \in Int /\ Cardinality(Missed') \in Nat
      <4>1. IsFiniteSet(Missed')
        BY <1>1, <1>2, FS_Subset
      <4> QED BY <1>0, <4>1, FS_CardinalityType
    <3> QED BY <1>0, <1>1, <2>1, <3>1, <3>2
  <2>3. Missed' \subseteq 1..acked'
    BY <1>0, <1>2
  <2> QED BY <2>2, <2>3 DEF LossIsBounded
<1>3. CASE /\ Missed' \subseteq Missed \cup (taken + 1 .. acked)
           /\ Missed' \subseteq 1..acked' /\ acked' = acked /\ life' = life + 1
  <2> DEFINE gap == taken + 1 .. acked
  <2>1. IsFiniteSet(gap) /\ Cardinality(gap) \in Nat /\ Cardinality(gap) <= ChanCap
    <3>0. taken + 1 \in Int /\ acked \in Int
      BY <1>0
    <3>1. /\ IsFiniteSet(gap)
          /\ Cardinality(gap) = IF taken + 1 > acked THEN 0 ELSE acked - (taken + 1) + 1
      BY <3>0, FS_Interval, Zenon
    <3> HIDE DEF gap
    <3> QED BY <1>0, <3>1
  <2> HIDE DEF gap
  <2>2. /\ IsFiniteSet(Missed \cup gap)
        /\ Cardinality(Missed \cup gap)
             = Cardinality(Missed) + Cardinality(gap) - Cardinality(Missed \cap gap)
    BY <1>1, <2>1, FS_Union
  <2>3. Cardinality(Missed \cap gap) \in Nat
    BY <1>1, FS_Subset, FS_CardinalityType
  <2>4. Missed' \subseteq Missed \cup gap
    BY <1>3 DEF gap
  <2>5. Cardinality(Missed') <= Cardinality(Missed \cup gap) /\ Cardinality(Missed') \in Nat
    BY <2>2, <2>4, FS_Subset, FS_CardinalityType
  <2>6. ChanCap * (life' - 1) = ChanCap * (life - 1) + ChanCap /\ ChanCap * (life - 1) \in Int
    BY <1>0, <1>3
  <2>7. Cardinality(Missed') <= ChanCap * (life' - 1)
    BY <1>0, <1>1, <2>1, <2>2, <2>3, <2>5, <2>6
  <2> QED BY <1>3, <2>7 DEF LossIsBounded
<1> QED BY <1>2, <1>3, MissedStep

-----------------------------------------------------------------------------
(* The theorems.                                                            *)

\* The process starts with the invariant.
LEMMA InitAppInv == AppInit => AppInv
<1> SUFFICES ASSUME AppInit PROVE AppInv
  OBVIOUS
<1>1. Init /\ AInv /\ SignInv
  BY InitAInv, InitSignInv DEF AppInit
<1>2. LinksKnown
  BY <1>1 DEF Init, LinksKnown, Past, Settled, Is
<1>3. AppTypeOK
  <2>1. sent \in Seq([link: Links, who: Accounts]) /\ Len(sent) = 0
    BY DEF AppInit
  <2>2. {MaxSent, ChanCap, Lives} \subseteq Nat \ {0}
    BY AppAssumption
  <2> QED BY <1>1, <2>1, <2>2 DEF AppInit, AppTypeOK, Running, AInv
<1>4. Fresh
  <2>1. ASSUME NEW k \in 1..MaxSent, NEW l \in 1..Lives PROVE pc[<<k, l>>] = "begin"
    BY <1>1, AppAssumption DEF Init, Handlers
  <2> QED BY <2>1 DEF Fresh
<1>5. ASSUME NEW h \in Handlers PROVE Handling(h)
  BY <1>1, AppAssumption DEF Init, AppInit, Handling
<1>6. FilesWritten
  BY DEF AppInit, FilesWritten
<1>7. LossIsBounded
  <2>1. Missed = {} /\ life = 1
    BY DEF AppInit, Missed
  <2>2. ChanCap * (life - 1) = 0 /\ Cardinality(Missed) = 0
    BY <2>1, FS_EmptySet, AppAssumption
  <2> QED BY <2>1, <2>2 DEF LossIsBounded
<1> QED BY <1>1, <1>2, <1>3, <1>4, <1>5, <1>6, <1>7 DEF AppInv, SignedIn, ProcessInv

\* Every step keeps the invariant.
LEMMA NextAppInv == AppInv /\ [AppNext]_appVars => AppInv'
<1> SUFFICES ASSUME AppInv, [AppNext]_appVars PROVE AppInv'
  OBVIOUS
<1> QED BY SignedInStep, ProcessTypes, FreshStep, HandlingStep, FilesStep, LossStep
        DEF AppInv, ProcessInv

\* The inductive invariant of App: that of sign-in, which survives crashes,
\* refusals and restarts, with what is known of links, of handlers, of files
\* and of missed messages.
THEOREM AppInvariance == AppSpec => []AppInv
<1> QED BY InitAppInv, NextAppInv, PTL DEF AppSpec

\* Every variable keeps its type, and the channel its capacity.
THEOREM AppTypesAlways == AppSpec => []AppTypeOK
<1>1. AppInv => AppTypeOK
  BY DEF AppInv, ProcessInv
<1> QED BY AppInvariance, <1>1, PTL

\* What the promises of sign-in say holds in the process too, whenever it is
\* killed and however often it handles an update again.
THEOREM SignInSurvives ==
  AppSpec => [](OneUserPerAccount /\ NoOrphanSessions /\ VerifiedIsClaimable
                /\ ClaimedOnce /\ SignInNeedsCode)
<1>1. AppInv => /\ OneUserPerAccount /\ NoOrphanSessions /\ VerifiedIsClaimable
                /\ ClaimedOnce
  BY DEF AppInv, SignedIn, AInv, SignInv, Claims
<1>2. AppInv => SignInNeedsCode
  BY DEF AppInv, SignedIn, SignInv, CodesKnown, Generated, SignInNeedsCode
<1> QED BY AppInvariance, <1>1, <1>2, PTL

\* Whoever has been told "Verified!" finds the pair, or a poll has taken it.
THEOREM BotTellsTheTruth == AppSpec => []ToldTruth
<1>1. AppInv => ToldTruth
  <2> SUFFICES ASSUME AppInv, NEW h \in Handlers, told[h] = "verified"
               PROVE  \/ confirmed[op[h].link] = pair[h]
                      \/ \E c \in Calls : Is(c, "poll") /\ pair[c] = pair[h]
    BY DEF ToldTruth
  <2>1. h \in Requests /\ resp[h] = "ok" /\ pc[h] = "done"
    BY AppAssumption DEF AppInv, ProcessInv, Handling
  <2>2. Is(h, "confirm")
    BY <2>1 DEF AppInv, SignedIn, SignInv, Memory, ProcessInv, Handling, Is
  <2>3. \/ confirmed[op[h].link] = pair[h]
        \/ \E q \in Requests : Is(q, "poll") /\ pair[q] = pair[h]
    BY <2>1, <2>2 DEF AppInv, SignedIn, AInv, VerifiedIsClaimable
  <2>4. ASSUME NEW q \in Requests, Is(q, "poll") PROVE q \in Calls
    BY <2>4, AppAssumption DEF AppInv, ProcessInv, Handling, Is
  <2> QED BY <2>3, <2>4
<1> QED BY AppInvariance, <1>1, PTL

\* A link completes one registration, unless a user it has made was deleted.
THEOREM LinksRegisterOnce == AppSpec => []LinkRegistersOnce
<1>1. AppInv => LinkRegistersOnce
  <2> SUFFICES ASSUME AppInv, NEW g \in Handlers, NEW h \in Handlers,
                      Is(g, "confirm"), Is(h, "confirm"), op[g].link = op[h].link,
                      resp[g] = "ok", resp[h] = "ok",
                      users[user[g]] # Removed, users[user[h]] # Removed
               PROVE  g = h
    BY DEF LinkRegistersOnce
  <2>1. g \in Requests /\ h \in Requests /\ Removed \notin Accounts /\ None \notin UserIds
        /\ op \in [Requests -> Operation \cup {None}]
        /\ users \in [UserIds -> Accounts \cup {Unborn, Removed}]
    BY AppAssumption, AuthAssumption DEF AppInv, SignedIn, AInv, TypeOK
  <2>2. Past(g) /\ Past(h) /\ Settled(g) /\ Settled(h)
    BY DEF Past, Settled
  <2>3. /\ op[g].who = op[h].who /\ user[g] \in UserIds /\ user[h] \in UserIds
        /\ users[user[g]] = op[g].who /\ users[user[h]] = op[h].who
    BY <2>1, <2>2 DEF AppInv, SignedIn, LinksKnown
  <2>4. op[g].who \in Accounts
    BY <2>1 DEF Is, Operation
  <2>5. user[g] = user[h]
    BY <2>3, <2>4 DEF AppInv, SignedIn, AInv, OneUserPerAccount, LiveUsers
  <2> QED BY <2>1, <2>3, <2>5 DEF AppInv, SignedIn, SignInv, OneUserEach
<1> QED BY AppInvariance, <1>1, PTL

\* A URL that was answered names a file that was written to its end, also when
\* the process has died since.
THEOREM UrlsServeWholeFiles == AppSpec => []UrlServesWholeFile
<1>1. AppInv => UrlServesWholeFile
  BY DEF AppInv, ProcessInv, FilesWritten, UrlServesWholeFile
<1> QED BY AppInvariance, <1>1, PTL

\* Messages are missed only in the channel of a process that ended, and no more
\* for each than a channel holds.
THEOREM LossesAreBounded == AppSpec => []LossIsBounded
<1>1. AppInv => LossIsBounded
  BY DEF AppInv, ProcessInv
<1> QED BY AppInvariance, <1>1, PTL

=============================================================================
