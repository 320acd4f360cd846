----------------------------- MODULE AuthProofs -----------------------------
(* Proofs that sign-in keeps one user per account, leaves no session behind *)
(* a deleted user, locks such a user out in time, and hands out every pair  *)
(* it has announced.                                                        *)
EXTENDS Auth, TLAPS

RegisterOps == [kind: {"register"}, who: Accounts]
ConfirmOps  == [kind: {"confirm"}, link: Links, who: Accounts]

\* What the label and the outcome of a request say about it.
Session(r) ==
    /\ pc[r] = "begin"   => op[r] = None
    /\ pc[r] = "rotate"  => Is(r, "refresh")
    /\ pc[r] = "pending" => op[r] \in RegisterOps
    /\ pc[r] = "create"  => op[r] \in ConfirmOps
    /\ pc[r] = "store"   => pair[r] \in Pair
    /\ pc[r] = "name"    => op[r].kind = "rename"
    /\ resp[r] = "pair"  => pair[r] \in Pair
    /\ resp[r] # "none"  => pc[r] = "done"
    /\ Is(r, "poll")     => pc[r] = "done"
    /\ Is(r, "confirm") /\ resp[r] = "ok" => pair[r] \in Pair

\* A session is there unless its token has been presented or its user deleted.
Lasting(t) ==
    \/ t \in refresh
    \/ t.user \notin LiveUsers
    \/ \E r \in Requests : Is(r, "refresh") /\ op[r].token = t

\* A token belongs to a user there is or was, and was minted before that user
\* was deleted; its session lasts.
Minted(t) ==
    /\ t.sec <= now
    /\ users[t.user] # Unborn
    /\ users[t.user] = Removed => t.sec <= left[t.user]
    /\ Lasting(t)

TokensMinted ==
    /\ \A t \in FirstPairs : Minted(t)
    /\ \A r \in Requests : pair[r] # None => Minted(pair[r])
    /\ \A l \in Links : confirmed[l] # None => Minted(confirmed[l])

AInv ==
    /\ TypeOK
    /\ \A r \in Requests : Session(r)
    /\ OneUserPerAccount
    /\ NoOrphanSessions
    /\ TokensMinted
    /\ VerifiedIsClaimable

-----------------------------------------------------------------------------

\* What a client has been handed is a pair, and has been minted.
LEMMA HandedMinted ==
  ASSUME AInv, NEW t \in Handed
  PROVE  t \in Pair /\ Minted(t)
<1>1. CASE t \in FirstPairs
  BY <1>1 DEF AInv, TokensMinted, FirstPairs, Pair
<1>2. CASE t \in {pair[r] : r \in {q \in Requests : resp[q] = "pair"}}
  <2>1. PICK r \in Requests : resp[r] = "pair" /\ t = pair[r]
    BY <1>2
  <2>2. pair[r] \in Pair /\ pair[r] # None
    BY <2>1, AuthAssumption DEF AInv, Session
  <2> QED BY <2>1, <2>2 DEF AInv, TokensMinted
<1> QED BY <1>1, <1>2 DEF Handed

\* The initial states satisfy the invariant.
LEMMA InitAInv == Init => AInv
<1> SUFFICES ASSUME Init PROVE AInv
  OBVIOUS
<1> USE AuthAssumption DEF Init
<1>1. TypeOK
  BY DEF TypeOK, Labels, Outcomes, FirstPairs, Pair
<1>2. ASSUME NEW r \in Requests PROVE Session(r)
  BY <1>2 DEF Session, Is
<1>3. OneUserPerAccount
  BY DEF OneUserPerAccount, LiveUsers
<1>4. NoOrphanSessions
  BY DEF NoOrphanSessions, FirstPairs, LiveUsers
<1>5. TokensMinted
  BY DEF TokensMinted, Minted, Lasting, FirstPairs
<1>6. VerifiedIsClaimable
  BY DEF VerifiedIsClaimable, Is
<1> QED BY <1>1, <1>2, <1>3, <1>4, <1>5, <1>6 DEF AInv

\* A new operation keeps op typed.
LEMMA OpTyped ==
  ASSUME TypeOK, NEW r \in Requests, NEW o \in Operation, Asks(r, o)
  PROVE  op' \in [Requests -> Operation \cup {None}]
BY DEF TypeOK, Asks

\* Every action keeps the types.
LEMMA TypeStep ==
  ASSUME AInv, [Next]_vars
  PROVE  TypeOK'
<1> DEFINE OpType == op \in [Requests -> Operation \cup {None}]
<1>0. TypeOK
  BY DEF AInv
<1> USE DEF At, GoTo, Answer, AnswerWritten, Remember, Labels, Outcomes, tables, session
<1>1. ASSUME NEW r \in Requests, UpsertLoginCode(r) PROVE TypeOK'
  <2>1. CASE user[r] \in LiveUsers
    <3>1. PICK k \in Codes :
            /\ codes' = [codes EXCEPT ![user[r]] = [code |-> k, until |-> now + CodeTTL]]
            /\ code'  = [code EXCEPT ![r] = k]
      BY <1>1, <2>1 DEF UpsertLoginCode, ExpiresAt
    <3>2. [code |-> k, until |-> now + CodeTTL] \in [code: Codes, until: Nat]
      BY <1>0, AuthAssumption DEF TypeOK
    <3>3. codes' \in [UserIds -> [code: Codes, until: Nat] \cup {None}]
      BY <1>0, <3>1, <3>2 DEF TypeOK
    <3> QED BY <1>0, <1>1, <3>1, <3>3 DEF TypeOK, UpsertLoginCode
  <2>2. CASE user[r] \notin LiveUsers
    BY <1>0, <1>1, <2>2 DEF TypeOK, UpsertLoginCode
  <2> QED BY <2>1, <2>2
<1>2. ASSUME NEW r \in Requests, SendMessage(r) PROVE TypeOK'
  BY <1>0, <1>2, AuthAssumption DEF TypeOK, SendMessage
<1>3. ASSUME NEW r \in Requests, DropExpired(r) PROVE TypeOK'
  BY <1>0, <1>3, AuthAssumption DEF TypeOK, DropExpired, RemoveLink
<1>4. ASSUME NEW r \in Requests, DeletePending(r) PROVE TypeOK'
  BY <1>0, <1>4, AuthAssumption DEF TypeOK, DeletePending, RemoveLink
<1>5. ASSUME NEW r \in Requests, StoreConfirmed(r) PROVE TypeOK'
  BY <1>0, <1>5, AuthAssumption DEF TypeOK, StoreConfirmed, StoreRow
<1>6. ASSUME NEW r \in Requests, DeleteLoginCode(r) PROVE TypeOK'
  BY <1>0, <1>6, AuthAssumption DEF TypeOK, DeleteLoginCode
<1>7. ASSUME NEW r \in Requests, DeleteRefreshToken(r) PROVE TypeOK'
  BY <1>0, <1>7, AuthAssumption DEF TypeOK, DeleteRefreshToken, RowsToDelete
<1>8. ASSUME NEW r \in Requests, Rename(r) PROVE TypeOK'
  BY <1>0, <1>8, AuthAssumption DEF TypeOK, Rename
<1>9. ASSUME NEW r \in Requests, Abort(r) PROVE TypeOK'
  BY <1>0, <1>9, AuthAssumption DEF TypeOK, Abort
<1>10. ASSUME NEW r \in Requests, CreatePending(r) PROVE TypeOK'
  BY <1>0, <1>10, AuthAssumption DEF AInv, Session, RegisterOps, TypeOK, CreatePending,
      ExpiresAt
<1>11. ASSUME NEW r \in Requests, CreateUser(r) PROVE TypeOK'
  <2>1. op[r].who \in Accounts
    BY <1>11 DEF CreateUser, AInv, Session, ConfirmOps
  <2>2. CASE Taken(op[r].who)
    BY <1>0, <1>11, <2>2 DEF TypeOK, CreateUser
  <2>3. CASE ~Taken(op[r].who)
    <3>1. PICK u \in UserIds : users' = [users EXCEPT ![u] = op[r].who] /\ Remember(r, u, TRUE)
      BY <1>11, <2>3 DEF CreateUser
    <3> QED BY <1>0, <1>11, <2>1, <3>1, <2>3 DEF TypeOK, CreateUser
  <2> QED BY <2>2, <2>3
<1>12. ASSUME NEW r \in Requests, GetLoginCode(r) PROVE TypeOK'
  <2>1. PICK ok \in Verdicts(Accepts(codes[user[r]], op[r].code)) : Remember(r, user[r], ok)
    BY <1>12 DEF GetLoginCode
  <2>2. ok \in BOOLEAN
    BY DEF Verdicts, Accepts
  <2> QED BY <1>0, <1>12, <2>1, <2>2 DEF TypeOK, GetLoginCode
<1>13. ASSUME NEW r \in Requests, IssueTokens(r) PROVE TypeOK'
  <2> DEFINE new == [user |-> user[r], sec |-> now]
  <2>1. CASE new \in refresh \/ user[r] \notin LiveUsers
    BY <1>0, <1>13, <2>1 DEF TypeOK, IssueTokens
  <2>2. CASE new \notin refresh /\ user[r] \in LiveUsers
    <3>1. new \in Pair
      BY <1>0, <2>2, AuthAssumption DEF TypeOK, LiveUsers, Pair
    <3> HIDE DEF new
    <3>2. refresh' = refresh \cup {new} /\ pair' = [pair EXCEPT ![r] = new]
      BY <1>13, <2>2 DEF IssueTokens, new
    <3> QED BY <1>0, <1>13, <3>1, <3>2 DEF TypeOK, IssueTokens
  <2> QED BY <2>1, <2>2
<1>14. ASSUME NEW r \in Requests, RegisterLookup(r) PROVE TypeOK'
  <2>1. OpType'
    <3>1. \E a \in Accounts : Asks(r, [kind |-> "register", who |-> a])
      BY <1>14 DEF RegisterLookup, Authenticated
    <3> QED BY <1>0, <3>1, OpTyped DEF Operation
  <2>2. CASE UNCHANGED session
    BY <1>0, <1>14, <2>1, <2>2 DEF TypeOK, RegisterLookup
  <2>3. CASE \E u \in LiveUsers : Remember(r, u, TRUE)
    <3>1. PICK u \in UserIds : Remember(r, u, TRUE)
      BY <2>3 DEF LiveUsers
    <3> QED BY <1>0, <1>14, <2>1, <3>1 DEF TypeOK, RegisterLookup
  <2> QED BY <1>14, <2>2, <2>3 DEF RegisterLookup
<1>15. ASSUME NEW r \in Requests, GetPending(r) PROVE TypeOK'
  <2>1. OpType'
    <3>1. \E l \in Links, a \in Accounts : Asks(r, [kind |-> "confirm", link |-> l, who |-> a])
      BY <1>15 DEF GetPending, Authenticated
    <3> QED BY <1>0, <3>1, OpTyped DEF Operation
  <2> QED BY <1>0, <1>15, <2>1 DEF TypeOK, GetPending
<1>16. ASSUME NEW r \in Requests, ClaimConfirmed(r) PROVE TypeOK'
  <2>1. OpType'
    <3>1. \E l \in Links : Asks(r, [kind |-> "poll", link |-> l])
      BY <1>16 DEF ClaimConfirmed, Authenticated
    <3> QED BY <1>0, <3>1, OpTyped DEF Operation
  <2> QED BY <1>0, <1>16, <2>1 DEF TypeOK, ClaimConfirmed, RemoveClaimed
<1>17. ASSUME NEW r \in Requests, VerifyLookup(r) PROVE TypeOK'
  <2>1. OpType'
    <3>1. \E a \in Accounts, k \in Codes : Asks(r, [kind |-> "verify", who |-> a, code |-> k])
      BY <1>17 DEF VerifyLookup, Authenticated
    <3> QED BY <1>0, <3>1, OpTyped DEF Operation
  <2>2. CASE UNCHANGED session
    BY <1>0, <1>17, <2>1, <2>2 DEF TypeOK, VerifyLookup
  <2>3. CASE \E u \in LiveUsers : Remember(r, u, FALSE)
    <3>1. PICK u \in UserIds : Remember(r, u, FALSE)
      BY <2>3 DEF LiveUsers
    <3> QED BY <1>0, <1>17, <2>1, <3>1 DEF TypeOK, VerifyLookup
  <2> QED BY <1>17, <2>2, <2>3 DEF VerifyLookup
<1>18. ASSUME NEW r \in Requests, GetRefreshToken(r) PROVE TypeOK'
  <2>1. OpType'
    <3>1. \E t \in Handed : Asks(r, [kind |-> "refresh", token |-> t])
      BY <1>18 DEF GetRefreshToken, Authenticated
    <3> QED BY <1>0, <3>1, OpTyped, HandedMinted DEF Operation
  <2>2. CASE UNCHANGED session
    BY <1>0, <1>18, <2>1, <2>2 DEF TypeOK, GetRefreshToken
  <2>3. CASE \E t \in Handed : \E ok \in Verdicts(t \in refresh) : Remember(r, t.user, ok)
    <3>0. PICK t \in Handed : \E ok \in Verdicts(t \in refresh) : Remember(r, t.user, ok)
      BY <2>3
    <3>1. PICK ok \in Verdicts(t \in refresh) : Remember(r, t.user, ok)
      BY <3>0
    <3>2. t.user \in UserIds
      BY HandedMinted DEF Pair
    <3>3. ok \in BOOLEAN
      <4>1. (t \in refresh) \in BOOLEAN
        OBVIOUS
      <4> QED BY <4>1, Zenon DEF Verdicts
    <3> QED BY <1>0, <1>18, <2>1, <3>1, <3>2, <3>3 DEF TypeOK, GetRefreshToken
  <2> QED BY <1>18, <2>2, <2>3 DEF GetRefreshToken
<1>19. ASSUME NEW r \in Requests, Unauthorized(r) PROVE TypeOK'
  <2>1. OpType'
    <3>1. \E u \in UserIds, t \in Handed, kind \in {"rename", "delete"} :
            Asks(r, [kind |-> kind, user |-> u, token |-> t])
      BY <1>19 DEF Unauthorized, Authenticated
    <3> QED BY <1>0, <3>1, OpTyped, HandedMinted DEF Operation
  <2> QED BY <1>0, <1>19, <2>1, HandedMinted DEF TypeOK, Unauthorized
<1>20. ASSUME NEW r \in Requests, RenameLookup(r) PROVE TypeOK'
  <2>1. OpType'
    <3>1. \E u \in UserIds, t \in Handed : Asks(r, [kind |-> "rename", user |-> u, token |-> t])
      BY <1>20 DEF RenameLookup, Authenticated
    <3> QED BY <1>0, <3>1, OpTyped, HandedMinted DEF Operation
  <2> QED BY <1>0, <1>20, <2>1, HandedMinted DEF TypeOK, RenameLookup, Authenticated
<1>21. ASSUME NEW r \in Requests, DeleteUser(r) PROVE TypeOK'
  <2>1. OpType'
    <3>1. \E u \in UserIds, t \in Handed : Asks(r, [kind |-> "delete", user |-> u, token |-> t])
      BY <1>21 DEF DeleteUser, Authenticated
    <3> QED BY <1>0, <3>1, OpTyped, HandedMinted DEF Operation
  <2> QED BY <1>0, <1>21, <2>1, HandedMinted DEF TypeOK, DeleteUser, Authenticated, Cascade
<1>22. CASE Tick
  BY <1>0, <1>22, AuthAssumption DEF TypeOK, Tick
<1>23. CASE UNCHANGED vars
  BY <1>0, <1>23 DEF TypeOK, vars
<1> QED
  BY <1>1, <1>2, <1>3, <1>4, <1>5, <1>6, <1>7, <1>8, <1>9, <1>10, <1>11, <1>12, <1>13, <1>14,
      <1>15, <1>16, <1>17, <1>18, <1>19, <1>20, <1>21, <1>22, <1>23
  DEF Next, Serve, Confirm, Register, Verify, Refresh, OnUsers, Quiescent

-----------------------------------------------------------------------------
(* What a step leaves alone.                                                *)

\* The steps that change neither the tables with foreign keys nor a pair.
Quiet(r) ==
    \/ RegisterLookup(r) \/ SendMessage(r) \/ CreatePending(r) \/ GetPending(r)
    \/ DropExpired(r) \/ DeletePending(r) \/ VerifyLookup(r) \/ GetLoginCode(r)
    \/ GetRefreshToken(r) \/ Unauthorized(r) \/ RenameLookup(r) \/ Rename(r) \/ Abort(r)

\* Quiet steps touch neither users, sessions and codes nor any pair.
LEMMA QuietSteps ==
  ASSUME NEW r \in Requests, Quiet(r)
  PROVE  UNCHANGED <<now, users, left, confirmed, codes, refresh, pair>>
<1> USE DEF Remember, tables, session
<1>1. RegisterLookup(r) => UNCHANGED <<now, users, left, confirmed, codes, refresh, pair>>
  BY DEF RegisterLookup
<1>2. SendMessage(r) => UNCHANGED <<now, users, left, confirmed, codes, refresh, pair>>
  BY DEF SendMessage
<1>3. CreatePending(r) => UNCHANGED <<now, users, left, confirmed, codes, refresh, pair>>
  BY DEF CreatePending
<1>4. GetPending(r) => UNCHANGED <<now, users, left, confirmed, codes, refresh, pair>>
  BY DEF GetPending
<1>5. DropExpired(r) => UNCHANGED <<now, users, left, confirmed, codes, refresh, pair>>
  BY DEF DropExpired
<1>6. DeletePending(r) => UNCHANGED <<now, users, left, confirmed, codes, refresh, pair>>
  BY DEF DeletePending
<1>7. VerifyLookup(r) => UNCHANGED <<now, users, left, confirmed, codes, refresh, pair>>
  BY DEF VerifyLookup
<1>8. GetLoginCode(r) => UNCHANGED <<now, users, left, confirmed, codes, refresh, pair>>
  BY DEF GetLoginCode
<1>9. GetRefreshToken(r) => UNCHANGED <<now, users, left, confirmed, codes, refresh, pair>>
  BY DEF GetRefreshToken
<1>10. Unauthorized(r) => UNCHANGED <<now, users, left, confirmed, codes, refresh, pair>>
  BY DEF Unauthorized
<1>11. RenameLookup(r) => UNCHANGED <<now, users, left, confirmed, codes, refresh, pair>>
  BY DEF RenameLookup
<1>12. Rename(r) => UNCHANGED <<now, users, left, confirmed, codes, refresh, pair>>
  BY DEF Rename
<1>13. Abort(r) => UNCHANGED <<now, users, left, confirmed, codes, refresh, pair>>
  BY DEF Abort
<1> QED BY <1>1, <1>2, <1>3, <1>4, <1>5, <1>6, <1>7, <1>8, <1>9, <1>10, <1>11, <1>12,
    <1>13 DEF Quiet

\* A request's step leaves the others alone.
LEMMA OthersKeep ==
  ASSUME AInv, NEW r \in Requests, Serve(r) \/ Confirm(r), NEW q \in Requests, q # r
  PROVE  pc'[q] = pc[q] /\ op'[q] = op[q] /\ pair'[q] = pair[q] /\ resp'[q] = resp[q]
<1> DEFINE Kept == pc'[q] = pc[q] /\ op'[q] = op[q] /\ pair'[q] = pair[q] /\ resp'[q] = resp[q]
<1>0. /\ pc \in [Requests -> Labels] /\ op \in [Requests -> Operation \cup {None}]
      /\ pair \in [Requests -> Pair \cup {None}] /\ resp \in [Requests -> Outcomes]
  BY DEF AInv, TypeOK
<1> USE DEF Asks, At, GoTo, Answer, AnswerWritten, Remember, session, Authenticated
<1>1. RegisterLookup(r) => Kept
  BY <1>0 DEF RegisterLookup
<1>2. SendMessage(r) => Kept
  BY <1>0 DEF SendMessage
<1>3. CreatePending(r) => Kept
  BY <1>0 DEF CreatePending
<1>4. GetPending(r) => Kept
  BY <1>0 DEF GetPending
<1>5. DropExpired(r) => Kept
  BY <1>0 DEF DropExpired
<1>6. DeletePending(r) => Kept
  BY <1>0 DEF DeletePending
<1>7. VerifyLookup(r) => Kept
  BY <1>0 DEF VerifyLookup
<1>8. GetLoginCode(r) => Kept
  BY <1>0 DEF GetLoginCode
<1>9. GetRefreshToken(r) => Kept
  BY <1>0 DEF GetRefreshToken
<1>10. Unauthorized(r) => Kept
  BY <1>0 DEF Unauthorized
<1>11. RenameLookup(r) => Kept
  BY <1>0 DEF RenameLookup
<1>12. Rename(r) => Kept
  BY <1>0 DEF Rename
<1>13. Abort(r) => Kept
  BY <1>0 DEF Abort
<1>14. UpsertLoginCode(r) => Kept
  BY <1>0 DEF UpsertLoginCode
<1>15. CreateUser(r) => Kept
  BY <1>0 DEF CreateUser
<1>16. StoreConfirmed(r) => Kept
  BY <1>0 DEF StoreConfirmed, StoreRow
<1>17. ClaimConfirmed(r) => Kept
  BY <1>0 DEF ClaimConfirmed
<1>18. DeleteLoginCode(r) => Kept
  BY <1>0 DEF DeleteLoginCode
<1>19. DeleteRefreshToken(r) => Kept
  BY <1>0 DEF DeleteRefreshToken
<1>20. IssueTokens(r) => Kept
  BY <1>0 DEF IssueTokens
<1>21. DeleteUser(r) => Kept
  BY <1>0 DEF DeleteUser
<1> QED
  BY <1>1, <1>2, <1>3, <1>4, <1>5, <1>6, <1>7, <1>8, <1>9, <1>10, <1>11, <1>12, <1>13, <1>14,
      <1>15, <1>16, <1>17, <1>18, <1>19, <1>20, <1>21
  DEF Serve, Confirm, Register, Verify, Refresh, OnUsers

\* The pair a request mints.
LEMMA NewPair ==
  ASSUME AInv, NEW r \in Requests, IssueTokens(r), refresh' # refresh
  PROVE  /\ pair'[r] = [user |-> user[r], sec |-> now]
         /\ pair'[r] \in Pair
         /\ user[r] \in LiveUsers
         /\ UNCHANGED <<now, users, left, confirmed>>
         /\ pair'[r] \in refresh'
<1>1. /\ user[r] \in LiveUsers /\ pair' = [pair EXCEPT ![r] = [user |-> user[r], sec |-> now]]
      /\ [user |-> user[r], sec |-> now] \in refresh'
  BY DEF IssueTokens
<1>2. [user |-> user[r], sec |-> now] \in Pair
  BY <1>1, AuthAssumption DEF AInv, TypeOK, LiveUsers, Pair
<1> QED BY <1>1, <1>2 DEF AInv, TypeOK, IssueTokens

\* Labels and outcomes go on saying what they say.
LEMMA SessionStep ==
  ASSUME AInv, [Next]_vars, NEW q \in Requests
  PROVE  Session(q)'
<1> USE DEF Asks, At, GoTo, Answer, AnswerWritten, Authenticated
<1>0. /\ pc \in [Requests -> Labels] /\ op \in [Requests -> Operation \cup {None}]
      /\ pair \in [Requests -> Pair \cup {None}] /\ resp \in [Requests -> Outcomes]
      /\ confirmed \in [Links -> Pair \cup {None}]
  BY DEF AInv, TypeOK
<1>S. Session(q)
  BY DEF AInv
<1>1. CASE UNCHANGED <<pc, op, pair, resp>>
  BY <1>S, <1>1 DEF Session, Is
<1>2. ASSUME NEW r \in Requests, Serve(r) \/ Confirm(r), q # r PROVE Session(q)'
  BY <1>S, <1>2, OthersKeep DEF Session, Is
<1>3. ASSUME RegisterLookup(q) PROVE Session(q)'
  <2>1. UNCHANGED pair
    BY <1>3, QuietSteps DEF Quiet
  <2>2. \E a \in Accounts : Asks(q, [kind |-> "register", who |-> a])
    BY <1>3 DEF RegisterLookup
  <2>3. pc'[q] \in {"pending", "upsert"} /\ resp'[q] = resp[q]
    BY <1>0, <1>3 DEF RegisterLookup
  <2> QED BY <1>0, <1>S, <2>1, <2>2, <2>3 DEF Session, Is, RegisterOps
<1>4. ASSUME SendMessage(q) PROVE Session(q)'
  <2>1. UNCHANGED pair
    BY <1>4, QuietSteps DEF Quiet
  <2> QED BY <1>0, <1>S, <1>4, <2>1 DEF SendMessage, Session, Is
<1>5. ASSUME CreatePending(q) PROVE Session(q)'
  <2>1. UNCHANGED pair
    BY <1>5, QuietSteps DEF Quiet
  <2> QED BY <1>0, <1>S, <1>5, <2>1 DEF CreatePending, Session, Is
<1>6. ASSUME GetPending(q) PROVE Session(q)'
  <2>1. UNCHANGED pair
    BY <1>6, QuietSteps DEF Quiet
  <2> QED BY <1>0, <1>S, <1>6, <2>1 DEF GetPending, Session, Is, ConfirmOps
<1>7. ASSUME DropExpired(q) PROVE Session(q)'
  <2>1. UNCHANGED pair
    BY <1>7, QuietSteps DEF Quiet
  <2> QED BY <1>0, <1>S, <1>7, <2>1 DEF DropExpired, Session, Is
<1>8. ASSUME DeletePending(q) PROVE Session(q)'
  <2>1. UNCHANGED pair
    BY <1>8, QuietSteps DEF Quiet
  <2> QED BY <1>0, <1>S, <1>8, <2>1 DEF DeletePending, Session, Is
<1>9. ASSUME VerifyLookup(q) PROVE Session(q)'
  <2>1. UNCHANGED pair
    BY <1>9, QuietSteps DEF Quiet
  <2>2. \E a \in Accounts, k \in Codes : Asks(q, [kind |-> "verify", who |-> a, code |-> k])
    BY <1>9 DEF VerifyLookup
  <2>3. /\ pc'[q] \in {"code", "done"} /\ resp'[q] \in {resp[q], "refused"}
        /\ resp'[q] = resp[q] \/ pc'[q] = "done"
    BY <1>0, <1>9 DEF VerifyLookup
  <2> QED BY <1>0, <1>S, <2>1, <2>2, <2>3 DEF Session, Is
<1>10. ASSUME GetLoginCode(q) PROVE Session(q)'
  <2>1. UNCHANGED pair
    BY <1>10, QuietSteps DEF Quiet
  <2> QED BY <1>0, <1>S, <1>10, <2>1 DEF GetLoginCode, Session, Is
<1>11. ASSUME GetRefreshToken(q) PROVE Session(q)'
  <2>1. UNCHANGED pair
    BY <1>11, QuietSteps DEF Quiet
  <2>2. PICK t \in Handed : Asks(q, [kind |-> "refresh", token |-> t])
    BY <1>11 DEF GetRefreshToken
  <2>3. [kind |-> "refresh", token |-> t] \in Operation
    BY HandedMinted DEF Operation
  <2>4. op'[q] # None /\ op'[q].kind = "refresh"
    BY <1>0, <2>2, <2>3, AuthAssumption
  <2>5. /\ pc'[q] \in {"rotate", "done"} /\ resp'[q] \in {resp[q], "refused"}
        /\ resp'[q] = resp[q] \/ pc'[q] = "done"
    BY <1>0, <1>11 DEF GetRefreshToken
  <2> QED BY <1>0, <1>S, <2>1, <2>2, <2>4, <2>5 DEF Session, Is
<1>12. ASSUME Unauthorized(q) PROVE Session(q)'
  <2>1. UNCHANGED pair
    BY <1>12, QuietSteps DEF Quiet
  <2> QED BY <1>0, <1>S, <1>12, <2>1 DEF Unauthorized, Session, Is
<1>13. ASSUME RenameLookup(q) PROVE Session(q)'
  <2>1. UNCHANGED pair
    BY <1>13, QuietSteps DEF Quiet
  <2> QED BY <1>0, <1>S, <1>13, <2>1 DEF RenameLookup, Session, Is
<1>14. ASSUME Rename(q) PROVE Session(q)'
  <2>1. UNCHANGED pair
    BY <1>14, QuietSteps DEF Quiet
  <2> QED BY <1>0, <1>S, <1>14, <2>1 DEF Rename, Session, Is
<1>15. ASSUME Abort(q) PROVE Session(q)'
  <2>1. UNCHANGED pair
    BY <1>15, QuietSteps DEF Quiet
  <2> QED BY <1>0, <1>S, <1>15, <2>1 DEF Abort, Session, Is
<1>16. ASSUME UpsertLoginCode(q) PROVE Session(q)'
  BY <1>0, <1>S, <1>16 DEF UpsertLoginCode, Session, Is, Remember, session
<1>17. ASSUME CreateUser(q) PROVE Session(q)'
  BY <1>0, <1>S, <1>17 DEF CreateUser, Session, Is, Remember, session
<1>18. ASSUME StoreConfirmed(q) PROVE Session(q)'
  BY <1>0, <1>S, <1>18 DEF StoreConfirmed, Session, Is, Remember, session, StoreRow
<1>19. ASSUME ClaimConfirmed(q) PROVE Session(q)'
  BY <1>0, <1>S, <1>19 DEF ClaimConfirmed, Session, Is, Remember, session
<1>20. ASSUME DeleteLoginCode(q) PROVE Session(q)'
  BY <1>0, <1>S, <1>20 DEF DeleteLoginCode, Session, Is, Remember, session
<1>21. ASSUME DeleteRefreshToken(q) PROVE Session(q)'
  BY <1>0, <1>S, <1>21 DEF DeleteRefreshToken, Session, Is, Remember, session
<1>22. ASSUME IssueTokens(q) PROVE Session(q)'
  <2>1. CASE refresh' # refresh
    BY <1>0, <1>S, <1>22, <2>1, NewPair DEF IssueTokens, Session, Is
  <2>2. CASE refresh' = refresh
    <3>1. UNCHANGED pair /\ Answer(q, "failed")
      BY <1>22, <2>2 DEF IssueTokens
    <3> QED BY <1>0, <1>S, <1>22, <3>1 DEF IssueTokens, Session, Is
  <2> QED BY <2>1, <2>2
<1>23. ASSUME DeleteUser(q) PROVE Session(q)'
  BY <1>0, <1>S, <1>23 DEF DeleteUser, Session, Is, Remember, session
<1> QED
  BY <1>1, <1>2, <1>3, <1>4, <1>5, <1>6, <1>7, <1>8, <1>9, <1>10, <1>11, <1>12, <1>13, <1>14,
      <1>15, <1>16, <1>17, <1>18, <1>19, <1>20, <1>21, <1>22, <1>23
  DEF Next, Serve, Confirm, Register, Verify, Refresh, OnUsers, Quiescent, Tick, vars, session

-----------------------------------------------------------------------------
(* What a step does to users, sessions and pairs.                           *)

\* A step that a client's request takes is quiet, or one of the rest.
LEMMA Steps ==
  ASSUME [Next]_vars
  PROVE  \/ /\ UNCHANGED <<users, left, confirmed, codes, refresh, pair, op, pc, resp>>
            /\ now' \in {now, now + 1}
         \/ \E r \in Requests :
              /\ Serve(r) \/ Confirm(r)
              /\ \/ Quiet(r)
                 \/ UpsertLoginCode(r) \/ CreateUser(r) \/ StoreConfirmed(r) \/ ClaimConfirmed(r)
                 \/ DeleteLoginCode(r) \/ DeleteRefreshToken(r) \/ IssueTokens(r) \/ DeleteUser(r)
<1>1. ASSUME NEW r \in Requests, Serve(r) \/ Confirm(r)
      PROVE  \/ Quiet(r)
             \/ UpsertLoginCode(r) \/ CreateUser(r) \/ StoreConfirmed(r) \/ ClaimConfirmed(r)
             \/ DeleteLoginCode(r) \/ DeleteRefreshToken(r) \/ IssueTokens(r) \/ DeleteUser(r)
  BY <1>1 DEF Serve, Confirm, Register, Verify, Refresh, OnUsers, Quiet
<1>2. CASE Tick \/ UNCHANGED vars
  BY <1>2 DEF Tick, vars, tables, session
<1> QED BY <1>1, <1>2 DEF Next, Quiescent

\* Users come and go in two ways only.
LEMMA UsersStep ==
  ASSUME [Next]_vars
  PROVE  \/ UNCHANGED <<users, left>>
         \/ \E r \in Requests : CreateUser(r) \/ DeleteUser(r)
<1> USE DEF Remember, session
<1>1. ASSUME NEW r \in Requests, Quiet(r) PROVE UNCHANGED <<users, left>>
  BY <1>1, QuietSteps
<1>2. ASSUME NEW r \in Requests, UpsertLoginCode(r) \/ StoreConfirmed(r) \/ ClaimConfirmed(r)
             \/ DeleteLoginCode(r) \/ DeleteRefreshToken(r) \/ IssueTokens(r)
      PROVE  UNCHANGED <<users, left>>
  BY <1>2 DEF UpsertLoginCode, StoreConfirmed, ClaimConfirmed, DeleteLoginCode,
              DeleteRefreshToken, IssueTokens
<1> QED BY Steps, <1>1, <1>2

\* CreateUser, as far as users are concerned.
LEMMA Creates ==
  ASSUME AInv, NEW r \in Requests, CreateUser(r)
  PROVE  /\ UNCHANGED <<now, left, codes, refresh, confirmed, pair>>
         /\ \/ UNCHANGED users
            \/ /\ ~Taken(op[r].who)
               /\ op[r].who \in Accounts
               /\ \E u \in UserIds : /\ users[u] = Unborn
                                    /\ users' = [users EXCEPT ![u] = op[r].who]
<1>1. op[r].who \in Accounts
  BY DEF CreateUser, At, AInv, Session, ConfirmOps
<1> QED BY <1>1 DEF CreateUser, Remember, session

\* DeleteUser, as far as users are concerned.
LEMMA Deletes ==
  ASSUME NEW r \in Requests, DeleteUser(r)
  PROVE  /\ UNCHANGED <<now, confirmed, pair>>
         /\ \/ UNCHANGED <<users, left, codes, refresh>>
            \/ \E u \in LiveUsers :
                 /\ users' = [users EXCEPT ![u] = Removed]
                 /\ left'  = [left EXCEPT ![u] = now]
                 /\ codes' = [codes EXCEPT ![u] = None]
                 /\ refresh' = {x \in refresh : x.user # u}
BY DEF DeleteUser, Cascade, session

\* No step gives an account a second user.
LEMMA UniqueStep ==
  ASSUME AInv, [Next]_vars
  PROVE  OneUserPerAccount'
<1>0. /\ users \in [UserIds -> Accounts \cup {Unborn, Removed}] /\ OneUserPerAccount
      /\ Removed \notin Accounts
  BY AuthAssumption DEF AInv, TypeOK
<1>1. CASE UNCHANGED users
  BY <1>0, <1>1 DEF OneUserPerAccount, LiveUsers
<1>2. ASSUME NEW r \in Requests, CreateUser(r) PROVE OneUserPerAccount'
  BY <1>0, <1>1, <1>2, Creates DEF OneUserPerAccount, LiveUsers, Taken, HasUser
<1>3. ASSUME NEW r \in Requests, DeleteUser(r) PROVE OneUserPerAccount'
  BY <1>0, <1>1, <1>3, Deletes DEF OneUserPerAccount, LiveUsers
<1> QED BY <1>1, <1>2, <1>3, UsersStep

\* No step leaves a code or a session without its user.
LEMMA OrphanStep ==
  ASSUME AInv, [Next]_vars
  PROVE  NoOrphanSessions'
<1>0. /\ users \in [UserIds -> Accounts \cup {Unborn, Removed}]
      /\ codes \in [UserIds -> [code: Codes, until: Nat] \cup {None}]
      /\ refresh \subseteq Pair
      /\ Removed \notin Accounts /\ Unborn \notin Accounts
      /\ NoOrphanSessions
  BY AuthAssumption DEF AInv, TypeOK
<1>1. CASE UNCHANGED <<users, codes, refresh>>
  BY <1>0, <1>1 DEF NoOrphanSessions, LiveUsers
<1>2. ASSUME NEW r \in Requests, CreateUser(r) PROVE NoOrphanSessions'
  BY <1>0, <1>1, <1>2, Creates DEF NoOrphanSessions, LiveUsers
<1>3. ASSUME NEW r \in Requests, DeleteUser(r) PROVE NoOrphanSessions'
  BY <1>0, <1>1, <1>3, Deletes DEF NoOrphanSessions, LiveUsers, Pair
<1>4. ASSUME NEW r \in Requests, UpsertLoginCode(r) PROVE NoOrphanSessions'
  BY <1>0, <1>4 DEF UpsertLoginCode, NoOrphanSessions, LiveUsers
<1>5. ASSUME NEW r \in Requests, DeleteLoginCode(r) PROVE NoOrphanSessions'
  BY <1>0, <1>5 DEF DeleteLoginCode, NoOrphanSessions, LiveUsers
<1>6. ASSUME NEW r \in Requests, DeleteRefreshToken(r) PROVE NoOrphanSessions'
  BY <1>0, <1>6 DEF DeleteRefreshToken, RowsToDelete, NoOrphanSessions, LiveUsers
<1>7. ASSUME NEW r \in Requests, IssueTokens(r) PROVE NoOrphanSessions'
  BY <1>0, <1>7 DEF IssueTokens, NoOrphanSessions, LiveUsers
<1>8. ASSUME NEW r \in Requests, Quiet(r) \/ StoreConfirmed(r) \/ ClaimConfirmed(r)
      PROVE  NoOrphanSessions'
  <2>1. UNCHANGED <<users, codes, refresh>>
    BY <1>8, QuietSteps DEF StoreConfirmed, ClaimConfirmed
  <2> QED BY <1>1, <2>1
<1> QED BY <1>1, <1>2, <1>3, <1>4, <1>5, <1>6, <1>7, <1>8, Steps

\* What a request asks for does not change.
LEMMA OpKept ==
  ASSUME AInv, [Next]_vars, NEW q \in Requests, op[q] # None
  PROVE  op'[q] = op[q]
<1>1. ASSUME NEW r \in Requests, Serve(r) \/ Confirm(r), r # q PROVE op'[q] = op[q]
  BY <1>1, OthersKeep
<1>2. ASSUME Serve(q) \/ Confirm(q) PROVE op'[q] = op[q]
  <2>1. pc[q] # "begin"
    BY DEF AInv, Session
  <2> QED BY <1>2, <2>1 DEF Serve, Confirm, Register, Verify, Refresh, OnUsers,
      RegisterLookup, SendMessage, CreatePending, GetPending, DropExpired, DeletePending,
      VerifyLookup, GetLoginCode, GetRefreshToken, Unauthorized, RenameLookup, Rename, Abort,
      UpsertLoginCode, CreateUser, StoreConfirmed, ClaimConfirmed, DeleteLoginCode,
      DeleteRefreshToken, IssueTokens, DeleteUser, Asks, At, Authenticated
<1> QED BY <1>1, <1>2, Steps

\* Sessions go on lasting.
LEMMA LastingKept ==
  ASSUME AInv, [Next]_vars, NEW t \in Pair, Minted(t)
  PROVE  Lasting(t)'
<1>0. /\ users \in [UserIds -> Accounts \cup {Unborn, Removed}]
      /\ t.user \in UserIds /\ users[t.user] # Unborn /\ Lasting(t)
      /\ Removed \notin Accounts
  BY AuthAssumption DEF AInv, TypeOK, Pair, Minted
<1>1. CASE \E q \in Requests : Is(q, "refresh") /\ op[q].token = t
  BY <1>1, OpKept DEF Lasting, Is
<1>2. CASE t.user \notin LiveUsers
  <2>1. users[t.user] = Removed
    BY <1>0, <1>2 DEF LiveUsers
  <2>2. users'[t.user] = Removed
    <3>1. ASSUME NEW r \in Requests, CreateUser(r) PROVE users'[t.user] = Removed
      BY <1>0, <2>1, <3>1, Creates, AuthAssumption
    <3>2. ASSUME NEW r \in Requests, DeleteUser(r) PROVE users'[t.user] = Removed
      BY <1>0, <2>1, <3>2, Deletes DEF LiveUsers
    <3> QED BY <2>1, <3>1, <3>2, UsersStep
  <2> QED BY <1>0, <2>2 DEF Lasting, LiveUsers
<1>3. CASE t \in refresh
  <2>1. ASSUME NEW r \in Requests, DeleteRefreshToken(r) PROVE Lasting(t)'
    <3>1. Is(r, "refresh") /\ op' = op
      BY <2>1 DEF DeleteRefreshToken, At, AInv, Session
    <3>2. refresh' = refresh \/ refresh' = refresh \ {op[r].token}
      BY <2>1 DEF DeleteRefreshToken, RowsToDelete
    <3> QED BY <1>3, <3>1, <3>2 DEF Lasting, Is
  <2>2. ASSUME NEW r \in Requests, DeleteUser(r) PROVE Lasting(t)'
    BY <1>0, <1>3, <2>2, Deletes DEF Lasting, LiveUsers
  <2>3. ASSUME NEW r \in Requests, IssueTokens(r) PROVE t \in refresh'
    BY <1>3, <2>3 DEF IssueTokens
  <2>4. ASSUME NEW r \in Requests, Quiet(r) PROVE t \in refresh'
    BY <1>3, <2>4, QuietSteps
  <2>5. ASSUME NEW r \in Requests, \/ UpsertLoginCode(r) \/ CreateUser(r) \/ StoreConfirmed(r)
                                  \/ ClaimConfirmed(r) \/ DeleteLoginCode(r)
        PROVE  t \in refresh'
    BY <1>3, <2>5 DEF UpsertLoginCode, CreateUser, StoreConfirmed, ClaimConfirmed,
        DeleteLoginCode
  <2>6. CASE t \in refresh'
    BY <2>6 DEF Lasting
  <2> QED BY <1>3, <2>1, <2>2, <2>3, <2>4, <2>5, <2>6, Steps
<1> QED BY <1>0, <1>1, <1>2, <1>3 DEF Lasting

\* What has been minted stays so.
LEMMA MintedKept ==
  ASSUME AInv, [Next]_vars, NEW t \in Pair, Minted(t)
  PROVE  Minted(t)'
<1>0. /\ users \in [UserIds -> Accounts \cup {Unborn, Removed}]
      /\ left \in [UserIds -> 0..MaxNow] /\ now \in 0..MaxNow /\ MaxNow \in Nat
      /\ t.user \in UserIds /\ t.sec \in Nat
      /\ Removed \notin Accounts /\ Unborn \notin Accounts /\ Removed # Unborn
  BY AuthAssumption DEF AInv, TypeOK, Pair
<1>1. now' >= now
  <2>1. ASSUME NEW r \in Requests, Serve(r) \/ Confirm(r) PROVE now' = now
    BY <2>1 DEF Serve, Confirm, Register, Verify, Refresh, OnUsers, RegisterLookup,
        SendMessage, CreatePending, GetPending, DropExpired, DeletePending, VerifyLookup,
        GetLoginCode, GetRefreshToken, Unauthorized, RenameLookup, Rename, Abort,
        UpsertLoginCode, CreateUser, StoreConfirmed, ClaimConfirmed, DeleteLoginCode,
        DeleteRefreshToken, IssueTokens, DeleteUser
  <2>2. CASE Tick \/ UNCHANGED vars
    BY <1>0, <2>2 DEF Tick, vars
  <2> QED BY <1>0, <2>1, <2>2 DEF Next, Quiescent
<1>2. now' \in Nat
  BY TypeStep, <1>0 DEF TypeOK
<1>3. CASE UNCHANGED <<users, left>>
  BY <1>0, <1>1, <1>2, <1>3, LastingKept DEF Minted
<1>4. ASSUME NEW r \in Requests, CreateUser(r) PROVE Minted(t)'
  BY <1>0, <1>3, <1>4, Creates, LastingKept DEF Minted
<1>5. ASSUME NEW r \in Requests, DeleteUser(r) PROVE Minted(t)'
  BY <1>0, <1>3, <1>5, Deletes, LastingKept DEF Minted, LiveUsers
<1> QED BY <1>3, <1>4, <1>5, UsersStep

\* Whatever pair is remembered, stored or handed out has been minted.
LEMMA MintedStep ==
  ASSUME AInv, [Next]_vars
  PROVE  TokensMinted'
<1> DEFINE Stays(t) == \/ t \in refresh'
                       \/ users'[t.user] \notin Accounts
                       \/ \E r \in Requests : Is(r, "refresh")' /\ op'[r].token = t
<1> DEFINE Later(t) == /\ t.sec <= now'
                       /\ users'[t.user] # Unborn
                       /\ users'[t.user] = Removed => t.sec <= left'[t.user]
                       /\ Stays(t)
<1>0. /\ pair \in [Requests -> Pair \cup {None}] /\ confirmed \in [Links -> Pair \cup {None}]
      /\ FirstPairs \subseteq Pair /\ TokensMinted
  BY DEF AInv, TypeOK, FirstPairs, Pair
<1>K. ASSUME NEW t \in Pair, Minted(t) PROVE Later(t)
  BY <1>K, MintedKept DEF Minted, Lasting, LiveUsers, Pair
<1>1. ASSUME NEW t \in FirstPairs PROVE Later(t)
  BY <1>0, <1>1, <1>K DEF TokensMinted
<1>P. ASSUME NEW q \in Requests, pair[q] # None PROVE Later(pair[q])
  BY <1>0, <1>P, <1>K DEF TokensMinted
<1>C. ASSUME NEW l \in Links, confirmed[l] # None PROVE Later(confirmed[l])
  BY <1>0, <1>C, <1>K DEF TokensMinted
<1> HIDE DEF Later
<1>2. ASSUME NEW q \in Requests, pair'[q] # None PROVE Later(pair'[q])
  <2>1. CASE pair'[q] = pair[q]
    BY <1>P, <1>2, <2>1
  <2>2. CASE ClaimConfirmed(q)
    <3>1. PICK l \in Links : pair'[q] \in {pair[q], confirmed[l]}
      BY <1>0, <2>2 DEF ClaimConfirmed
    <3> QED BY <1>P, <1>C, <1>2, <3>1
  <2>3. CASE IssueTokens(q)
    <3>1. CASE refresh' # refresh
      <4>1. /\ pair'[q] = [user |-> user[q], sec |-> now] /\ user[q] \in LiveUsers
            /\ UNCHANGED <<now, users, left>> /\ pair'[q] \in refresh'
        BY <2>3, <3>1, NewPair
      <4>2. users[user[q]] \notin {Unborn, Removed} /\ now \in Int
        BY <4>1, AuthAssumption DEF LiveUsers, AInv, TypeOK
      <4> QED BY <4>1, <4>2 DEF Later
    <3>2. CASE refresh' = refresh
      <4>1. pair' = pair
        BY <2>3, <3>2 DEF IssueTokens
      <4> QED BY <2>1, <4>1
    <3> QED BY <3>1, <3>2
  <2>4. ASSUME NEW r \in Requests, Serve(r) \/ Confirm(r), r # q PROVE pair'[q] = pair[q]
    BY <2>4, OthersKeep
  <2>5. ASSUME Quiet(q) PROVE pair' = pair
    BY <2>5, QuietSteps
  <2>6. ASSUME \/ UpsertLoginCode(q) \/ CreateUser(q) \/ StoreConfirmed(q)
               \/ DeleteLoginCode(q) \/ DeleteRefreshToken(q) \/ DeleteUser(q)
        PROVE  pair' = pair
    BY <2>6 DEF UpsertLoginCode, CreateUser, StoreConfirmed, DeleteLoginCode,
                DeleteRefreshToken, DeleteUser, Remember, session
  <2> QED BY <2>1, <2>2, <2>3, <2>4, <2>5, <2>6, Steps
<1>3. ASSUME NEW l \in Links, confirmed'[l] # None PROVE Later(confirmed'[l])
  <2>1. CASE confirmed'[l] = confirmed[l]
    BY <1>C, <1>3, <2>1
  <2>2. ASSUME NEW r \in Requests, StoreConfirmed(r)
        PROVE  confirmed'[l] \in {confirmed[l], pair[r]}
    BY <1>0, <2>2 DEF StoreConfirmed, StoreRow
  <2>3. ASSUME NEW r \in Requests, ClaimConfirmed(r) PROVE confirmed'[l] \in {confirmed[l], None}
    BY <1>0, <2>3 DEF ClaimConfirmed, RemoveClaimed
  <2>4. ASSUME NEW r \in Requests, Quiet(r) PROVE confirmed' = confirmed
    BY <2>4, QuietSteps
  <2>5. ASSUME NEW r \in Requests, \/ UpsertLoginCode(r) \/ CreateUser(r) \/ DeleteLoginCode(r)
                                  \/ DeleteRefreshToken(r) \/ DeleteUser(r) \/ IssueTokens(r)
        PROVE  confirmed' = confirmed
    BY <2>5 DEF UpsertLoginCode, CreateUser, DeleteLoginCode, DeleteRefreshToken, DeleteUser,
                IssueTokens
  <2>6. ASSUME NEW r \in Requests, confirmed'[l] = pair[r] PROVE Later(confirmed'[l])
    BY <1>P, <1>3, <2>6
  <2> QED BY <1>3, <2>1, <2>2, <2>3, <2>4, <2>5, <2>6, Steps
<1> QED BY <1>1, <1>2, <1>3 DEF TokensMinted, Minted, Lasting, LiveUsers, Later, FirstPairs

\* A request that has been answered takes no step, and of the steps of a
\* confirmation only the last makes it succeed.
LEMMA OkMeansStored ==
  ASSUME AInv, NEW r \in Requests, Serve(r) \/ Confirm(r)
  PROVE  /\ pc[r] # "done"
         /\ Is(r, "confirm")' /\ resp'[r] = "ok" => StoreConfirmed(r)
<1> DEFINE Goal == pc[r] # "done" /\ (Is(r, "confirm")' /\ resp'[r] = "ok" => StoreConfirmed(r))
<1>0. /\ op \in [Requests -> Operation \cup {None}] /\ resp \in [Requests -> Outcomes]
      /\ Session(r)
  BY DEF AInv, TypeOK
<1> USE DEF Asks, At, GoTo, Answer, AnswerWritten, Authenticated
<1>1. RegisterLookup(r) => Goal
  BY <1>0 DEF RegisterLookup, Session, Is
<1>2. SendMessage(r) => Goal
  BY <1>0 DEF SendMessage, Session, Is
<1>3. CreatePending(r) => Goal
  BY <1>0 DEF CreatePending, Session, Is
<1>4. GetPending(r) => Goal
  BY <1>0 DEF GetPending, Session, Is
<1>5. DropExpired(r) => Goal
  BY <1>0 DEF DropExpired, Session, Is
<1>6. DeletePending(r) => Goal
  BY <1>0 DEF DeletePending, Session, Is
<1>7. VerifyLookup(r) => Goal
  BY <1>0 DEF VerifyLookup, Session, Is
<1>8. GetLoginCode(r) => Goal
  BY <1>0 DEF GetLoginCode, Session, Is
<1>9. GetRefreshToken(r) => Goal
  BY <1>0 DEF GetRefreshToken, Session, Is
<1>10. Unauthorized(r) => Goal
  BY <1>0 DEF Unauthorized, Session, Is
<1>11. RenameLookup(r) => Goal
  BY <1>0 DEF RenameLookup, Session, Is
<1>12. Rename(r) => Goal
  BY <1>0 DEF Rename, Session, Is
<1>13. Abort(r) => Goal
  BY <1>0 DEF Abort, Session, Is
<1>14. UpsertLoginCode(r) => Goal
  BY <1>0 DEF UpsertLoginCode, Session, Is
<1>15. CreateUser(r) => Goal
  BY <1>0 DEF CreateUser, Session, Is
<1>16. StoreConfirmed(r) => Goal
  BY <1>0 DEF StoreConfirmed, Session, Is
<1>17. ClaimConfirmed(r) => Goal
  BY <1>0 DEF ClaimConfirmed, Session, Is
<1>18. DeleteLoginCode(r) => Goal
  BY <1>0 DEF DeleteLoginCode, Session, Is
<1>19. DeleteRefreshToken(r) => Goal
  BY <1>0 DEF DeleteRefreshToken, Session, Is
<1>20. IssueTokens(r) => Goal
  BY <1>0 DEF IssueTokens, Session, Is
<1>21. DeleteUser(r) => Goal
  BY <1>0 DEF DeleteUser, Session, Is
<1> QED
  BY <1>1, <1>2, <1>3, <1>4, <1>5, <1>6, <1>7, <1>8, <1>9, <1>10, <1>11, <1>12, <1>13, <1>14,
      <1>15, <1>16, <1>17, <1>18, <1>19, <1>20, <1>21
  DEF Serve, Confirm, Register, Verify, Refresh, OnUsers

\* No step takes away a pair that has been announced.
LEMMA ClaimableStep ==
  ASSUME AInv, [Next]_vars
  PROVE  VerifiedIsClaimable'
<1>0. /\ op \in [Requests -> Operation \cup {None}]
      /\ pair \in [Requests -> Pair \cup {None}]
      /\ confirmed \in [Links -> Pair \cup {None}] /\ None \notin Pair
  BY AuthAssumption DEF AInv, TypeOK
<1> SUFFICES ASSUME NEW q \in Requests, Is(q, "confirm")', resp'[q] = "ok"
             PROVE  \/ confirmed'[op'[q].link] = pair'[q]
                    \/ \E p \in Requests : Is(p, "poll")' /\ pair'[p] = pair'[q]
  BY DEF VerifiedIsClaimable
<1>1. CASE UNCHANGED <<confirmed, op, pair, resp>>
  BY <1>1 DEF AInv, VerifiedIsClaimable, Is
<1>2. CASE Serve(q) \/ Confirm(q)
  <2>1. StoreConfirmed(q)
    BY <1>2, OkMeansStored
  <2>2. op[q] \in Operation /\ op[q].kind = "confirm" /\ UNCHANGED <<op, pair>>
    BY <1>0, <2>1 DEF StoreConfirmed, At, Is, session
  <2>3. op[q].link \in Links
    BY <2>2 DEF Operation
  <2>4. confirmed' = [confirmed EXCEPT ![op[q].link] = pair[q]]
    BY <1>0, <2>1 DEF StoreConfirmed, StoreRow, Answer, AInv, TypeOK
  <2> QED BY <1>0, <2>2, <2>3, <2>4
<1>3. ASSUME NEW r \in Requests, Serve(r) \/ Confirm(r), r # q
      PROVE  \/ confirmed'[op'[q].link] = pair'[q]
             \/ \E p \in Requests : Is(p, "poll")' /\ pair'[p] = pair'[q]
  <2> DEFINE l == op[q].link
  <2>1. op'[q] = op[q] /\ pair'[q] = pair[q] /\ resp'[q] = resp[q]
    BY <1>3, OthersKeep
  <2>2. Is(q, "confirm") /\ resp[q] = "ok" /\ pair[q] \in Pair
    BY <2>1 DEF AInv, Session, Is
  <2>3. CASE \E p \in Requests : Is(p, "poll") /\ pair[p] = pair[q]
    <3>1. PICK p \in Requests : Is(p, "poll") /\ pair[p] = pair[q]
      BY <2>3
    <3>2. p # r
      BY <1>3, <3>1, OkMeansStored DEF AInv, Session
    <3>3. Is(p, "poll")' /\ pair'[p] = pair[p]
      BY <1>3, <3>1, <3>2, OthersKeep DEF Is
    <3> QED BY <2>1, <3>1, <3>3
  <2>4. CASE confirmed[l] = pair[q]
    <3>0. confirmed[l] # None /\ l \in Links
      <4>1. op[q] \in Operation /\ op[q].kind = "confirm"
        BY <1>0, <2>2 DEF Is
      <4> QED BY <1>0, <2>2, <2>4, <4>1 DEF Operation
    <3>1. CASE confirmed'[l] = confirmed[l]
      BY <2>1, <2>4, <3>1
    <3>2. CASE StoreConfirmed(r)
      BY <1>0, <3>0, <3>1, <3>2 DEF StoreConfirmed, StoreRow
    <3>3. CASE ClaimConfirmed(r)
      <4>1. PICK m \in Links :
              /\ op' = [op EXCEPT ![r] = [kind |-> "poll", link |-> m]]
              /\ \/ UNCHANGED confirmed
                 \/ /\ confirmed' = [confirmed EXCEPT ![m] = None]
                    /\ pair' = [pair EXCEPT ![r] = confirmed[m]]
        BY <3>3 DEF ClaimConfirmed, RemoveClaimed, Asks
      <4>2. CASE /\ confirmed' = [confirmed EXCEPT ![m] = None]
                 /\ pair' = [pair EXCEPT ![r] = confirmed[m]] /\ m = l
        <5>1. op'[r] = [kind |-> "poll", link |-> m] /\ pair'[r] = confirmed[l]
          BY <1>0, <4>1, <4>2
        <5>2. op'[r] \in Operation
          BY <5>1 DEF Operation
        <5>3. Is(r, "poll")'
          BY <5>1, <5>2, AuthAssumption DEF Is
        <5> QED BY <2>1, <2>4, <5>1, <5>3
      <4> QED BY <1>0, <3>0, <3>1, <4>1, <4>2
    <3>4. CASE Quiet(r)
      BY <3>1, <3>4, QuietSteps
    <3>5. CASE \/ UpsertLoginCode(r) \/ CreateUser(r) \/ DeleteLoginCode(r)
               \/ DeleteRefreshToken(r) \/ DeleteUser(r) \/ IssueTokens(r)
      <4>1. confirmed' = confirmed
        BY <3>5 DEF UpsertLoginCode, CreateUser, DeleteLoginCode, DeleteRefreshToken,
            DeleteUser,
                    IssueTokens
      <4> QED BY <3>1, <4>1
    <3> QED BY <1>3, <3>1, <3>2, <3>3, <3>4, <3>5
            DEF Serve, Confirm, Register, Verify, Refresh, OnUsers, Quiet
  <2> QED BY <2>2, <2>3, <2>4 DEF AInv, VerifiedIsClaimable
<1> QED BY <1>1, <1>2, <1>3, Steps

-----------------------------------------------------------------------------
(* The theorems.                                                            *)

\* The invariant is inductive.
LEMMA NextAInv == AInv /\ [Next]_vars => AInv'
<1> SUFFICES ASSUME AInv, [Next]_vars PROVE AInv'
  OBVIOUS
<1> QED BY TypeStep, SessionStep, UniqueStep, OrphanStep, MintedStep, ClaimableStep DEF AInv

\* The inductive invariant of Auth: types, what labels say, unique accounts,
\* sessions with users, tokens older than the deletion of their user, and
\* announced pairs that can be claimed.
THEOREM Invariance == Spec => []AInv
<1> QED BY InitAInv, NextAInv, PTL DEF Spec

\* Every variable keeps its type.
THEOREM AuthTypeOK == Spec => []TypeOK
<1>1. AInv => TypeOK
  BY DEF AInv
<1> QED BY Invariance, <1>1, PTL

\* However links race and updates repeat, a Telegram account has at most one
\* user.
THEOREM AccountsAreUnique == Spec => []OneUserPerAccount
<1>1. AInv => OneUserPerAccount
  BY DEF AInv
<1> QED BY Invariance, <1>1, PTL

\* No login code and no session outlives its user.
THEOREM SessionsHaveUsers == Spec => []NoOrphanSessions
<1>1. AInv => NoOrphanSessions
  BY DEF AInv
<1> QED BY Invariance, <1>1, PTL

\* Whoever has been told "Verified!" finds the pair, or somebody has taken it.
THEOREM AnnouncedPairsAreClaimable == Spec => []VerifiedIsClaimable
<1>1. AInv => VerifiedIsClaimable
  BY DEF AInv
<1> QED BY Invariance, <1>1, PTL

\* A session that a client was given lasts until its token is presented or its
\* user deleted.
THEOREM SessionsAreKept == Spec => []SessionsLast
<1>1. AInv => SessionsLast
  BY HandedMinted DEF SessionsLast, Minted, Lasting
<1> QED BY Invariance, <1>1, PTL

\* The calls on users lock a deleted user out when the last access token has
\* expired.
THEOREM LockedOutInTime == Spec => RemovedAreLockedOut
<1> DEFINE LockOut ==
      \A r \in Requests :
        /\ op'[r] # op[r]
        /\ op'[r].kind \in {"rename", "delete"}
        /\ resp'[r] # "unauthorized"
        /\ users[op'[r].token.user] = Removed
        => now < left[op'[r].token.user] + AccessTTL
<1>1. AInv /\ [Next]_vars => [LockOut]_vars
  <2> SUFFICES ASSUME AInv, Next, NEW q \in Requests,
                      op'[q] # op[q],
                      op'[q].kind \in {"rename", "delete"},
                      resp'[q] # "unauthorized",
                      users[op'[q].token.user] = Removed
               PROVE  now < left[op'[q].token.user] + AccessTTL
    OBVIOUS
  <2>0. op \in [Requests -> Operation \cup {None}] /\ resp \in [Requests -> Outcomes]
    BY DEF AInv, TypeOK
  <2>1. Serve(q) \/ Confirm(q)
    BY OthersKeep DEF Next, Quiescent, Tick, vars
  <2>2. \E t \in Handed : op'[q].token = t /\ AccessValid(t)
    <3> DEFINE Goal == \E t \in Handed : op'[q].token = t /\ AccessValid(t)
    <3> HIDE DEF Goal
    <3> USE DEF Asks, At, Answer, Authenticated
    <3>1. RegisterLookup(q) => Goal
      BY <2>0 DEF RegisterLookup
    <3>2. SendMessage(q) => Goal
      BY <2>0 DEF SendMessage
    <3>3. CreatePending(q) => Goal
      BY <2>0 DEF CreatePending
    <3>4. GetPending(q) => Goal
      BY <2>0 DEF GetPending
    <3>5. DropExpired(q) => Goal
      BY <2>0 DEF DropExpired
    <3>6. DeletePending(q) => Goal
      BY <2>0 DEF DeletePending
    <3>7. VerifyLookup(q) => Goal
      BY <2>0 DEF VerifyLookup
    <3>8. GetLoginCode(q) => Goal
      BY <2>0 DEF GetLoginCode
    <3>9. GetRefreshToken(q) => Goal
      BY <2>0 DEF GetRefreshToken
    <3>10. Unauthorized(q) => Goal
      BY <2>0 DEF Unauthorized
    <3>11. RenameLookup(q) => Goal
      BY <2>0 DEF RenameLookup, Goal
    <3>12. Rename(q) => Goal
      BY <2>0 DEF Rename
    <3>13. Abort(q) => Goal
      BY <2>0 DEF Abort
    <3>14. UpsertLoginCode(q) => Goal
      BY <2>0 DEF UpsertLoginCode
    <3>15. CreateUser(q) => Goal
      BY <2>0 DEF CreateUser
    <3>16. StoreConfirmed(q) => Goal
      BY <2>0 DEF StoreConfirmed
    <3>17. ClaimConfirmed(q) => Goal
      BY <2>0 DEF ClaimConfirmed
    <3>18. DeleteLoginCode(q) => Goal
      BY <2>0 DEF DeleteLoginCode
    <3>19. DeleteRefreshToken(q) => Goal
      BY <2>0 DEF DeleteRefreshToken
    <3>20. IssueTokens(q) => Goal
      BY <2>0 DEF IssueTokens
    <3>21. DeleteUser(q) => Goal
      BY <2>0 DEF DeleteUser, Goal
    <3> QED
      BY <2>1, <3>1, <3>2, <3>3, <3>4, <3>5, <3>6, <3>7, <3>8, <3>9, <3>10, <3>11, <3>12,
          <3>13, <3>14, <3>15, <3>16, <3>17, <3>18, <3>19, <3>20, <3>21
      DEF Goal, Serve, Confirm, Register, Verify, Refresh, OnUsers
  <2>3. PICK t \in Handed : op'[q].token = t /\ now < t.sec + AccessTTL
    BY <2>2 DEF AccessValid
  <2>4. t \in Pair /\ t.sec <= left[t.user]
    BY <2>3, HandedMinted DEF Minted
  <2>5. t.sec \in Nat /\ left[t.user] \in Nat /\ now \in Nat /\ AccessTTL \in Nat
    BY <2>4, AuthAssumption DEF AInv, TypeOK, Pair
  <2> QED BY <2>3, <2>4, <2>5
<1> QED BY Invariance, <1>1, PTL DEF Spec, RemovedAreLockedOut

=============================================================================
