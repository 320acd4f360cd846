---------------------------- MODULE SignInProofs ----------------------------
(* Proofs that nobody signs in without a code that was generated for the    *)
(* account, and that a confirmed pair is handed to one poll only.           *)
EXTENDS AuthProofs

(* Who may sign in: codes go back to registration requests, and every       *)
(* confirmed pair to one confirmation.                                      *)

\* What the label of a request says about what it remembers, and what it has
\* read of a user goes on being true until the user is deleted.
Memory(r) ==
    /\ pc[r] \in {"begin", "create"} => user[r] = None /\ pair[r] = None
    /\ pc[r] # "begin" => op[r] # None
    /\ pc[r] \in {"begin", "upsert"} => code[r] = None
    /\ pc[r] = "upsert" => Is(r, "register")
    /\ pc[r] \in {"code", "burn"} => Is(r, "verify")
    /\ pc[r] \in {"create", "forget", "store"} => Is(r, "confirm")

HasRead(r) ==
    pc[r] \in {"upsert", "code"} =>
        user[r] \in UserIds /\ users[user[r]] \in {op[r].who, Removed}

\* A registration request for account a has generated code k.
Generated(a, k) == \E q \in Requests : Is(q, "register") /\ op[q].who = a /\ code[q] = k

CodesKnown ==
    /\ \A u \in UserIds : codes[u] # None => Generated(users[u], codes[u].code)
    /\ \A r \in Requests :
        /\ Is(r, "verify")
        /\ \/ pair[r] # None \/ pc[r] = "issue"
           \/ pc[r] = "burn" /\ good[r]
        => Generated(op[r].who, op[r].code)

\* No two confirmations have created one user, nor minted one pair.
OneUserEach ==
    /\ \A r \in Requests : Is(r, "confirm") /\ user[r] # None =>
        user[r] \in UserIds /\ users[user[r]] # Unborn
    /\ \A r, q \in Requests :
        Is(r, "confirm") /\ Is(q, "confirm") /\ user[r] # None /\ user[r] = user[q] => r = q
    /\ \A r \in Requests : Is(r, "confirm") /\ pair[r] # None => pair[r].user = user[r]

\* A confirmation of link l that has ended has minted the pair t.
Source(r, l, t) == Is(r, "confirm") /\ pc[r] = "done" /\ op[r].link = l /\ pair[r] = t

\* A pair in the table or with a poll comes from a confirmation of that link,
\* and never is in both places.
Claims ==
    /\ \A l \in Links : confirmed[l] # None => \E r \in Requests : Source(r, l, confirmed[l])
    /\ \A p \in Requests : Is(p, "poll") /\ pair[p] # None =>
        /\ \E r \in Requests : Source(r, op[p].link, pair[p])
        /\ confirmed[op[p].link] # pair[p]
    /\ ClaimedOnce

SignInv ==
    /\ \A r \in Requests : Memory(r) /\ HasRead(r)
    /\ CodesKnown
    /\ OneUserEach
    /\ Claims

-----------------------------------------------------------------------------

\* A request that arrives is of the kind its handler serves.
LEMMA Arrives ==
  ASSUME AInv, NEW r \in Requests, pc[r] = "begin", Serve(r) \/ Confirm(r)
  PROVE  /\ op'[r] # None
         /\ op'[r].kind = "register" <=> RegisterLookup(r)
         /\ op'[r].kind = "verify"   <=> VerifyLookup(r)
         /\ op'[r].kind = "confirm"  <=> GetPending(r)
         /\ op'[r].kind = "poll"     <=> ClaimConfirmed(r)
<1> DEFINE Arrived(k) == op'[r] # None /\ op'[r].kind = k
<1>0. op \in [Requests -> Operation \cup {None}] /\ None \notin Operation
  BY AuthAssumption DEF AInv, TypeOK
<1>H. \A t \in Handed : t \in Pair
  BY HandedMinted
<1> USE DEF Asks, Authenticated, Operation
<1>1. RegisterLookup(r) => Arrived("register")
  BY <1>0 DEF RegisterLookup
<1>2. VerifyLookup(r) => Arrived("verify")
  BY <1>0 DEF VerifyLookup
<1>3. GetPending(r) => Arrived("confirm")
  BY <1>0 DEF GetPending
<1>4. ClaimConfirmed(r) => Arrived("poll")
  BY <1>0 DEF ClaimConfirmed
<1>5. GetRefreshToken(r) => Arrived("refresh")
  BY <1>0, <1>H DEF GetRefreshToken
<1>6. Unauthorized(r) => Arrived("rename") \/ Arrived("delete")
  BY <1>0, <1>H DEF Unauthorized
<1>7. RenameLookup(r) => Arrived("rename")
  BY <1>0, <1>H DEF RenameLookup
<1>8. DeleteUser(r) => Arrived("delete")
  BY <1>0, <1>H DEF DeleteUser
<1>9. \/ RegisterLookup(r) \/ VerifyLookup(r) \/ GetPending(r) \/ ClaimConfirmed(r)
      \/ GetRefreshToken(r) \/ Unauthorized(r) \/ RenameLookup(r) \/ DeleteUser(r)
  BY DEF Serve, Confirm, Register, Verify, Refresh, OnUsers, At, SendMessage, CreatePending,
         DropExpired, DeletePending, GetLoginCode, Rename, Abort, UpsertLoginCode, CreateUser,
         StoreConfirmed, DeleteLoginCode, DeleteRefreshToken, IssueTokens
<1> QED BY <1>1, <1>2, <1>3, <1>4, <1>5, <1>6, <1>7, <1>8, <1>9

\* A request's step leaves alone what the others remember.
LEMMA OthersRemember ==
  ASSUME AInv, NEW r \in Requests, Serve(r) \/ Confirm(r), NEW q \in Requests, q # r
  PROVE  user'[q] = user[q] /\ good'[q] = good[q] /\ code'[q] = code[q]
<1> DEFINE Kept == user'[q] = user[q] /\ good'[q] = good[q] /\ code'[q] = code[q]
<1>0. /\ user \in [Requests -> UserIds \cup {None}] /\ good \in [Requests -> BOOLEAN]
      /\ code \in [Requests -> Codes \cup {None}]
  BY DEF AInv, TypeOK
<1> USE DEF Remember, session
<1>1. RegisterLookup(r) => Kept
  BY <1>0 DEF RegisterLookup
<1>2. SendMessage(r) => Kept
  BY <1>0 DEF SendMessage
<1>3. CreatePending(r) => Kept
  BY <1>0 DEF CreatePending
<1>4. GetPending(r) => Kept
  BY <1>0 DEF GetPending
<1>5. DropExpired(r) => Kept
  BY <1>0 DEF DropExpired
<1>6. DeletePending(r) => Kept
  BY <1>0 DEF DeletePending
<1>7. VerifyLookup(r) => Kept
  BY <1>0 DEF VerifyLookup
<1>8. GetLoginCode(r) => Kept
  BY <1>0 DEF GetLoginCode
<1>9. GetRefreshToken(r) => Kept
  BY <1>0 DEF GetRefreshToken
<1>10. Unauthorized(r) => Kept
  BY <1>0 DEF Unauthorized
<1>11. RenameLookup(r) => Kept
  BY <1>0 DEF RenameLookup
<1>12. Rename(r) => Kept
  BY <1>0 DEF Rename
<1>13. Abort(r) => Kept
  BY <1>0 DEF Abort
<1>14. UpsertLoginCode(r) => Kept
  BY <1>0 DEF UpsertLoginCode
<1>15. CreateUser(r) => Kept
  BY <1>0 DEF CreateUser
<1>16. StoreConfirmed(r) => Kept
  BY <1>0 DEF StoreConfirmed
<1>17. ClaimConfirmed(r) => Kept
  BY <1>0 DEF ClaimConfirmed
<1>18. DeleteLoginCode(r) => Kept
  BY <1>0 DEF DeleteLoginCode
<1>19. DeleteRefreshToken(r) => Kept
  BY <1>0 DEF DeleteRefreshToken
<1>20. IssueTokens(r) => Kept
  BY <1>0 DEF IssueTokens
<1>21. DeleteUser(r) => Kept
  BY <1>0 DEF DeleteUser
<1> QED
  BY <1>1, <1>2, <1>3, <1>4, <1>5, <1>6, <1>7, <1>8, <1>9, <1>10, <1>11, <1>12, <1>13, <1>14,
      <1>15, <1>16, <1>17, <1>18, <1>19, <1>20, <1>21
  DEF Serve, Confirm, Register, Verify, Refresh, OnUsers

\* What a request remembers, in its own step: the user and the code it has
\* read, created or generated.
LEMMA Remembers ==
  ASSUME AInv, NEW r \in Requests, Memory(r), Serve(r) \/ Confirm(r)
  PROVE  /\ user'[r] = user[r] \/ RegisterLookup(r) \/ VerifyLookup(r) \/ GetRefreshToken(r)
                               \/ CreateUser(r)
         /\ code'[r] = code[r] \/ UpsertLoginCode(r)
         /\ pair'[r] = pair[r] \/ ClaimConfirmed(r) \/ IssueTokens(r)
<1> DEFINE Kept == /\ \/ user'[r] = user[r] \/ RegisterLookup(r) \/ VerifyLookup(r)
                      \/ GetRefreshToken(r) \/ CreateUser(r)
                   /\ code'[r] = code[r] \/ UpsertLoginCode(r)
                   /\ pair'[r] = pair[r] \/ ClaimConfirmed(r) \/ IssueTokens(r)
<1>0. user \in [Requests -> UserIds \cup {None}]
  BY DEF AInv, TypeOK
<1> USE DEF Remember, session
<1>1. RegisterLookup(r) => Kept
  BY <1>0 DEF RegisterLookup
<1>2. SendMessage(r) => Kept
  BY <1>0 DEF SendMessage
<1>3. CreatePending(r) => Kept
  BY <1>0 DEF CreatePending
<1>4. GetPending(r) => Kept
  BY <1>0 DEF GetPending
<1>5. DropExpired(r) => Kept
  BY <1>0 DEF DropExpired
<1>6. DeletePending(r) => Kept
  BY <1>0 DEF DeletePending
<1>7. VerifyLookup(r) => Kept
  BY <1>0 DEF VerifyLookup
<1>8. GetLoginCode(r) => Kept
  BY <1>0 DEF GetLoginCode
<1>9. GetRefreshToken(r) => Kept
  BY <1>0 DEF GetRefreshToken
<1>10. Unauthorized(r) => Kept
  BY <1>0 DEF Unauthorized
<1>11. RenameLookup(r) => Kept
  BY <1>0 DEF RenameLookup
<1>12. Rename(r) => Kept
  BY <1>0 DEF Rename
<1>13. Abort(r) => Kept
  BY <1>0 DEF Abort
<1>14. UpsertLoginCode(r) => Kept
  BY <1>0 DEF UpsertLoginCode
<1>15. CreateUser(r) => Kept
  BY <1>0 DEF CreateUser
<1>16. StoreConfirmed(r) => Kept
  BY <1>0 DEF StoreConfirmed
<1>17. ClaimConfirmed(r) => Kept
  BY <1>0 DEF ClaimConfirmed
<1>18. DeleteLoginCode(r) => Kept
  BY <1>0 DEF DeleteLoginCode
<1>19. DeleteRefreshToken(r) => Kept
  BY <1>0 DEF DeleteRefreshToken
<1>20. IssueTokens(r) => Kept
  BY <1>0 DEF IssueTokens
<1>21. DeleteUser(r) => Kept
  BY <1>0 DEF DeleteUser
<1> QED
  BY <1>1, <1>2, <1>3, <1>4, <1>5, <1>6, <1>7, <1>8, <1>9, <1>10, <1>11, <1>12, <1>13, <1>14,
      <1>15, <1>16, <1>17, <1>18, <1>19, <1>20, <1>21
  DEF Serve, Confirm, Register, Verify, Refresh, OnUsers

\* Labels go on saying what they say of the memory of a request.
LEMMA MemoryStep ==
  ASSUME AInv, \A r \in Requests : Memory(r), [Next]_vars, NEW q \in Requests
  PROVE  Memory(q)'
<1>0. /\ pc \in [Requests -> Labels] /\ op \in [Requests -> Operation \cup {None}]
      /\ code \in [Requests -> Codes \cup {None}] /\ Memory(q)
  BY DEF AInv, TypeOK
<1> DEFINE Says == /\ pc'[q] # "begin"
                   /\ op'[q] # None
                   /\ pc'[q] = "create" => user'[q] = None /\ pair'[q] = None
                   /\ pc'[q] = "upsert" => code'[q] = None /\ Is(q, "register")'
                   /\ pc'[q] \in {"code", "burn"} => Is(q, "verify")'
                   /\ pc'[q] \in {"create", "forget", "store"} => Is(q, "confirm")'
<1>A. ASSUME Serve(q) \/ Confirm(q) PROVE Says
  <2>A. ASSUME pc[q] = "begin" PROVE op'[q] # None
    BY <1>A, <2>A, Arrives
  <2>B. op[q] # None => op'[q] = op[q]
    BY OpKept, <1>A DEF Next
  <2>C. code'[q] = code[q] \/ UpsertLoginCode(q)
    BY <1>0, <1>A, Remembers
  <2>D. op'[q] # None
    BY <1>0, <2>A, <2>B DEF Memory
  <2> USE DEF At, GoTo, Answer, AnswerWritten
  <2>1. ASSUME RegisterLookup(q) PROVE Says
    <3>1. pc[q] = "begin"
      BY <2>1 DEF RegisterLookup, Asks, Authenticated
    <3> QED BY <1>0, <1>A, <2>C, <2>D, <2>1, <3>1, Arrives
           DEF RegisterLookup, Is, Memory, UpsertLoginCode, session
  <2>2. ASSUME SendMessage(q) PROVE Says
    BY <1>0, <2>C, <2>D, <2>2 DEF SendMessage, Is, Memory
  <2>3. ASSUME CreatePending(q) PROVE Says
    BY <1>0, <2>C, <2>D, <2>3 DEF CreatePending, Is, Memory
  <2>4. ASSUME GetPending(q) PROVE Says
    <3>1. pc[q] = "begin"
      BY <2>4 DEF GetPending, Asks, Authenticated
    <3> QED BY <1>0, <1>A, <2>C, <2>D, <2>4, <3>1, Arrives
           DEF GetPending, Is, Memory, UpsertLoginCode, session
  <2>5. ASSUME DropExpired(q) PROVE Says
    BY <1>0, <2>C, <2>D, <2>5 DEF DropExpired, Is, Memory
  <2>6. ASSUME DeletePending(q) PROVE Says
    BY <1>0, <2>C, <2>D, <2>6 DEF DeletePending, Is, Memory
  <2>7. ASSUME VerifyLookup(q) PROVE Says
    <3>1. pc[q] = "begin"
      BY <2>7 DEF VerifyLookup, Asks, Authenticated
    <3> QED BY <1>0, <1>A, <2>C, <2>D, <2>7, <3>1, Arrives
           DEF VerifyLookup, Is, Memory, UpsertLoginCode, session
  <2>8. ASSUME GetLoginCode(q) PROVE Says
    BY <1>0, <2>C, <2>D, <2>8 DEF GetLoginCode, Is, Memory
  <2>9. ASSUME GetRefreshToken(q) PROVE Says
    <3>1. pc[q] = "begin"
      BY <2>9 DEF GetRefreshToken, Asks, Authenticated
    <3> QED BY <1>0, <1>A, <2>C, <2>D, <2>9, <3>1, Arrives
           DEF GetRefreshToken, Is, Memory, UpsertLoginCode, session
  <2>10. ASSUME Unauthorized(q) PROVE Says
    <3>1. pc[q] = "begin"
      BY <2>10 DEF Unauthorized, Asks, Authenticated
    <3> QED BY <1>0, <1>A, <2>C, <2>D, <2>10, <3>1, Arrives
           DEF Unauthorized, Is, Memory, UpsertLoginCode, session
  <2>11. ASSUME RenameLookup(q) PROVE Says
    <3>1. pc[q] = "begin"
      BY <2>11 DEF RenameLookup, Asks, Authenticated
    <3> QED BY <1>0, <1>A, <2>C, <2>D, <2>11, <3>1, Arrives
           DEF RenameLookup, Is, Memory, UpsertLoginCode, session
  <2>12. ASSUME Rename(q) PROVE Says
    BY <1>0, <2>C, <2>D, <2>12 DEF Rename, Is, Memory
  <2>13. ASSUME Abort(q) PROVE Says
    BY <1>0, <2>C, <2>D, <2>13 DEF Abort, Is, Memory
  <2>14. ASSUME UpsertLoginCode(q) PROVE Says
    BY <1>0, <2>C, <2>D, <2>14 DEF UpsertLoginCode, Is, Memory
  <2>15. ASSUME CreateUser(q) PROVE Says
    BY <1>0, <2>C, <2>D, <2>15 DEF CreateUser, Is, Memory
  <2>16. ASSUME StoreConfirmed(q) PROVE Says
    BY <1>0, <2>C, <2>D, <2>16 DEF StoreConfirmed, Is, Memory, StoreRow
  <2>17. ASSUME ClaimConfirmed(q) PROVE Says
    <3>1. pc[q] = "begin"
      BY <2>17 DEF ClaimConfirmed, Asks, Authenticated
    <3> QED BY <1>0, <1>A, <2>C, <2>D, <2>17, <3>1, Arrives
           DEF ClaimConfirmed, Is, Memory, UpsertLoginCode, session
  <2>18. ASSUME DeleteLoginCode(q) PROVE Says
    BY <1>0, <2>C, <2>D, <2>18 DEF DeleteLoginCode, Is, Memory
  <2>19. ASSUME DeleteRefreshToken(q) PROVE Says
    BY <1>0, <2>C, <2>D, <2>19 DEF DeleteRefreshToken, Is, Memory
  <2>20. ASSUME IssueTokens(q) PROVE Says
    BY <1>0, <2>C, <2>D, <2>20 DEF IssueTokens, Is, Memory
  <2>21. ASSUME DeleteUser(q) PROVE Says
    <3>1. pc[q] = "begin"
      BY <2>21 DEF DeleteUser, Asks, Authenticated
    <3> QED BY <1>0, <1>A, <2>C, <2>D, <2>21, <3>1, Arrives
           DEF DeleteUser, Is, Memory, UpsertLoginCode, session
  <2> QED
    BY <1>A, <2>1, <2>2, <2>3, <2>4, <2>5, <2>6, <2>7, <2>8, <2>9, <2>10, <2>11, <2>12,
        <2>13, <2>14, <2>15, <2>16, <2>17, <2>18, <2>19, <2>20, <2>21
    DEF Serve, Confirm, Register, Verify, Refresh, OnUsers
<1>1. CASE Serve(q) \/ Confirm(q)
  BY <1>1, <1>A DEF Memory
<1>2. ASSUME NEW r \in Requests, Serve(r) \/ Confirm(r), r # q PROVE Memory(q)'
  BY <1>0, <1>2, OthersKeep, OthersRemember DEF Memory, Is
<1>3. CASE UNCHANGED <<pc, op, session>>
  BY <1>0, <1>3 DEF Memory, Is, session
<1> QED BY <1>1, <1>2, <1>3 DEF Next, Tick, Quiescent, vars

\* A user stays, or leaves.
LEMMA UsersKept ==
  ASSUME AInv, [Next]_vars, NEW u \in UserIds, users[u] # Unborn
  PROVE  users'[u] \in {users[u], Removed}
<1>0. users \in [UserIds -> Accounts \cup {Unborn, Removed}]
  BY DEF AInv, TypeOK
<1>1. ASSUME NEW r \in Requests, CreateUser(r) PROVE users'[u] = users[u]
  BY <1>0, <1>1, Creates
<1>2. ASSUME NEW r \in Requests, DeleteUser(r) PROVE users'[u] \in {users[u], Removed}
  BY <1>0, <1>2, Deletes DEF LiveUsers
<1> QED BY <1>1, <1>2, UsersStep

\* A request that has read a user has read the one it asked for.
LEMMA HasReadStep ==
  ASSUME AInv, \A r \in Requests : Memory(r) /\ HasRead(r), [Next]_vars, NEW q \in Requests
  PROVE  HasRead(q)'
<1>0. /\ pc \in [Requests -> Labels] /\ op \in [Requests -> Operation \cup {None}]
      /\ user \in [Requests -> UserIds \cup {None}]
      /\ Unborn \notin Accounts /\ Removed # Unborn
      /\ Memory(q) /\ HasRead(q)
  BY AuthAssumption DEF AInv, TypeOK
<1>1. ASSUME pc'[q] \in {"upsert", "code"}, pc[q] = pc'[q], op'[q] = op[q], user'[q] = user[q]
      PROVE  HasRead(q)'
  <2>1. op[q] \in Operation /\ op[q].kind \in {"register", "verify"}
    BY <1>0, <1>1 DEF Memory, Is
  <2>2. op[q].who \in Accounts
    BY <2>1 DEF Operation
  <2>3. user[q] \in UserIds /\ users[user[q]] \in {op[q].who, Removed}
    BY <1>0, <1>1 DEF HasRead
  <2>4. users'[user[q]] \in {users[user[q]], Removed}
    BY <1>0, <2>2, <2>3, UsersKept
  <2> QED BY <1>1, <2>3, <2>4 DEF HasRead
<1>2. ASSUME NEW r \in Requests, Serve(r) \/ Confirm(r), r # q PROVE HasRead(q)'
  BY <1>1, <1>2, OthersKeep, OthersRemember DEF HasRead
<1>3. CASE Serve(q) \/ Confirm(q)
  <2> USE DEF Asks, At, GoTo, Answer, AnswerWritten, Authenticated
  <2>1. ASSUME RegisterLookup(q) PROVE HasRead(q)'
    <3>1. CASE pc'[q] = "pending"
      BY <3>1 DEF HasRead
    <3>2. CASE pc'[q] # "pending"
      <4>1. PICK a \in Accounts : /\ op' = [op EXCEPT ![q] = [kind |-> "register", who |-> a]]
                                  /\ \E u \in LiveUsers : users[u] = a /\ Remember(q, u, TRUE)
        BY <1>0, <2>1, <3>2 DEF RegisterLookup
      <4>2. PICK u \in LiveUsers : users[u] = a /\ Remember(q, u, TRUE)
        BY <4>1
      <4>3. op'[q].who = a /\ user'[q] = u /\ u \in UserIds
        BY <1>0, <4>1, <4>2 DEF Remember, LiveUsers
      <4>4. users' = users
        BY <2>1 DEF RegisterLookup, tables
      <4> QED BY <4>2, <4>3, <4>4 DEF HasRead
    <3> QED BY <3>1, <3>2
  <2>2. ASSUME VerifyLookup(q) PROVE HasRead(q)'
    <3>1. CASE pc'[q] = "done"
      BY <3>1 DEF HasRead
    <3>2. CASE pc'[q] # "done"
      <4>1. PICK a \in Accounts, k \in Codes :
              /\ op' = [op EXCEPT ![q] = [kind |-> "verify", who |-> a, code |-> k]]
              /\ \E u \in LiveUsers : users[u] = a /\ Remember(q, u, FALSE)
        BY <1>0, <2>2, <3>2 DEF VerifyLookup
      <4>2. PICK u \in LiveUsers : users[u] = a /\ Remember(q, u, FALSE)
        BY <4>1
      <4>3. op'[q].who = a /\ user'[q] = u /\ u \in UserIds
        BY <1>0, <4>1, <4>2 DEF Remember, LiveUsers
      <4>4. users' = users
        BY <2>2 DEF VerifyLookup, tables
      <4> QED BY <4>2, <4>3, <4>4 DEF HasRead
    <3> QED BY <3>1, <3>2
  <2>3. ASSUME ~RegisterLookup(q), ~VerifyLookup(q) PROVE pc'[q] \notin {"upsert", "code"}
    <3> USE <1>0
    <3>1. SendMessage(q) \/ CreatePending(q) \/ DropExpired(q) => pc'[q] = "done"
      BY DEF SendMessage, CreatePending, DropExpired
    <3>2. GetPending(q) => pc'[q] \in {"done", "expired", "create"}
      BY DEF GetPending
    <3>3. DeletePending(q) => pc'[q] = "issue"
      BY DEF DeletePending
    <3>4. GetLoginCode(q) => pc'[q] = "burn"
      BY DEF GetLoginCode
    <3>5. GetRefreshToken(q) => pc'[q] \in {"done", "rotate"}
      BY DEF GetRefreshToken
    <3>6. Unauthorized(q) \/ Rename(q) \/ Abort(q) \/ DeleteUser(q) => pc'[q] = "done"
      BY DEF Unauthorized, Rename, Abort, DeleteUser
    <3>7. RenameLookup(q) => pc'[q] \in {"done", "name"}
      BY DEF RenameLookup
    <3>8. UpsertLoginCode(q) => pc'[q] \in {"done", "send"}
      BY DEF UpsertLoginCode
    <3>9. CreateUser(q) => pc'[q] \in {"done", "forget"}
      BY DEF CreateUser
    <3>10. StoreConfirmed(q) \/ ClaimConfirmed(q) => pc'[q] = "done"
      BY DEF StoreConfirmed, StoreRow, ClaimConfirmed
    <3>11. DeleteLoginCode(q) \/ DeleteRefreshToken(q) => pc'[q] \in {"done", "issue"}
      BY DEF DeleteLoginCode, DeleteRefreshToken
    <3>12. IssueTokens(q) => pc'[q] \in {"done", "store"}
      BY DEF IssueTokens
    <3> QED BY <1>3, <2>3, <3>1, <3>2, <3>3, <3>4, <3>5, <3>6, <3>7, <3>8, <3>9, <3>10, <3>11,
               <3>12 DEF Serve, Confirm, Register, Verify, Refresh, OnUsers
  <2> QED BY <2>1, <2>2, <2>3 DEF HasRead
<1>4. CASE UNCHANGED <<users, pc, op, session>>
  BY <1>0, <1>4 DEF HasRead, session
<1> QED BY <1>2, <1>3, <1>4 DEF Next, Tick, Quiescent, vars, tables

-----------------------------------------------------------------------------
(* Codes.                                                                   *)

\* A code that was generated for an account stays so.
LEMMA GeneratedKept ==
  ASSUME AInv, \A r \in Requests : Memory(r), [Next]_vars, NEW a, NEW k \in Codes,
         Generated(a, k)
  PROVE  \E q \in Requests : Is(q, "register")' /\ op'[q].who = a /\ code'[q] = k
<1>1. PICK q \in Requests : Is(q, "register") /\ op[q].who = a /\ code[q] = k
  BY DEF Generated
<1>2. Is(q, "register")' /\ op'[q] = op[q]
  BY <1>1, OpKept DEF Is
<1>3. code'[q] = code[q]
  <2>1. ASSUME NEW r \in Requests, Serve(r) \/ Confirm(r), r # q PROVE code'[q] = code[q]
    BY <2>1, OthersRemember
  <2>2. CASE Serve(q) \/ Confirm(q)
    <3>1. ~UpsertLoginCode(q)
      BY <1>1, AuthAssumption DEF UpsertLoginCode, At, Memory
    <3> QED BY <2>2, <3>1, Remembers
  <2> QED BY <2>1, <2>2 DEF Next, Tick, Quiescent, vars, session
<1> QED BY <1>1, <1>2, <1>3

\* A login code is written by a registration request, or deleted.
LEMMA CodesChange ==
  ASSUME AInv, [Next]_vars, NEW u \in UserIds
  PROVE  \/ codes'[u] \in {codes[u], None}
         \/ \E r \in Requests : UpsertLoginCode(r) /\ user[r] = u /\ u \in LiveUsers
<1>0. /\ codes \in [UserIds -> [code: Codes, until: Nat] \cup {None}]
      /\ user \in [Requests -> UserIds \cup {None}]
  BY DEF AInv, TypeOK
<1>1. ASSUME NEW r \in Requests, Quiet(r) PROVE codes' = codes
  BY <1>1, QuietSteps
<1>2. ASSUME NEW r \in Requests, CreateUser(r) \/ StoreConfirmed(r) \/ ClaimConfirmed(r)
                                 \/ DeleteRefreshToken(r) \/ IssueTokens(r)
      PROVE  codes' = codes
  BY <1>2 DEF CreateUser, StoreConfirmed, ClaimConfirmed, DeleteRefreshToken, IssueTokens
<1>3. ASSUME NEW r \in Requests, DeleteUser(r) PROVE codes'[u] \in {codes[u], None}
  BY <1>0, <1>3, Deletes
<1>4. ASSUME NEW r \in Requests, DeleteLoginCode(r) PROVE codes'[u] \in {codes[u], None}
  BY <1>0, <1>4 DEF DeleteLoginCode
<1>5. ASSUME NEW r \in Requests, UpsertLoginCode(r), codes'[u] # codes[u]
      PROVE  user[r] = u /\ u \in LiveUsers
  BY <1>0, <1>5 DEF UpsertLoginCode
<1> QED BY <1>1, <1>2, <1>3, <1>4, <1>5, Steps

\* A sign-in advances because it had been found good, or because it is now.
LEMMA SignsIn ==
  ASSUME AInv, NEW r \in Requests, Memory(r), Serve(r) \/ Confirm(r), Is(r, "verify")',
         \/ pair'[r] # None \/ pc'[r] = "issue"
         \/ pc'[r] = "burn" /\ good'[r]
  PROVE  /\ Is(r, "verify") /\ op'[r] = op[r]
         /\ \/ pair[r] # None \/ pc[r] = "issue"
            \/ pc[r] = "burn" /\ good[r]
            \/ GetLoginCode(r) /\ good'[r]
<1>0. /\ pc \in [Requests -> Labels] /\ op \in [Requests -> Operation \cup {None}]
      /\ good \in [Requests -> BOOLEAN] /\ Session(r)
  BY DEF AInv, TypeOK
<1>1. CASE pc[r] = "begin"
  <2>1. VerifyLookup(r)
    BY <1>1, Arrives DEF Is
  <2>2. pair'[r] = None
    BY <1>0, <1>1, <2>1, QuietSteps DEF Quiet, Memory
  <2>3. pc'[r] \in {"code", "done"}
    BY <1>0, <2>1 DEF VerifyLookup, GoTo, Answer
  <2> QED BY <2>2, <2>3
<1>2. CASE pc[r] # "begin"
  <2>1. op'[r] = op[r] /\ Is(r, "verify")
    BY <1>2, OpKept DEF Memory, Next, Is
  <2>2. pair'[r] = pair[r] \/ IssueTokens(r)
    BY <1>2, Remembers DEF ClaimConfirmed, Asks
  <2>3. IssueTokens(r) => pc[r] = "issue"
    BY DEF IssueTokens, At
  <2>4. ASSUME pc'[r] = "issue" PROVE pc[r] = "issue" \/ (pc[r] = "burn" /\ good[r])
    <3> USE <1>0, <1>2, <2>1, <2>4 DEF Asks, At, GoTo, Answer, AnswerWritten, Authenticated
    <3>1. ~SendMessage(r) /\ ~CreatePending(r) /\ ~DropExpired(r) /\ ~Rename(r) /\ ~Abort(r)
      BY DEF SendMessage, CreatePending, DropExpired, Rename, Abort
    <3>2. ~DeletePending(r)
      BY DEF DeletePending, Memory, Is
    <3>3. ~GetLoginCode(r) /\ ~UpsertLoginCode(r) /\ ~CreateUser(r) /\ ~StoreConfirmed(r)
      BY DEF GetLoginCode, UpsertLoginCode, CreateUser, StoreConfirmed, StoreRow
    <3>4. ~DeleteRefreshToken(r)
      BY DEF DeleteRefreshToken, Session, Is
    <3>5. DeleteLoginCode(r) => pc[r] = "burn" /\ good[r]
      BY DEF DeleteLoginCode
    <3>6. \/ DeleteLoginCode(r) \/ IssueTokens(r)
      BY <3>1, <3>2, <3>3, <3>4 DEF Serve, Confirm, Register, Verify, Refresh, OnUsers,
         RegisterLookup, GetPending, VerifyLookup, GetRefreshToken, Unauthorized, RenameLookup,
         ClaimConfirmed, DeleteUser
    <3> QED BY <2>3, <3>5, <3>6
  <2>5. ASSUME pc'[r] = "burn" PROVE GetLoginCode(r)
    <3> USE <1>0, <1>2, <2>5 DEF Asks, At, GoTo, Answer, AnswerWritten, Authenticated
    <3>1. ~SendMessage(r) /\ ~CreatePending(r) /\ ~DropExpired(r) /\ ~Rename(r) /\ ~Abort(r)
      BY DEF SendMessage, CreatePending, DropExpired, Rename, Abort
    <3>2. ~DeletePending(r) /\ ~DeleteRefreshToken(r) /\ ~DeleteLoginCode(r)
      BY DEF DeletePending, DeleteRefreshToken, DeleteLoginCode
    <3>3. ~UpsertLoginCode(r) /\ ~CreateUser(r) /\ ~StoreConfirmed(r) /\ ~IssueTokens(r)
      BY DEF UpsertLoginCode, CreateUser, StoreConfirmed, StoreRow, IssueTokens
    <3> QED BY <3>1, <3>2, <3>3 DEF Serve, Confirm, Register, Verify, Refresh, OnUsers,
         RegisterLookup, GetPending, VerifyLookup, GetRefreshToken, Unauthorized, RenameLookup,
         ClaimConfirmed, DeleteUser
  <2> QED BY <2>1, <2>2, <2>3, <2>4, <2>5
<1> QED BY <1>1, <1>2

\* Codes go on going back to registration requests.
LEMMA CodesStep ==
  ASSUME AInv, SignInv, [Next]_vars
  PROVE  CodesKnown'
<1>0. /\ codes \in [UserIds -> [code: Codes, until: Nat] \cup {None}]
      /\ users \in [UserIds -> Accounts \cup {Unborn, Removed}]
      /\ op \in [Requests -> Operation \cup {None}]
      /\ code \in [Requests -> Codes \cup {None}]
      /\ user \in [Requests -> UserIds \cup {None}]
      /\ good \in [Requests -> BOOLEAN]
      /\ None \notin Codes /\ Unborn \notin Accounts /\ Removed \notin Accounts
  BY AuthAssumption DEF AInv, TypeOK
<1>M. (\A r \in Requests : Memory(r)) /\ (\A r \in Requests : HasRead(r)) /\ CodesKnown
  BY DEF SignInv
<1>1. ASSUME NEW u \in UserIds, codes'[u] # None PROVE Generated(users[u], codes[u].code)'
  <2>0. u \in LiveUsers'
    BY <1>1, OrphanStep DEF NoOrphanSessions
  <2>1. CASE codes'[u] = codes[u]
    <3>1. Generated(users[u], codes[u].code) /\ codes[u].code \in Codes
      BY <1>0, <1>1, <1>M, <2>1 DEF CodesKnown
    <3>2. users'[u] = users[u]
      <4>1. u \in LiveUsers
        BY <1>1, <2>1 DEF AInv, NoOrphanSessions
      <4> QED BY <1>0, <2>0, <4>1, UsersKept DEF LiveUsers
    <3>3. \E q \in Requests : /\ Is(q, "register")' /\ op'[q].who = users[u]
                              /\ code'[q] = codes[u].code
      BY <1>M, <3>1, GeneratedKept
    <3> QED BY <2>1, <3>2, <3>3 DEF Generated
  <2>2. ASSUME NEW r \in Requests, UpsertLoginCode(r), user[r] = u, u \in LiveUsers
        PROVE  Generated(users[u], codes[u].code)'
    <3>1. /\ op' = op /\ users' = users /\ pc[r] = "upsert"
          /\ \E k \in Codes :
               /\ codes' = [codes EXCEPT ![u] = [code |-> k, until |-> ExpiresAt(CodeTTL)]]
               /\ code' = [code EXCEPT ![r] = k]
      BY <2>2 DEF UpsertLoginCode, At
    <3>2. codes'[u].code = code'[r]
      BY <1>0, <3>1
    <3>3. users'[u] = op[r].who /\ Is(r, "register")
      BY <1>0, <1>M, <2>2, <3>1 DEF HasRead, Memory, LiveUsers
    <3> QED BY <3>1, <3>2, <3>3 DEF Generated, Is
  <2> QED BY <1>1, <2>1, <2>2, CodesChange
<1>2. ASSUME NEW r \in Requests, Is(r, "verify")',
             \/ pair'[r] # None \/ pc'[r] = "issue"
             \/ pc'[r] = "burn" /\ good'[r]
      PROVE  Generated(op[r].who, op[r].code)'
  <2>1. /\ Is(r, "verify") /\ op'[r] = op[r]
        /\ \/ pair[r] # None \/ pc[r] = "issue"
           \/ pc[r] = "burn" /\ good[r]
           \/ GetLoginCode(r) /\ good'[r]
    <3>1. CASE Serve(r) \/ Confirm(r)
      BY <1>2, <1>M, <3>1, SignsIn
    <3>2. ASSUME NEW q \in Requests, Serve(q) \/ Confirm(q), q # r
          PROVE  /\ op'[r] = op[r] /\ pair'[r] = pair[r] /\ pc'[r] = pc[r] /\ good'[r] = good[r]
      BY <3>2, OthersKeep, OthersRemember
    <3>3. CASE UNCHANGED <<pc, op, session>>
      BY <1>2, <3>3 DEF Is, session
    <3> QED BY <1>2, <3>1, <3>2, <3>3 DEF Is, Next, Tick, Quiescent, vars
  <2>2. op[r].code \in Codes /\ op[r].who \in Accounts
    BY <1>0, <2>1 DEF Is, Operation
  <2>3. Generated(op[r].who, op[r].code)
    <3>1. CASE GetLoginCode(r) /\ good'[r]
      <4>1. /\ pc[r] = "code"
            /\ \E ok \in {Accepts(codes[user[r]], op[r].code), FALSE} :
                 good' = [good EXCEPT ![r] = ok]
        BY <3>1 DEF GetLoginCode, At, Verdicts, Remember
      <4>2. Accepts(codes[user[r]], op[r].code)
        <5>1. \E ok \in {Accepts(codes[user[r]], op[r].code), FALSE} : good'[r] = ok
          BY <1>0, <4>1
        <5> QED BY <3>1, <5>1, Zenon
      <4>3. codes[user[r]] # None /\ codes[user[r]].code = op[r].code
        BY <4>2 DEF Accepts
      <4>4. user[r] \in UserIds /\ users[user[r]] \in {op[r].who, Removed}
        BY <1>M, <4>1 DEF HasRead
      <4>5. users[user[r]] = op[r].who
        BY <1>0, <4>3, <4>4 DEF AInv, NoOrphanSessions, LiveUsers
      <4>6. Generated(users[user[r]], codes[user[r]].code)
        BY <1>M, <4>3, <4>4 DEF CodesKnown
      <4> QED BY <4>3, <4>5, <4>6
    <3> QED BY <1>M, <2>1, <3>1 DEF CodesKnown
  <2>4. \E q \in Requests : /\ Is(q, "register")' /\ op'[q].who = op[r].who
                            /\ code'[q] = op[r].code
    BY <1>M, <2>2, <2>3, GeneratedKept
  <2> QED BY <2>1, <2>4 DEF Generated
<1> QED BY <1>1, <1>2 DEF CodesKnown

-----------------------------------------------------------------------------
(* Pairs.                                                                   *)

\* A confirmation's step changes its user by creating one, and its pair by
\* minting one for that user.
LEMMA Confirming ==
  ASSUME AInv, NEW r \in Requests, Memory(r), Serve(r) \/ Confirm(r), Is(r, "confirm")'
  PROVE  \/ /\ user'[r] = user[r] /\ pair'[r] = pair[r]
            /\ Is(r, "confirm") \/ (user[r] = None /\ pair[r] = None)
         \/ /\ CreateUser(r) /\ pair'[r] = None
            /\ user'[r] \in UserIds /\ users[user'[r]] = Unborn /\ users'[user'[r]] # Unborn
         \/ /\ Is(r, "confirm") /\ pc[r] = "issue"
            /\ user'[r] = user[r] /\ pair'[r].user = user[r]
<1>0. /\ user \in [Requests -> UserIds \cup {None}] /\ Unborn \notin Accounts
      /\ users \in [UserIds -> Accounts \cup {Unborn, Removed}]
  BY AuthAssumption DEF AInv, TypeOK
<1>1. CASE pc[r] = "begin"
  <2>1. GetPending(r)
    BY <1>1, Arrives DEF Is
  <2> QED BY <1>1, <2>1 DEF GetPending, session, Memory
<1>2. CASE pc[r] # "begin"
  <2>1. Is(r, "confirm")
    BY <1>2, OpKept DEF Memory, Next, Is
  <2>2. ~RegisterLookup(r) /\ ~VerifyLookup(r) /\ ~GetRefreshToken(r) /\ ~ClaimConfirmed(r)
    BY <1>2 DEF RegisterLookup, VerifyLookup, GetRefreshToken, ClaimConfirmed, Asks
  <2>3. CASE CreateUser(r)
    <3>1. pair' = pair /\ pair[r] = None /\ op[r].who \in Accounts
      BY <2>3, Creates DEF CreateUser, At, Memory, AInv, Session, ConfirmOps
    <3>2. CASE UNCHANGED session
      BY <2>1, <3>1, <3>2 DEF session
    <3>3. CASE \E u \in UserIds : /\ users[u] = Unborn
                                  /\ users' = [users EXCEPT ![u] = op[r].who]
                                  /\ Remember(r, u, TRUE)
      <4>1. PICK u \in UserIds : /\ users[u] = Unborn
                                 /\ users' = [users EXCEPT ![u] = op[r].who]
                                 /\ Remember(r, u, TRUE)
        BY <3>3
      <4>2. user'[r] = u
        BY <1>0, <4>1 DEF Remember
      <4>3. users'[u] # Unborn
        BY <1>0, <3>1, <4>1
      <4> QED BY <2>3, <3>1, <4>1, <4>2, <4>3
    <3> QED BY <2>3, <3>2, <3>3 DEF CreateUser
  <2>4. CASE IssueTokens(r)
    <3>1. CASE refresh' # refresh
      BY <2>1, <2>4, <3>1, NewPair DEF IssueTokens, At
    <3>2. CASE refresh' = refresh
      BY <2>1, <2>4, <3>2 DEF IssueTokens
    <3> QED BY <3>1, <3>2
  <2> QED BY <2>1, <2>2, <2>3, <2>4, Remembers
<1> QED BY <1>1, <1>2

\* Confirmations go on having a user each.
LEMMA OneUserStep ==
  ASSUME AInv, SignInv, [Next]_vars
  PROVE  OneUserEach'
<1>0. /\ users \in [UserIds -> Accounts \cup {Unborn, Removed}]
      /\ Removed # Unborn /\ None \notin UserIds
      /\ OneUserEach /\ \A r \in Requests : Memory(r)
  BY AuthAssumption DEF AInv, TypeOK, SignInv
<1>1. ASSUME NEW r \in Requests, Is(r, "confirm")'
      PROVE  \/ /\ user'[r] = user[r] /\ pair'[r] = pair[r]
                /\ Is(r, "confirm") \/ (user[r] = None /\ pair[r] = None)
             \/ /\ CreateUser(r) /\ pair'[r] = None
                /\ user'[r] \in UserIds /\ users[user'[r]] = Unborn /\ users'[user'[r]] # Unborn
             \/ /\ Is(r, "confirm")
                /\ user'[r] = user[r] /\ pair'[r].user = user[r]
  <2>1. CASE Serve(r) \/ Confirm(r)
    BY <1>0, <1>1, <2>1, Confirming
  <2>2. ASSUME NEW q \in Requests, Serve(q) \/ Confirm(q), q # r
        PROVE  op'[r] = op[r] /\ user'[r] = user[r] /\ pair'[r] = pair[r]
    BY <2>2, OthersKeep, OthersRemember
  <2>3. CASE UNCHANGED <<op, session>>
    BY <1>1, <2>3 DEF Is, session
  <2> QED BY <1>1, <2>1, <2>2, <2>3 DEF Is, Next, Tick, Quiescent, vars
<1>2. ASSUME NEW r \in Requests, Is(r, "confirm")', user'[r] # None
      PROVE  user'[r] \in UserIds /\ users'[user'[r]] # Unborn
  <2>1. CASE user'[r] = user[r] /\ Is(r, "confirm")
    <3>1. user[r] \in UserIds /\ users[user[r]] # Unborn
      BY <1>0, <1>2, <2>1 DEF OneUserEach
    <3> QED BY <1>0, <2>1, <3>1, UsersKept
  <2> QED BY <1>1, <1>2, <2>1
<1>3. ASSUME NEW r \in Requests, NEW q \in Requests, Is(r, "confirm")', Is(q, "confirm")',
             user'[r] # None, user'[r] = user'[q], r # q
      PROVE  FALSE
  <2>1. ASSUME NEW x \in Requests, NEW y \in Requests, x # y, CreateUser(x),
               Is(y, "confirm")', user'[y] # None, users[user'[y]] = Unborn
        PROVE  FALSE
    <3>1. op'[y] = op[y] /\ user'[y] = user[y]
      BY <2>1, OthersKeep, OthersRemember DEF Confirm
    <3> QED BY <1>0, <2>1, <3>1 DEF OneUserEach, Is
  <2>2. ~CreateUser(r) \/ users[user'[r]] # Unborn
    BY <1>3, <2>1
  <2>3. ~CreateUser(q) \/ users[user'[q]] # Unborn
    BY <1>3, <2>1
  <2>4. Is(r, "confirm") /\ user'[r] = user[r]
    BY <1>1, <1>3, <2>2
  <2>5. Is(q, "confirm") /\ user'[q] = user[q]
    BY <1>1, <1>3, <2>3
  <2> QED BY <1>0, <1>3, <2>4, <2>5 DEF OneUserEach
<1>4. ASSUME NEW r \in Requests, Is(r, "confirm")', pair'[r] # None
      PROVE  pair'[r].user = user'[r]
  BY <1>0, <1>1, <1>4 DEF OneUserEach
<1> QED BY <1>2, <1>3, <1>4 DEF OneUserEach

\* A pair comes from one confirmation, and this of one link.
LEMMA OneSource ==
  ASSUME AInv, SignInv, NEW r \in Requests, NEW q \in Requests, NEW t \in Pair,
         Is(r, "confirm"), pair[r] = t, Is(q, "confirm"), pair[q] = t
  PROVE  r = q
<1>1. t # None /\ None \notin UserIds /\ t.user \in UserIds
  BY AuthAssumption DEF Pair
<1>2. t.user = user[r] /\ t.user = user[q]
  BY <1>1 DEF SignInv, OneUserEach
<1> QED BY <1>1, <1>2 DEF SignInv, OneUserEach

\* A confirmation that has ended keeps the pair it has minted.
LEMMA SourceKept ==
  ASSUME AInv, [Next]_vars, NEW r \in Requests, NEW l, NEW t, Source(r, l, t)
  PROVE  Is(r, "confirm")' /\ pc'[r] = "done" /\ op'[r].link = l /\ pair'[r] = t
<1>1. ~Serve(r) /\ ~Confirm(r)
  BY OkMeansStored DEF Source
<1>2. ASSUME NEW q \in Requests, Serve(q) \/ Confirm(q)
      PROVE  op'[r] = op[r] /\ pc'[r] = pc[r] /\ pair'[r] = pair[r]
  BY <1>1, <1>2, OthersKeep
<1> QED BY <1>2 DEF Source, Is, Next, Tick, Quiescent, vars, session

\* Confirmed rows are written and claimed, and polls given a pair, in one place
\* each.
LEMMA ConfirmedChange ==
  ASSUME AInv, \A r \in Requests : Memory(r), [Next]_vars
  PROVE  \/ /\ confirmed' = confirmed
            /\ \A p \in Requests :
                 Is(p, "poll")' /\ pair'[p] # None => /\ Is(p, "poll")
                                                      /\ UNCHANGED <<op[p], pair[p]>>
         \/ \E r \in Requests : StoreConfirmed(r) \/ ClaimConfirmed(r)
<1>1. ASSUME NEW r \in Requests, Serve(r) \/ Confirm(r), ~StoreConfirmed(r), ~ClaimConfirmed(r)
      PROVE  confirmed' = confirmed
  <2>1. Quiet(r) => confirmed' = confirmed
    BY QuietSteps
  <2>2. ASSUME \/ UpsertLoginCode(r) \/ CreateUser(r) \/ DeleteLoginCode(r)
               \/ DeleteRefreshToken(r) \/ DeleteUser(r) \/ IssueTokens(r)
        PROVE  confirmed' = confirmed
    BY <2>2 DEF UpsertLoginCode, CreateUser, DeleteLoginCode, DeleteRefreshToken, DeleteUser,
           IssueTokens
  <2> QED BY <1>1, <2>1, <2>2 DEF Serve, Confirm, Register, Verify, Refresh, OnUsers, Quiet
<1>2. ASSUME NEW r \in Requests, Serve(r) \/ Confirm(r), ~ClaimConfirmed(r),
             NEW p \in Requests, Is(p, "poll")'
      PROVE  Is(p, "poll") /\ UNCHANGED <<op[p], pair[p]>>
  <2>1. CASE p # r
    BY <1>2, <2>1, OthersKeep DEF Is
  <2>2. CASE p = r
    <3>1. pc[p] # "begin"
      BY <1>2, <2>2, Arrives DEF Is
    <3>2. Is(p, "poll")
      BY <1>2, <3>1, OpKept DEF Memory, Is, Next
    <3> QED BY <1>2, <2>2, <3>2, OkMeansStored DEF AInv, Session
  <2> QED BY <2>1, <2>2
<1>3. CASE UNCHANGED vars \/ Tick
  BY <1>3 DEF vars, Tick, tables, session, Is
<1> QED BY <1>1, <1>2, <1>3 DEF Next, Quiescent

\* No step puts a pair in two places.
LEMMA ClaimsStep ==
  ASSUME AInv, SignInv, [Next]_vars
  PROVE  Claims'
<1>0. /\ confirmed \in [Links -> Pair \cup {None}] /\ pair \in [Requests -> Pair \cup {None}]
      /\ op \in [Requests -> Operation \cup {None}] /\ pc \in [Requests -> Labels]
      /\ None \notin Pair /\ None \notin Operation
      /\ Claims /\ \A r \in Requests : Memory(r)
  BY AuthAssumption DEF AInv, TypeOK, SignInv
<1> DEFINE Kept(r, l, t) ==
      Is(r, "confirm")' /\ pc'[r] = "done" /\ op'[r].link = l /\ pair'[r] = t
<1>K. ASSUME NEW r \in Requests, NEW l, NEW t, Source(r, l, t) PROVE Kept(r, l, t)
  BY <1>K, SourceKept
<1>L. ASSUME NEW p \in Requests, Is(p, "poll") PROVE op[p].link \in Links
  BY <1>0, <1>L DEF Is, Operation
<1> DEFINE Stored ==
      \A l \in Links : confirmed'[l] # None => \E r \in Requests : Kept(r, l, confirmed'[l])
<1> DEFINE Polled ==
      \A p \in Requests : Is(p, "poll")' /\ pair'[p] # None =>
        /\ \E r \in Requests : Kept(r, op'[p].link, pair'[p])
        /\ confirmed'[op'[p].link] # pair'[p]
<1>1. CASE /\ confirmed' = confirmed
           /\ \A p \in Requests : Is(p, "poll")' /\ pair'[p] # None => /\ Is(p, "poll")
                                                      /\ UNCHANGED <<op[p], pair[p]>>
  <2>1. Stored
    BY <1>0, <1>1, <1>K DEF Claims
  <2>2. Polled
    BY <1>0, <1>1, <1>K DEF Claims
  <2>3. ClaimedOnce'
    BY <1>0, <1>1 DEF Claims, ClaimedOnce
  <2> QED BY <2>1, <2>2, <2>3 DEF Claims, Source
<1>2. ASSUME NEW r \in Requests, StoreConfirmed(r) PROVE Claims'
  <2> DEFINE l == op[r].link
  <2>1. /\ pc[r] = "store" /\ Is(r, "confirm") /\ pair[r] \in Pair
        /\ UNCHANGED <<op, pair>> /\ pc' = [pc EXCEPT ![r] = "done"] /\ l \in Links
        /\ confirmed' \in {confirmed, [confirmed EXCEPT ![l] = pair[r]]}
    <3>1. pc[r] = "store" /\ UNCHANGED <<op, pair>> /\ Is(r, "confirm") /\ pair[r] \in Pair
      BY <1>0, <1>2 DEF StoreConfirmed, At, session, Memory, AInv, Session
    <3>2. l \in Links
      BY <1>0, <3>1 DEF Is, Operation
    <3>3. /\ pc' = [pc EXCEPT ![r] = "done"]
          /\ confirmed' \in {confirmed, [confirmed EXCEPT ![l] = pair[r]]}
      BY <1>2 DEF StoreConfirmed, StoreRow, AnswerWritten, Answer
    <3> QED BY <3>1, <3>2, <3>3
  <2> HIDE DEF l
  <2>2. Kept(r, l, pair[r])
    BY <1>0, <2>1 DEF Is, l
  <2>3. Stored
    <3> TAKE m \in Links
    <3>1. HAVE confirmed'[m] # None
    <3>2. CASE confirmed'[m] = confirmed[m]
      BY <1>0, <1>K, <3>1, <3>2 DEF Claims
    <3>3. CASE m = l /\ confirmed'[m] = pair[r]
      BY <2>2, <3>3
    <3> QED BY <1>0, <2>1, <3>2, <3>3
  <2>4. Polled
    <3> TAKE p \in Requests
    <3>1. HAVE Is(p, "poll")' /\ pair'[p] # None
    <3>2. /\ Is(p, "poll") /\ pair[p] # None /\ op'[p] = op[p] /\ pair'[p] = pair[p]
          /\ confirmed[op[p].link] # pair[p] /\ op[p].link \in Links
      BY <1>0, <1>L, <2>1, <3>1 DEF Is, Claims
    <3>3. PICK q \in Requests : Source(q, op[p].link, pair[p])
      BY <1>0, <3>2 DEF Claims
    <3>4. pair[p] # pair[r]
      BY <1>0, <2>1, <3>3, OneSource DEF Source
    <3>5. confirmed'[op[p].link] # pair[p]
      BY <1>0, <2>1, <3>2, <3>4
    <3> QED BY <1>K, <3>2, <3>3, <3>5
  <2>5. ClaimedOnce'
    BY <1>0, <2>1 DEF Claims, ClaimedOnce, Is
  <2> QED BY <2>3, <2>4, <2>5 DEF Claims, Source
<1>3. ASSUME NEW p \in Requests, ClaimConfirmed(p) PROVE Claims'
  <2>1. PICK m \in Links :
          /\ op' = [op EXCEPT ![p] = [kind |-> "poll", link |-> m]]
          /\ \/ UNCHANGED <<confirmed, pair>>
             \/ /\ confirmed[m] # None
                /\ confirmed' = [confirmed EXCEPT ![m] = None]
                /\ pair' = [pair EXCEPT ![p] = confirmed[m]]
    BY <1>3 DEF ClaimConfirmed, RemoveClaimed, Asks
  <2>2. op'[p].link = m /\ pc[p] = "begin" /\ op[p] = None /\ pair[p] = None
    BY <1>0, <1>3, <2>1 DEF ClaimConfirmed, Asks, Memory, AInv, Session
  <2>3. ASSUME NEW q \in Requests, q # p, Is(q, "poll")'
        PROVE  Is(q, "poll") /\ op'[q] = op[q] /\ pair'[q] = pair[q]
    BY <1>0, <2>1, <2>3 DEF Is
  <2>4. CASE UNCHANGED <<confirmed, pair>>
    <3>1. ASSUME NEW q \in Requests, Is(q, "poll")', pair'[q] # None
          PROVE  Is(q, "poll") /\ op'[q] = op[q] /\ pair'[q] = pair[q]
      BY <2>2, <2>3, <2>4, <3>1
    <3> QED BY <1>1, <2>4, <3>1
  <2>5. CASE /\ confirmed[m] # None
             /\ confirmed' = [confirmed EXCEPT ![m] = None]
             /\ pair' = [pair EXCEPT ![p] = confirmed[m]]
    <3>1. Stored
      BY <1>0, <1>K, <2>5 DEF Claims
    <3>2. PICK r \in Requests : Source(r, m, confirmed[m])
      BY <1>0, <2>5 DEF Claims
    <3>3. ASSUME NEW q \in Requests, q # p, Is(q, "poll"), pair[q] # None
          PROVE  pair[q] # confirmed[m]
      <4>1. SUFFICES ASSUME pair[q] = confirmed[m] PROVE FALSE
        OBVIOUS
      <4>2. PICK x \in Requests : Source(x, op[q].link, pair[q])
        BY <1>0, <3>3 DEF Claims
      <4>3. x = r
        BY <1>0, <2>5, <3>2, <4>1, <4>2, OneSource DEF Source
      <4>4. op[q].link = m
        BY <3>2, <4>2, <4>3 DEF Source
      <4> QED BY <1>0, <3>3, <4>1, <4>4 DEF Claims
    <3>4. Polled
      <4> TAKE q \in Requests
      <4>1. HAVE Is(q, "poll")' /\ pair'[q] # None
      <4>2. CASE q = p
        BY <1>0, <1>K, <2>2, <2>5, <3>2, <4>1, <4>2
      <4>3. CASE q # p
        <5>1. Is(q, "poll") /\ op'[q] = op[q] /\ pair'[q] = pair[q] /\ op[q].link \in Links
          BY <1>L, <2>3, <4>1, <4>3
        <5>2. /\ \E x \in Requests : Source(x, op[q].link, pair[q])
              /\ confirmed[op[q].link] # pair[q]
          BY <1>0, <4>1, <5>1 DEF Claims
        <5> QED BY <1>0, <1>K, <2>5, <4>1, <5>1, <5>2
      <4> QED BY <4>2, <4>3
    <3>5. ClaimedOnce'
      <4> SUFFICES ASSUME NEW x \in Requests, NEW y \in Requests,
                          Is(x, "poll")', Is(y, "poll")', pair'[x] # None, pair'[x] = pair'[y],
                          x # y
                   PROVE  FALSE
        BY DEF ClaimedOnce
      <4>1. CASE x # p /\ y # p
        BY <1>0, <2>3, <4>1 DEF Claims, ClaimedOnce
      <4>2. CASE x = p
        BY <1>0, <2>3, <2>5, <3>3, <4>2
      <4>3. CASE y = p
        BY <1>0, <2>3, <2>5, <3>3, <4>3
      <4> QED BY <4>1, <4>2, <4>3
    <3> QED BY <3>1, <3>4, <3>5 DEF Claims, Source
  <2> QED BY <2>1, <2>4, <2>5
<1> QED BY <1>0, <1>1, <1>2, <1>3, ConfirmedChange

-----------------------------------------------------------------------------

\* At the start no request remembers anything.
LEMMA InitSignInv == Init => SignInv
<1> SUFFICES ASSUME Init PROVE SignInv
  OBVIOUS
<1>1. ASSUME NEW r \in Requests PROVE Memory(r) /\ HasRead(r)
  BY DEF Init, Memory, HasRead, Is
<1>2. CodesKnown
  BY DEF Init, CodesKnown, Is
<1>3. OneUserEach
  BY DEF Init, OneUserEach, Is
<1>4. Claims
  BY DEF Init, Claims, ClaimedOnce, Is
<1> QED BY <1>1, <1>2, <1>3, <1>4 DEF SignInv

\* Every step keeps what is known of codes and pairs.
LEMMA NextSignInv == AInv /\ SignInv /\ [Next]_vars => SignInv'
<1> SUFFICES ASSUME AInv, SignInv, [Next]_vars PROVE SignInv'
  OBVIOUS
<1>1. ASSUME NEW r \in Requests PROVE Memory(r)' /\ HasRead(r)'
  BY MemoryStep, HasReadStep DEF SignInv
<1> QED BY <1>1, CodesStep, OneUserStep, ClaimsStep DEF SignInv

\* The second inductive invariant of Auth, on top of the first: what requests
\* remember, where codes come from, and where confirmed pairs are.
THEOREM SignInvariance == Spec => [](AInv /\ SignInv)
<1> QED BY InitAInv, NextAInv, InitSignInv, NextSignInv, PTL DEF Spec

\* A pair that was announced is handed to one poll only, however polls and
\* confirmations of one link race.
THEOREM PairsAreClaimedOnce == Spec => []ClaimedOnce
<1>1. AInv /\ SignInv => ClaimedOnce
  BY DEF SignInv, Claims
<1> QED BY SignInvariance, <1>1, PTL

\* Nobody signs in by a code that a registration request for the same account
\* has not generated.
THEOREM CodesAreNeeded == Spec => []SignInNeedsCode
<1>1. AInv /\ SignInv => SignInNeedsCode
  <2> SUFFICES ASSUME AInv, SignInv, NEW r \in Requests, Is(r, "verify"), pair[r] # None
               PROVE  \E q \in Requests : /\ Is(q, "register")
                                          /\ op[q].who = op[r].who
                                          /\ code[q] = op[r].code
    BY DEF SignInNeedsCode
  <2> QED BY DEF SignInv, CodesKnown, Generated
<1> QED BY SignInvariance, <1>1, PTL

=============================================================================
