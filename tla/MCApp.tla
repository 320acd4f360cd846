-------------------------------- MODULE MCApp --------------------------------
(* A small instance of App for TLC.                                         *)
EXTENDS App, TLC

CONSTANTS olena, u1, u2, c1, c2, w1, l1, k1

\* Olena registers, opens the link twice, and her browser polls.
NoUser == [u \in UserIds |-> Unborn]

AppKinds == {"register", "confirm", "poll"}

AppRequests == Calls \cup ((1..MaxSent) \X (1..Lives))

\* Bounds on what clients do, which nothing in the process depends on: calls
\* and identifiers are used in a fixed order, whoever uploads does not sign in,
\* a process whose listener failed gets one message, and when Olena opens the
\* link twice, one of the two messages at most comes again after a restart, and
\* nobody polls then.
Scenario ==
    /\ pc[c2] # "begin" => pc[c1] # "begin"
    /\ users[u2] # Unborn => users[u1] # Unborn
    /\ (\E w \in Uploads : put[w] # "begin") => \A c \in Calls : pc[c] = "begin"
    /\ Len(sent) = 2 /\ life = 2 => pc[c2] = "begin" /\ acked > 0
    /\ proc = "up" /\ ~listening => Len(sent) < 2

ClientsNext == AppNext /\ Scenario'

ClientsSpec == AppInit /\ [][ClientsNext]_appVars /\ AppFairness

=============================================================================
