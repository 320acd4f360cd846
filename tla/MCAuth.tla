------------------------------- MODULE MCAuth -------------------------------
(* Small instances of Auth for TLC.                                         *)
EXTENDS Auth, TLC

CONSTANTS olena, taras, u1, u2, u3, r1, r2, r3, r4, l1, l2, k1, k2

\* Taras has registered, and may delete anybody; or olena has.
Taras == [u \in UserIds |-> IF u = u3 THEN taras ELSE Unborn]
Olena == [u \in UserIds |-> IF u = u1 THEN olena ELSE Unborn]

JoinKinds    == {"register", "confirm", "poll", "delete"}
SignInKinds  == {"register", "verify", "refresh", "rename", "delete"}
RefreshOnly  == {"refresh"}

JoinSymmetry == Permutations(Requests) \cup Permutations(Links) \cup Permutations(UserIds \ {u3})
RequestSymmetry == Permutations(Requests) \cup Permutations(Codes)

=============================================================================
