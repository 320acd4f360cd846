------------------------------- MODULE MCHub --------------------------------
(* Small instances of Hub for TLC.                                          *)
EXTENDS Hub

CONSTANTS a, b

\* Both peers talk, or one talks and the other listens.
EachTwo   == [x \in Clients |-> 2]
Monologue == [x \in Clients |-> IF x = a THEN 3 ELSE 0]

=============================================================================
