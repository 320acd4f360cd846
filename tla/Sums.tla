-------------------------------- MODULE Sums --------------------------------
(* Sums of numbers in sequences and over finite sets.                       *)
EXTENDS Integers, Sequences, FiniteSets

\* The sum of a sequence of numbers.
SumSeq(a) ==
    LET upTo[n \in 0..Len(a)] == IF n = 0 THEN 0 ELSE upTo[n - 1] + a[n]
    IN  upTo[Len(a)]

\* The sum of f[x] over the elements of a finite set.
SumSet(f, S) ==
    LET sum[T \in SUBSET S] ==
            IF T = {} THEN 0
            ELSE LET x == CHOOSE x \in T : TRUE IN f[x] + sum[T \ {x}]
    IN  sum[S]

=============================================================================
