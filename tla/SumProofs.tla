------------------------------ MODULE SumProofs ------------------------------
(* What the sums of Sums compute, for every sequence and every finite set,   *)
(* and what division leaves over.                                           *)
EXTENDS Sums, FiniteSetTheorems, TLAPS

-----------------------------------------------------------------------------
(* Induction.                                                               *)

\* The order of the natural numbers is well-founded.
LEMMA NatOrder == IsWellFoundedOn({ss \in Nat \X Nat : ss[1] < ss[2]}, Nat)
BY NatLessThanWellFounded DEF OpToRel

\* A set that holds 0, and with every number the next, holds all of them.
LEMMA Induction ==
  ASSUME NEW T, 0 \in T, \A n \in Nat : n \in T => n + 1 \in T
  PROVE  \A n \in Nat : n \in T
<1> DEFINE Bad == Nat \ T
           R   == {ss \in Nat \X Nat : ss[1] < ss[2]}
<1> SUFFICES ASSUME Bad # {} PROVE FALSE
  OBVIOUS
<1>1. IsWellFoundedOn(R, Nat) /\ Bad \subseteq Nat
  BY NatOrder
<1> HIDE DEF Bad, R
<1>2. PICK x \in Bad : \A y \in Bad : <<y, x>> \notin R
  BY <1>1, WFMin
<1>3. x \in Nat /\ x \notin T /\ x # 0
  BY <1>2 DEF Bad
<1>4. /\ x - 1 \in Nat /\ x - 1 < x /\ (x - 1) + 1 = x
  BY <1>3
<1>5. <<x - 1, x>> \in R
  BY <1>3, <1>4 DEF R
<1>6. x - 1 \in T
  BY <1>2, <1>4, <1>5 DEF Bad
<1> QED BY <1>3, <1>4, <1>6

-----------------------------------------------------------------------------
(* Sequences.                                                               *)

\* s holds the sums of the first n elements of a, for n up to m.
Partial(s, a, m) ==
    /\ \A n \in 0..m : s[n] \in Int
    /\ s[0] = 0
    /\ \A n \in 1..m : s[n] = s[n - 1] + a[n]

\* There are partial sums of any length.
LEMMA PartialExists ==
  ASSUME NEW a \in Seq(Int), NEW m \in 0..Len(a)
  PROVE  \E s : Partial(s, a, m)
<1> DEFINE T == {k \in Nat : k <= Len(a) => \E s : Partial(s, a, k)}
<1>1. 0 \in T
  <2>1. Partial([n \in 0..0 |-> 0], a, 0)
    BY DEF Partial
  <2> QED BY <2>1
<1>2. ASSUME NEW k \in Nat, k \in T PROVE k + 1 \in T
  <2> SUFFICES ASSUME k + 1 <= Len(a) PROVE \E s : Partial(s, a, k + 1)
    OBVIOUS
  <2>1. PICK s : Partial(s, a, k)
    BY <1>2
  <2> DEFINE t == [n \in 0..(k + 1) |-> IF n = k + 1 THEN s[k] + a[k + 1] ELSE s[n]]
  <2>2. k + 1 \in 1..Len(a) /\ a[k + 1] \in Int
    BY <1>2
  <2>3. t \in [0..(k + 1) -> Int]
    BY <1>2, <2>1, <2>2 DEF Partial
  <2>4. t[0] = 0
    BY <1>2, <2>1 DEF Partial
  <2>5. ASSUME NEW n \in 1..(k + 1) PROVE t[n] = t[n - 1] + a[n]
    <3>1. CASE n = k + 1
      BY <1>2, <3>1
    <3>2. CASE n \in 1..k
      <4>1. t[n] = s[n] /\ t[n - 1] = s[n - 1]
        BY <1>2, <3>2
      <4> QED BY <2>1, <3>2, <4>1 DEF Partial
    <3> QED BY <1>2, <3>1, <3>2
  <2> HIDE DEF t
  <2> QED BY <2>3, <2>4, <2>5 DEF Partial
<1> HIDE DEF T
<1>3. m \in Nat /\ m <= Len(a)
  OBVIOUS
<1>4. m \in T
  BY <1>1, <1>2, <1>3, Induction
<1> QED BY <1>3, <1>4 DEF T

\* There is one way to add up the first m elements.
LEMMA PartialUnique ==
  ASSUME NEW a, NEW s, NEW t, NEW m \in Nat, Partial(s, a, m), Partial(t, a, m)
  PROVE  s[m] = t[m]
<1> DEFINE T == {n \in Nat : n <= m => s[n] = t[n]}
<1>1. 0 \in T
  BY DEF Partial
<1>2. ASSUME NEW n \in Nat, n \in T PROVE n + 1 \in T
  <2> SUFFICES ASSUME n + 1 <= m PROVE s[n + 1] = t[n + 1]
    OBVIOUS
  <2>1. n + 1 \in 1..m /\ (n + 1) - 1 = n
    BY <1>2
  <2>2. s[n + 1] = s[n] + a[n + 1] /\ t[n + 1] = t[n] + a[n + 1]
    BY <2>1 DEF Partial
  <2> QED BY <1>2, <2>1, <2>2
<1> HIDE DEF T
<1>3. m \in T
  BY <1>1, <1>2, Induction
<1> QED BY <1>3 DEF T

\* SumSeq is the last of the partial sums.
LEMMA SumSeqIsPartial ==
  ASSUME NEW a \in Seq(Int)
  PROVE  \E s : Partial(s, a, Len(a)) /\ SumSeq(a) = s[Len(a)]
<1> DEFINE Body(s) == [n \in 0..Len(a) |-> IF n = 0 THEN 0 ELSE s[n - 1] + a[n]]
           t == CHOOSE s : s = Body(s)
<1>1. Len(a) \in Nat /\ Len(a) \in 0..Len(a)
  OBVIOUS
<1>2. PICK s : Partial(s, a, Len(a))
  BY <1>1, PartialExists
<1>3. \E f : f = Body(f)
  <2> DEFINE f == [n \in 0..Len(a) |-> s[n]]
  <2>1. ASSUME NEW n \in 0..Len(a) PROVE s[n] = IF n = 0 THEN 0 ELSE f[n - 1] + a[n]
    <3>1. CASE n = 0
      BY <1>2, <3>1 DEF Partial
    <3>2. CASE n # 0
      <4>1. n \in 1..Len(a) /\ n - 1 \in 0..Len(a)
        BY <1>1, <3>2
      <4> QED BY <1>2, <3>2, <4>1 DEF Partial
    <3> QED BY <3>1, <3>2
  <2> QED BY <2>1
<1>4. t = Body(t)
  BY <1>3
<1>5. SumSeq(a) = t[Len(a)]
  BY DEF SumSeq
<1> HIDE DEF t
<1>6. t[0] = 0 /\ \A n \in 1..Len(a) : t[n] = t[n - 1] + a[n]
  BY <1>1, <1>4
<1>7. \A n \in 0..Len(a) : t[n] = s[n]
  <2> DEFINE T == {n \in Nat : n <= Len(a) => t[n] = s[n]}
  <2>1. 0 \in T
    BY <1>2, <1>6 DEF Partial
  <2>2. ASSUME NEW n \in Nat, n \in T PROVE n + 1 \in T
    <3> SUFFICES ASSUME n + 1 <= Len(a) PROVE t[n + 1] = s[n + 1]
      OBVIOUS
    <3>1. n + 1 \in 1..Len(a) /\ (n + 1) - 1 = n
      BY <1>1, <2>2
    <3> QED BY <1>2, <1>6, <2>2, <3>1 DEF Partial
  <2> HIDE DEF T
  <2>3. \A n \in Nat : n \in T
    BY <2>1, <2>2, Induction
  <2> QED BY <1>1, <2>3 DEF T
<1> QED BY <1>1, <1>2, <1>5, <1>7

\* An empty sequence sums to 0, and every sum is a number.
LEMMA SumSeqType ==
  ASSUME NEW a \in Seq(Int)
  PROVE  SumSeq(a) \in Int /\ (a = <<>> => SumSeq(a) = 0)
<1>1. PICK s : Partial(s, a, Len(a)) /\ SumSeq(a) = s[Len(a)]
  BY SumSeqIsPartial
<1>2. Len(a) \in 0..Len(a) /\ (a = <<>> => Len(a) = 0)
  OBVIOUS
<1> QED BY <1>1, <1>2 DEF Partial

\* An element more is added to the sum.
LEMMA SumSeqAppend ==
  ASSUME NEW a \in Seq(Int), NEW b \in Seq(Int),
         Len(b) = Len(a) + 1, \A n \in 1..Len(a) : b[n] = a[n]
  PROVE  SumSeq(b) = SumSeq(a) + b[Len(b)]
<1>1. PICK s : Partial(s, a, Len(a)) /\ SumSeq(a) = s[Len(a)]
  BY SumSeqIsPartial
<1>2. PICK t : Partial(t, b, Len(b)) /\ SumSeq(b) = t[Len(b)]
  BY SumSeqIsPartial
<1>3. Len(a) \in Nat /\ Len(b) \in Nat /\ Len(b) \in 1..Len(b) /\ Len(b) - 1 = Len(a)
  OBVIOUS
<1>4. Partial(t, a, Len(a))
  <2>1. Len(a) \in 0..Len(b)
    BY <1>3
  <2> QED BY <1>2, <1>3, <2>1 DEF Partial
<1>5. s[Len(a)] = t[Len(a)]
  BY <1>1, <1>3, <1>4, PartialUnique
<1> QED BY <1>1, <1>2, <1>3, <1>5 DEF Partial

\* Numbers that are not negative sum to one that is not.
LEMMA SumSeqNatural ==
  ASSUME NEW a \in Seq(Nat)
  PROVE  SumSeq(a) \in Nat
<1>0. a \in Seq(Int) /\ Len(a) \in Nat /\ \A n \in 1..Len(a) : a[n] \in Nat
  OBVIOUS
<1>1. PICK s : Partial(s, a, Len(a)) /\ SumSeq(a) = s[Len(a)]
  BY <1>0, SumSeqIsPartial
<1> DEFINE T == {n \in Nat : n <= Len(a) => s[n] \in Nat}
<1>2. 0 \in T
  BY <1>1 DEF Partial
<1>3. ASSUME NEW n \in Nat, n \in T PROVE n + 1 \in T
  <2> SUFFICES ASSUME n + 1 <= Len(a) PROVE s[n + 1] \in Nat
    OBVIOUS
  <2>1. n + 1 \in 1..Len(a) /\ (n + 1) - 1 = n
    BY <1>0, <1>3
  <2>2. s[n + 1] = s[n] + a[n + 1]
    BY <1>1, <2>1 DEF Partial
  <2> QED BY <1>0, <1>3, <2>1, <2>2
<1> HIDE DEF T
<1>4. Len(a) \in T
  BY <1>0, <1>2, <1>3, Induction
<1> QED BY <1>0, <1>1, <1>4 DEF T

-----------------------------------------------------------------------------
(* Finite sets.                                                             *)

\* s adds up f over every part of S, whichever element is taken first.
Adds(s, f, S) ==
    /\ s[{}] = 0
    /\ \A T \in SUBSET S : s[T] \in Int /\ \A x \in T : s[T] = f[x] + s[T \ {x}]

\* A part of a finite set that lacks one element has one less.
LEMMA OneLess ==
  ASSUME NEW S, IsFiniteSet(S), NEW T \in SUBSET S, NEW x \in T, NEW n \in Nat,
         Cardinality(T) = n + 1
  PROVE  T \ {x} \in SUBSET S /\ Cardinality(T \ {x}) = n
<1>1. IsFiniteSet(T)
  BY FS_Subset
<1>2. Cardinality(T \ {x}) = Cardinality(T) - 1
  BY <1>1, FS_RemoveElement
<1> QED BY <1>2

\* A part with no element is empty, and one with some is not.
LEMMA NoneLeft ==
  ASSUME NEW S, IsFiniteSet(S), NEW T \in SUBSET S
  PROVE  Cardinality(T) \in Nat /\ (Cardinality(T) = 0 <=> T = {})
  BY FS_Subset, FS_EmptySet, FS_CardinalityType

\* P holds the empty part of S, and every part when it holds that part without
\* one of its elements.
Grows(P, S) ==
    /\ {} \in P
    /\ \A T \in SUBSET S : T # {} => \E x \in T : T \ {x} \in P => T \in P

\* What grows so reaches the whole of a finite set.
LEMMA PartInduction ==
  ASSUME NEW S, IsFiniteSet(S), NEW P, Grows(P, S)
  PROVE  S \in P
<1> DEFINE N == {n \in Nat : \A T \in SUBSET S : Cardinality(T) = n => T \in P}
<1>1. 0 \in N
  BY NoneLeft DEF Grows
<1>2. ASSUME NEW n \in Nat, n \in N PROVE n + 1 \in N
  <2> SUFFICES ASSUME NEW T \in SUBSET S, Cardinality(T) = n + 1 PROVE T \in P
    OBVIOUS
  <2>1. T # {}
    BY <1>2, NoneLeft
  <2>2. PICK x \in T : T \ {x} \in P => T \in P
    BY <2>1 DEF Grows
  <2>3. T \ {x} \in SUBSET S /\ Cardinality(T \ {x}) = n
    BY <1>2, OneLess
  <2> QED BY <1>2, <2>2, <2>3
<1> HIDE DEF N
<1>3. \A n \in Nat : n \in N
  BY <1>1, <1>2, Induction
<1>4. S \in SUBSET S /\ Cardinality(S) \in Nat
  BY FS_CardinalityType
<1> QED BY <1>3, <1>4 DEF N

\* What is added up is added up in one way.
LEMMA AddsExists ==
  ASSUME NEW S, IsFiniteSet(S), NEW f, \A x \in S : f[x] \in Int
  PROVE  \E s : Adds(s, f, S)
<1> DEFINE P == {T \in SUBSET S : \E s : Adds(s, f, T)}
<1>1. {} \in P
  <2>1. Adds([T \in {{}} |-> 0], f, {})
    BY DEF Adds
  <2> QED BY <2>1
<1>2. ASSUME NEW R \in SUBSET S, R # {} PROVE \E y \in R : R \ {y} \in P => R \in P
  <2>1. PICK y \in R : TRUE
    BY <1>2
  <2> SUFFICES ASSUME R \ {y} \in P PROVE R \in P
    OBVIOUS
  <2>2. PICK s : Adds(s, f, R \ {y})
    OBVIOUS
  <2> DEFINE t == [T \in SUBSET R |-> IF y \in T THEN f[y] + s[T \ {y}] ELSE s[T]]
  <2>3. t[{}] = 0
    BY <2>2 DEF Adds
  <2>4. f[y] \in Int
    OBVIOUS
  <2>5. ASSUME NEW T \in SUBSET R PROVE t[T] \in Int
    <3>1. CASE y \in T
      <4>1. T \ {y} \in SUBSET (R \ {y})
        OBVIOUS
      <4> QED BY <2>2, <2>4, <3>1, <4>1 DEF Adds
    <3>2. CASE y \notin T
      <4>1. T \in SUBSET (R \ {y})
        BY <3>2
      <4> QED BY <2>2, <3>2, <4>1 DEF Adds
    <3> QED BY <3>1, <3>2
  <2>6. ASSUME NEW T \in SUBSET R, NEW x \in T PROVE t[T] = f[x] + t[T \ {x}]
    <3>0. T \ {x} \in SUBSET R
      OBVIOUS
    <3>1. CASE x = y
      <4>1. t[T] = f[y] + s[T \ {y}] /\ t[T \ {y}] = s[T \ {y}]
        BY <3>0, <3>1
      <4> QED BY <3>1, <4>1
    <3>2. CASE x # y /\ y \in T
      <4>1. /\ T \ {y} \in SUBSET (R \ {y}) /\ x \in T \ {y}
            /\ (T \ {y}) \ {x} \in SUBSET (R \ {y})
            /\ (T \ {y}) \ {x} = (T \ {x}) \ {y}
        BY <3>2
      <4>2. /\ s[T \ {y}] = f[x] + s[(T \ {y}) \ {x}]
            /\ s[(T \ {y}) \ {x}] \in Int
        BY <2>2, <4>1 DEF Adds
      <4>3. t[T] = f[y] + s[T \ {y}] /\ t[T \ {x}] = f[y] + s[(T \ {x}) \ {y}]
        BY <3>0, <3>2
      <4>4. f[x] \in Int
        OBVIOUS
      <4>5. t[T \ {x}] = f[y] + s[(T \ {y}) \ {x}]
        BY <4>1, <4>3
      <4> HIDE DEF t
      <4> QED BY <2>4, <4>2, <4>3, <4>4, <4>5
    <3>3. CASE y \notin T
      <4>1. T \in SUBSET (R \ {y})
        BY <3>3
      <4>2. t[T] = s[T] /\ t[T \ {x}] = s[T \ {x}]
        BY <3>0, <3>3
      <4> QED BY <2>2, <4>1, <4>2 DEF Adds
    <3> QED BY <3>1, <3>2, <3>3
  <2> HIDE DEF t
  <2>7. Adds(t, f, R)
    BY <2>3, <2>5, <2>6 DEF Adds
  <2> QED BY <2>7
<1> HIDE DEF P
<1>3. Grows(P, S)
  BY <1>1, <1>2 DEF Grows
<1>4. S \in P
  BY <1>3, PartInduction
<1> QED BY <1>4 DEF P

\* Renaming the elements of a set does not change what they add up to.
LEMMA AddsMapped ==
  ASSUME NEW S, IsFiniteSet(S), NEW f, NEW s, Adds(s, f, S),
         NEW R, NEW g, NEW t, Adds(t, g, R),
         NEW b, \A x \in S : b[x] \in R /\ g[b[x]] = f[x],
         \A x, y \in S : b[x] = b[y] => x = y
  PROVE  s[S] = t[{b[x] : x \in S}]
<1> DEFINE Image(T) == {b[x] : x \in T}
           P == {T \in SUBSET S : s[T] = t[Image(T)]}
<1>1. {} \in P
  <2>1. Image({}) = {}
    OBVIOUS
  <2> QED BY <2>1 DEF Adds
<1>2. ASSUME NEW T \in SUBSET S, T # {} PROVE \E x \in T : T \ {x} \in P => T \in P
  <2>1. PICK x \in T : TRUE
    BY <1>2
  <2> SUFFICES ASSUME T \ {x} \in P PROVE s[T] = t[Image(T)]
    OBVIOUS
  <2>2. Image(T) \in SUBSET R /\ b[x] \in Image(T)
    OBVIOUS
  <2>3. Image(T \ {x}) = Image(T) \ {b[x]}
    OBVIOUS
  <2>4. s[T] = f[x] + s[T \ {x}]
    BY DEF Adds
  <2>5. t[Image(T)] = g[b[x]] + t[Image(T) \ {b[x]}]
    BY <2>2 DEF Adds
  <2>6. s[T \ {x}] = t[Image(T \ {x})]
    OBVIOUS
  <2>7. g[b[x]] = f[x]
    OBVIOUS
  <2> HIDE DEF Image
  <2> QED BY <2>3, <2>4, <2>5, <2>6, <2>7
<1> HIDE DEF P
<1>3. Grows(P, S)
  BY <1>1, <1>2 DEF Grows
<1>4. S \in P
  BY <1>3, PartInduction
<1> QED BY <1>4 DEF P

\* SumSet adds up.
LEMMA SumSetAdds ==
  ASSUME NEW S, IsFiniteSet(S), NEW f, \A x \in S : f[x] \in Int
  PROVE  \E s : Adds(s, f, S) /\ SumSet(f, S) = s[S]
<1> DEFINE Body(s) == [T \in SUBSET S |->
                          IF T = {} THEN 0
                          ELSE LET x == CHOOSE x \in T : TRUE IN f[x] + s[T \ {x}]]
           t == CHOOSE s : s = Body(s)
<1>1. PICK s : Adds(s, f, S)
  BY AddsExists
<1>2. \E r : r = Body(r)
  <2> DEFINE r == [T \in SUBSET S |-> s[T]]
  <2>1. ASSUME NEW T \in SUBSET S
        PROVE  s[T] = IF T = {} THEN 0
                      ELSE LET x == CHOOSE x \in T : TRUE IN f[x] + r[T \ {x}]
    <3>1. CASE T = {}
      BY <1>1, <3>1 DEF Adds
    <3>2. CASE T # {}
      <4> DEFINE x == CHOOSE x \in T : TRUE
      <4>1. x \in T
        BY <3>2
      <4> HIDE DEF x
      <4>2. T \ {x} \in SUBSET S
        OBVIOUS
      <4>3. s[T] = f[x] + s[T \ {x}]
        BY <1>1, <4>1 DEF Adds
      <4> QED BY <3>2, <4>2, <4>3 DEF x
    <3> QED BY <3>1, <3>2
  <2> QED BY <2>1
<1>3. t = Body(t)
  BY <1>2
<1>4. SumSet(f, S) = t[S]
  BY DEF SumSet
<1> HIDE DEF t
<1> DEFINE P == {T \in SUBSET S : t[T] = s[T]}
<1>5. {} \in P
  <2>1. {} \in SUBSET S
    OBVIOUS
  <2>2. t[{}] = 0
    BY <1>3, <2>1
  <2> QED BY <1>1, <2>1, <2>2 DEF Adds
<1>6. ASSUME NEW T \in SUBSET S, T # {} PROVE \E x \in T : T \ {x} \in P => T \in P
  <2> DEFINE x == CHOOSE x \in T : TRUE
  <2>1. x \in T
    BY <1>6
  <2>2. t[T] = f[x] + t[T \ {x}]
    BY <1>3, <1>6
  <2> HIDE DEF x
  <2>3. s[T] = f[x] + s[T \ {x}]
    BY <1>1, <2>1 DEF Adds
  <2> QED BY <2>1, <2>2, <2>3
<1> HIDE DEF P
<1>7. Grows(P, S)
  BY <1>5, <1>6 DEF Grows
<1>8. S \in P
  BY <1>7, PartInduction
<1> QED BY <1>1, <1>4, <1>8 DEF P

\* A sum over a set is a number, and 0 if the set is empty.
LEMMA SumSetType ==
  ASSUME NEW S, IsFiniteSet(S), NEW f, \A x \in S : f[x] \in Int
  PROVE  SumSet(f, S) \in Int /\ (S = {} => SumSet(f, S) = 0)
<1>1. PICK s : Adds(s, f, S) /\ SumSet(f, S) = s[S]
  BY SumSetAdds
<1> QED BY <1>1 DEF Adds

\* A new element is added to the sum.
LEMMA SumSetGrows ==
  ASSUME NEW S, IsFiniteSet(S), NEW y, y \notin S,
         NEW f, NEW g, \A x \in S : f[x] \in Int /\ g[x] = f[x], g[y] \in Int
  PROVE  SumSet(g, S \cup {y}) = SumSet(f, S) + g[y]
<1>1. IsFiniteSet(S \cup {y}) /\ \A x \in S \cup {y} : g[x] \in Int
  BY FS_AddElement
<1>2. PICK t : Adds(t, g, S \cup {y}) /\ SumSet(g, S \cup {y}) = t[S \cup {y}]
  BY <1>1, SumSetAdds
<1>3. PICK s : Adds(s, f, S) /\ SumSet(f, S) = s[S]
  BY SumSetAdds
<1>4. t[S \cup {y}] = g[y] + t[S]
  <2>1. S = (S \cup {y}) \ {y} /\ S \cup {y} \in SUBSET (S \cup {y}) /\ y \in S \cup {y}
    OBVIOUS
  <2> QED BY <1>2, <2>1 DEF Adds
<1>5. s[S] = t[S]
  <2> DEFINE b == [x \in S |-> x]
  <2>1. /\ \A x \in S : b[x] \in S \cup {y} /\ g[b[x]] = f[x]
        /\ \A x, z \in S : b[x] = b[z] => x = z
        /\ {b[x] : x \in S} = S
    OBVIOUS
  <2> HIDE DEF b
  <2> QED BY <1>2, <1>3, <2>1, AddsMapped
<1>6. t[S] \in Int
  BY <1>2 DEF Adds
<1> QED BY <1>2, <1>3, <1>4, <1>5, <1>6

\* Elements that are renamed, or replaced by others of the same amount, sum up
\* to the same.
LEMMA SumSetMapped ==
  ASSUME NEW S, IsFiniteSet(S), NEW R, IsFiniteSet(R),
         NEW f, \A x \in S : f[x] \in Int, NEW g, \A x \in R : g[x] \in Int,
         NEW b, \A x \in S : b[x] \in R /\ g[b[x]] = f[x],
         \A x, y \in S : b[x] = b[y] => x = y,
         R = {b[x] : x \in S}
  PROVE  SumSet(g, R) = SumSet(f, S)
<1>1. PICK t : Adds(t, g, R) /\ SumSet(g, R) = t[R]
  BY SumSetAdds
<1>2. PICK s : Adds(s, f, S) /\ SumSet(f, S) = s[S]
  BY SumSetAdds
<1> QED BY <1>1, <1>2, AddsMapped

-----------------------------------------------------------------------------
(* Division.                                                                *)

\* A number is a multiple of the divisor and a remainder,
LEMMA Division ==
  ASSUME NEW d \in Nat \ {0}, NEW a \in Int
  PROVE  \E q \in Int : a = d * q + (a % d) /\ a % d \in 0..(d - 1)
<1>1. a = d * (a \div d) + (a % d) /\ a % d \in 0..(d - 1) /\ a \div d \in Int
  OBVIOUS
<1> QED BY <1>1

\* and no other remainder will do.
LEMMA Remainder ==
  ASSUME NEW d \in Nat \ {0}, NEW q \in Int, NEW p \in Int,
         NEW m \in 0..(d - 1), NEW n \in 0..(d - 1), d * q + m = d * p + n
  PROVE  m = n
<1>1. d * (q - p) = n - m
  OBVIOUS
<1>2. CASE q - p >= 1
  <2>1. d * (q - p) >= d
    BY <1>2
  <2> QED BY <1>1, <2>1
<1>3. CASE q - p <= -1
  <2>1. d * (q - p) <= -d
    BY <1>3
  <2> QED BY <1>1, <2>1
<1>4. CASE q - p = 0
  BY <1>4
<1> QED BY <1>2, <1>3, <1>4

=============================================================================
