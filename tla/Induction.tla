------------------------------- MODULE Induction -------------------------------
(***************************************************************************)
(* Induction and recursion over the natural numbers and over the subsets   *)
(* of a finite set.  What is to be shown of every number or subset is      *)
(* given as the set of those that have it, and a step of a recursion as a  *)
(* function, so that the lemmas have no operator for a parameter.          *)
(* Last, what the proofs share about products and quotients.               *)
(***************************************************************************)
EXTENDS Integers, FiniteSetTheorems, WellFoundedInduction, TLAPS

\* The order of the numbers, as a set of pairs.
LEMMA LessWellFounded == IsWellFoundedOn({p \in Nat \X Nat : p[1] < p[2]}, Nat)
  BY NatLessThanWellFounded DEF OpToRel

\* A set of numbers has a least one.
LEMMA LeastNumber ==
  ASSUME NEW S, S \subseteq Nat, S # {}
  PROVE  \E x \in S : \A y \in S : x <= y
  <1>. DEFINE R == {p \in Nat \X Nat : p[1] < p[2]}
  <1>1. IsWellFoundedOn(R, Nat)
    BY LessWellFounded
  <1>2. \A x, y \in Nat : <<y, x>> \in R <=> y < x
    OBVIOUS
  <1>. HIDE DEF R
  <1>3. PICK x \in S : \A y \in S : <<y, x>> \notin R
    BY <1>1, WFMin
  <1>4. x \in Nat
    OBVIOUS
  <1>5. ASSUME NEW y \in S PROVE x <= y
    <2>1. y \in Nat
      OBVIOUS
    <2>2. ~(y < x)
      BY <1>2, <1>3, <1>4, <2>1
    <2>. QED
      BY <1>4, <2>1, <2>2
  <1>. QED
    BY <1>5

\* A set that holds 0, and n + 1 whenever it holds n, holds every number.
LEMMA SetInduction ==
  ASSUME NEW S, 0 \in S, \A n \in Nat : n \in S => n + 1 \in S
  PROVE  Nat \subseteq S
  <1>. SUFFICES ASSUME Nat \ S # {} PROVE FALSE
    OBVIOUS
  <1>1. PICK n \in Nat \ S : \A m \in Nat \ S : n <= m
    <2>1. Nat \ S \subseteq Nat
      OBVIOUS
    <2>. QED
      BY <2>1, LeastNumber
  <1>2. n # 0 /\ n - 1 \in Nat /\ n - 1 \in S
    BY <1>1
  <1>. QED
    BY <1>2

\* A set that holds the empty set, and a subset of S whenever it holds what is
\* left of it without one element or another, holds every subset of S.
LEMMA SubsetInduction ==
  ASSUME NEW S, IsFiniteSet(S), NEW F, {} \in F,
         \A T \in SUBSET S : T # {} /\ (\A x \in T : T \ {x} \in F) => T \in F
  PROVE  SUBSET S \subseteq F
  <1>. DEFINE R == StrictSubsetOrdering(S)
              Bad == (SUBSET S) \ F
  <1>. SUFFICES ASSUME Bad # {} PROVE FALSE
    OBVIOUS
  <1>1. IsWellFoundedOn(R, SUBSET S)
    BY FS_StrictSubsetOrderingWellFounded, FS_FiniteSubsetsOfFinite
  <1>2. PICK T \in Bad : \A U \in Bad : <<U, T>> \notin R
    <2>1. Bad \subseteq SUBSET S
      OBVIOUS
    <2>. HIDE DEF R, Bad
    <2>. QED
      BY <1>1, <2>1, WFMin
  <1>3. ASSUME NEW x \in T PROVE T \ {x} \in F
    <2>1. <<T \ {x}, T>> \in R
      BY DEF StrictSubsetOrdering
    <2>. QED
      BY <1>2, <2>1
  <1>. QED
    BY <1>2, <1>3

------------------------------------------------------------------------------
\* What a recursion with this first value and this step has computed up to n.
Computes(g, n, V, base, step) ==
    /\ g \in [0..n -> V]
    /\ g[0] = base
    /\ \A i \in 0..(n - 1) : g[i + 1] = step[<<i, g[i]>>]

\* However far it goes, it computes the same.
LEMMA ComputesTheSame ==
  ASSUME NEW V, NEW base, NEW step, NEW m \in Nat, NEW n \in Nat, NEW g, NEW h,
         Computes(g, m, V, base, step), Computes(h, n, V, base, step)
  PROVE  \A i \in Nat : i <= m /\ i <= n => g[i] = h[i]
  <1>. DEFINE S == {i \in Nat : i <= m /\ i <= n => g[i] = h[i]}
  <1>1. 0 \in S
    BY DEF Computes
  <1>2. ASSUME NEW i \in Nat, i \in S PROVE i + 1 \in S
    <2>. SUFFICES ASSUME i + 1 <= m, i + 1 <= n PROVE g[i + 1] = h[i + 1]
      OBVIOUS
    <2>1. i \in 0..(m - 1) /\ i \in 0..(n - 1) /\ g[i] = h[i]
      BY <1>2
    <2>. QED
      BY <2>1 DEF Computes
  <1>. HIDE DEF S
  <1>3. Nat \subseteq S
    BY <1>1, <1>2, SetInduction
  <1>. QED
    BY <1>3 DEF S

\* It gets to any n.
LEMMA ComputesAll ==
  ASSUME NEW V, NEW base \in V, NEW step \in [Nat \X V -> V]
  PROVE  \A n \in Nat : \E g : Computes(g, n, V, base, step)
  <1>. DEFINE S == {n \in Nat : \E g : Computes(g, n, V, base, step)}
  <1>1. 0 \in S
    <2>. DEFINE g == [i \in 0..0 |-> base]
    <2>1. Computes(g, 0, V, base, step)
      BY DEF Computes
    <2>. QED
      BY <2>1
  <1>2. ASSUME NEW n \in Nat, n \in S PROVE n + 1 \in S
    <2>1. PICK g : Computes(g, n, V, base, step)
      BY <1>2
    <2>2. g \in [0..n -> V] /\ g[0] = base
          /\ \A i \in 0..(n - 1) : g[i + 1] = step[<<i, g[i]>>]
      BY <2>1 DEF Computes
    <2>. DEFINE h == [i \in 0..(n + 1) |-> IF i <= n THEN g[i] ELSE step[<<n, g[n]>>]]
    <2>3. g[n] \in V /\ <<n, g[n]>> \in Nat \X V /\ step[<<n, g[n]>>] \in V
      BY <2>2
    <2>4. h \in [0..(n + 1) -> V] /\ h[0] = base
      <3>1. ASSUME NEW i \in 0..(n + 1) PROVE h[i] \in V
        <4>1. CASE i <= n
          <5>1. i \in 0..n
            BY <4>1
          <5>. QED
            BY <5>1, <2>2
        <4>. QED
          BY <4>1, <2>3
      <3>. QED
        BY <3>1, <2>2
    <2>5. ASSUME NEW i \in 0..((n + 1) - 1) PROVE h[i + 1] = step[<<i, h[i]>>]
      <3>1. i \in Nat /\ i <= n /\ h[i] = g[i]
        OBVIOUS
      <3>2. CASE i = n
        <4>1. n + 1 \in 0..(n + 1) /\ ~(n + 1 <= n)
          OBVIOUS
        <4>2. h[n + 1] = step[<<n, g[n]>>]
          BY <4>1
        <4>. HIDE DEF h
        <4>. QED
          BY <3>1, <3>2, <4>2
      <3>3. CASE i # n
        <4>. HIDE DEF h
        <4>1. i < n
          BY <3>1, <3>3
        <4>2. i \in 0..(n - 1) /\ i + 1 <= n /\ i + 1 \in 0..(n + 1)
          BY <3>1, <4>1
        <4>3. h[i + 1] = g[i + 1]
          BY <4>2 DEF h
        <4>4. g[i + 1] = step[<<i, g[i]>>]
          BY <4>2, <2>2
        <4>. QED
          BY <3>1, <4>3, <4>4
      <3>. QED
        BY <3>2, <3>3
    <2>6. Computes(h, n + 1, V, base, step)
      <3>. HIDE DEF h
      <3>. QED
        BY <2>4, <2>5 DEF Computes
    <2>. QED
      BY <2>6
  <1>. HIDE DEF S
  <1>3. Nat \subseteq S
    BY <1>1, <1>2, SetInduction
  <1>. QED
    BY <1>3 DEF S

Steps(V) == [Nat \X V -> V]
IsRecursion(f, V, base, step) ==
    /\ f \in [Nat -> V]
    /\ f[0] = base
    /\ \A n \in Nat : f[n + 1] = step[<<n, f[n]>>]

\* There is a function on the numbers that is defined by recursion.
LEMMA NatRecursion ==
  ASSUME NEW V, NEW base \in V, NEW step \in Steps(V)
  PROVE  \E f : IsRecursion(f, V, base, step)
  <1>. DEFINE G(n) == CHOOSE g : Computes(g, n, V, base, step)
              f == [n \in Nat |-> G(n)[n]]
  <1>1. \A n \in Nat : Computes(G(n), n, V, base, step)
    BY ComputesAll DEF Steps
  <1>. HIDE DEF G
  <1>2. f \in [Nat -> V]
    BY <1>1 DEF Computes
  <1>3. f[0] = base
    BY <1>1 DEF Computes
  <1>4. ASSUME NEW n \in Nat PROVE f[n + 1] = step[<<n, f[n]>>]
    <2>1. Computes(G(n), n, V, base, step) /\ Computes(G(n + 1), n + 1, V, base, step)
      BY <1>1
    <2>2. n \in 0..((n + 1) - 1)
      OBVIOUS
    <2>3. G(n + 1)[n + 1] = step[<<n, G(n + 1)[n]>>]
      BY <2>1, <2>2 DEF Computes
    <2>4. G(n + 1)[n] = G(n)[n]
      BY <2>1, ComputesTheSame
    <2>. QED
      BY <2>3, <2>4
  <1>. QED
    BY <1>2, <1>3, <1>4 DEF IsRecursion

TakesOneOut(rest, S) ==
    /\ rest \in [SUBSET S -> SUBSET S]
    /\ \A T \in SUBSET S : T # {} => \E x \in T : rest[T] = T \ {x}
SubsetSteps(S, V) == [(SUBSET S) \X V -> V]
IsSubsetRecursion(f, S, V, base, rest, step) ==
    /\ f \in [SUBSET S -> V]
    /\ f[{}] = base
    /\ \A T \in SUBSET S : T # {} => f[T] = step[<<T, f[rest[T]]>>]

\* There is a function on the subsets of a finite set that is defined by taking
\* one element after the other out of them.
LEMMA SubsetRecursion ==
  ASSUME NEW S, IsFiniteSet(S), NEW V, NEW base \in V,
         NEW rest, TakesOneOut(rest, S), NEW step \in SubsetSteps(S, V)
  PROVE  \E f : IsSubsetRecursion(f, S, V, base, rest, step)
  <1>. USE DEF TakesOneOut, SubsetSteps
  <1>. DEFINE W == [SUBSET S -> V]
              first == [T \in SUBSET S |-> base]
              Next1(g) == [T \in SUBSET S |-> IF T = {} THEN base ELSE step[<<T, g[rest[T]]>>]]
              next == [p \in Nat \X W |-> Next1(p[2])]
  <1>1. first \in W
    OBVIOUS
  <1>2. \A g \in W : Next1(g) \in W
    OBVIOUS
  <1>3. next \in [Nat \X W -> W]
    BY <1>2
  <1>4. \A n \in Nat : \A g \in W : next[<<n, g>>] = Next1(g)
    OBVIOUS
  <1>5. \A g \in W : /\ Next1(g)[{}] = base
                     /\ \A T \in SUBSET S : T # {} => Next1(g)[T] = step[<<T, g[rest[T]]>>]
    OBVIOUS
  <1>6. first[{}] = base
    OBVIOUS
  <1>. HIDE DEF W, first, Next1, next
  <1>7. PICK h \in [Nat -> W] : h[0] = first /\ \A n \in Nat : h[n + 1] = next[<<n, h[n]>>]
    <2>1. next \in Steps(W)
      BY <1>3 DEF Steps
    <2>2. \E h : IsRecursion(h, W, first, next)
      BY <1>1, <2>1, NatRecursion
    <2>. QED
      BY <2>2 DEF IsRecursion
  <1>8. \A T \in SUBSET S : Cardinality(T) \in Nat /\ (Cardinality(T) = 0 <=> T = {})
    BY FS_Subset, FS_CardinalityType, FS_EmptySet
  <1>. DEFINE f == [T \in SUBSET S |-> h[Cardinality(T)][T]]
  <1>9. f \in [SUBSET S -> V]
    BY <1>7, <1>8 DEF W
  <1>10. f[{}] = base
    BY <1>6, <1>7, <1>8
  <1>11. ASSUME NEW T \in SUBSET S, T # {} PROVE f[T] = step[<<T, f[rest[T]]>>]
    <2>1. PICK x \in T : rest[T] = T \ {x}
      BY <1>11
    <2>. DEFINE n == Cardinality(rest[T])
    <2>2. n \in Nat /\ Cardinality(T) = n + 1 /\ rest[T] \in SUBSET S
      BY <1>8, <2>1, FS_RemoveElement, FS_Subset
    <2>. HIDE DEF n
    <2>3. f[T] = h[n + 1][T] /\ f[rest[T]] = h[n][rest[T]]
      BY <2>2 DEF n
    <2>4. h[n + 1] = Next1(h[n]) /\ h[n] \in W
      BY <1>4, <1>7, <2>2
    <2>. QED
      BY <1>5, <1>11, <2>3, <2>4
  <1>. QED
    BY <1>9, <1>10, <1>11 DEF IsSubsetRecursion

------------------------------------------------------------------------------
\* A product of natural numbers is one.
LEMMA ProductOfTwo ==
  ASSUME NEW m \in Nat, NEW n \in Nat
  PROVE  m * n \in Nat
  OBVIOUS

\* The quotient is the only number that fits.
LEMMA Quotient ==
  ASSUME NEW x \in Nat, NEW y \in Nat \ {0}, NEW q \in Nat, y * q <= x, x < y * (q + 1)
  PROVE  x \div y = q
  <1>. DEFINE p == x \div y
  <1>1. p \in Nat /\ y * p <= x /\ x < y * (p + 1)
    OBVIOUS
  <1>. HIDE DEF p
  <1>2. CASE p < q
    <2>1. q - (p + 1) \in Nat /\ y * (q - (p + 1)) \in Nat
      BY <1>1, <1>2, ProductOfTwo
    <2>2. y * q = y * (p + 1) + y * (q - (p + 1))
      BY <1>1
    <2>3. y * q \in Int /\ y * (p + 1) \in Int
      BY <1>1
    <2>. QED
      BY <1>1, <2>1, <2>2, <2>3
  <1>3. CASE q < p
    <2>1. p - (q + 1) \in Nat /\ y * (p - (q + 1)) \in Nat
      BY <1>1, <1>3, ProductOfTwo
    <2>2. y * p = y * (q + 1) + y * (p - (q + 1))
      BY <1>1
    <2>3. y * p \in Int /\ y * (q + 1) \in Int
      BY <1>1
    <2>. QED
      BY <1>1, <2>1, <2>2, <2>3
  <1>. QED
    BY <1>1, <1>2, <1>3 DEF p
================================================================================
