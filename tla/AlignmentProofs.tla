--------------------------- MODULE AlignmentProofs ---------------------------
(***************************************************************************)
(* Proofs about what the engine computes without a state.                  *)
(*                                                                         *)
(* The aligner, for every page and every reading: both orders of the boxes *)
(* take every box once (EveryBoxIsTaken), a page of columns is read down   *)
(* one after the other (ColumnsAreInOrder), the result is                  *)
(* one the engine may rely on (AlignerIsFaithful), the dynamic programme   *)
(* finds the cheapest alignment there is (AlignmentIsOptimal), and a       *)
(* reading that fits the columns is put there (ColumnsAreFollowed).  Page  *)
(* ranges: every selection survives its text (SelectionsSurvive).          *)
(*                                                                         *)
(* The recursive functions of the model (the reading order, the table of   *)
(* the best paths, the replay) are shown to exist by Recursive, for any    *)
(* recursion that goes down a measure, and what holds of all their values  *)
(* by Downwards, from the least number at which it fails.                  *)
(***************************************************************************)
EXTENDS Alignment, PageRange, FiniteSetTheorems, SequenceTheorems,
        WellFoundedInduction, TLAPS

-----------------------------------------------------------------------------
(* Counting.  The induction theorems of the library take an operator; a    *)
(* set of numbers that is not empty has a least element, and that will do. *)

\* A set of natural numbers has a least element.
LEMMA LeastElement ==
  ASSUME NEW T, T \subseteq Nat, T # {}
  PROVE  \E m \in T : \A k \in T : m <= k
  <1>1. PICK m \in T : \A k \in T : ~(<<k, m>> \in OpToRel(<, Nat))
    BY NatLessThanWellFounded, WFMin
  <1>2. \A k \in T : ~(k < m)
    BY <1>1 DEF OpToRel
  <1> QED BY <1>2

\* A set that holds the first number, and each that follows one of its own,
\* holds the whole interval.
LEMMA Counting ==
  ASSUME NEW lo \in Nat, NEW hi \in Nat, NEW T, lo \in T,
         \A i \in lo + 1 .. hi : i - 1 \in T => i \in T
  PROVE  lo .. hi \subseteq T
  <1> SUFFICES ASSUME (lo .. hi) \ T # {} PROVE FALSE
    OBVIOUS
  <1>1. PICK m \in (lo .. hi) \ T : \A k \in (lo .. hi) \ T : m <= k
    <2> DEFINE U == (lo .. hi) \ T
    <2>1. U \subseteq Nat /\ U # {}
      OBVIOUS
    <2> HIDE DEF U
    <2>2. PICK m \in U : \A k \in U : m <= k
      BY <2>1, LeastElement
    <2> QED BY <2>2 DEF U
  <1>2. m \in lo + 1 .. hi /\ m - 1 \in lo .. hi /\ ~(m <= m - 1)
    BY <1>1
  <1> QED BY <1>1, <1>2

\* f starts with base and goes on by step.
Runs(f, base, step, lo, hi) ==
  /\ f[lo] = base
  /\ \A i \in lo + 1 .. hi : f[i] = step[<<f[i - 1], i>>]

\* A function can be defined on an interval by recursion.
LEMMA Recursion ==
  ASSUME NEW S, NEW base \in S, NEW lo \in Nat, NEW hi \in Nat, lo <= hi,
         NEW step \in [S \X (lo + 1 .. hi) -> S]
  PROVE  \E f \in [lo .. hi -> S] : Runs(f, base, step, lo, hi)
  <1> DEFINE
    Upto(m) == \E f \in [lo .. m -> S] : Runs(f, base, step, lo, m)
    T == {m \in lo .. hi : Upto(m)}
  <1>1. Upto(lo)
    <2> DEFINE f == [i \in lo .. lo |-> base]
    <2>1. f \in [lo .. lo -> S] /\ f[lo] = base /\ lo + 1 .. lo = {}
      OBVIOUS
    <2> HIDE DEF f
    <2> QED BY <2>1 DEF Runs
  <1>2. ASSUME NEW m \in lo + 1 .. hi, Upto(m - 1) PROVE Upto(m)
    <2>1. PICK f \in [lo .. m - 1 -> S] : Runs(f, base, step, lo, m - 1)
      BY <1>2
    <2> DEFINE g == [i \in lo .. m |-> IF i = m THEN step[<<f[m - 1], m>>] ELSE f[i]]
    <2>2. f[m - 1] \in S
      BY <2>1
    <2>3. step[<<f[m - 1], m>>] \in S
      BY <2>2
    <2>4. g \in [lo .. m -> S] /\ g[lo] = base
      BY <2>1, <2>3 DEF Runs
    <2>5. ASSUME NEW i \in lo + 1 .. m PROVE g[i] = step[<<g[i - 1], i>>]
      <3>1. i - 1 \in lo .. m /\ i - 1 # m /\ g[i - 1] = f[i - 1]
        OBVIOUS
      <3>2. CASE i = m
        BY <3>1, <3>2
      <3>3. CASE i # m
        <4>1. i \in lo + 1 .. m - 1 /\ g[i] = f[i]
          BY <3>3
        <4> QED BY <2>1, <3>1, <4>1 DEF Runs
      <3> QED BY <3>2, <3>3
    <2> HIDE DEF g
    <2> QED BY <2>4, <2>5 DEF Runs
  <1> HIDE DEF Upto
  <1>3. lo \in T /\ \A i \in lo + 1 .. hi : i - 1 \in T => i \in T
    BY <1>1, <1>2
  <1>4. lo .. hi \subseteq T
    <2> HIDE DEF T
    <2> QED BY <1>3, Counting
  <1>5. Upto(hi)
    BY <1>4
  <1> QED BY <1>5 DEF Upto

-----------------------------------------------------------------------------
(* Counting from nought, and from one.                                     *)

\* From zero on, one by one, every number is reached.
LEMMA CountFromZero ==
  ASSUME NEW n \in Nat, NEW T, 0 \in T,
         \A i \in 1 .. n : i - 1 \in T => i \in T
  PROVE  n \in T
  <1> DEFINE zero == 0
  <1>1. /\ zero \in Nat /\ zero \in T /\ n \in zero .. n
        /\ \A i \in zero + 1 .. n : i - 1 \in T => i \in T
    OBVIOUS
  <1> HIDE DEF zero
  <1>2. zero .. n \subseteq T
    BY <1>1, Counting
  <1> QED BY <1>1, <1>2

\* Likewise from one on.
LEMMA CountFromOne ==
  ASSUME NEW n \in Nat \ {0}, NEW T, 1 \in T,
         \A i \in 2 .. n : i - 1 \in T => i \in T
  PROVE  n \in T
  <1> DEFINE one == 1
  <1>1. /\ one \in Nat /\ one \in T /\ n \in one .. n
        /\ \A i \in one + 1 .. n : i - 1 \in T => i \in T
    OBVIOUS
  <1> HIDE DEF one
  <1>2. one .. n \subseteq T
    BY <1>1, Counting
  <1> QED BY <1>1, <1>2

-----------------------------------------------------------------------------
(* Recursion.                                                              *)

\* Step makes a function of a function, and its value at x takes no more
\* than the values at places of a smaller measure.
Descends(step, mu, D, S) ==
  \A x \in D : \A f, g \in [D -> S] :
    (\A y \in D : mu[y] < mu[x] => f[y] = g[y]) => step[f][x] = step[g][x]

\* g is what step makes of it, at the places of measure m at most.
FixedUpTo(g, m, step, mu, D, S) ==
  /\ g \in [D -> S]
  /\ \A x \in D : mu[x] <= m => g[x] = step[g][x]

\* Two functions agree where both measures allow.
AgreeUpTo(g, h, m, k, mu, D) ==
  \A x \in D : mu[x] <= m /\ mu[x] <= k => g[x] = h[x]

\* Two functions that a step which looks down leaves as they are, up to some
\* measure, agree as far as both go.
LEMMA FixedAgree ==
  ASSUME NEW D, NEW S, NEW mu \in [D -> Nat],
         NEW step \in [[D -> S] -> [D -> S]], Descends(step, mu, D, S),
         NEW m \in Nat, NEW k \in Nat, NEW g, NEW h,
         FixedUpTo(g, m, step, mu, D, S), FixedUpTo(h, k, step, mu, D, S)
  PROVE  AgreeUpTo(g, h, m, k, mu, D)
  <1> DEFINE
    Bad == {y \in D : mu[y] <= m /\ mu[y] <= k /\ g[y] # h[y]}
    T == {mu[y] : y \in Bad}
  <1> SUFFICES ASSUME NEW x \in D, mu[x] <= m, mu[x] <= k, g[x] # h[x]
               PROVE  FALSE
    BY DEF AgreeUpTo
  <1>1. T \subseteq Nat /\ T # {}
    <2>1. mu[x] \in T
      OBVIOUS
    <2> QED BY <2>1
  <1>2. PICK least \in T : \A i \in T : least <= i
    <2> HIDE DEF T
    <2> QED BY <1>1, LeastElement
  <1>3. PICK z \in Bad : mu[z] = least
    BY <1>2
  <1>4. z \in D /\ mu[z] <= m /\ mu[z] <= k /\ g[z] # h[z] /\ mu[z] \in Nat
    BY <1>3
  <1>5. ASSUME NEW y \in D, mu[y] < mu[z] PROVE g[y] = h[y]
    <2>1. mu[y] \in Nat
      OBVIOUS
    <2>2. mu[y] <= m /\ mu[y] <= k
      BY <1>4, <1>5, <2>1
    <2>3. mu[y] \notin T
      <3> HIDE DEF T
      <3> QED BY <1>2, <1>3, <1>4, <1>5, <2>1
    <2>4. y \notin Bad
      BY <2>3
    <2> QED BY <2>2, <2>4
  <1>6. step[g][z] = step[h][z]
    BY <1>4, <1>5 DEF Descends, FixedUpTo
  <1> QED BY <1>4, <1>6 DEF FixedUpTo

\* There is a function that is what step makes of it.
IsDefined(step, D, S) == \E f \in [D -> S] : f = step[f]

\* A function can be defined by recursion that goes down.
LEMMA Recursive ==
  ASSUME NEW D, NEW S, S # {}, NEW mu \in [D -> Nat],
         NEW step \in [[D -> S] -> [D -> S]], Descends(step, mu, D, S)
  PROVE  IsDefined(step, D, S)
  <1> DEFINE
    Fixed(m) == \E g : FixedUpTo(g, m, step, mu, D, S)
  <1>1. ASSUME NEW m \in Nat PROVE Fixed(m)
    <2> DEFINE T == {i \in 0 .. m : Fixed(i)}
    <2>1. Fixed(0)
      <3>1. PICK s \in S : TRUE
        OBVIOUS
      <3> DEFINE f == [x \in D |-> s]
      <3>2. f \in [D -> S] /\ step[f] \in [D -> S]
        OBVIOUS
      <3> HIDE DEF f
      <3>3. ASSUME NEW x \in D, mu[x] <= 0
            PROVE  step[f][x] = step[step[f]][x]
        <4>1. \A y \in D : ~(mu[y] < mu[x])
          BY <3>3
        <4> QED BY <3>2, <4>1 DEF Descends
      <3>4. FixedUpTo(step[f], 0, step, mu, D, S)
        BY <3>2, <3>3 DEF FixedUpTo
      <3> QED BY <3>4
    <2>2. ASSUME NEW i \in 1 .. m, Fixed(i - 1) PROVE Fixed(i)
      <3>1. PICK g : FixedUpTo(g, i - 1, step, mu, D, S)
        BY <2>2
      <3>2. g \in [D -> S] /\ step[g] \in [D -> S]
        BY <3>1 DEF FixedUpTo
      <3>3. ASSUME NEW x \in D, mu[x] <= i
            PROVE  step[g][x] = step[step[g]][x]
        <4>1. ASSUME NEW y \in D, mu[y] < mu[x] PROVE g[y] = step[g][y]
          <5>1. mu[y] \in Nat /\ mu[x] \in Nat /\ i \in Nat
            OBVIOUS
          <5>2. mu[y] <= i - 1
            BY <3>3, <4>1, <5>1
          <5> QED BY <3>1, <5>2 DEF FixedUpTo
        <4> QED BY <3>2, <4>1 DEF Descends
      <3>4. FixedUpTo(step[g], i, step, mu, D, S)
        BY <3>2, <3>3 DEF FixedUpTo
      <3> QED BY <3>4
    <2> HIDE DEF Fixed
    <2>3. 0 \in T /\ \A i \in 1 .. m : i - 1 \in T => i \in T
      BY <2>1, <2>2
    <2>4. m \in T
      <3> HIDE DEF T
      <3> QED BY <2>3, CountFromZero
    <2> QED BY <2>4
  <1> DEFINE
    upTo(m) == CHOOSE g : FixedUpTo(g, m, step, mu, D, S)
    f == [x \in D |-> upTo(mu[x])[x]]
  <1>2. \A m \in Nat : FixedUpTo(upTo(m), m, step, mu, D, S)
    BY <1>1
  <1> HIDE DEF upTo
  <1>3. ASSUME NEW x \in D
        PROVE  /\ upTo(mu[x]) \in [D -> S]
               /\ upTo(mu[x])[x] = step[upTo(mu[x])][x]
    BY <1>2 DEF FixedUpTo
  <1>4. f \in [D -> S]
    BY <1>3
  <1>5. ASSUME NEW x \in D PROVE f[x] = step[f][x]
    <2>1. ASSUME NEW y \in D, mu[y] < mu[x]
          PROVE  f[y] = upTo(mu[x])[y]
      <3>1. mu[y] \in Nat /\ mu[x] \in Nat /\ mu[y] <= mu[y] /\ mu[y] <= mu[x]
        BY <2>1
      <3>2. /\ FixedUpTo(upTo(mu[y]), mu[y], step, mu, D, S)
            /\ FixedUpTo(upTo(mu[x]), mu[x], step, mu, D, S)
        BY <1>2, <3>1
      <3> DEFINE a == mu[y]
                 b == mu[x]
                 g == upTo(a)
                 h == upTo(b)
      <3>3. /\ a \in Nat /\ b \in Nat /\ mu[y] <= a /\ mu[y] <= b
            /\ FixedUpTo(g, a, step, mu, D, S)
            /\ FixedUpTo(h, b, step, mu, D, S)
        BY <3>1, <3>2
      <3>4. f[y] = g[y]
        OBVIOUS
      <3> HIDE DEF g, h, a, b, f
      <3>5. AgreeUpTo(g, h, a, b, mu, D)
        BY <3>3, FixedAgree
      <3>6. g[y] = h[y]
        BY <3>3, <3>5 DEF AgreeUpTo
      <3> QED BY <3>4, <3>6 DEF h, b
    <2>2. f[x] = upTo(mu[x])[x]
      OBVIOUS
    <2> HIDE DEF f
    <2>3. step[f][x] = step[upTo(mu[x])][x]
      BY <1>3, <1>4, <2>1 DEF Descends
    <2> QED BY <1>3, <2>2, <2>3
  <1> HIDE DEF f
  <1>6. f = step[f]
    BY <1>4, <1>5
  <1> QED BY <1>4, <1>6 DEF IsDefined

\* What holds wherever it holds at all places of a smaller measure holds
\* everywhere.
LEMMA Downwards ==
  ASSUME NEW D, NEW mu \in [D -> Nat], NEW T,
         \A x \in D : (\A y \in D : mu[y] < mu[x] => y \in T) => x \in T
  PROVE  D \subseteq T
  <1> DEFINE Bad == D \ T
             M == {mu[x] : x \in Bad}
  <1> SUFFICES ASSUME Bad # {} PROVE FALSE
    OBVIOUS
  <1>1. M \subseteq Nat /\ M # {}
    OBVIOUS
  <1>2. PICK least \in M : \A i \in M : least <= i
    <2> HIDE DEF M
    <2> QED BY <1>1, LeastElement
  <1>3. PICK x \in Bad : mu[x] = least
    BY <1>2
  <1>4. ASSUME NEW y \in D, mu[y] < mu[x] PROVE y \in T
    <2>1. mu[y] \in Nat /\ mu[x] \in Nat
      BY <1>3
    <2>2. mu[y] \notin M
      <3> HIDE DEF M
      <3> QED BY <1>2, <1>3, <1>4, <2>1
    <2> QED BY <2>2
  <1> QED BY <1>3, <1>4

-----------------------------------------------------------------------------
(* Sorting.                                                                *)

\* R orders the numbers up to n.
Orders(R, n) ==
  /\ \A p \in 1 .. n : <<p, p>> \notin R
  /\ \A p, q, r \in 1 .. n : <<p, q>> \in R /\ <<q, r>> \in R => <<p, r>> \in R
  /\ \A p, q \in 1 .. n : p # q => <<p, q>> \in R \/ <<q, p>> \in R

\* One of U comes before all others.
Leads(R, U) == \E p \in U : \A q \in U : q # p => <<p, q>> \in R

\* Of some numbers one comes first in such an order.
LEMMA Smallest ==
  ASSUME NEW n \in Nat, NEW R, Orders(R, n), NEW U, U \subseteq 1 .. n, U # {}
  PROVE  Leads(R, U)
  <1> DEFINE
    Least(V) == \E p \in V : \A q \in V : q # p => <<p, q>> \in R
    T == {m \in 0 .. n : U \cap (1 .. m) = {} \/ Least(U \cap (1 .. m))}
  <1>1. 0 \in T
    OBVIOUS
  <1>2. ASSUME NEW m \in 1 .. n, m - 1 \in T PROVE m \in T
    <2> DEFINE V == U \cap (1 .. m - 1)
               W == U \cap (1 .. m)
    <2>1. V = {} \/ Least(V)
      BY <1>2
    <2>2. CASE m \notin U
      <3>1. W = V
        BY <2>2
      <3> HIDE DEF V, W, Least
      <3>2. W = {} \/ Least(W)
        BY <2>1, <3>1
      <3> QED BY <3>2 DEF W
    <2>3. CASE m \in U
      <3>1. W = V \cup {m} /\ m \notin V /\ V \subseteq 1 .. n
        BY <2>3
      <3> HIDE DEF V, W
      <3>2. CASE V = {}
        BY <3>1, <3>2 DEF W
      <3>3. CASE V # {}
        <4>1. PICK p \in V : \A q \in V : q # p => <<p, q>> \in R
          BY <2>1, <3>3
        <4>2. p # m /\ p \in 1 .. n
          BY <3>1, <4>1
        <4>3. CASE <<p, m>> \in R
          <5>1. \A q \in W : q # p => <<p, q>> \in R
            BY <3>1, <4>1, <4>3
          <5>2. p \in W
            BY <3>1
          <5> QED BY <5>1, <5>2 DEF W
        <4>4. CASE <<m, p>> \in R
          <5>1. \A q \in V : q # p => <<m, q>> \in R
            BY <3>1, <4>1, <4>2, <4>4 DEF Orders
          <5>2. \A q \in W : q # m => <<m, q>> \in R
            BY <3>1, <4>4, <5>1
          <5>3. m \in W
            BY <3>1
          <5> QED BY <5>2, <5>3 DEF W
        <4> QED BY <4>2, <4>3, <4>4 DEF Orders
      <3> QED BY <3>2, <3>3
    <2> QED BY <2>2, <2>3
  <1>3. n \in T
    <2> HIDE DEF T
    <2> QED BY <1>1, <1>2, CountFromZero
  <1>4. U \cap (1 .. n) = U
    OBVIOUS
  <1> HIDE DEF Least
  <1>5. Least(U)
    BY <1>3, <1>4
  <1> QED BY <1>5 DEF Least, Leads

\* In such an order there is one with none before it, one with one before
\* it, and so on.
LEMMA RankIsTaken ==
  ASSUME NEW n \in Nat, NEW R, Orders(R, n), NEW k \in 1 .. n
  PROVE  \E p \in 1 .. n :
           Cardinality({q \in 1 .. n : <<q, p>> \in R}) = k - 1
  <1> DEFINE
    Below(p) == {q \in 1 .. n : <<q, p>> \in R}
    T == {m \in 1 .. n : \E p \in 1 .. n : Cardinality(Below(p)) = m - 1}
  <1>0. IsFiniteSet(1 .. n) /\ Cardinality(1 .. n) = n
    BY FS_Interval
  <1>1. 1 \in T
    <2> DEFINE all == 1 .. n
    <2>0. all \subseteq 1 .. n /\ all # {}
      OBVIOUS
    <2>1. PICK p \in 1 .. n : \A q \in 1 .. n : q # p => <<p, q>> \in R
      <3> HIDE DEF all
      <3>1. Leads(R, all)
        BY <2>0, Smallest
      <3> QED BY <3>1 DEF Leads, all
    <2>2. Below(p) = {}
      BY <2>1 DEF Orders
    <2>3. Cardinality(Below(p)) = 0
      BY <2>2, FS_EmptySet
    <2> HIDE DEF Below
    <2> QED BY <2>3
  <1>2. ASSUME NEW m \in 2 .. n, m - 1 \in T PROVE m \in T
    <2>1. PICK p \in 1 .. n : Cardinality(Below(p)) = (m - 1) - 1
      BY <1>2
    <2> DEFINE B == Below(p) \cup {p}
               U == (1 .. n) \ B
    <2>2. IsFiniteSet(Below(p)) /\ p \notin Below(p)
      <3>1. Below(p) \subseteq 1 .. n /\ p \notin Below(p)
        BY DEF Orders
      <3> HIDE DEF Below
      <3> QED BY <1>0, <3>1, FS_Subset
    <2>3. IsFiniteSet(B) /\ Cardinality(B) = m - 1
      <3> HIDE DEF Below
      <3> QED BY <2>1, <2>2, FS_AddElement
    <2>4. U # {} /\ U \subseteq 1 .. n
      <3>1. B \subseteq 1 .. n
        OBVIOUS
      <3>2. U = {} => B = 1 .. n
        BY <3>1
      <3> HIDE DEF B
      <3> QED BY <1>0, <2>3, <3>2
    <2>5. PICK next \in U : \A q \in U : q # next => <<next, q>> \in R
      <3> HIDE DEF U
      <3>1. Leads(R, U)
        BY <2>4, Smallest
      <3> QED BY <3>1 DEF Leads
    <2>6. next \in 1 .. n /\ next # p /\ <<next, p>> \notin R
      BY <2>4, <2>5
    <2>7. <<p, next>> \in R
      BY <2>6 DEF Orders
    <2>8. Below(next) \subseteq B
      <3> SUFFICES ASSUME NEW q \in 1 .. n, <<q, next>> \in R PROVE q \in B
        OBVIOUS
      <3>1. q # next
        BY <2>6 DEF Orders
      <3>2. ~(<<next, q>> \in R)
        BY <2>6 DEF Orders
      <3>3. q \notin U
        BY <2>5, <3>1, <3>2
      <3> QED BY <3>3
    <2>9. B \subseteq Below(next)
      <3> SUFFICES ASSUME NEW q \in B PROVE q \in 1 .. n /\ <<q, next>> \in R
        OBVIOUS
      <3>1. q \in 1 .. n /\ (q = p \/ <<q, p>> \in R)
        OBVIOUS
      <3> HIDE DEF B
      <3> QED BY <2>6, <2>7, <3>1 DEF Orders
    <2>10. Cardinality(Below(next)) = m - 1
      BY <2>3, <2>8, <2>9
    <2> HIDE DEF Below
    <2> QED BY <2>6, <2>10
  <1>3. k \in T
    <2>1. k \in Nat \ {0} /\ \A i \in 2 .. k : i \in 2 .. n
      OBVIOUS
    <2> HIDE DEF T
    <2> QED BY <1>1, <1>2, <2>1, CountFromOne
  <1> QED BY <1>3

\* How many numbers come before p.
Rank(R, n, p) == Cardinality({r \in 1 .. n : <<r, p>> \in R})

\* No two have as many before them.
LEMMA RankIsOwn ==
  ASSUME NEW n \in Nat, NEW R, Orders(R, n), NEW p \in 1 .. n, NEW q \in 1 .. n
  PROVE  /\ Rank(R, n, p) \in 0 .. n - 1
         /\ Rank(R, n, p) = Rank(R, n, q) => p = q
  <1> DEFINE Below(k) == {r \in 1 .. n : <<r, k>> \in R}
  <1>0. IsFiniteSet(1 .. n) /\ Cardinality(1 .. n) = n
    BY FS_Interval
  <1>1. ASSUME NEW k \in 1 .. n
        PROVE  /\ IsFiniteSet(Below(k)) /\ Cardinality(Below(k)) \in Nat
               /\ k \notin Below(k) /\ Below(k) \subseteq 1 .. n
               /\ Cardinality(Below(k)) <= n
    <2>1. Below(k) \subseteq 1 .. n /\ k \notin Below(k)
      BY DEF Orders
    <2> HIDE DEF Below
    <2> QED BY <1>0, <2>1, FS_Subset, FS_CardinalityType
  <1>2. Cardinality(Below(p)) # n
    <2> HIDE DEF Below
    <2>1. Below(p) # 1 .. n
      BY <1>1
    <2> QED BY <1>0, <1>1, <2>1, FS_Subset
  <1>3. ASSUME NEW k \in 1 .. n, NEW l \in 1 .. n, <<k, l>> \in R
        PROVE  Cardinality(Below(k)) # Cardinality(Below(l))
    <2>1. Below(k) \subseteq Below(l) /\ k \in Below(l)
      BY <1>3 DEF Orders
    <2> HIDE DEF Below
    <2>2. Below(k) # Below(l)
      BY <1>1, <2>1
    <2> QED BY <1>1, <2>1, <2>2, FS_Subset
  <1>4. p # q => <<p, q>> \in R \/ <<q, p>> \in R
    BY DEF Orders
  <1>5. Cardinality(Below(p)) = Cardinality(Below(q)) => p = q
    <2> HIDE DEF Below
    <2> QED BY <1>3, <1>4
  <1>6. Cardinality(Below(p)) \in 0 .. n - 1
    <2> DEFINE c == Cardinality(Below(p))
    <2>1. c \in Nat /\ c <= n /\ c # n
      BY <1>1, <1>2
    <2> HIDE DEF c
    <2> QED BY <2>1 DEF c
  <1> QED BY <1>5, <1>6 DEF Rank

\* What a sequence holds.
Entries(s) == {s[k] : k \in DOMAIN s}

\* Whether sorting puts what stands at p in ids before what stands at q.
Precedes(key, ids, p, q) ==
  LET a == key[ids[p]]  b == key[ids[q]]
  IN  \/ a[1] < b[1]
      \/ a[1] = b[1] /\ a[2] < b[2]
      \/ a = b /\ p < q

\* R is that order, and at gives the position in ids of each thing sorted.
Sorts(R, at, key, ids) ==
  LET n == Len(ids)
  IN  /\ Orders(R, n)
      /\ \A p, q \in 1 .. n : <<p, q>> \in R <=> Precedes(key, ids, p, q)
      /\ at \in [1 .. n -> 1 .. n]
      /\ \A k \in 1 .. n : Rank(R, n, at[k]) = k - 1
      /\ SortedBy(ids, key) = [k \in 1 .. n |-> ids[at[k]]]

\* Sorting puts each thing where as many come before it as there are places.
LEMMA SortedByRank ==
  ASSUME NEW K, NEW key \in [K -> Nat \X Nat], NEW ids \in Seq(K)
  PROVE  \E R, at : Sorts(R, at, key, ids)
  <1> DEFINE
    n == Len(ids)
    before(p, q) ==
      LET a == key[ids[p]]  b == key[ids[q]]
      IN  \/ a[1] < b[1]
          \/ a[1] = b[1] /\ a[2] < b[2]
          \/ a = b /\ p < q
    R == {x \in (1 .. n) \X (1 .. n) : before(x[1], x[2])}
    at(k) == CHOOSE p \in DOMAIN ids :
               Cardinality({q \in DOMAIN ids : before(q, p)}) = k - 1
  <1>1. n \in Nat /\ DOMAIN ids = 1 .. n /\ \A p \in 1 .. n : ids[p] \in K
    OBVIOUS
  <1>2. SortedBy(ids, key) = [k \in DOMAIN ids |-> ids[at(k)]]
    BY DEF SortedBy
  <1>3. \A p, q \in 1 .. n : <<p, q>> \in R <=> before(p, q)
    OBVIOUS
  <1>4. Orders(R, n)
    <2> DEFINE a(p) == key[ids[p]][1]
               b(p) == key[ids[p]][2]
    <2>1. \A p \in 1 .. n : /\ a(p) \in Nat /\ b(p) \in Nat
                            /\ key[ids[p]] = <<a(p), b(p)>>
      BY <1>1
    <2>2. ASSUME NEW p \in 1 .. n, NEW q \in 1 .. n
          PROVE  <<p, q>> \in R <=> \/ a(p) < a(q)
                                    \/ a(p) = a(q) /\ b(p) < b(q)
                                    \/ a(p) = a(q) /\ b(p) = b(q) /\ p < q
      <3>1. <<p, q>> \in R <=> before(p, q)
        BY <1>3
      <3>2. before(p, q) <=> \/ a(p) < a(q)
                             \/ a(p) = a(q) /\ b(p) < b(q)
                             \/ key[ids[p]] = key[ids[q]] /\ p < q
        OBVIOUS
      <3>3. key[ids[p]] = key[ids[q]] <=> a(p) = a(q) /\ b(p) = b(q)
        BY <2>1
      <3> HIDE DEF R, before, a, b
      <3> QED BY <3>1, <3>2, <3>3
    <2>3. n \in Nat
      BY <1>1
    <2>4. \A p \in 1 .. n : a(p) \in Nat /\ b(p) \in Nat
      BY <2>1
    <2> HIDE DEF R, a, b, n
    <2>5. ASSUME NEW p \in 1 .. n PROVE <<p, p>> \notin R
      BY <2>2, <2>3, <2>4
    <2>6. ASSUME NEW p \in 1 .. n, NEW q \in 1 .. n, p # q
          PROVE  <<p, q>> \in R \/ <<q, p>> \in R
      <3>1. /\ p \in Nat /\ q \in Nat /\ a(p) \in Nat /\ b(p) \in Nat
            /\ a(q) \in Nat /\ b(q) \in Nat
        BY <2>3, <2>4
      <3> QED BY <2>2, <2>6, <3>1
    <2>7. ASSUME NEW p \in 1 .. n, NEW q \in 1 .. n, NEW r \in 1 .. n,
                 <<p, q>> \in R, <<q, r>> \in R
          PROVE  <<p, r>> \in R
      <3>1. /\ p \in Nat /\ q \in Nat /\ r \in Nat
            /\ a(p) \in Nat /\ b(p) \in Nat /\ a(q) \in Nat /\ b(q) \in Nat
            /\ a(r) \in Nat /\ b(r) \in Nat
        BY <2>3, <2>4
      <3>2. \/ a(p) < a(q)
            \/ a(p) = a(q) /\ b(p) < b(q)
            \/ a(p) = a(q) /\ b(p) = b(q) /\ p < q
        BY <2>2, <2>7
      <3>3. \/ a(q) < a(r)
            \/ a(q) = a(r) /\ b(q) < b(r)
            \/ a(q) = a(r) /\ b(q) = b(r) /\ q < r
        BY <2>2, <2>7
      <3>4. \/ a(p) < a(r)
            \/ a(p) = a(r) /\ b(p) < b(r)
            \/ a(p) = a(r) /\ b(p) = b(r) /\ p < r
        BY <3>1, <3>2, <3>3
      <3> QED BY <2>2, <3>4
    <2> QED BY <2>5, <2>6, <2>7 DEF Orders
  <1>5. ASSUME NEW k \in 1 .. n
        PROVE  /\ at(k) \in DOMAIN ids
               /\ Cardinality({q \in DOMAIN ids : before(q, at(k))}) = k - 1
    <2>1. PICK p \in 1 .. n : Cardinality({q \in 1 .. n : <<q, p>> \in R}) = k - 1
      <3> HIDE DEF R, n
      <3> QED BY <1>1, <1>4, RankIsTaken
    <2>2. {q \in 1 .. n : <<q, p>> \in R} = {q \in DOMAIN ids : before(q, p)}
      <3> HIDE DEF R, before
      <3> QED BY <1>1, <1>3
    <2> HIDE DEF before, R, n
    <2> QED BY <1>1, <2>1, <2>2
  <1> DEFINE f == [k \in 1 .. n |-> at(k)]
  <1>6. ASSUME NEW k \in 1 .. n
        PROVE  at(k) \in 1 .. n /\ Rank(R, n, at(k)) = k - 1
    <2> DEFINE p == at(k)
    <2>1. p \in 1 .. n /\ Cardinality({q \in DOMAIN ids : before(q, p)}) = k - 1
      BY <1>1, <1>5
    <2> HIDE DEF p
    <2>2. {q \in 1 .. n : <<q, p>> \in R} = {q \in DOMAIN ids : before(q, p)}
      <3> HIDE DEF R, before
      <3> QED BY <1>1, <1>3, <2>1
    <2>3. Rank(R, n, p) = k - 1
      <3> HIDE DEF R, before, n
      <3> QED BY <2>1, <2>2 DEF Rank
    <2> QED BY <2>1, <2>3 DEF p
  <1> HIDE DEF at
  <1>7. \A p, q \in 1 .. n : before(p, q) <=> Precedes(key, ids, p, q)
    BY DEF Precedes
  <1> HIDE DEF R, before
  <1>8. f \in [1 .. n -> 1 .. n] /\ \A k \in 1 .. n : f[k] = at(k)
    BY <1>6
  <1> HIDE DEF f
  <1>9. SortedBy(ids, key) = [k \in 1 .. n |-> ids[f[k]]]
    BY <1>1, <1>2, <1>8
  <1>10. \A k \in 1 .. n : Rank(R, n, f[k]) = k - 1
    BY <1>6, <1>8
  <1>11. Sorts(R, f, key, ids)
    BY <1>3, <1>4, <1>7, <1>8, <1>9, <1>10 DEF Sorts
  <1> QED BY <1>11

\* Sorting gives a sequence of as many things, and of the same ones.
LEMMA SortedByType ==
  ASSUME NEW K, NEW key \in [K -> Nat \X Nat], NEW ids \in Seq(K)
  PROVE  /\ SortedBy(ids, key) \in Seq(K)
         /\ Len(SortedBy(ids, key)) = Len(ids)
         /\ Entries(SortedBy(ids, key)) = Entries(ids)
  <1> DEFINE n == Len(ids)
             sorted == SortedBy(ids, key)
  <1>1. PICK R, at : Sorts(R, at, key, ids)
    BY SortedByRank
  <1>2. n \in Nat /\ DOMAIN ids = 1 .. n /\ \A p \in 1 .. n : ids[p] \in K
    OBVIOUS
  <1>3. /\ Orders(R, n) /\ at \in [1 .. n -> 1 .. n]
        /\ \A k \in 1 .. n : Rank(R, n, at[k]) = k - 1
        /\ sorted = [k \in 1 .. n |-> ids[at[k]]]
    BY <1>1 DEF Sorts
  <1> HIDE DEF n, sorted
  <1>4. sorted \in [1 .. n -> K] /\ \A k \in 1 .. n : sorted[k] = ids[at[k]]
    BY <1>2, <1>3
  <1>5. ASSUME NEW p \in 1 .. n
        PROVE  \E k \in 1 .. n : at[k] = p
    <2> DEFINE k == Rank(R, n, p) + 1
    <2>1. Rank(R, n, p) \in 0 .. n - 1
      BY <1>2, <1>3, RankIsOwn
    <2>2. k \in 1 .. n /\ k - 1 = Rank(R, n, p)
      BY <1>2, <2>1
    <2> HIDE DEF k
    <2>3. at[k] \in 1 .. n /\ Rank(R, n, at[k]) = Rank(R, n, p)
      BY <1>3, <2>2
    <2>4. at[k] = p
      BY <1>2, <1>3, <2>3, RankIsOwn
    <2> QED BY <2>2, <2>4
  <1>6. Entries(sorted) = Entries(ids)
    <2>1. DOMAIN sorted = 1 .. n /\ DOMAIN ids = 1 .. n
      BY <1>2, <1>4
    <2>2. \A k \in 1 .. n : at[k] \in 1 .. n
      BY <1>3
    <2>3. Entries(ids) \subseteq Entries(sorted)
      <3> SUFFICES ASSUME NEW p \in 1 .. n
                   PROVE  ids[p] \in Entries(sorted)
        BY <2>1 DEF Entries
      <3>1. PICK k \in 1 .. n : at[k] = p
        BY <1>5
      <3>2. sorted[k] = ids[p] /\ k \in DOMAIN sorted
        BY <1>4, <2>1, <3>1
      <3> QED BY <3>2 DEF Entries
    <2>4. Entries(sorted) \subseteq Entries(ids)
      BY <1>4, <2>1, <2>2 DEF Entries
    <2> QED BY <2>3, <2>4
  <1>7. sorted \in Seq(K) /\ Len(sorted) = n
    BY <1>2, <1>4
  <1> QED BY <1>6, <1>7 DEF n, sorted

\* What is sorted ascends: what comes later has no smaller key.
LEMMA SortedByAscends ==
  ASSUME NEW K, NEW key \in [K -> Nat \X Nat], NEW ids \in Seq(K),
         NEW k \in 1 .. Len(ids), NEW l \in 1 .. Len(ids), k < l
  PROVE  key[SortedBy(ids, key)[k]][1] <= key[SortedBy(ids, key)[l]][1]
  <1> DEFINE n == Len(ids)
  <1>1. PICK R, at : Sorts(R, at, key, ids)
    BY SortedByRank
  <1>2. n \in Nat /\ \A p \in 1 .. n : ids[p] \in K
    OBVIOUS
  <1>3. /\ Orders(R, n) /\ at \in [1 .. n -> 1 .. n]
        /\ \A i \in 1 .. n : Rank(R, n, at[i]) = i - 1
        /\ SortedBy(ids, key) = [i \in 1 .. n |-> ids[at[i]]]
        /\ \A p, q \in 1 .. n : <<p, q>> \in R <=> Precedes(key, ids, p, q)
    BY <1>1 DEF Sorts
  <1>4. k \in 1 .. n /\ l \in 1 .. n
    OBVIOUS
  <1> HIDE DEF n
  <1> DEFINE p == at[k]
             q == at[l]
  <1>5. /\ p \in 1 .. n /\ q \in 1 .. n
        /\ Rank(R, n, p) = k - 1 /\ Rank(R, n, q) = l - 1
    BY <1>3, <1>4
  <1>6. SortedBy(ids, key)[k] = ids[p] /\ SortedBy(ids, key)[l] = ids[q]
    BY <1>3, <1>4
  <1> HIDE DEF p, q
  <1>7. p # q
    BY <1>2, <1>4, <1>5
  <1>8. <<q, p>> \notin R
    <2> SUFFICES ASSUME <<q, p>> \in R PROVE FALSE
      OBVIOUS
    <2> DEFINE P == {r \in 1 .. n : <<r, p>> \in R}
               Q == {r \in 1 .. n : <<r, q>> \in R}
    <2>1. Q \subseteq P /\ P \subseteq 1 .. n
      BY <1>3, <1>5 DEF Orders
    <2>2. Cardinality(P) = k - 1 /\ Cardinality(Q) = l - 1
      BY <1>5 DEF Rank
    <2> HIDE DEF P, Q
    <2>3. IsFiniteSet(1 .. n)
      BY <1>2, FS_Interval
    <2>4. IsFiniteSet(P)
      BY <2>1, <2>3, FS_Subset
    <2>5. Cardinality(Q) <= Cardinality(P)
      BY <2>1, <2>4, FS_Subset
    <2> QED BY <1>2, <1>4, <2>2, <2>5
  <1>9. Precedes(key, ids, p, q)
    BY <1>3, <1>5, <1>7, <1>8 DEF Orders
  <1>10. /\ key[ids[p]][1] \in Nat /\ key[ids[q]][1] \in Nat
    BY <1>2, <1>5
  <1>11. \/ key[ids[p]][1] < key[ids[q]][1]
         \/ key[ids[p]][1] = key[ids[q]][1]
    <2> DEFINE a == key[ids[p]]
               b == key[ids[q]]
    <2>1. \/ a[1] < b[1]
          \/ a[1] = b[1] /\ a[2] < b[2]
          \/ a = b /\ p < q
      BY <1>9 DEF Precedes
    <2> HIDE DEF a, b
    <2>2. a[1] < b[1] \/ a[1] = b[1]
      BY <2>1
    <2> QED BY <2>2 DEF a, b
  <1>12. key[ids[p]][1] <= key[ids[q]][1]
    <2> DEFINE u == key[ids[p]][1]
               v == key[ids[q]][1]
    <2>1. u \in Nat /\ v \in Nat /\ (u < v \/ u = v)
      BY <1>10, <1>11
    <2> HIDE DEF u, v
    <2>2. u <= v
      BY <2>1
    <2> QED BY <2>2 DEF u, v
  <1> QED BY <1>6, <1>12

-----------------------------------------------------------------------------
(* The order in which the boxes of a page are read.                        *)

\* The coordinates of a box, and its centre, are numbers.
LEMMA AreaFacts ==
  ASSUME NEW boxes \in Seq(Areas), NEW i \in DOMAIN boxes
  PROVE  /\ boxes[i] \in Areas
         /\ boxes[i].x0 \in Nat /\ boxes[i].y0 \in Nat
         /\ boxes[i].x1 \in Nat /\ boxes[i].y1 \in Nat
         /\ Centre(boxes[i]) \in Nat
  <1>1. boxes[i] \in Areas
    OBVIOUS
  <1>2. /\ boxes[i].x0 \in 0 .. 100 /\ boxes[i].y0 \in 0 .. 100
        /\ boxes[i].x1 \in 0 .. 100 /\ boxes[i].y1 \in 0 .. 100
    BY <1>1 DEF Areas
  <1>3. boxes[i].x0 + boxes[i].x1 \in Nat
    <2> DEFINE l == boxes[i].x0
               r == boxes[i].x1
    <2>1. l \in 0 .. 100 /\ r \in 0 .. 100
      BY <1>2
    <2> HIDE DEF l, r
    <2>2. l + r \in Nat
      BY <2>1
    <2> QED BY <2>2 DEF l, r
  <1>4. \A k \in 0 .. 100 : k \in Nat
    OBVIOUS
  <1> QED BY <1>1, <1>2, <1>3, <1>4 DEF Centre

\* Taken row by row, the boxes are the same ones.
LEMMA RowMajorType ==
  ASSUME NEW boxes \in Seq(Areas), NEW ids \in Seq(DOMAIN boxes)
  PROVE  /\ RowMajor(boxes, ids) \in Seq(DOMAIN boxes)
         /\ Len(RowMajor(boxes, ids)) = Len(ids)
         /\ Entries(RowMajor(boxes, ids)) = Entries(ids)
  <1> DEFINE
    K   == DOMAIN boxes
    key == [i \in K |-> <<boxes[i].y0, boxes[i].x0>>]
  <1>1. key \in [K -> Nat \X Nat]
    BY AreaFacts
  <1>2. RowMajor(boxes, ids) = SortedBy(ids, key)
    BY DEF RowMajor
  <1>3. ids \in Seq(K)
    OBVIOUS
  <1> HIDE DEF K, key
  <1>4. /\ SortedBy(ids, key) \in Seq(K) /\ Len(SortedBy(ids, key)) = Len(ids)
        /\ Entries(SortedBy(ids, key)) = Entries(ids)
    BY <1>1, <1>3, SortedByType
  <1> QED BY <1>2, <1>4 DEF K

\* There is a first among the widest gaps.
LEMMA FirstWidest ==
  ASSUME NEW n \in Nat \ {0}, NEW gap \in [1 .. n -> Int]
  PROVE  First({k \in 1 .. n : \A l \in 1 .. n : gap[l] <= gap[k]})
           \in {k \in 1 .. n : \A l \in 1 .. n : gap[l] <= gap[k]}
  <1> DEFINE
    Wide(m) == {k \in 1 .. m : \A l \in 1 .. m : gap[l] <= gap[k]}
    T == {m \in 1 .. n : Wide(m) # {}}
  <1>1. 1 \in T
    <2>1. 1 \in Wide(1)
      OBVIOUS
    <2> QED BY <2>1
  <1>2. ASSUME NEW m \in 2 .. n, m - 1 \in T PROVE m \in T
    <2>1. PICK k \in 1 .. m - 1 : \A l \in 1 .. m - 1 : gap[l] <= gap[k]
      BY <1>2
    <2>2. /\ k \in 1 .. m /\ m \in 1 .. m /\ gap[k] \in Int /\ gap[m] \in Int
          /\ \A l \in 1 .. m : l = m \/ l \in 1 .. m - 1
      OBVIOUS
    <2>3. CASE gap[m] <= gap[k]
      <3>1. \A l \in 1 .. m : gap[l] <= gap[k]
        BY <2>1, <2>2, <2>3
      <3>2. k \in Wide(m)
        BY <2>2, <3>1
      <3>3. Wide(m) # {}
        BY <3>2
      <3> HIDE DEF Wide
      <3> QED BY <3>3
    <2>4. CASE ~(gap[m] <= gap[k])
      <3>1. ASSUME NEW l \in 1 .. m PROVE gap[l] <= gap[m]
        <4>1. gap[l] \in Int
          OBVIOUS
        <4> QED BY <2>1, <2>2, <2>4, <4>1
      <3>2. m \in Wide(m)
        BY <2>2, <3>1
      <3>3. Wide(m) # {}
        BY <3>2
      <3> HIDE DEF Wide
      <3> QED BY <3>3
    <2> QED BY <2>3, <2>4
  <1>3. n \in T
    <2> HIDE DEF T
    <2> QED BY <1>1, <1>2, CountFromOne
  <1> DEFINE W == Wide(n)
  <1>4. W # {} /\ W \subseteq 1 .. n /\ W \subseteq Nat
    BY <1>3
  <1>5. W = {k \in 1 .. n : \A l \in 1 .. n : gap[l] <= gap[k]}
    OBVIOUS
  <1> HIDE DEF W
  <1>6. \E k \in W : \A l \in W : k <= l
    BY <1>4, LeastElement
  <1>7. First(W) \in W
    BY <1>6 DEF First
  <1> QED BY <1>5, <1>7

\* One sequence after another holds what both hold.
LEMMA EntriesOfBoth ==
  ASSUME NEW K, NEW l \in Seq(K), NEW r \in Seq(K)
  PROVE  Entries(l \o r) = Entries(l) \cup Entries(r)
  <1> DEFINE n == Len(l)
             m == Len(r)
             both == l \o r
  <1>1. n \in Nat /\ m \in Nat /\ DOMAIN l = 1 .. n /\ DOMAIN r = 1 .. m
        /\ DOMAIN both = 1 .. n + m
    BY ConcatProperties
  <1>2. /\ \A i \in 1 .. n : both[i] = l[i]
        /\ \A i \in 1 .. m : both[n + i] = r[i]
    OBVIOUS
  <1> HIDE DEF n, m, both
  <1>3. ASSUME NEW i \in 1 .. n + m
        PROVE  \/ i \in 1 .. n /\ both[i] = l[i]
               \/ i - n \in 1 .. m /\ both[i] = r[i - n]
    <2>1. CASE i \in 1 .. n
      BY <1>2, <2>1
    <2>2. CASE i \notin 1 .. n
      <3>1. i - n \in 1 .. m /\ n + (i - n) = i
        BY <1>1, <2>2
      <3> QED BY <1>2, <3>1
    <2> QED BY <2>1, <2>2
  <1>4. /\ \A i \in 1 .. n : i \in 1 .. n + m
        /\ \A i \in 1 .. m : n + i \in 1 .. n + m
    BY <1>1
  <1>5. Entries(both) \subseteq Entries(l) \cup Entries(r)
    BY <1>1, <1>3 DEF Entries
  <1>6. Entries(l) \subseteq Entries(both)
    BY <1>1, <1>2, <1>4 DEF Entries
  <1>7. Entries(r) \subseteq Entries(both)
    BY <1>1, <1>2, <1>4 DEF Entries
  <1> QED BY <1>5, <1>6, <1>7 DEF both

\* The reading order, step by step: the boxes by their centres, the gaps
\* between neighbours, the first of the widest, and whether it does not split
\* the boxes.
ByCentre(boxes, ids) ==
  SortedBy(ids, [i \in DOMAIN boxes |-> <<Centre(boxes[i]), 0>>])

Gaps(boxes, ids) ==
  [k \in 1 .. Len(ids) - 1 |->
     Centre(boxes[ByCentre(boxes, ids)[k + 1]])
       - Centre(boxes[ByCentre(boxes, ids)[k]])]

Widest(boxes, ids) ==
  First({k \in 1 .. Len(ids) - 1 :
           \A l \in 1 .. Len(ids) - 1 :
             Gaps(boxes, ids)[l] <= Gaps(boxes, ids)[k]})

Whole(boxes, ids) ==
  \/ Len(ids) < 4
  \/ Gaps(boxes, ids)[Widest(boxes, ids)] < ColumnGap
  \/ Widest(boxes, ids) < 2
  \/ Widest(boxes, ids) > Len(ids) - 2

LeftHalf(boxes, ids)  == SubSeq(ByCentre(boxes, ids), 1, Widest(boxes, ids))
RightHalf(boxes, ids) ==
  SubSeq(ByCentre(boxes, ids), Widest(boxes, ids) + 1, Len(ids))

\* Sorted by their centres, the boxes are the same ones.
LEMMA ByCentreType ==
  ASSUME NEW boxes \in Seq(Areas), NEW ids \in Seq(DOMAIN boxes)
  PROVE  /\ ByCentre(boxes, ids) \in Seq(DOMAIN boxes)
         /\ Len(ByCentre(boxes, ids)) = Len(ids)
         /\ Entries(ByCentre(boxes, ids)) = Entries(ids)
         /\ \A k, l \in 1 .. Len(ids) : k < l =>
              Centre(boxes[ByCentre(boxes, ids)[k]])
                <= Centre(boxes[ByCentre(boxes, ids)[l]])
  <1> DEFINE K == DOMAIN boxes
             key == [i \in DOMAIN boxes |-> <<Centre(boxes[i]), 0>>]
             n == Len(ids)
             by == ByCentre(boxes, ids)
  <1>1. key \in [K -> Nat \X Nat] /\ \A i \in K : key[i][1] = Centre(boxes[i])
    BY AreaFacts
  <1>2. by = SortedBy(ids, key)
    BY DEF ByCentre
  <1>3. ids \in Seq(K) /\ n \in Nat
    OBVIOUS
  <1> HIDE DEF K, key, by
  <1>4. by \in Seq(K) /\ Len(by) = n /\ Entries(by) = Entries(ids)
    BY <1>1, <1>2, <1>3, SortedByType
  <1>5. ASSUME NEW k \in 1 .. n, NEW l \in 1 .. n, k < l
        PROVE  Centre(boxes[by[k]]) <= Centre(boxes[by[l]])
    <2>1. key[by[k]][1] <= key[by[l]][1]
      BY <1>1, <1>2, <1>3, <1>5, SortedByAscends
    <2>2. by[k] \in K /\ by[l] \in K
      BY <1>3, <1>4
    <2> QED BY <1>1, <2>1, <2>2
  <1> QED BY <1>4, <1>5 DEF K, by

\* The gaps are numbers, each from one box to the next.
LEMMA GapsType ==
  ASSUME NEW boxes \in Seq(Areas), NEW ids \in Seq(DOMAIN boxes)
  PROVE  /\ Gaps(boxes, ids) \in [1 .. Len(ids) - 1 -> Int]
         /\ \A k \in 1 .. Len(ids) - 1 :
              /\ k \in 1 .. Len(ids) /\ k + 1 \in 1 .. Len(ids)
              /\ ByCentre(boxes, ids)[k] \in DOMAIN boxes
              /\ ByCentre(boxes, ids)[k + 1] \in DOMAIN boxes
              /\ Gaps(boxes, ids)[k] =
                   Centre(boxes[ByCentre(boxes, ids)[k + 1]])
                     - Centre(boxes[ByCentre(boxes, ids)[k]])
  <1> DEFINE n == Len(ids)
             b == ByCentre(boxes, ids)
             G == Gaps(boxes, ids)
  <1>1. /\ n \in Nat /\ b \in Seq(DOMAIN boxes) /\ Len(b) = n
    BY ByCentreType
  <1>2. G = [k \in 1 .. n - 1 |-> Centre(boxes[b[k + 1]]) - Centre(boxes[b[k]])]
    BY DEF Gaps
  <1> HIDE DEF n, b, G
  <1>3. ASSUME NEW k \in 1 .. n - 1
        PROVE  /\ k \in 1 .. n /\ k + 1 \in 1 .. n
               /\ b[k] \in DOMAIN boxes /\ b[k + 1] \in DOMAIN boxes
               /\ G[k] = Centre(boxes[b[k + 1]]) - Centre(boxes[b[k]])
               /\ Centre(boxes[b[k + 1]]) - Centre(boxes[b[k]]) \in Int
    <2>1. k \in 1 .. n /\ k + 1 \in 1 .. n
      BY <1>1
    <2>2. b[k] \in DOMAIN boxes /\ b[k + 1] \in DOMAIN boxes
      BY <1>1, <2>1
    <2>3. Centre(boxes[b[k]]) \in Nat /\ Centre(boxes[b[k + 1]]) \in Nat
      BY <2>2, AreaFacts
    <2>4. Centre(boxes[b[k + 1]]) - Centre(boxes[b[k]]) \in Int
      BY <2>3
    <2>5. G[k] = Centre(boxes[b[k + 1]]) - Centre(boxes[b[k]])
      BY <1>2
    <2> QED BY <2>1, <2>2, <2>4, <2>5
  <1>4. G \in [1 .. n - 1 -> Int]
    BY <1>2, <1>3
  <1> QED BY <1>3, <1>4 DEF n, b, G

\* The widest gap is one of them, and none is wider.
LEMMA WidestType ==
  ASSUME NEW boxes \in Seq(Areas), NEW ids \in Seq(DOMAIN boxes),
         Len(ids) >= 2
  PROVE  /\ Widest(boxes, ids) \in 1 .. Len(ids) - 1
         /\ \A k \in 1 .. Len(ids) - 1 :
              Gaps(boxes, ids)[k] <= Gaps(boxes, ids)[Widest(boxes, ids)]
  <1> DEFINE n == Len(ids)
             m == n - 1
             G == Gaps(boxes, ids)
             s == Widest(boxes, ids)
  <1>1. n \in Nat /\ n >= 2
    OBVIOUS
  <1>2. G \in [1 .. m -> Int]
    BY GapsType
  <1>3. s = First({k \in 1 .. m : \A l \in 1 .. m : G[l] <= G[k]})
    BY DEF Widest
  <1> HIDE DEF G, s, n
  <1>4. m \in Nat \ {0}
    BY <1>1
  <1> HIDE DEF m
  <1>5. s \in {k \in 1 .. m : \A l \in 1 .. m : G[l] <= G[k]}
    BY <1>2, <1>3, <1>4, FirstWidest
  <1> QED BY <1>5 DEF s, m, n, G

\* The two sides of the widest gap, when it splits the boxes.
LEMMA HalvesType ==
  ASSUME NEW boxes \in Seq(Areas), NEW ids \in Seq(DOMAIN boxes),
         ~Whole(boxes, ids)
  PROVE  /\ Widest(boxes, ids) \in 2 .. Len(ids) - 2
         /\ LeftHalf(boxes, ids) \in Seq(DOMAIN boxes)
         /\ RightHalf(boxes, ids) \in Seq(DOMAIN boxes)
         /\ Len(LeftHalf(boxes, ids)) = Widest(boxes, ids)
         /\ Len(RightHalf(boxes, ids)) = Len(ids) - Widest(boxes, ids)
         /\ \A i \in 1 .. Widest(boxes, ids) :
              LeftHalf(boxes, ids)[i] = ByCentre(boxes, ids)[i]
         /\ \A i \in 1 .. Len(ids) - Widest(boxes, ids) :
              RightHalf(boxes, ids)[i]
                = ByCentre(boxes, ids)[Widest(boxes, ids) + i]
         /\ Entries(LeftHalf(boxes, ids)) \cup Entries(RightHalf(boxes, ids))
              = Entries(ids)
  <1> DEFINE K == DOMAIN boxes
             n == Len(ids) - 1
             s == Widest(boxes, ids)
             b == ByCentre(boxes, ids)
             l == LeftHalf(boxes, ids)
             r == RightHalf(boxes, ids)
             size == Len(ids)
  <1>1. n \in Nat \ {0} /\ size = n + 1 /\ s \in 2 .. n - 1 /\ s \in Nat
    <2>1. size \in Nat
      OBVIOUS
    <2>2. ~(size < 4) /\ ~(s < 2) /\ ~(s > size - 2)
      BY DEF Whole
    <2>3. n = size - 1
      OBVIOUS
    <2>4. s \in 1 .. size - 1
      BY <2>1, <2>2, WidestType
    <2> HIDE DEF s, size, n
    <2> QED BY <2>1, <2>2, <2>3, <2>4
  <1>2. b \in Seq(K) /\ Len(b) = n + 1 /\ Entries(b) = Entries(ids)
    BY <1>1, ByCentreType
  <1>3. l = SubSeq(b, 1, s) /\ r = SubSeq(b, s + 1, n + 1)
    BY <1>1 DEF LeftHalf, RightHalf
  <1> HIDE DEF s, b, n, K, l, r, size
  <1>4. /\ l \in Seq(K) /\ Len(l) = s
        /\ r \in Seq(K) /\ Len(r) = n + 1 - s
        /\ \A i \in 1 .. s : l[i] = b[i]
        /\ \A i \in 1 .. n + 1 - s : r[i] = b[s + i]
        /\ Entries(l) \cup Entries(r) = Entries(b)
    <2> DEFINE one == 1
               t == s + 1
               m == n + 1
    <2>1. /\ one \in Int /\ s \in Int /\ t \in Int /\ m \in Int
          /\ \A i \in one .. s : b[i] \in K
          /\ \A i \in t .. m : b[i] \in K
      BY <1>1, <1>2
    <2>4. one = 1 /\ t = s + 1 /\ m = n + 1
      OBVIOUS
    <2> HIDE DEF one, t, m
    <2>2. /\ SubSeq(b, one, s) \in Seq(K)
          /\ Len(SubSeq(b, one, s)) = IF one <= s THEN s - one + 1 ELSE 0
          /\ \A i \in 1 .. s - one + 1 : SubSeq(b, one, s)[i] = b[one + i - 1]
      BY <2>1, SubSeqProperties
    <2>3. /\ SubSeq(b, t, m) \in Seq(K)
          /\ Len(SubSeq(b, t, m)) = IF t <= m THEN m - t + 1 ELSE 0
          /\ \A i \in 1 .. m - t + 1 : SubSeq(b, t, m)[i] = b[t + i - 1]
      BY <2>1, SubSeqProperties
    <2>5. /\ l \in Seq(K) /\ Len(l) = s
          /\ r \in Seq(K) /\ Len(r) = n + 1 - s
      BY <1>1, <1>3, <2>2, <2>3, <2>4
    <2>6. /\ DOMAIN l = 1 .. s /\ \A i \in 1 .. s : l[i] = b[i]
          /\ DOMAIN r = 1 .. n + 1 - s
          /\ \A i \in 1 .. n + 1 - s : r[i] = b[s + i]
          /\ DOMAIN b = 1 .. n + 1
      <3>1. DOMAIN l = 1 .. s /\ DOMAIN r = 1 .. n + 1 - s
            /\ DOMAIN b = 1 .. n + 1
        BY <1>2, <2>5
      <3>2. ASSUME NEW i \in 1 .. s PROVE l[i] = b[i]
        BY <1>1, <1>3, <2>2, <2>4
      <3>3. ASSUME NEW i \in 1 .. n + 1 - s PROVE r[i] = b[s + i]
        BY <1>1, <1>3, <2>3, <2>4
      <3> QED BY <3>1, <3>2, <3>3
    <2>7. Entries(l) \cup Entries(r) = Entries(b)
      <3>1. ASSUME NEW i \in 1 .. n + 1
            PROVE  \/ i \in 1 .. s /\ l[i] = b[i]
                   \/ i - s \in 1 .. n + 1 - s /\ r[i - s] = b[i]
        <4>1. CASE i <= s
          BY <1>1, <2>6, <4>1
        <4>2. CASE ~(i <= s)
          <5>1. i - s \in 1 .. n + 1 - s /\ s + (i - s) = i
            BY <1>1, <4>2
          <5> QED BY <2>6, <5>1
        <4> QED BY <4>1, <4>2
      <3>2. \A i \in 1 .. s : i \in 1 .. n + 1
        BY <1>1
      <3>3. \A i \in 1 .. n + 1 - s : s + i \in 1 .. n + 1
        BY <1>1
      <3>4. Entries(b) \subseteq Entries(l) \cup Entries(r)
        BY <2>6, <3>1 DEF Entries
      <3>5. Entries(l) \subseteq Entries(b)
        BY <2>6, <3>2 DEF Entries
      <3>6. Entries(r) \subseteq Entries(b)
        BY <2>6, <3>3 DEF Entries
      <3> QED BY <3>4, <3>5, <3>6
    <2> QED BY <2>5, <2>6, <2>7
  <1>5. /\ s \in 2 .. size - 2 /\ Len(r) = size - s
        /\ \A i \in 1 .. size - s : r[i] = b[s + i]
    <2>1. n + 1 - s = size - s /\ n - 1 = size - 2
      BY <1>1
    <2> QED BY <1>1, <1>4, <2>1
  <1> QED BY <1>2, <1>4, <1>5 DEF s, b, K, l, r, size

\* What the recursion does: boxes that are not split are read row by row, and
\* of those that are the left side is read before the right one.
LEMMA ReadingOrderUnfolds ==
  ASSUME NEW boxes \in Seq(Areas), NEW ids \in Seq(DOMAIN boxes)
  PROVE  ReadingOrder(boxes, ids) =
           IF Whole(boxes, ids) THEN RowMajor(boxes, ids)
           ELSE ReadingOrder(boxes, LeftHalf(boxes, ids))
                  \o ReadingOrder(boxes, RightHalf(boxes, ids))
  <1> DEFINE
    K == DOMAIN boxes
    D == Seq(K)
    whole(it) == Whole(boxes, it)
    left(it)  == LeftHalf(boxes, it)
    right(it) == RightHalf(boxes, it)
    row(it)   == RowMajor(boxes, it)
    next(g, it) == IF whole(it) THEN row(it) ELSE g[left(it)] \o g[right(it)]
    Order == CHOOSE g : g = [it \in D |-> next(g, it)]
  <1>1. \A it : ReadingOrder(boxes, it) = Order[it]
    BY DEF ReadingOrder, Whole, LeftHalf, RightHalf, Widest, Gaps, ByCentre
  <1>2. ASSUME NEW it \in D PROVE row(it) \in D
    BY RowMajorType
  <1>3. ASSUME NEW it \in D, ~whole(it)
        PROVE  /\ left(it) \in D /\ right(it) \in D
               /\ Len(left(it)) < Len(it) /\ Len(right(it)) < Len(it)
    <2> DEFINE s == Widest(boxes, it)
               n == Len(it)
               l == Len(left(it))
               r == Len(right(it))
    <2>1. n \in Nat /\ s \in 2 .. n - 2 /\ l = s /\ r = n - s
      BY <1>3, HalvesType
    <2>2. left(it) \in D /\ right(it) \in D
      BY <1>3, HalvesType
    <2> HIDE DEF s, n, l, r
    <2>3. l < n /\ r < n
      BY <2>1
    <2> QED BY <2>2, <2>3 DEF l, r, n
  <1> HIDE DEF whole, left, right, row
  <1>4. \E g \in [D -> D] : g = [it \in D |-> next(g, it)]
    <2> DEFINE
      mu == [it \in D |-> Len(it)]
      step == [g \in [D -> D] |-> [it \in D |-> next(g, it)]]
    <2>1. mu \in [D -> Nat]
      OBVIOUS
    <2>2. step \in [[D -> D] -> [D -> D]]
      <3> SUFFICES ASSUME NEW g \in [D -> D], NEW it \in D
                   PROVE  next(g, it) \in D
        OBVIOUS
      <3>1. CASE whole(it)
        BY <1>2, <3>1
      <3>2. CASE ~whole(it)
        <4>1. g[left(it)] \in D /\ g[right(it)] \in D
          BY <1>3, <3>2
        <4>2. g[left(it)] \o g[right(it)] \in D
          BY <4>1, ConcatProperties
        <4> QED BY <3>2, <4>2
      <3> QED BY <3>1, <3>2
    <2>3. Descends(step, mu, D, D)
      <3> SUFFICES ASSUME NEW it \in D, NEW f \in [D -> D], NEW g \in [D -> D],
                          \A y \in D : mu[y] < mu[it] => f[y] = g[y]
                   PROVE  step[f][it] = step[g][it]
        BY DEF Descends
      <3>1. step[f][it] = next(f, it) /\ step[g][it] = next(g, it)
        OBVIOUS
      <3>2. ~whole(it) => /\ f[left(it)] = g[left(it)]
                           /\ f[right(it)] = g[right(it)]
        BY <1>3
      <3> HIDE DEF step
      <3> QED BY <3>1, <3>2
    <2>4. D # {}
      OBVIOUS
    <2>5. \A g \in [D -> D] : step[g] = [it \in D |-> next(g, it)]
      OBVIOUS
    <2> DEFINE S == D
    <2> HIDE DEF step, mu, D, next
    <2>6. /\ S # {} /\ step \in [[D -> S] -> [D -> S]]
          /\ Descends(step, mu, D, S)
      BY <2>2, <2>3, <2>4
    <2>7. S = D
      OBVIOUS
    <2> HIDE DEF S
    <2>8. IsDefined(step, D, S)
      BY <2>1, <2>6, Recursive
    <2> QED BY <2>5, <2>7, <2>8 DEF IsDefined
  <1>5. Order = [it \in D |-> next(Order, it)]
    <2> HIDE DEF next, D
    <2> QED BY <1>4
  <1>6. \A it \in D : Order[it] = next(Order, it)
    <2> HIDE DEF next, D, Order
    <2> QED BY <1>5
  <1>7. Order[ids] = IF whole(ids) THEN row(ids)
                     ELSE Order[left(ids)] \o Order[right(ids)]
    <2> HIDE DEF Order, D
    <2>1. ids \in D
      BY DEF D
    <2> QED BY <1>6, <2>1
  <1>8. /\ ReadingOrder(boxes, ids) = Order[ids]
        /\ ReadingOrder(boxes, left(ids)) = Order[left(ids)]
        /\ ReadingOrder(boxes, right(ids)) = Order[right(ids)]
    <2> HIDE DEF Order
    <2> QED BY <1>1
  <1> HIDE DEF Order
  <1>9. ReadingOrder(boxes, ids) =
          IF whole(ids) THEN row(ids)
          ELSE ReadingOrder(boxes, left(ids)) \o ReadingOrder(boxes, right(ids))
    BY <1>7, <1>8
  <1> QED BY <1>9 DEF whole, left, right, row

\* Taken column by column, the boxes are the same ones.
LEMMA ReadingOrderType ==
  ASSUME NEW boxes \in Seq(Areas), NEW all \in Seq(DOMAIN boxes)
  PROVE  /\ ReadingOrder(boxes, all) \in Seq(DOMAIN boxes)
         /\ Len(ReadingOrder(boxes, all)) = Len(all)
         /\ Entries(ReadingOrder(boxes, all)) = Entries(all)
  <1> DEFINE
    K == DOMAIN boxes
    D == Seq(K)
    order(ids) == ReadingOrder(boxes, ids)
    whole(ids) == Whole(boxes, ids)
    left(ids)  == LeftHalf(boxes, ids)
    right(ids) == RightHalf(boxes, ids)
    row(ids)   == RowMajor(boxes, ids)
  <1>1. ASSUME NEW ids \in D
        PROVE  order(ids) = IF whole(ids) THEN row(ids)
                            ELSE order(left(ids)) \o order(right(ids))
    BY ReadingOrderUnfolds
  <1>2. ASSUME NEW ids \in D
        PROVE  /\ row(ids) \in D /\ Len(row(ids)) = Len(ids)
               /\ Entries(row(ids)) = Entries(ids)
    BY RowMajorType
  <1>3. ASSUME NEW ids \in D, ~whole(ids)
        PROVE  /\ left(ids) \in D /\ right(ids) \in D
               /\ Len(left(ids)) < Len(ids) /\ Len(right(ids)) < Len(ids)
               /\ Len(left(ids)) + Len(right(ids)) = Len(ids)
               /\ Entries(left(ids)) \cup Entries(right(ids)) = Entries(ids)
    <2> DEFINE s == Widest(boxes, ids)
               n == Len(ids)
               l == Len(left(ids))
               r == Len(right(ids))
    <2>1. n \in Nat /\ s \in 2 .. n - 2 /\ l = s /\ r = n - s
      BY <1>3, HalvesType
    <2>2. /\ left(ids) \in D /\ right(ids) \in D
          /\ Entries(left(ids)) \cup Entries(right(ids)) = Entries(ids)
      BY <1>3, HalvesType
    <2> HIDE DEF s, n, l, r
    <2>3. l < n /\ r < n /\ l + r = n
      BY <2>1
    <2> QED BY <2>2, <2>3 DEF l, r, n
  <1> HIDE DEF whole, left, right, row, order
  <1>4. \A ids \in D : /\ order(ids) \in D /\ Len(order(ids)) = Len(ids)
                       /\ Entries(order(ids)) = Entries(ids)
    <2> DEFINE
      Right(ids) == /\ order(ids) \in D /\ Len(order(ids)) = Len(ids)
                    /\ Entries(order(ids)) = Entries(ids)
      Bad == {ids \in D : ~Right(ids)}
      T == {Len(ids) : ids \in Bad}
    <2> SUFFICES ASSUME Bad # {} PROVE FALSE
      OBVIOUS
    <2>1. T \subseteq Nat /\ T # {}
      <3>1. \A ids \in Bad : Len(ids) \in Nat
        OBVIOUS
      <3> HIDE DEF Bad
      <3> QED BY <3>1
    <2>2. PICK least \in T : \A i \in T : least <= i
      <3> HIDE DEF T
      <3> QED BY <2>1, LeastElement
    <2>3. PICK ids \in Bad : Len(ids) = least
      BY <2>2
    <2>4. ASSUME NEW y \in D, Len(y) < Len(ids) PROVE Right(y)
      <3>1. Len(y) \in Nat /\ Len(ids) \in Nat
        BY <2>3
      <3>2. Len(y) \notin T
        <4> HIDE DEF T
        <4> QED BY <2>2, <2>3, <2>4, <3>1
      <3>3. y \notin Bad
        BY <3>2
      <3> QED BY <3>3
    <2>5. ids \in D /\ ~Right(ids)
      OBVIOUS
    <2>6. CASE whole(ids)
      BY <1>2, <1>1, <2>5, <2>6
    <2>7. CASE ~whole(ids)
      <3>1. Right(left(ids)) /\ Right(right(ids))
        BY <1>3, <2>4, <2>5, <2>7
      <3>2. order(ids) = order(left(ids)) \o order(right(ids))
        BY <1>1, <2>5, <2>7
      <3> DEFINE l == order(left(ids))
                 r == order(right(ids))
      <3>4. l \in Seq(K) /\ r \in Seq(K) /\ order(ids) = l \o r
        BY <3>1, <3>2
      <3> HIDE DEF l, r
      <3>5. /\ l \o r \in Seq(K) /\ Len(l \o r) = Len(l) + Len(r)
            /\ Entries(l \o r) = Entries(l) \cup Entries(r)
        BY <3>4, EntriesOfBoth, ConcatProperties
      <3>3. /\ order(ids) \in D
            /\ Len(order(ids)) = Len(order(left(ids))) + Len(order(right(ids)))
            /\ Entries(order(ids))
                 = Entries(order(left(ids))) \cup Entries(order(right(ids)))
        BY <3>4, <3>5 DEF l, r
      <3>6. /\ Len(order(ids)) = Len(ids)
            /\ Entries(order(ids)) = Entries(ids)
        BY <1>3, <2>5, <2>7, <3>1, <3>3
      <3> QED BY <2>5, <3>3, <3>6
    <2> QED BY <2>6, <2>7
  <1> QED BY <1>4 DEF order

\* The numbers of the boxes, in order, are each of them once.
LEMMA IdsType ==
  ASSUME NEW boxes \in Seq(Areas)
  PROVE  /\ Len(boxes) \in Nat /\ DOMAIN boxes = 1 .. Len(boxes)
         /\ Ids(boxes) \in Seq(DOMAIN boxes)
         /\ Len(Ids(boxes)) = Len(boxes)
         /\ Entries(Ids(boxes)) = DOMAIN boxes
  <1> DEFINE n == Len(boxes)
             ids == Ids(boxes)
  <1>1. n \in Nat /\ DOMAIN boxes = 1 .. n
    OBVIOUS
  <1>2. ids \in [1 .. n -> 1 .. n] /\ \A i \in 1 .. n : ids[i] = i
    BY <1>1 DEF Ids
  <1> HIDE DEF ids, n
  <1>3. ids \in Seq(1 .. n) /\ Len(ids) = n /\ DOMAIN ids = 1 .. n
    BY <1>1, <1>2
  <1>4. Entries(ids) = 1 .. n
    BY <1>2, <1>3 DEF Entries
  <1> QED BY <1>1, <1>3, <1>4 DEF ids, n

\* A sequence as long as a set that holds all of it holds each thing once.
LEMMA NoneTwice ==
  ASSUME NEW n \in Nat, NEW order \in Seq(1 .. n), Len(order) = n,
         Entries(order) = 1 .. n
  PROVE  \A k, l \in 1 .. n : order[k] = order[l] => k = l
  <1> DEFINE S == 1 .. n
  <1>1. DOMAIN order = S
    OBVIOUS
  <1>2. order \in [S -> S]
    BY <1>1
  <1>3. \A i \in S : \E k \in S : order[k] = i
    BY <1>1 DEF Entries
  <1>4. IsFiniteSet(S)
    BY FS_Interval
  <1> HIDE DEF S
  <1>5. order \in Surjection(S, S)
    BY <1>2, <1>3 DEF Surjection
  <1>6. order \in Injection(S, S)
    BY <1>4, <1>5, FS_Surjection
  <1> QED BY <1>6 DEF Injection, IsInjective, S

\* Theorem: both orders in which align_text tries the boxes hold every box of
\* the page exactly once: as many as there are, and each of them.  (A box that
\* _reading_order_indices dropped could get no line, and one that it took twice
\* would get the lines of another.)
THEOREM EveryBoxIsTaken ==
  ASSUME NEW boxes \in Seq(Areas)
  PROVE  \A order \in {RowMajor(boxes, Ids(boxes)),
                       ReadingOrder(boxes, Ids(boxes))} :
           /\ order \in Seq(DOMAIN boxes) /\ Len(order) = Len(boxes)
           /\ \A i \in DOMAIN boxes : \E k \in DOMAIN order : order[k] = i
           /\ \A k, l \in DOMAIN order : order[k] = order[l] => k = l
  <1> DEFINE n == Len(boxes)
             ids == Ids(boxes)
  <1>1. /\ n \in Nat /\ DOMAIN boxes = 1 .. n /\ ids \in Seq(1 .. n)
        /\ Len(ids) = n /\ Entries(ids) = 1 .. n
    BY IdsType
  <1> HIDE DEF ids, n
  <1>2. ASSUME NEW order \in {RowMajor(boxes, ids), ReadingOrder(boxes, ids)}
        PROVE  /\ order \in Seq(1 .. n) /\ Len(order) = n
               /\ \A i \in 1 .. n : \E k \in DOMAIN order : order[k] = i
               /\ \A k, l \in DOMAIN order : order[k] = order[l] => k = l
    <2>1. /\ order \in Seq(1 .. n) /\ Len(order) = n
          /\ Entries(order) = 1 .. n
      BY <1>1, <1>2, RowMajorType, ReadingOrderType
    <2>2. DOMAIN order = 1 .. n
      BY <1>1, <2>1
    <2>3. \A i \in 1 .. n : \E k \in 1 .. n : order[k] = i
      BY <2>1, <2>2 DEF Entries
    <2>4. \A k, l \in 1 .. n : order[k] = order[l] => k = l
      BY <1>1, <2>1, NoneTwice
    <2> QED BY <2>1, <2>2, <2>3, <2>4
  <1> QED BY <1>1, <1>2 DEF ids, n

-----------------------------------------------------------------------------
(* Pages of columns.                                                       *)

\* Every box in ids has another one there in its column.
Paired(column, ids) ==
  \A i \in Entries(ids) : \E j \in Entries(ids) : j # i /\ column[j] = column[i]

\* The boxes come column by column, and from the top down in each.
DownBy(boxes, column, ids) ==
  \A k, l \in 1 .. Len(ids) : k < l =>
    \/ column[ids[k]] < column[ids[l]]
    \/ /\ column[ids[k]] = column[ids[l]]
       /\ boxes[ids[k]].y0 <= boxes[ids[l]].y0

\* Boxes of different columns are a gap apart, those of one column are not.
Apart(boxes, column) ==
  \A i, j \in DOMAIN boxes :
    column[i] < column[j] <=> Centre(boxes[j]) - Centre(boxes[i]) >= ColumnGap

\* Boxes that are all in one column are read row by row.
LEMMA OneColumn ==
  ASSUME NEW boxes \in Seq(Areas), NEW ids \in Seq(DOMAIN boxes),
         \A i, j \in Entries(ids) :
           ~(Centre(boxes[j]) - Centre(boxes[i]) >= ColumnGap)
  PROVE  ReadingOrder(boxes, ids) = RowMajor(boxes, ids)
  <1> DEFINE n == Len(ids)
             s == Widest(boxes, ids)
             b == ByCentre(boxes, ids)
             G == Gaps(boxes, ids)
  <1>1. n \in Nat
    OBVIOUS
  <1>2. CASE n < 4
    <2>1. Whole(boxes, ids)
      BY <1>2 DEF Whole
    <2> QED BY <2>1, ReadingOrderUnfolds
  <1>3. CASE ~(n < 4)
    <2>1. n >= 2
      BY <1>1, <1>3
    <2>2. s \in 1 .. n - 1
      BY <2>1, WidestType
    <2>3. /\ s \in 1 .. n /\ s + 1 \in 1 .. n
          /\ b[s] \in DOMAIN boxes /\ b[s + 1] \in DOMAIN boxes
          /\ G[s] = Centre(boxes[b[s + 1]]) - Centre(boxes[b[s]])
      BY <2>2, GapsType
    <2>4. Entries(b) = Entries(ids) /\ DOMAIN b = 1 .. n
      BY ByCentreType
    <2>5. b[s] \in Entries(ids) /\ b[s + 1] \in Entries(ids)
      BY <2>3, <2>4 DEF Entries
    <2>6. ~(G[s] >= ColumnGap)
      BY <2>3, <2>5
    <2>7. Centre(boxes[b[s + 1]]) \in Nat /\ Centre(boxes[b[s]]) \in Nat
      BY <2>3, AreaFacts
    <2>8. G[s] < ColumnGap
      BY <2>3, <2>6, <2>7 DEF ColumnGap
    <2>9. Whole(boxes, ids)
      BY <2>8 DEF Whole
    <2> QED BY <2>9, ReadingOrderUnfolds
  <1> QED BY <1>2, <1>3

\* Where there is more than one column, the widest gap is as wide as a column's.
LEMMA ColumnsPart ==
  ASSUME NEW boxes \in Seq(Areas), NEW ids \in Seq(DOMAIN boxes),
         NEW column \in [DOMAIN boxes -> Nat], Apart(boxes, column),
         NEW i \in Entries(ids), NEW j \in Entries(ids), column[i] < column[j]
  PROVE  /\ Len(ids) >= 2
         /\ Gaps(boxes, ids)[Widest(boxes, ids)] >= ColumnGap
  <1> DEFINE n == Len(ids)
             K == DOMAIN boxes
             b == ByCentre(boxes, ids)
             G == Gaps(boxes, ids)
             s == Widest(boxes, ids)
             at(k) == column[b[k]]
  <1>1. /\ n \in Nat /\ b \in Seq(K) /\ Len(b) = n /\ Entries(b) = Entries(ids)
        /\ \A k, l \in 1 .. n : k < l => Centre(boxes[b[k]]) <= Centre(boxes[b[l]])
    BY ByCentreType
  <1>2. DOMAIN b = 1 .. n /\ \A k \in 1 .. n : b[k] \in K
    BY <1>1
  <1>3. PICK p \in 1 .. n : b[p] = i
    BY <1>1, <1>2 DEF Entries
  <1>4. PICK q \in 1 .. n : b[q] = j
    BY <1>1, <1>2 DEF Entries
  <1>5. \A k \in 1 .. n : at(k) \in Nat /\ Centre(boxes[b[k]]) \in Nat
    BY <1>2, AreaFacts
  <1>6. \A k, l \in 1 .. n :
          at(k) < at(l) <=> Centre(boxes[b[l]]) - Centre(boxes[b[k]]) >= ColumnGap
    BY <1>2 DEF Apart
  <1> HIDE DEF n, K, b, G, s
  <1>7. p < q
    <2>1. at(p) < at(q)
      BY <1>3, <1>4
    <2>2. Centre(boxes[b[q]]) - Centre(boxes[b[p]]) >= ColumnGap
      BY <1>6, <2>1
    <2>3. p # q
      BY <1>5, <2>1
    <2>4. ~(q < p)
      <3> SUFFICES ASSUME q < p PROVE FALSE
        OBVIOUS
      <3>1. Centre(boxes[b[q]]) <= Centre(boxes[b[p]])
        BY <1>1, <2>4
      <3> QED BY <1>5, <2>2, <3>1 DEF ColumnGap
    <2> QED BY <1>1, <2>3, <2>4
  <1>8. n >= 2
    BY <1>1, <1>7
  <1>9. \E k \in 1 .. n - 1 : at(k) < at(k + 1)
    <2> SUFFICES ASSUME \A k \in 1 .. n - 1 : ~(at(k) < at(k + 1)) PROVE FALSE
      OBVIOUS
    <2> DEFINE T == {k \in 1 .. n : at(k) <= at(p)}
    <2>1. p \in T
      BY <1>5
    <2>2. ASSUME NEW k \in p + 1 .. q, k - 1 \in T PROVE k \in T
      <3>1. k \in 1 .. n /\ k - 1 \in 1 .. n - 1 /\ (k - 1) + 1 = k
            /\ k - 1 \in 1 .. n
        BY <1>1, <1>7
      <3>2. ~(at(k - 1) < at((k - 1) + 1))
        BY <3>1
      <3>3. ~(at(k - 1) < at(k))
        BY <3>1, <3>2
      <3>4. at(k - 1) <= at(p)
        BY <2>2
      <3>5. at(k) \in Nat /\ at(k - 1) \in Nat /\ at(p) \in Nat
        BY <1>5, <3>1
      <3> HIDE DEF at
      <3>6. at(k) <= at(p)
        BY <3>3, <3>4, <3>5
      <3> QED BY <3>1, <3>6
    <2>3. p \in Nat /\ q \in Nat /\ q \in p .. q
      BY <1>1, <1>7
    <2>4. p .. q \subseteq T
      <3> HIDE DEF T
      <3> QED BY <2>1, <2>2, <2>3, Counting
    <2>5. at(q) <= at(p)
      BY <2>3, <2>4
    <2>6. at(p) < at(q)
      BY <1>3, <1>4
    <2>7. at(p) \in Nat /\ at(q) \in Nat
      BY <1>5
    <2> HIDE DEF at
    <2> QED BY <2>5, <2>6, <2>7
  <1>10. PICK k \in 1 .. n - 1 : at(k) < at(k + 1)
    BY <1>9
  <1>11. /\ G \in [1 .. n - 1 -> Int]
         /\ k \in 1 .. n /\ k + 1 \in 1 .. n
         /\ G[k] = Centre(boxes[b[k + 1]]) - Centre(boxes[b[k]])
    BY <1>10, GapsType DEF n, b, G
  <1>12. G[k] >= ColumnGap
    BY <1>6, <1>10, <1>11
  <1>13. s \in 1 .. n - 1 /\ G[k] <= G[s]
    BY <1>8, <1>10, WidestType DEF n, G, s
  <1>14. G[k] \in Int /\ G[s] \in Int
    BY <1>10, <1>11, <1>13
  <1>15. G[s] >= ColumnGap
    BY <1>12, <1>13, <1>14 DEF ColumnGap
  <1> QED BY <1>8, <1>15 DEF n, G, s

\* The two halves of a split have whole columns, those of the left one first.
Halved(column, l, r) ==
  /\ Paired(column, l) /\ Paired(column, r)
  /\ \A i \in Entries(l), j \in Entries(r) : column[i] < column[j]

\* Where there is more than one column the boxes are split, and between
\* columns.
LEMMA SplitBetweenColumns ==
  ASSUME NEW boxes \in Seq(Areas), NEW ids \in Seq(DOMAIN boxes),
         NEW column \in [DOMAIN boxes -> Nat], Apart(boxes, column),
         Paired(column, ids),
         NEW i \in Entries(ids), NEW j \in Entries(ids), column[i] < column[j]
  PROVE  /\ ~Whole(boxes, ids)
         /\ Halved(column, LeftHalf(boxes, ids), RightHalf(boxes, ids))
  <1> DEFINE n == Len(ids)
             K == DOMAIN boxes
             b == ByCentre(boxes, ids)
             G == Gaps(boxes, ids)
             s == Widest(boxes, ids)
             at(k) == column[b[k]]
             mid(k) == Centre(boxes[b[k]])
  <1>1. /\ n \in Nat /\ b \in Seq(K) /\ Len(b) = n /\ Entries(b) = Entries(ids)
        /\ \A k, l \in 1 .. n : k < l => mid(k) <= mid(l)
    BY ByCentreType
  <1>2. DOMAIN b = 1 .. n /\ \A k \in 1 .. n : b[k] \in K
    BY <1>1
  <1>3. \A k \in 1 .. n : at(k) \in Nat /\ mid(k) \in Nat
    BY <1>2, AreaFacts
  <1>4. \A k, l \in 1 .. n : at(k) < at(l) <=> mid(l) - mid(k) >= ColumnGap
    BY <1>2 DEF Apart
  <1>5. n >= 2 /\ G[s] >= ColumnGap
    BY ColumnsPart
  <1>6. s \in 1 .. n - 1
    BY <1>5, WidestType
  <1>7. s \in 1 .. n /\ s + 1 \in 1 .. n /\ G[s] = mid(s + 1) - mid(s)
    BY <1>6, GapsType
  <1>8. \A e \in Entries(ids) : \E k \in 1 .. n : b[k] = e
    BY <1>1, <1>2 DEF Entries
  <1>9. \A k \in 1 .. n : b[k] \in Entries(ids)
    BY <1>1, <1>2 DEF Entries
  <1>10. \A k \in 1 .. n : \E l \in 1 .. n : b[l] # b[k] /\ at(l) = at(k)
    <2> HIDE DEF b, n
    <2> SUFFICES ASSUME NEW k \in 1 .. n
                 PROVE  \E l \in 1 .. n : b[l] # b[k] /\ at(l) = at(k)
      OBVIOUS
    <2>1. PICK e \in Entries(ids) : e # b[k] /\ column[e] = column[b[k]]
      BY <1>9 DEF Paired
    <2>2. PICK l \in 1 .. n : b[l] = e
      BY <1>8
    <2> QED BY <2>1, <2>2
  <1> HIDE DEF G
  <1>11. ASSUME NEW k \in 1 .. n, NEW l \in 1 .. n, k <= s, ~(l <= s)
         PROVE  at(k) < at(l)
    <2> DEFINE t == s + 1
    <2> HIDE DEF n, s, mid, at
    <2>1. k = s \/ k < s
      BY <1>1, <1>6, <1>11
    <2>2. l = t \/ t < l
      BY <1>1, <1>6, <1>11 DEF t
    <2>3. s \in 1 .. n /\ t \in 1 .. n /\ mid(t) - mid(s) >= ColumnGap
      BY <1>5, <1>7 DEF t
    <2> HIDE DEF t
    <2>4. mid(k) <= mid(s) /\ mid(t) <= mid(l)
      <3>1. \A m \in 1 .. n : mid(m) <= mid(m)
        BY <1>3
      <3> QED BY <1>1, <2>1, <2>2, <2>3, <3>1
    <2>5. mid(k) \in Nat /\ mid(l) \in Nat /\ mid(s) \in Nat /\ mid(t) \in Nat
      BY <1>3, <2>3
    <2>6. mid(l) - mid(k) >= ColumnGap
      BY <2>3, <2>4, <2>5 DEF ColumnGap
    <2> QED BY <1>4, <2>6
  <1>12. s \in 2 .. n - 2
    <2> HIDE DEF n, s, at, b
    <2>1. s # 1
      <3> SUFFICES ASSUME s = 1 PROVE FALSE
        OBVIOUS
      <3>1. PICK l \in 1 .. n : b[l] # b[s] /\ at(l) = at(s)
        BY <1>7, <1>10
      <3>2. l # s /\ ~(l <= s) /\ s <= s
        BY <1>1, <2>1, <3>1
      <3>3. at(s) < at(l)
        BY <1>7, <1>11, <3>2
      <3>4. at(s) \in Nat
        BY <1>3, <1>7
      <3> QED BY <3>1, <3>3, <3>4
    <2>2. s # n - 1
      <3> SUFFICES ASSUME s = n - 1 PROVE FALSE
        OBVIOUS
      <3>1. n \in 1 .. n
        BY <1>1, <1>5
      <3>2. PICK l \in 1 .. n : b[l] # b[n] /\ at(l) = at(n)
        BY <1>10, <3>1
      <3>3. l # n /\ l <= s /\ ~(n <= s)
        BY <1>1, <2>2, <3>2
      <3>4. at(l) < at(n)
        BY <1>11, <3>1, <3>3
      <3>5. at(n) \in Nat
        BY <1>3, <3>1
      <3> QED BY <3>2, <3>4, <3>5
    <2> QED BY <1>1, <1>6, <2>1, <2>2
  <1>13. ~Whole(boxes, ids)
    <2>1. ~(n < 4) /\ ~(s < 2) /\ ~(s > n - 2)
      <3> HIDE DEF n, s
      <3> QED BY <1>1, <1>12
    <2>2. ~(G[s] < ColumnGap)
      <3>1. G[s] \in Int
        <4>1. mid(s + 1) \in Nat /\ mid(s) \in Nat
          BY <1>3, <1>7
        <4> HIDE DEF mid, s
        <4> QED BY <1>7, <4>1
      <3> HIDE DEF s
      <3> QED BY <1>5, <3>1 DEF ColumnGap
    <2> QED BY <2>1, <2>2 DEF Whole, G
  <1> DEFINE l == LeftHalf(boxes, ids)
             r == RightHalf(boxes, ids)
  <1>14. /\ l \in Seq(K) /\ r \in Seq(K) /\ Len(l) = s /\ Len(r) = n - s
         /\ \A k \in 1 .. s : l[k] = b[k]
         /\ \A k \in 1 .. n - s : r[k] = b[s + k]
    BY <1>13, HalvesType
  <1> HIDE DEF l, r, s, n, K, b
  <1>15. /\ \A e \in Entries(l) : \E k \in 1 .. n : k <= s /\ b[k] = e
         /\ \A k \in 1 .. n : k <= s => b[k] \in Entries(l)
    <2>1. DOMAIN l = 1 .. s
      BY <1>14
    <2>2. \A k : k \in 1 .. s <=> k \in 1 .. n /\ k <= s
      BY <1>1, <1>6
    <2>3. ASSUME NEW e \in Entries(l)
          PROVE  \E k \in 1 .. n : k <= s /\ b[k] = e
      <3>1. PICK k \in 1 .. s : l[k] = e
        BY <2>1 DEF Entries
      <3>2. b[k] = e /\ k \in 1 .. n /\ k <= s
        BY <1>14, <2>2, <3>1
      <3> QED BY <3>2
    <2>4. ASSUME NEW k \in 1 .. n, k <= s PROVE b[k] \in Entries(l)
      <3>1. k \in 1 .. s
        BY <2>2, <2>4
      <3>2. l[k] = b[k] /\ k \in DOMAIN l
        BY <1>14, <2>1, <3>1
      <3> QED BY <3>2 DEF Entries
    <2> QED BY <2>3, <2>4
  <1>16. /\ \A e \in Entries(r) : \E k \in 1 .. n : ~(k <= s) /\ b[k] = e
         /\ \A k \in 1 .. n : ~(k <= s) => b[k] \in Entries(r)
    <2>1. DOMAIN r = 1 .. n - s
      BY <1>1, <1>6, <1>14
    <2>2. \A k \in 1 .. n - s : s + k \in 1 .. n /\ ~(s + k <= s)
      BY <1>1, <1>6
    <2>3. ASSUME NEW k \in 1 .. n, ~(k <= s)
          PROVE  \E m \in 1 .. n - s : s + m = k
      <3>1. k - s \in 1 .. n - s /\ s + (k - s) = k
        BY <1>1, <1>6, <2>3
      <3> QED BY <3>1
    <2>4. ASSUME NEW e \in Entries(r)
          PROVE  \E k \in 1 .. n : ~(k <= s) /\ b[k] = e
      <3>1. PICK k \in 1 .. n - s : r[k] = e
        BY <2>1 DEF Entries
      <3>2. b[s + k] = e /\ s + k \in 1 .. n /\ ~(s + k <= s)
        BY <1>14, <2>2, <3>1
      <3> QED BY <3>2
    <2>5. ASSUME NEW k \in 1 .. n, ~(k <= s) PROVE b[k] \in Entries(r)
      <3>1. PICK m \in 1 .. n - s : s + m = k
        BY <2>3, <2>5
      <3>2. r[m] = b[k] /\ m \in DOMAIN r
        BY <1>14, <2>1, <3>1
      <3> QED BY <3>2 DEF Entries
    <2> QED BY <2>4, <2>5
  <1>17. \A e \in Entries(l), f \in Entries(r) : column[e] < column[f]
    <2> SUFFICES ASSUME NEW e \in Entries(l), NEW f \in Entries(r)
                 PROVE  column[e] < column[f]
      OBVIOUS
    <2>1. PICK k \in 1 .. n : k <= s /\ b[k] = e
      BY <1>15
    <2>2. PICK m \in 1 .. n : ~(m <= s) /\ b[m] = f
      BY <1>16
    <2>3. at(k) < at(m)
      BY <1>11, <2>1, <2>2
    <2> QED BY <2>1, <2>2, <2>3
  <1>18. Paired(column, l)
    <2> SUFFICES ASSUME NEW e \in Entries(l)
                 PROVE  \E f \in Entries(l) : f # e /\ column[f] = column[e]
      BY DEF Paired
    <2>1. PICK k \in 1 .. n : k <= s /\ b[k] = e
      BY <1>15
    <2>2. PICK m \in 1 .. n : b[m] # b[k] /\ at(m) = at(k)
      BY <1>10
    <2>3. m <= s
      <3> SUFFICES ASSUME ~(m <= s) PROVE FALSE
        OBVIOUS
      <3>1. at(k) < at(m) /\ at(k) \in Nat
        BY <1>3, <1>11, <2>1, <2>3
      <3> QED BY <2>2, <3>1
    <2> QED BY <1>15, <2>1, <2>2, <2>3
  <1>19. Paired(column, r)
    <2> SUFFICES ASSUME NEW e \in Entries(r)
                 PROVE  \E f \in Entries(r) : f # e /\ column[f] = column[e]
      BY DEF Paired
    <2>1. PICK k \in 1 .. n : ~(k <= s) /\ b[k] = e
      BY <1>16
    <2>2. PICK m \in 1 .. n : b[m] # b[k] /\ at(m) = at(k)
      BY <1>10
    <2>3. ~(m <= s)
      <3> SUFFICES ASSUME m <= s PROVE FALSE
        OBVIOUS
      <3>1. at(m) < at(k) /\ at(k) \in Nat
        BY <1>3, <1>11, <2>1, <2>3
      <3> QED BY <2>2, <3>1
    <2> QED BY <1>16, <2>1, <2>2, <2>3
  <1> QED BY <1>13, <1>17, <1>18, <1>19 DEF Halved, l, r

\* Boxes that come down their columns, and after them those of later columns.
LEMMA DownOneThenOther ==
  ASSUME NEW boxes, NEW column, NEW K, NEW a \in Seq(K), NEW b \in Seq(K),
         DownBy(boxes, column, a), DownBy(boxes, column, b),
         \A i \in Entries(a), j \in Entries(b) : column[i] < column[j]
  PROVE  DownBy(boxes, column, a \o b)
  <1> DEFINE c == Len(a)
             d == Len(b)
             res == a \o b
  <1>1. c \in Nat /\ d \in Nat /\ Len(res) = c + d
    BY ConcatProperties
  <1>2. \A k \in 1 .. c : res[k] = a[k] /\ a[k] \in Entries(a)
    <2>1. DOMAIN a = 1 .. c
      OBVIOUS
    <2> QED BY <2>1, ConcatProperties DEF Entries
  <1>3. \A k \in 1 .. d : res[c + k] = b[k] /\ b[k] \in Entries(b)
    <2>1. DOMAIN b = 1 .. d
      OBVIOUS
    <2>2. \A k \in 1 .. d : (a \o b)[c + k] = b[k]
      BY ConcatProperties
    <2>3. \A k \in 1 .. d : b[k] \in Entries(b)
      BY <2>1 DEF Entries
    <2> HIDE DEF d, c
    <2> QED BY <2>2, <2>3
  <1> HIDE DEF c, d, res
  <1>4. \A k \in 1 .. c + d : k \in 1 .. c \/ \E m \in 1 .. d : k = c + m
    <2> SUFFICES ASSUME NEW k \in 1 .. c + d, ~(k \in 1 .. c)
                 PROVE  \E m \in 1 .. d : k = c + m
      OBVIOUS
    <2>1. k - c \in 1 .. d /\ k = c + (k - c)
      BY <1>1
    <2> QED BY <2>1
  <1>5. ASSUME NEW k \in 1 .. c + d, NEW l \in 1 .. c + d, k < l
        PROVE  \/ column[res[k]] < column[res[l]]
               \/ /\ column[res[k]] = column[res[l]]
                  /\ boxes[res[k]].y0 <= boxes[res[l]].y0
    <2>1. CASE l \in 1 .. c
      <3>1. k \in 1 .. c
        BY <1>1, <1>5, <2>1
      <3> QED BY <1>2, <1>5, <2>1, <3>1 DEF DownBy, c
    <2>2. CASE k \in 1 .. c /\ ~(l \in 1 .. c)
      <3>1. PICK m \in 1 .. d : l = c + m
        BY <1>4, <2>2
      <3> QED BY <1>2, <1>3, <2>2, <3>1
    <2>3. CASE ~(k \in 1 .. c)
      <3>1. ~(l \in 1 .. c)
        BY <1>1, <1>5, <2>3
      <3>2. PICK m \in 1 .. d : k = c + m
        BY <1>4, <2>3
      <3>3. PICK o \in 1 .. d : l = c + o
        BY <1>4, <3>1
      <3>4. m < o
        BY <1>1, <1>5, <3>2, <3>3
      <3> QED BY <1>3, <3>2, <3>3, <3>4 DEF DownBy, d
    <2> QED BY <2>1, <2>2, <2>3
  <1> QED BY <1>1, <1>5 DEF DownBy, res

\* Boxes read row by row come from the top down.
LEMMA RowMajorAscends ==
  ASSUME NEW boxes \in Seq(Areas), NEW ids \in Seq(DOMAIN boxes),
         NEW k \in 1 .. Len(ids), NEW l \in 1 .. Len(ids), k < l
  PROVE  boxes[RowMajor(boxes, ids)[k]].y0 <= boxes[RowMajor(boxes, ids)[l]].y0
  <1> DEFINE K == DOMAIN boxes
             key == [i \in K |-> <<boxes[i].y0, boxes[i].x0>>]
             row == RowMajor(boxes, ids)
  <1>1. key \in [K -> Nat \X Nat] /\ \A i \in K : key[i][1] = boxes[i].y0
    BY AreaFacts
  <1>2. row = SortedBy(ids, key)
    BY DEF RowMajor
  <1>3. row \in Seq(K) /\ Len(row) = Len(ids) /\ ids \in Seq(K)
    BY RowMajorType
  <1> HIDE DEF K, key, row
  <1>4. row[k] \in K /\ row[l] \in K
    <2>1. \A i \in 1 .. Len(ids) : row[i] \in K
      BY <1>3
    <2> QED BY <2>1
  <1>5. key[row[k]][1] <= key[row[l]][1]
    BY <1>1, <1>2, <1>3, SortedByAscends
  <1> QED BY <1>1, <1>4, <1>5 DEF row

\* Whole columns are read one after the other.
LEMMA ReadingIsDown ==
  ASSUME NEW boxes \in Seq(Areas), NEW all \in Seq(DOMAIN boxes),
         NEW column \in [DOMAIN boxes -> Nat], Apart(boxes, column),
         Paired(column, all)
  PROVE  DownBy(boxes, column, ReadingOrder(boxes, all))
  <1> DEFINE K == DOMAIN boxes
             D == Seq(K)
             mu == [ids \in D |-> Len(ids)]
             T == {ids \in D : Paired(column, ids) =>
                                 DownBy(boxes, column, ReadingOrder(boxes, ids))}
  <1>1. mu \in [D -> Nat]
    OBVIOUS
  <1>2. ASSUME NEW ids \in D, \A y \in D : mu[y] < mu[ids] => y \in T,
               Paired(column, ids)
        PROVE  DownBy(boxes, column, ReadingOrder(boxes, ids))
    <2> DEFINE l == LeftHalf(boxes, ids)
               r == RightHalf(boxes, ids)
               s == Widest(boxes, ids)
               n == Len(ids)
               res == ReadingOrder(boxes, ids)
    <2>1. CASE \E i, j \in Entries(ids) : column[i] < column[j]
      <3>1. ~Whole(boxes, ids) /\ Halved(column, l, r)
        <4>1. PICK i, j \in Entries(ids) : column[i] < column[j]
          BY <2>1
        <4> QED BY <1>2, <4>1, SplitBetweenColumns
      <3>2. res = ReadingOrder(boxes, l) \o ReadingOrder(boxes, r)
        BY <3>1, ReadingOrderUnfolds
      <3>3. n \in Nat /\ s \in 2 .. n - 2 /\ l \in D /\ r \in D
            /\ Len(l) = s /\ Len(r) = n - s
        BY <3>1, HalvesType
      <3> HIDE DEF l, r, s, n, D, res
      <3>4. mu[l] < mu[ids] /\ mu[r] < mu[ids]
        <4>1. mu[l] = s /\ mu[r] = n - s /\ mu[ids] = n
          BY <3>3 DEF n
        <4> HIDE DEF mu
        <4> QED BY <3>3, <4>1
      <3>5. l \in T /\ r \in T
        <4> HIDE DEF T, mu
        <4> QED BY <1>2, <3>3, <3>4
      <3> DEFINE a == ReadingOrder(boxes, l)
                 b == ReadingOrder(boxes, r)
      <3>6. DownBy(boxes, column, a) /\ DownBy(boxes, column, b)
        BY <3>1, <3>5 DEF Halved
      <3>7. /\ a \in Seq(K) /\ Entries(a) = Entries(l)
            /\ b \in Seq(K) /\ Entries(b) = Entries(r)
        BY <3>3, ReadingOrderType DEF D
      <3>8. \A i \in Entries(a), j \in Entries(b) : column[i] < column[j]
        BY <3>1, <3>7 DEF Halved
      <3> HIDE DEF a, b, K
      <3>9. DownBy(boxes, column, a \o b)
        BY <3>6, <3>7, <3>8, DownOneThenOther
      <3> QED BY <3>2, <3>9 DEF a, b, res
    <2>2. CASE ~ \E i, j \in Entries(ids) : column[i] < column[j]
      <3>1. \A i \in Entries(ids) : i \in K
        BY DEF Entries
      <3>2. \A i, j \in Entries(ids) :
              ~(Centre(boxes[j]) - Centre(boxes[i]) >= ColumnGap)
        BY <2>2, <3>1 DEF Apart
      <3>3. res = RowMajor(boxes, ids)
        BY <3>2, OneColumn
      <3>4. res \in Seq(K) /\ Len(res) = n /\ Entries(res) = Entries(ids)
        BY <3>3, RowMajorType
      <3>5. \A k \in 1 .. n : res[k] \in Entries(ids)
        <4>1. DOMAIN res = 1 .. n
          BY <3>4
        <4> HIDE DEF res, n
        <4> QED BY <3>4, <4>1 DEF Entries
      <3>6. ASSUME NEW k \in 1 .. n, NEW m \in 1 .. n, k < m
            PROVE  /\ column[res[k]] = column[res[m]]
                   /\ boxes[res[k]].y0 <= boxes[res[m]].y0
        <4>1. res[k] \in Entries(ids) /\ res[m] \in Entries(ids)
          BY <3>5
        <4>2. column[res[k]] \in Nat /\ column[res[m]] \in Nat
          BY <3>1, <4>1
        <4>3. boxes[res[k]].y0 <= boxes[res[m]].y0
          BY <3>3, <3>6, RowMajorAscends
        <4> HIDE DEF res
        <4>4. /\ ~(column[res[k]] < column[res[m]])
              /\ ~(column[res[m]] < column[res[k]])
          BY <2>2, <4>1
        <4>5. column[res[k]] = column[res[m]]
          <5> DEFINE u == column[res[k]]
                     v == column[res[m]]
          <5>1. u \in Nat /\ v \in Nat /\ ~(u < v) /\ ~(v < u)
            BY <4>2, <4>4
          <5> HIDE DEF u, v
          <5>2. u = v
            BY <5>1
          <5> QED BY <5>2 DEF u, v
        <4> QED BY <4>3, <4>5
      <3> HIDE DEF res, n
      <3>7. DownBy(boxes, column, res)
        BY <3>4, <3>6 DEF DownBy
      <3> QED BY <3>7 DEF res
    <2> QED BY <2>1, <2>2
  <1>3. \A ids \in D : (\A y \in D : mu[y] < mu[ids] => y \in T) => ids \in T
    <2> HIDE DEF D, mu
    <2> QED BY <1>2
  <1>4. D \subseteq T
    <2> HIDE DEF D, T, mu
    <2> QED BY <1>1, <1>3, Downwards
  <1> QED BY <1>4

\* Every box of S comes in the order, and none twice.
TakesAll(order, S) ==
  /\ order \in [S -> S]
  /\ \A k, l \in S : order[k] = order[l] => k = l
  /\ \A i \in S : \E k \in S : order[k] = i

\* In an order that goes down the columns no box comes twice, and so every box
\* comes.
LEMMA DownTakesAll ==
  ASSUME NEW boxes \in Seq(Areas), NEW column \in [DOMAIN boxes -> Nat],
         NEW order \in [DOMAIN boxes -> DOMAIN boxes],
         DownColumns(boxes, column, order)
  PROVE  TakesAll(order, DOMAIN boxes)
  <1> DEFINE n == Len(boxes)
             S == 1 .. n
  <1>1. n \in Nat /\ DOMAIN boxes = S
    OBVIOUS
  <1>2. ASSUME NEW k \in S, NEW l \in S, k < l PROVE order[k] # order[l]
    <2> SUFFICES ASSUME order[k] = order[l] PROVE FALSE
      OBVIOUS
    <2>1. order[k] \in DOMAIN boxes
      BY <1>1
    <2>2. boxes[order[k]].y0 \in Nat
      BY <2>1, AreaFacts
    <2>3. \/ column[order[k]] < column[order[l]]
          \/ boxes[order[k]].y0 < boxes[order[l]].y0
      BY <1>1, <1>2 DEF DownColumns
    <2>4. column[order[k]] \in Nat
      BY <2>1
    <2> QED BY <2>2, <2>3, <2>4
  <1>3. \A k, l \in S : order[k] = order[l] => k = l
    <2>1. \A k, l \in S : k = l \/ k < l \/ l < k
      BY <1>1
    <2> QED BY <1>2, <2>1
  <1>4. order \in [S -> S]
    BY <1>1
  <1>5. IsFiniteSet(S)
    BY <1>1, FS_Interval
  <1> HIDE DEF S
  <1>6. order \in Injection(S, S)
    BY <1>3, <1>4 DEF Injection, IsInjective
  <1>7. order \in Surjection(S, S)
    BY <1>5, <1>6, FS_Injection
  <1>8. \A i \in S : \E k \in S : order[k] = i
    BY <1>7 DEF Surjection
  <1> QED BY <1>1, <1>3, <1>4, <1>8 DEF TakesAll

\* There is one such order.
LEMMA OneWayDown ==
  ASSUME NEW boxes \in Seq(Areas), NEW column \in [DOMAIN boxes -> Nat],
         NEW one \in [DOMAIN boxes -> DOMAIN boxes],
         NEW two \in [DOMAIN boxes -> DOMAIN boxes],
         DownColumns(boxes, column, one), DownColumns(boxes, column, two)
  PROVE  one = two
  <1> DEFINE S == DOMAIN boxes
             D == {k \in S : one[k] # two[k]}
  <1> SUFFICES ASSUME D # {} PROVE FALSE
    OBVIOUS
  <1>1. S \subseteq Nat
    OBVIOUS
  <1>2. D \subseteq Nat /\ D \subseteq S
    BY <1>1
  <1>3. PICK m \in D : \A k \in D : m <= k
    <2> HIDE DEF D
    <2> QED BY <1>2, LeastElement
  <1>4. m \in S /\ one[m] # two[m]
    OBVIOUS
  <1>5. ASSUME NEW k \in S, ~(m <= k) PROVE one[k] = two[k]
    <2>1. k \notin D
      <3> HIDE DEF D
      <3> QED BY <1>3, <1>5
    <2> QED BY <2>1
  <1> HIDE DEF D
  <1>6. TakesAll(one, S) /\ TakesAll(two, S)
    BY DownTakesAll
  <1>7. PICK p \in S : two[p] = one[m]
    <2> HIDE DEF S
    <2> QED BY <1>4, <1>6 DEF TakesAll
  <1>8. PICK q \in S : one[q] = two[m]
    <2> HIDE DEF S
    <2> QED BY <1>4, <1>6 DEF TakesAll
  <1>9. m < p
    <2>1. p # m
      BY <1>4, <1>7
    <2>2. CASE ~(m <= p)
      <3>1. one[p] = one[m]
        BY <1>5, <1>7, <2>2
      <3> QED BY <1>4, <1>6, <2>1, <3>1 DEF TakesAll
    <2>3. CASE m <= p
      BY <1>1, <1>4, <2>1, <2>3
    <2> QED BY <2>2, <2>3
  <1>10. m < q
    <2>1. q # m
      BY <1>4, <1>8
    <2>2. CASE ~(m <= q)
      <3>1. two[q] = two[m]
        BY <1>5, <1>8, <2>2
      <3> QED BY <1>4, <1>6, <2>1, <3>1 DEF TakesAll
    <2>3. CASE m <= q
      BY <1>1, <1>4, <2>1, <2>3
    <2> QED BY <2>2, <2>3
  <1> DEFINE a == one[m]
             b == two[m]
  <1>11. \/ column[a] < column[b]
         \/ /\ column[a] = column[b]
            /\ boxes[a].y0 < boxes[b].y0
    <2>1. m \in DOMAIN one /\ q \in DOMAIN one /\ m < q
      BY <1>4, <1>8, <1>10
    <2>2. \/ column[one[m]] < column[one[q]]
          \/ /\ column[one[m]] = column[one[q]]
             /\ boxes[one[m]].y0 < boxes[one[q]].y0
      BY <2>1 DEF DownColumns
    <2> QED BY <1>8, <2>2
  <1>12. \/ column[b] < column[a]
         \/ /\ column[b] = column[a]
            /\ boxes[b].y0 < boxes[a].y0
    <2>1. m \in DOMAIN two /\ p \in DOMAIN two /\ m < p
      BY <1>4, <1>7, <1>9
    <2>2. \/ column[two[m]] < column[two[p]]
          \/ /\ column[two[m]] = column[two[p]]
             /\ boxes[two[m]].y0 < boxes[two[p]].y0
      BY <2>1 DEF DownColumns
    <2> QED BY <1>7, <2>2
  <1>13. /\ boxes[a].y0 \in Nat /\ boxes[b].y0 \in Nat
         /\ column[a] \in Nat /\ column[b] \in Nat
    <2>1. a \in DOMAIN boxes /\ b \in DOMAIN boxes
      BY <1>4
    <2> HIDE DEF a, b
    <2> QED BY <2>1, AreaFacts
  <1> HIDE DEF a, b
  <1> QED BY <1>11, <1>12, <1>13

\* Boxes of a column that an order goes down are at different heights.
LEMMA HeightsDiffer ==
  ASSUME NEW boxes \in Seq(Areas), NEW column \in [DOMAIN boxes -> Nat],
         NEW order \in [DOMAIN boxes -> DOMAIN boxes],
         DownColumns(boxes, column, order),
         NEW i \in DOMAIN boxes, NEW j \in DOMAIN boxes, i # j,
         column[i] = column[j]
  PROVE  boxes[i].y0 # boxes[j].y0
  <1> DEFINE S == DOMAIN boxes
  <1>1. S \subseteq Nat
    OBVIOUS
  <1>2. TakesAll(order, S)
    BY DownTakesAll
  <1>3. PICK k \in S : order[k] = i
    BY <1>2 DEF TakesAll
  <1>4. PICK l \in S : order[l] = j
    BY <1>2 DEF TakesAll
  <1>5. boxes[i].y0 \in Nat /\ boxes[j].y0 \in Nat /\ column[i] \in Nat
    BY AreaFacts
  <1>6. DOMAIN order = S
    OBVIOUS
  <1>7. CASE k < l
    <2>1. \/ column[order[k]] < column[order[l]]
          \/ boxes[order[k]].y0 < boxes[order[l]].y0
      BY <1>3, <1>4, <1>6, <1>7 DEF DownColumns
    <2> QED BY <1>3, <1>4, <1>5, <2>1
  <1>8. CASE l < k
    <2>1. \/ column[order[l]] < column[order[k]]
          \/ boxes[order[l]].y0 < boxes[order[k]].y0
      BY <1>3, <1>4, <1>6, <1>8 DEF DownColumns
    <2> QED BY <1>3, <1>4, <1>5, <2>1
  <1>9. k # l
    BY <1>3, <1>4
  <1>10. k < l \/ l < k
    BY <1>1, <1>9
  <1> QED BY <1>7, <1>8, <1>10

\* The boxes of a page of columns are read down one column after the other.
LEMMA ReadingGoesDown ==
  ASSUME NEW boxes \in Seq(Areas), NEW column \in [DOMAIN boxes -> Nat],
         InColumns(boxes, column),
         NEW order \in [DOMAIN boxes -> DOMAIN boxes],
         DownColumns(boxes, column, order)
  PROVE  /\ ReadingOrder(boxes, Ids(boxes)) \in [DOMAIN boxes -> DOMAIN boxes]
         /\ DownColumns(boxes, column, ReadingOrder(boxes, Ids(boxes)))
  <1> DEFINE n == Len(boxes)
             K == DOMAIN boxes
             ids == Ids(boxes)
             res == ReadingOrder(boxes, ids)
  <1>1. /\ n \in Nat /\ K = 1 .. n
        /\ ids \in Seq(K) /\ Len(ids) = n /\ Entries(ids) = K
    BY IdsType
  <1>2. Apart(boxes, column) /\ Paired(column, ids)
    <2>1. /\ Apart(boxes, column)
          /\ \A i \in K : \E j \in K \ {i} : column[j] = column[i]
      BY DEF InColumns, Apart
    <2> HIDE DEF K, ids
    <2> QED BY <1>1, <2>1 DEF Paired
  <1>3. res \in Seq(K) /\ Len(res) = n /\ Entries(res) = K
    BY <1>1, ReadingOrderType
  <1>4. DownBy(boxes, column, res)
    BY <1>1, <1>2, ReadingIsDown
  <1>5. \A i, j \in K : i # j /\ column[i] = column[j] =>
          boxes[i].y0 # boxes[j].y0
    BY HeightsDiffer
  <1>6. \A i \in K : boxes[i].y0 \in Nat
    BY AreaFacts
  <1> HIDE DEF res, n, K, ids
  <1>7. \A k, m \in 1 .. n : res[k] = res[m] => k = m
    BY <1>1, <1>3, NoneTwice
  <1>8. ASSUME NEW k \in 1 .. n, NEW m \in 1 .. n, k < m
        PROVE  \/ column[res[k]] < column[res[m]]
               \/ /\ column[res[k]] = column[res[m]]
                  /\ boxes[res[k]].y0 < boxes[res[m]].y0
    <2>1. res[k] \in K /\ res[m] \in K /\ res[k] # res[m]
      <3>1. \A i \in 1 .. n : res[i] \in K
        BY <1>3
      <3>2. k # m
        BY <1>1, <1>8
      <3> QED BY <1>7, <3>1, <3>2
    <2>2. \/ column[res[k]] < column[res[m]]
          \/ /\ column[res[k]] = column[res[m]]
             /\ boxes[res[k]].y0 <= boxes[res[m]].y0
      BY <1>3, <1>4, <1>8 DEF DownBy
    <2>3. boxes[res[k]].y0 \in Nat /\ boxes[res[m]].y0 \in Nat
      BY <1>6, <2>1
    <2>4. column[res[k]] = column[res[m]] => boxes[res[k]].y0 # boxes[res[m]].y0
      BY <1>5, <2>1
    <2> QED BY <2>2, <2>3, <2>4
  <1>9. res \in [K -> K] /\ DOMAIN res = 1 .. n
    <2>1. DOMAIN res = 1 .. n /\ res \in [1 .. n -> K]
      BY <1>3
    <2> QED BY <1>1, <2>1
  <1>10. DownColumns(boxes, column, res)
    BY <1>8, <1>9 DEF DownColumns
  <1> QED BY <1>9, <1>10 DEF res, K, ids

\* Theorem: the boxes of a page of columns, however many, are read in the one
\* order that goes down one column after the other: _reading_order_indices
\* splits a page of several columns, never splits a column, and splits off
\* neither side too few boxes to go on.
THEOREM ColumnsAreInOrder ==
  ASSUME NEW boxes \in Seq(Areas), NEW column \in [DOMAIN boxes -> Nat],
         InColumns(boxes, column),
         NEW order \in [DOMAIN boxes -> DOMAIN boxes],
         DownColumns(boxes, column, order)
  PROVE  ReadingOrder(boxes, Ids(boxes)) = order
  BY ReadingGoesDown, OneWayDown

-----------------------------------------------------------------------------
(* Sums.                                                                   *)

Some(s) == CHOOSE x \in s : TRUE

\* it sums f over the subsets of I, as SumFunction does.
Sums(it, f, I) ==
  it = [s \in SUBSET I |->
          IF s = {} THEN 0 ELSE f[Some(s)] + it[s \ {Some(s)}]]

\* SumFunction(f) is the value, at the whole domain, of a function that sums f
\* over sets, if there is one.
LEMMA SumIsOneOf ==
  ASSUME NEW f, \E it : Sums(it, f, DOMAIN f)
  PROVE  \E it : Sums(it, f, DOMAIN f) /\ SumFunction(f) = it[DOMAIN f]
  <1> DEFINE
    I == DOMAIN f
    it == CHOOSE it : it = [s \in SUBSET I |->
            IF s = {} THEN 0
            ELSE f[CHOOSE x \in s : TRUE] + it[s \ {CHOOSE x \in s : TRUE}]]
  <1>1. SumFunction(f) = it[I]
    BY DEF SumFunction, SumFunctionOnSet, FoldFunctionOnSet, MapThenFoldSet
  <1>2. it = CHOOSE i : Sums(i, f, I)
    BY DEF Sums, Some
  <1>3. Sums(it, f, I)
    <2> HIDE DEF it
    <2> QED BY <1>2
  <1> HIDE DEF it
  <1> QED BY <1>1, <1>3

\* There is one, for a function on a finite set.
LEMMA SumDefined ==
  ASSUME NEW I, IsFiniteSet(I), NEW f \in [I -> Nat]
  PROVE  \E it : Sums(it, f, I)
  <1> DEFINE
    D == SUBSET I
    S == Nat
    mu == [s \in D |-> Cardinality(s)]
    next(g, s) == IF s = {} THEN 0 ELSE f[Some(s)] + g[s \ {Some(s)}]
    step == [g \in [D -> S] |-> [s \in D |-> next(g, s)]]
  <1>1. \A s \in D : IsFiniteSet(s) /\ Cardinality(s) \in Nat
    BY FS_Subset, FS_CardinalityType
  <1>2. mu \in [D -> Nat]
    BY <1>1
  <1>3. ASSUME NEW s \in D, s # {}
        PROVE  /\ Some(s) \in I /\ f[Some(s)] \in Nat
               /\ s \ {Some(s)} \in D /\ mu[s \ {Some(s)}] < mu[s]
    <2>1. Some(s) \in s
      BY <1>3 DEF Some
    <2>2. Some(s) \in I /\ s \ {Some(s)} \in D
      BY <2>1
    <2> DEFINE x == Some(s)
    <2> HIDE DEF x
    <2>3. Cardinality(s \ {x}) = Cardinality(s) - 1
      BY <1>1, <2>1, FS_RemoveElement DEF x
    <2>4. Cardinality(s) \in Nat
      BY <1>1
    <2>5. mu[s \ {Some(s)}] = Cardinality(s) - 1 /\ mu[s] = Cardinality(s)
      BY <2>2, <2>3 DEF x
    <2> QED BY <2>2, <2>4, <2>5
  <1>4. step \in [[D -> S] -> [D -> S]]
    <2> SUFFICES ASSUME NEW g \in [D -> S], NEW s \in D PROVE next(g, s) \in S
      OBVIOUS
    <2>1. CASE s = {}
      BY <2>1
    <2>2. CASE s # {}
      <3> DEFINE a == f[Some(s)]
                 b == g[s \ {Some(s)}]
      <3>1. a \in Nat /\ b \in Nat
        BY <1>3, <2>2
      <3> HIDE DEF a, b
      <3>2. a + b \in Nat
        BY <3>1
      <3> QED BY <2>2, <3>2 DEF a, b
    <2> QED BY <2>1, <2>2
  <1>5. Descends(step, mu, D, S)
    <2> SUFFICES ASSUME NEW s \in D, NEW g \in [D -> S], NEW h \in [D -> S],
                        \A y \in D : mu[y] < mu[s] => g[y] = h[y]
                 PROVE  step[g][s] = step[h][s]
      BY DEF Descends
    <2>1. step[g][s] = next(g, s) /\ step[h][s] = next(h, s)
      OBVIOUS
    <2>2. s # {} => g[s \ {Some(s)}] = h[s \ {Some(s)}]
      <3> HIDE DEF mu, D
      <3> QED BY <1>3
    <2> HIDE DEF step
    <2> QED BY <2>1, <2>2
  <1>6. \A g \in [D -> S] : step[g] = [s \in D |-> next(g, s)]
    OBVIOUS
  <1>7. S # {}
    OBVIOUS
  <1> HIDE DEF D, S, mu, step, next
  <1>8. IsDefined(step, D, S)
    BY <1>2, <1>4, <1>5, <1>7, Recursive
  <1>9. PICK g \in [D -> S] : g = [s \in D |-> next(g, s)]
    BY <1>6, <1>8 DEF IsDefined
  <1>10. Sums(g, f, I)
    BY <1>9 DEF Sums, D, next
  <1> QED BY <1>10

\* A set with none in it adds nothing; any other, one of its own and the rest.
AddsUp(it, f, I) ==
  /\ it[{}] = 0
  /\ \A s \in SUBSET I : s # {} =>
       /\ Some(s) \in s /\ f[Some(s)] \in Nat
       /\ it[s] = f[Some(s)] + it[s \ {Some(s)}]

\* A sum over a set is the value at one element and the sum over the others.
LEMMA SumSteps ==
  ASSUME NEW I, NEW f \in [I -> Nat], NEW it, Sums(it, f, I)
  PROVE  AddsUp(it, f, I)
  <1>1. it[{}] = 0
    BY DEF Sums
  <1>2. ASSUME NEW s \in SUBSET I, s # {}
        PROVE  /\ Some(s) \in s /\ f[Some(s)] \in Nat
               /\ it[s] = f[Some(s)] + it[s \ {Some(s)}]
    <2>1. Some(s) \in s
      BY <1>2 DEF Some
    <2> QED BY <1>2, <2>1 DEF Sums
  <1> QED BY <1>1, <1>2 DEF AddsUp

\* How a sum over a set comes out, whichever element is taken first.
SumsWell(it, f, s) ==
  it[s] \in Nat /\ \A x \in s : it[s] = f[x] + it[s \ {x}]

\* It does not matter which element is taken first.
LEMMA SumInAnyOrder ==
  ASSUME NEW I, IsFiniteSet(I), NEW f \in [I -> Nat], NEW it, Sums(it, f, I)
  PROVE  \A s \in SUBSET I : SumsWell(it, f, s)
  <1> DEFINE
    Upto(m) == \A s \in SUBSET I : Cardinality(s) = m => SumsWell(it, f, s)
  <1>0. AddsUp(it, f, I)
    BY SumSteps
  <1>1. \A s \in SUBSET I : IsFiniteSet(s) /\ Cardinality(s) \in Nat
    BY FS_Subset, FS_CardinalityType
  <1>2. Upto(0)
    <2> SUFFICES ASSUME NEW s \in SUBSET I, Cardinality(s) = 0
                 PROVE  SumsWell(it, f, s)
      OBVIOUS
    <2>1. s = {}
      BY <1>1, FS_EmptySet
    <2> QED BY <2>1, <1>0 DEF AddsUp, SumsWell
  <1>3. ASSUME NEW m \in Nat \ {0}, \A k \in 0 .. m - 1 : Upto(k)
        PROVE  Upto(m)
    <2> SUFFICES ASSUME NEW s \in SUBSET I, Cardinality(s) = m
                 PROVE  SumsWell(it, f, s)
      OBVIOUS
    <2>1. s # {}
      BY FS_EmptySet
    <2> DEFINE c == Some(s)
    <2>2. c \in s /\ f[c] \in Nat /\ it[s] = f[c] + it[s \ {c}]
      <3>1. /\ Some(s) \in s /\ f[Some(s)] \in Nat
            /\ it[s] = f[Some(s)] + it[s \ {Some(s)}]
        <4> HIDE DEF c, Upto
        <4> QED BY <1>0, <2>1 DEF AddsUp
      <3> QED BY <3>1
    <2> HIDE DEF c
    <2>3. ASSUME NEW x \in s
          PROVE  /\ s \ {x} \in SUBSET I /\ Cardinality(s \ {x}) = m - 1
                 /\ SumsWell(it, f, s \ {x})
      <3>1. Cardinality(s \ {x}) = Cardinality(s) - 1
        BY <1>1, FS_RemoveElement
      <3>2. m - 1 \in 0 .. m - 1
        OBVIOUS
      <3> QED BY <1>3, <3>1, <3>2
    <2>4. it[s \ {c}] \in Nat
      BY <2>2, <2>3 DEF SumsWell
    <2>5. it[s] \in Nat
      <3> DEFINE a == f[c]
                 b == it[s \ {c}]
      <3> HIDE DEF a, b
      <3>1. a \in Nat /\ b \in Nat /\ it[s] = a + b
        BY <2>2, <2>4 DEF a, b
      <3> QED BY <3>1
    <2>6. ASSUME NEW x \in s PROVE it[s] = f[x] + it[s \ {x}]
      <3>1. CASE x = c
        BY <2>2, <3>1
      <3>2. CASE x # c
        <4> DEFINE r == (s \ {x}) \ {c}
                   a == f[c]
                   b == f[x]
                   t == it[r]
                   u == it[s \ {c}]
                   v == it[s \ {x}]
        <4>1. (s \ {c}) \ {x} = r /\ c \in s \ {x} /\ x \in s \ {c}
          BY <2>2, <3>2
        <4>2. u = b + t
          BY <2>2, <2>3, <4>1 DEF SumsWell
        <4>3. v = a + t
          BY <2>3, <4>1 DEF SumsWell
        <4>4. it[s] = a + u
          BY <2>2
        <4>5. a \in Nat /\ b \in Nat
          BY <2>2
        <4>6. t \in Nat
          <5>1. r \in SUBSET I /\ Cardinality(r) = m - 2 /\ m - 2 \in 0 .. m - 1
            <6>1. /\ IsFiniteSet(s \ {x}) /\ Cardinality(s \ {x}) = m - 1
                  /\ s \ {x} \in SUBSET I
              BY <1>1, <2>3
            <6> DEFINE q == s \ {x}
            <6>2. Cardinality(r) = (m - 1) - 1 /\ IsFiniteSet(r)
              <7>1. r = q \ {c} /\ c \in q /\ IsFiniteSet(q)
                    /\ Cardinality(q) = m - 1
                BY <4>1, <6>1
              <7> HIDE DEF q, r
              <7>2. /\ IsFiniteSet(q \ {c})
                    /\ Cardinality(q \ {c}) = Cardinality(q) - 1
                BY <7>1, FS_RemoveElement
              <7> QED BY <7>1, <7>2
            <6>3. r \in SUBSET I /\ Cardinality(r) \in Nat
              BY <1>1, <6>1
            <6> HIDE DEF r
            <6> QED BY <6>2, <6>3
          <5> HIDE DEF r
          <5>2. SumsWell(it, f, r)
            BY <1>3, <5>1
          <5> QED BY <5>2 DEF SumsWell
        <4> HIDE DEF a, b, t, u, v, r
        <4>7. a + (b + t) = b + (a + t)
          BY <4>5, <4>6
        <4>8. it[s] = b + v
          BY <4>2, <4>3, <4>4, <4>7
        <4> QED BY <4>8 DEF b, v
      <3> QED BY <3>1, <3>2
    <2> QED BY <2>5, <2>6 DEF SumsWell
  <1>4. ASSUME NEW n \in Nat PROVE Upto(n)
    <2> DEFINE T == {m \in 0 .. n : \A k \in 0 .. m : Upto(k)}
    <2> HIDE DEF Upto
    <2>1. 0 \in T
      BY <1>2
    <2>2. ASSUME NEW i \in 1 .. n, i - 1 \in T PROVE i \in T
      <3>1. i \in Nat \ {0} /\ \A k \in 0 .. i - 1 : Upto(k)
        BY <2>2
      <3>2. Upto(i)
        BY <1>3, <3>1
      <3>3. \A k \in 0 .. i : k = i \/ k \in 0 .. i - 1
        OBVIOUS
      <3> QED BY <3>1, <3>2, <3>3
    <2>3. n \in T
      <3> HIDE DEF T
      <3> QED BY <2>1, <2>2, CountFromZero
    <2> QED BY <2>3
  <1> QED BY <1>1, <1>4

\* A sum of natural numbers is one.
LEMMA SumType ==
  ASSUME NEW I, IsFiniteSet(I), NEW f \in [I -> Nat]
  PROVE  SumFunction(f) \in Nat
  <1>1. DOMAIN f = I
    OBVIOUS
  <1>2. \E it : Sums(it, f, DOMAIN f)
    BY <1>1, SumDefined
  <1>3. PICK it : Sums(it, f, DOMAIN f) /\ SumFunction(f) = it[DOMAIN f]
    BY <1>2, SumIsOneOf
  <1>4. SumsWell(it, f, I)
    BY <1>1, <1>3, SumInAnyOrder
  <1> QED BY <1>1, <1>3, <1>4 DEF SumsWell

\* The sum of nothing, and of one more.
LEMMA SumOfNone ==
  ASSUME NEW f, DOMAIN f = {}
  PROVE  SumFunction(f) = 0
  <1> DEFINE it == [s \in SUBSET DOMAIN f |->
                      IF s = {} THEN 0 ELSE f[Some(s)] + 0]
  <1>1. Sums(it, f, DOMAIN f)
    <2>1. \A s \in SUBSET DOMAIN f : s = {}
      OBVIOUS
    <2>2. it = [s \in SUBSET DOMAIN f |-> 0]
      BY <2>1
    <2> HIDE DEF it
    <2>3. [s \in SUBSET DOMAIN f |->
             IF s = {} THEN 0 ELSE f[Some(s)] + it[s \ {Some(s)}]]
            = [s \in SUBSET DOMAIN f |-> 0]
      BY <2>1
    <2> QED BY <2>2, <2>3 DEF Sums
  <1> HIDE DEF it
  <1>2. PICK i : Sums(i, f, DOMAIN f) /\ SumFunction(f) = i[DOMAIN f]
    BY <1>1, SumIsOneOf
  <1> QED BY <1>2 DEF Sums

\* g is f without its value at x.
Without(g, f, I, x) ==
  g \in [I \ {x} -> Nat] /\ \A y \in I \ {x} : g[y] = f[y]

\* A sum is the value at any one element and the sum of the others.
LEMMA SumOfOneMore ==
  ASSUME NEW I, IsFiniteSet(I), NEW f \in [I -> Nat], NEW x \in I,
         NEW g, Without(g, f, I, x)
  PROVE  SumFunction(f) = f[x] + SumFunction(g)
  <1> DEFINE J == I \ {x}
  <1>1. J \subseteq I /\ IsFiniteSet(J) /\ J = I \ {x}
    BY FS_RemoveElement
  <1>2. /\ \A y \in J : g[y] = f[y]
        /\ g \in [J -> Nat] /\ DOMAIN g = J /\ DOMAIN f = I
    BY DEF Without
  <1> HIDE DEF J
  <1>3. PICK it : Sums(it, f, I) /\ SumFunction(f) = it[I]
    <2>1. \E it : Sums(it, f, DOMAIN f)
      BY <1>2, SumDefined
    <2>2. PICK it : Sums(it, f, DOMAIN f) /\ SumFunction(f) = it[DOMAIN f]
      BY <2>1, SumIsOneOf
    <2> QED BY <1>2, <2>2
  <1>4. PICK jt : Sums(jt, g, J) /\ SumFunction(g) = jt[J]
    <2>0. \E of : Sums(of, g, J)
      BY <1>1, <1>2, SumDefined
    <2>1. \E of : Sums(of, g, DOMAIN g)
      BY <1>2, <2>0
    <2>2. PICK of : Sums(of, g, DOMAIN g) /\ SumFunction(g) = of[DOMAIN g]
      BY <2>1, SumIsOneOf
    <2> QED BY <1>2, <2>2
  <1>5. it[I] = f[x] + it[J]
    <2>1. I \in SUBSET I
      OBVIOUS
    <2>2. SumsWell(it, f, I)
      BY <1>3, <2>1, SumInAnyOrder
    <2> QED BY <1>1, <2>2 DEF SumsWell
  <1>6. it[J] = jt[J]
    <2> DEFINE
      Same(m) == \A s \in SUBSET J : Cardinality(s) = m => it[s] = jt[s]
    <2>0. AddsUp(it, f, I) /\ AddsUp(jt, g, J)
      BY <1>2, <1>3, <1>4, SumSteps
    <2>1. \A s \in SUBSET J : IsFiniteSet(s) /\ Cardinality(s) \in Nat
      BY <1>1, FS_Subset, FS_CardinalityType
    <2>2. Same(0)
      <3> SUFFICES ASSUME NEW s \in SUBSET J, Cardinality(s) = 0
                   PROVE  it[s] = jt[s]
        OBVIOUS
      <3>1. s = {}
        BY <2>1, FS_EmptySet
      <3>2. it[{}] = 0
        BY <2>0 DEF AddsUp
      <3>3. jt[{}] = 0
        BY <2>0 DEF AddsUp
      <3> QED BY <3>1, <3>2, <3>3
    <2>3. ASSUME NEW m \in Nat \ {0}, Same(m - 1) PROVE Same(m)
      <3> SUFFICES ASSUME NEW s \in SUBSET J, Cardinality(s) = m
                   PROVE  it[s] = jt[s]
        OBVIOUS
      <3>1. s # {} /\ s \in SUBSET I
        BY <1>1, FS_EmptySet
      <3> DEFINE c == Some(s)
      <3>2. c \in s /\ it[s] = f[c] + it[s \ {c}]
        BY <2>0, <3>1 DEF AddsUp
      <3>3. jt[s] = g[c] + jt[s \ {c}]
        BY <2>0, <3>1 DEF AddsUp
      <3> HIDE DEF c
      <3>4. s \ {c} \in SUBSET J /\ Cardinality(s \ {c}) = m - 1
        BY <2>1, <3>2, FS_RemoveElement
      <3>5. it[s \ {c}] = jt[s \ {c}]
        BY <2>3, <3>4
      <3>6. g[c] = f[c]
        BY <1>2, <3>2
      <3> QED BY <3>2, <3>3, <3>5, <3>6
    <2>4. ASSUME NEW n \in Nat PROVE Same(n)
      <3> DEFINE T == {m \in 0 .. n : Same(m)}
      <3> HIDE DEF Same
      <3>1. 0 \in T /\ \A i \in 1 .. n : i - 1 \in T => i \in T
        BY <2>2, <2>3
      <3>2. n \in T
        <4> HIDE DEF T
        <4> QED BY <3>1, CountFromZero
      <3> QED BY <3>2
    <2> QED BY <2>1, <2>4
  <1> QED BY <1>3, <1>4, <1>5, <1>6

-----------------------------------------------------------------------------
(* Costs.                                                                  *)

Lines == Seq(Words) \ {<<>>}

\* A line has a number of characters.
LEMMA CharsType ==
  ASSUME NEW line \in Lines
  PROVE  Chars(line) \in Nat
  <1> DEFINE f == [k \in DOMAIN line |-> LengthOf[line[k]]]
             I == DOMAIN line
             n == Len(line)
             s == SumFunction(f)
  <1>1. line \in Seq(Words) /\ n \in Nat /\ n # 0 /\ I = 1 .. n
    BY EmptySeq DEF Lines
  <1>2. f \in [I -> Nat]
    BY <1>1, AlignmentAssumption
  <1>3. IsFiniteSet(I)
    BY <1>1, FS_Interval
  <1>4. Chars(line) = s + n - 1
    BY DEF Chars
  <1> HIDE DEF f, I
  <1>5. s \in Nat
    BY <1>2, <1>3, SumType
  <1> HIDE DEF s, n
  <1> QED BY <1>1, <1>4, <1>5

\* A box has room for something.
LEMMA CapacityType ==
  ASSUME NEW box \in Areas
  PROVE  Capacity(box) \in Nat \ {0}
  <1> DEFINE w == Distance(box.x0, box.x1)
             h == Distance(box.y0, box.y1)
  <1>1. w \in Int /\ h \in Int
    <2>1. /\ box.x0 \in Int /\ box.y0 \in Int
          /\ box.x1 \in Int /\ box.y1 \in Int
      BY DEF Areas
    <2>2. \A a, b \in Int : Distance(a, b) \in Int
      BY DEF Distance
    <2> QED BY <2>1, <2>2
  <1> DEFINE area == w * h
  <1>2. Capacity(box) = Larger(1, area)
    BY DEF Capacity
  <1> HIDE DEF w, h
  <1>3. area \in Int
    BY <1>1
  <1> HIDE DEF area
  <1>4. Larger(1, area) \in Nat \ {0}
    BY <1>3 DEF Larger
  <1> QED BY <1>2, <1>4

\* A pair has a cost.
LEMMA MatchCostType ==
  ASSUME NEW actual \in Nat, NEW capacity \in Nat,
         NEW capacities \in Nat \ {0}, NEW chars \in Nat
  PROVE  MatchCost(actual, capacity, capacities, chars) \in Nat
  <1> DEFINE have == actual * capacities
             scaled == capacity * chars
             want == Larger(capacities, scaled)
  <1>1. have \in Nat /\ scaled \in Nat
    OBVIOUS
  <1>2. MatchCost(actual, capacity, capacities, chars)
          = IF have > want THEN ((have - want) * 1000) \div have
                           ELSE ((want - have) * 500) \div want
    BY DEF MatchCost
  <1> HIDE DEF have, scaled
  <1>3. want \in Nat \ {0}
    BY <1>1 DEF Larger
  <1> HIDE DEF want
  <1> QED BY <1>1, <1>2, <1>3

\* Every pair of a line and a box has one.
LEMMA PairCostType ==
  ASSUME NEW ls \in Seq(Lines), NEW boxes \in Seq(Areas)
  PROVE  PairCost(ls, boxes) \in [(DOMAIN ls) \X (DOMAIN boxes) -> Nat]
  <1> DEFINE
    L == DOMAIN ls
    B == DOMAIN boxes
    chars == [i \in L |-> Chars(ls[i])]
    caps  == [j \in B |-> Capacity(boxes[j])]
    allChars == SumFunction(chars)
    allCaps  == SumFunction(caps)
  <1>1. PairCost(ls, boxes)
          = [x \in L \X B |->
               MatchCost(chars[x[1]], caps[x[2]], allCaps, allChars)]
    BY DEF PairCost
  <1>2. IsFiniteSet(L) /\ IsFiniteSet(B)
    BY FS_Interval
  <1>3. chars \in [L -> Nat]
    BY CharsType
  <1>4. caps \in [B -> Nat \ {0}] /\ caps \in [B -> Nat]
    BY CapacityType
  <1> HIDE DEF L, B, chars, caps
  <1>5. allChars \in Nat /\ allCaps \in Nat
    BY <1>2, <1>3, <1>4, SumType
  <1>6. ASSUME NEW j \in B PROVE allCaps # 0
    <2> DEFINE rest == [y \in B \ {j} |-> caps[y]]
               R == B \ {j}
               r == SumFunction(rest)
    <2>1. rest \in [R -> Nat] /\ IsFiniteSet(R)
      BY <1>2, <1>4, FS_RemoveElement
    <2>2. r \in Nat
      <3> HIDE DEF rest, R
      <3> QED BY <2>1, SumType
    <2>3. allCaps = caps[j] + r
      <3>1. Without(rest, caps, B, j)
        BY <2>1 DEF Without
      <3>3. IsFiniteSet(B) /\ caps \in [B -> Nat]
        BY <1>2, <1>4
      <3> HIDE DEF rest
      <3>2. SumFunction(caps) = caps[j] + SumFunction(rest)
        BY <3>1, <3>3, SumOfOneMore
      <3> QED BY <3>2 DEF allCaps
    <2>4. caps[j] \in Nat \ {0}
      BY <1>4
    <2> HIDE DEF allCaps, r
    <2> QED BY <2>2, <2>3, <2>4
  <1> HIDE DEF allChars, allCaps
  <1>7. ASSUME NEW i \in L, NEW j \in B
        PROVE  MatchCost(chars[i], caps[j], allCaps, allChars) \in Nat
    BY <1>3, <1>4, <1>5, <1>6, MatchCostType
  <1> QED BY <1>1, <1>7 DEF L, B

-----------------------------------------------------------------------------
(* The dynamic programme.                                                  *)

Ops == {"match", "line", "box"}
Paths == [cost : Nat, ops : Seq(Ops)]

Grid(n, m) == (0 .. n) \X (0 .. m)

\* best is the table that _dp_align fills, for n lines and m boxes.
Tabulates(best, cost, n, m) ==
  /\ best[<<0, 0>>] = NoPath
  /\ \A j \in 1 .. m :
       best[<<0, j>>] = Extend(best[<<0, j - 1>>], SkipBoxCost, "box")
  /\ \A i \in 1 .. n :
       best[<<i, 0>>] = Extend(best[<<i - 1, 0>>], SkipLineCost, "line")
  /\ \A i \in 1 .. n : \A j \in 1 .. m :
       best[<<i, j>>] =
         Cheaper(
           Cheaper(Extend(best[<<i - 1, j - 1>>], cost[<<i, j>>], "match"),
                   Extend(best[<<i - 1, j>>], SkipLineCost, "line")),
           Extend(best[<<i, j - 1>>], SkipBoxCost, "box"))

\* A path that goes on is a path.
LEMMA ExtendType ==
  ASSUME NEW path \in Paths, NEW cost \in Nat, NEW op \in Ops
  PROVE  /\ Extend(path, cost, op) \in Paths
         /\ Extend(path, cost, op).cost = path.cost + cost
         /\ Extend(path, cost, op).ops = Append(path.ops, op)
  <1> DEFINE c == path.cost
             o == path.ops
  <1>1. c \in Nat /\ o \in Seq(Ops)
    BY DEF Paths
  <1>2. Extend(path, cost, op) = [cost |-> c + cost, ops |-> Append(o, op)]
    BY DEF Extend
  <1> HIDE DEF c, o
  <1>3. c + cost \in Nat
    BY <1>1
  <1>4. Append(o, op) \in Seq(Ops)
    BY <1>1, AppendProperties
  <1> QED BY <1>2, <1>3, <1>4 DEF Paths, c, o

\* The cheaper of two is one of them.
LEMMA CheaperIsOne ==
  ASSUME NEW a, NEW b
  PROVE  Cheaper(a, b) \in {a, b}
  BY DEF Cheaper

\* The table can be filled, and is filled with paths.
LEMMA TableIsFilled ==
  ASSUME NEW ls \in Seq(Lines), NEW boxes \in Seq(Areas)
  PROVE  \E best \in [Grid(Len(ls), Len(boxes)) -> Paths] :
           /\ Tabulates(best, PairCost(ls, boxes), Len(ls), Len(boxes))
           /\ BestPath(ls, boxes) = best[<<Len(ls), Len(boxes)>>]
  <1> DEFINE
    n == Len(ls)
    m == Len(boxes)
    cost == PairCost(ls, boxes)
    D == Grid(n, m)
    S == Paths
    mu == [x \in D |-> x[1] + x[2]]
    first(g, x) ==
      Cheaper(Extend(g[<<x[1] - 1, x[2] - 1>>], cost[x[1], x[2]], "match"),
              Extend(g[<<x[1] - 1, x[2]>>], SkipLineCost, "line"))
    next(g, x) ==
      IF x[1] = 0 /\ x[2] = 0 THEN NoPath
      ELSE IF x[1] = 0 THEN Extend(g[<<0, x[2] - 1>>], SkipBoxCost, "box")
      ELSE IF x[2] = 0 THEN Extend(g[<<x[1] - 1, 0>>], SkipLineCost, "line")
      ELSE Cheaper(first(g, x),
                   Extend(g[<<x[1], x[2] - 1>>], SkipBoxCost, "box"))
    Best == CHOOSE g : g = [x \in D |-> next(g, x)]
    step == [g \in [D -> S] |-> [x \in D |-> next(g, x)]]
  <1>1. BestPath(ls, boxes) = Best[<<n, m>>]
    BY DEF BestPath, Grid
  <1>2. /\ n \in Nat /\ m \in Nat /\ DOMAIN ls = 1 .. n /\ DOMAIN boxes = 1 .. m
        /\ cost \in [(1 .. n) \X (1 .. m) -> Nat]
    <2>1. n \in Nat /\ m \in Nat /\ DOMAIN ls = 1 .. n /\ DOMAIN boxes = 1 .. m
      OBVIOUS
    <2>2. cost \in [(DOMAIN ls) \X (DOMAIN boxes) -> Nat]
      BY PairCostType
    <2> HIDE DEF cost, n, m
    <2> QED BY <2>1, <2>2
  <1> HIDE DEF cost, n, m
  <1>3. ASSUME NEW x \in D
        PROVE  /\ x[1] \in 0 .. n /\ x[2] \in 0 .. m /\ x = <<x[1], x[2]>>
               /\ mu[x] = x[1] + x[2] /\ mu[x] \in Nat
    <2>1. x[1] \in 0 .. n /\ x[2] \in 0 .. m /\ x = <<x[1], x[2]>>
      BY DEF Grid
    <2>2. mu[x] = x[1] + x[2]
      OBVIOUS
    <2> DEFINE i == x[1]
               j == x[2]
    <2> HIDE DEF i, j, mu, D
    <2>3. i \in 0 .. n /\ j \in 0 .. m /\ mu[x] = i + j
      BY <2>1, <2>2 DEF i, j
    <2>4. mu[x] \in Nat
      BY <1>2, <2>3
    <2> QED BY <2>1, <2>2, <2>4
  <1>4. ASSUME NEW i \in 0 .. n, NEW j \in 0 .. m
        PROVE  <<i, j>> \in D /\ mu[<<i, j>>] = i + j
    BY DEF Grid
  <1>5. mu \in [D -> Nat]
    BY <1>3
  <1>6. ASSUME NEW x \in D
        PROVE  /\ x[1] > 0 => /\ <<x[1] - 1, x[2]>> \in D
                              /\ mu[<<x[1] - 1, x[2]>>] < mu[x]
               /\ x[2] > 0 => /\ <<x[1], x[2] - 1>> \in D
                              /\ mu[<<x[1], x[2] - 1>>] < mu[x]
               /\ x[1] > 0 /\ x[2] > 0 =>
                    /\ <<x[1] - 1, x[2] - 1>> \in D
                    /\ mu[<<x[1] - 1, x[2] - 1>>] < mu[x]
                    /\ cost[<<x[1], x[2]>>] \in Nat
    <2> DEFINE i == x[1]
               j == x[2]
    <2>1. i \in 0 .. n /\ j \in 0 .. m /\ mu[x] = i + j
      BY <1>3
    <2> HIDE DEF i, j, mu, D
    <2>2. i > 0 => <<i - 1, j>> \in D /\ mu[<<i - 1, j>>] < mu[x]
      <3> SUFFICES ASSUME i > 0
                   PROVE <<i - 1, j>> \in D /\ mu[<<i - 1, j>>] < mu[x]
        OBVIOUS
      <3>1. i - 1 \in 0 .. n /\ i \in Nat /\ j \in Nat
        BY <1>2, <2>1
      <3>2. <<i - 1, j>> \in D /\ mu[<<i - 1, j>>] = (i - 1) + j
        BY <1>4, <2>1, <3>1
      <3> QED BY <2>1, <3>1, <3>2
    <2>3. j > 0 => <<i, j - 1>> \in D /\ mu[<<i, j - 1>>] < mu[x]
      <3> SUFFICES ASSUME j > 0
                   PROVE <<i, j - 1>> \in D /\ mu[<<i, j - 1>>] < mu[x]
        OBVIOUS
      <3>1. j - 1 \in 0 .. m /\ i \in Nat /\ j \in Nat
        BY <1>2, <2>1
      <3>2. <<i, j - 1>> \in D /\ mu[<<i, j - 1>>] = i + (j - 1)
        BY <1>4, <2>1, <3>1
      <3> QED BY <2>1, <3>1, <3>2
    <2>4. i > 0 /\ j > 0 => /\ <<i - 1, j - 1>> \in D
                            /\ mu[<<i - 1, j - 1>>] < mu[x]
                            /\ cost[<<i, j>>] \in Nat
      <3> SUFFICES ASSUME i > 0, j > 0
                   PROVE /\ <<i - 1, j - 1>> \in D
                         /\ mu[<<i - 1, j - 1>>] < mu[x]
                         /\ cost[<<i, j>>] \in Nat
        OBVIOUS
      <3>1. /\ i - 1 \in 0 .. n /\ j - 1 \in 0 .. m /\ i \in Nat /\ j \in Nat
            /\ i \in 1 .. n /\ j \in 1 .. m
        BY <1>2, <2>1
      <3>2. <<i - 1, j - 1>> \in D /\ mu[<<i - 1, j - 1>>] = (i - 1) + (j - 1)
        BY <1>4, <3>1
      <3> QED BY <1>2, <2>1, <3>1, <3>2
    <2> QED BY <2>2, <2>3, <2>4 DEF i, j
  <1>7. ASSUME NEW x \in D
        PROVE  \/ x[1] = 0 /\ x[2] = 0 /\ ~(x[2] > 0) /\ ~(x[1] > 0)
               \/ x[1] = 0 /\ x[2] # 0 /\ x[2] > 0 /\ ~(x[1] > 0)
               \/ x[1] # 0 /\ x[2] = 0 /\ x[1] > 0 /\ ~(x[2] > 0)
               \/ x[1] # 0 /\ x[2] # 0 /\ x[1] > 0 /\ x[2] > 0
    <2> DEFINE i == x[1]
               j == x[2]
    <2>1. i \in 0 .. n /\ j \in 0 .. m
      BY <1>3
    <2> HIDE DEF i, j
    <2>2. \/ i = 0 /\ j = 0 /\ ~(j > 0) /\ ~(i > 0)
          \/ i = 0 /\ j # 0 /\ j > 0 /\ ~(i > 0)
          \/ i # 0 /\ j = 0 /\ i > 0 /\ ~(j > 0)
          \/ i # 0 /\ j # 0 /\ i > 0 /\ j > 0
      BY <1>2, <2>1
    <2> QED BY <2>2 DEF i, j
  \* An entry that is computed from paths is one, and takes no other entry.
  <1>8. ASSUME NEW g, NEW x \in D,
               \A y \in D : mu[y] < mu[x] => g[y] \in S
        PROVE  next(g, x) \in S
    <2> HIDE DEF mu, D
    <2>1. \A p \in Paths : /\ Extend(p, SkipLineCost, "line") \in Paths
                           /\ Extend(p, SkipBoxCost, "box") \in Paths
      <3>1. /\ SkipLineCost \in Nat /\ SkipBoxCost \in Nat
            /\ "line" \in Ops /\ "box" \in Ops
        BY DEF SkipLineCost, SkipBoxCost, Ops
      <3> QED BY <3>1, ExtendType
    <2>2. \A p \in Paths : \A c \in Nat : Extend(p, c, "match") \in Paths
      BY ExtendType DEF Ops
    <2>3. NoPath \in Paths
      BY DEF NoPath, Paths
    <2>4. x[1] > 0 => g[<<x[1] - 1, x[2]>>] \in Paths
      BY <1>6, <1>8
    <2>5. x[2] > 0 => g[<<x[1], x[2] - 1>>] \in Paths
      BY <1>6, <1>8
    <2>6. x[1] > 0 /\ x[2] > 0 => /\ g[<<x[1] - 1, x[2] - 1>>] \in Paths
                                  /\ cost[<<x[1], x[2]>>] \in Nat
      BY <1>6, <1>8
    <2>7. CASE x[1] = 0 /\ x[2] = 0
      BY <2>3, <2>7
    <2>8. CASE x[1] = 0 /\ x[2] > 0
      <3>1. next(g, x) = Extend(g[<<0, x[2] - 1>>], SkipBoxCost, "box")
        BY <1>7, <2>8
      <3> HIDE DEF next
      <3> QED BY <2>1, <2>5, <2>8, <3>1
    <2>9. CASE x[1] > 0 /\ x[2] = 0
      <3>1. next(g, x) = Extend(g[<<x[1] - 1, 0>>], SkipLineCost, "line")
        BY <1>7, <2>9
      <3> HIDE DEF next
      <3> QED BY <2>1, <2>4, <2>9, <3>1
    <2>10. CASE x[1] > 0 /\ x[2] > 0
      <3> DEFINE b == Extend(g[<<x[1], x[2] - 1>>], SkipBoxCost, "box")
                 f == first(g, x)
      <3>1. next(g, x) = Cheaper(f, b)
        BY <1>7, <2>10
      <3>2. b \in Paths
        BY <2>1, <2>5, <2>10
      <3>3. f \in Paths
        <4> DEFINE p == Extend(g[<<x[1] - 1, x[2] - 1>>],
                               cost[<<x[1], x[2]>>], "match")
                   q == Extend(g[<<x[1] - 1, x[2]>>], SkipLineCost, "line")
        <4>1. p \in Paths /\ q \in Paths
          BY <2>1, <2>2, <2>4, <2>6, <2>10
        <4>2. f = Cheaper(p, q)
          OBVIOUS
        <4> HIDE DEF p, q, f
        <4> QED BY <4>1, <4>2, CheaperIsOne
      <3> HIDE DEF b, f, next
      <3> QED BY <3>1, <3>2, <3>3, CheaperIsOne
    <2> HIDE DEF next
    <2> QED BY <1>7, <2>7, <2>8, <2>9, <2>10
  <1>9. ASSUME NEW g, NEW h, NEW x \in D,
               \A y \in D : mu[y] < mu[x] => g[y] = h[y]
        PROVE  next(g, x) = next(h, x)
    <2> HIDE DEF mu, D
    <2>4. x[1] > 0 => g[<<x[1] - 1, x[2]>>] = h[<<x[1] - 1, x[2]>>]
      BY <1>6, <1>9
    <2>5. x[2] > 0 => g[<<x[1], x[2] - 1>>] = h[<<x[1], x[2] - 1>>]
      BY <1>6, <1>9
    <2>6. x[1] > 0 /\ x[2] > 0 =>
            g[<<x[1] - 1, x[2] - 1>>] = h[<<x[1] - 1, x[2] - 1>>]
      BY <1>6, <1>9
    <2>7. CASE x[1] = 0 /\ x[2] = 0
      BY <2>7
    <2>8. CASE x[1] = 0 /\ x[2] > 0
      BY <1>7, <2>5, <2>8
    <2>9. CASE x[1] > 0 /\ x[2] = 0
      BY <1>7, <2>4, <2>9
    <2>10. CASE x[1] > 0 /\ x[2] > 0
      <3>1. first(g, x) = first(h, x)
        BY <2>4, <2>6, <2>10
      <3> HIDE DEF first
      <3> QED BY <1>7, <2>5, <2>10, <3>1
    <2> HIDE DEF next
    <2> QED BY <1>7, <2>7, <2>8, <2>9, <2>10
  <1> HIDE DEF next, first
  <1>10. \E g : g = [x \in D |-> next(g, x)]
    <2>1. step \in [[D -> S] -> [D -> S]]
      <3> SUFFICES ASSUME NEW g \in [D -> S], NEW x \in D PROVE next(g, x) \in S
        OBVIOUS
      <3> QED BY <1>8
    <2>2. Descends(step, mu, D, S)
      <3> SUFFICES ASSUME NEW x \in D, NEW f \in [D -> S], NEW g \in [D -> S],
                          \A y \in D : mu[y] < mu[x] => f[y] = g[y]
                   PROVE  step[f][x] = step[g][x]
        BY DEF Descends
      <3>1. step[f][x] = next(f, x) /\ step[g][x] = next(g, x)
        OBVIOUS
      <3>2. next(f, x) = next(g, x)
        BY <1>9
      <3> QED BY <3>1, <3>2
    <2>3. \A g \in [D -> S] : step[g] = [x \in D |-> next(g, x)]
      OBVIOUS
    <2>4. S # {}
      <3>1. NoPath \in Paths
        BY DEF NoPath, Paths
      <3> QED BY <3>1
    <2> HIDE DEF step, mu, D, S
    <2>5. IsDefined(step, D, S)
      BY <1>5, <2>1, <2>2, <2>4, Recursive
    <2> QED BY ZenonT(30), <2>3, <2>5 DEF IsDefined
  <1>11. Best = [x \in D |-> next(Best, x)]
    <2>1. Best = CHOOSE g : g = [x \in D |-> next(g, x)]
      OBVIOUS
    <2> HIDE DEF Best, D
    <2> QED BY <1>10, <2>1
  <1> HIDE DEF Best
  <1>12. \A x \in D : Best[x] = next(Best, x)
    <2> HIDE DEF D
    <2> QED BY <1>11
  <1>13. Best \in [D -> S]
    <2> DEFINE T == {x \in D : Best[x] \in S}
    <2>1. ASSUME NEW x \in D, \A y \in D : mu[y] < mu[x] => y \in T
          PROVE  x \in T
      <3>1. \A y \in D : mu[y] < mu[x] => Best[y] \in S
        BY <2>1
      <3> HIDE DEF mu, D, S
      <3> QED BY <1>8, <1>12, <3>1
    <2>2. D \subseteq T
      <3> HIDE DEF T, mu, D
      <3> QED BY <1>5, <2>1, Downwards
    <2> HIDE DEF D
    <2> QED BY <1>11, <2>2
  <1>14. Tabulates(Best, cost, n, m)
    <2>1. \A i \in 0 .. n : \A j \in 0 .. m :
            Best[<<i, j>>] = next(Best, <<i, j>>)
      <3> HIDE DEF D
      <3> QED BY <1>4, <1>12
    <2>2. Best[<<0, 0>>] = NoPath
      <3>1. 0 \in 0 .. n /\ 0 \in 0 .. m
        BY <1>2
      <3>2. next(Best, <<0, 0>>) = NoPath
        BY DEF next
      <3> QED BY <2>1, <3>1, <3>2
    <2>3. ASSUME NEW j \in 1 .. m
          PROVE  Best[<<0, j>>] = Extend(Best[<<0, j - 1>>], SkipBoxCost, "box")
      <3>1. 0 \in 0 .. n /\ j \in 0 .. m /\ j # 0
        BY <1>2
      <3> DEFINE x == <<0, j>>
      <3>3. x[1] = 0 /\ x[2] = j
        OBVIOUS
      <3> HIDE DEF x
      <3>4. next(Best, x) = Extend(Best[<<0, j - 1>>], SkipBoxCost, "box")
        BY <3>1, <3>3 DEF next
      <3>2. next(Best, <<0, j>>)
              = Extend(Best[<<0, j - 1>>], SkipBoxCost, "box")
        BY <3>4 DEF x
      <3> QED BY <2>1, <3>1, <3>2
    <2>4. ASSUME NEW i \in 1 .. n
          PROVE  Best[<<i, 0>>] = Extend(Best[<<i - 1, 0>>], SkipLineCost, "line")
      <3>1. i \in 0 .. n /\ 0 \in 0 .. m /\ i > 0 /\ i # 0 /\ ~(0 > 0)
        BY <1>2
      <3>2. next(Best, <<i, 0>>)
              = Extend(Best[<<i - 1, 0>>], SkipLineCost, "line")
        BY <3>1 DEF next
      <3> QED BY <2>1, <3>1, <3>2
    <2>5. ASSUME NEW i \in 1 .. n, NEW j \in 1 .. m
          PROVE  Best[<<i, j>>] =
            Cheaper(
              Cheaper(Extend(Best[<<i - 1, j - 1>>], cost[<<i, j>>], "match"),
                      Extend(Best[<<i - 1, j>>], SkipLineCost, "line")),
              Extend(Best[<<i, j - 1>>], SkipBoxCost, "box"))
      <3>1. i \in 0 .. n /\ j \in 0 .. m /\ i > 0 /\ i # 0 /\ j > 0 /\ j # 0
        BY <1>2
      <3>2. next(Best, <<i, j>>) =
            Cheaper(
              Cheaper(Extend(Best[<<i - 1, j - 1>>], cost[<<i, j>>], "match"),
                      Extend(Best[<<i - 1, j>>], SkipLineCost, "line")),
              Extend(Best[<<i, j - 1>>], SkipBoxCost, "box"))
        BY <3>1 DEF next, first
      <3> QED BY <2>1, <3>1, <3>2
    <2> QED BY <2>2, <2>3, <2>4, <2>5 DEF Tabulates
  <1> QED BY <1>1, <1>13, <1>14 DEF cost, n, m

-----------------------------------------------------------------------------
(* What a path does with the lines.                                        *)

States == [box : Nat, last : Nat, to : Seq(Nat), matches : Nat]

Start == [box |-> 0, last |-> 0, to |-> <<>>, matches |-> 0]

\* What a step of the replay does to the box it is at, to the box matched last
\* and to the boxes of the lines.
LEMMA FollowType ==
  ASSUME NEW s \in States, NEW op \in Ops
  PROVE  /\ Follow(s, op) \in States
         /\ op = "match" =>
              /\ Follow(s, op).box = s.box + 1
              /\ Follow(s, op).last = s.box + 1
              /\ Follow(s, op).to = Append(s.to, s.box + 1)
         /\ op = "line" =>
              /\ Follow(s, op).box = s.box
              /\ Follow(s, op).last = s.last
              /\ Follow(s, op).to = Append(s.to, Larger(1, s.last))
         /\ op = "box" =>
              /\ Follow(s, op).box = s.box + 1
              /\ Follow(s, op).last = s.last
              /\ Follow(s, op).to = s.to
  <1> DEFINE b == s.box
             l == s.last
             t == s.to
             c == s.matches
  <1>1. /\ b \in Nat /\ l \in Nat /\ t \in Seq(Nat) /\ c \in Nat
        /\ s = [box |-> b, last |-> l, to |-> t, matches |-> c]
    BY DEF States
  <1>2. CASE op = "match"
    <2>1. Follow(s, op) = [box |-> b + 1, last |-> b + 1,
                           to |-> Append(t, b + 1), matches |-> c + 1]
      BY <1>1, <1>2 DEF Follow
    <2> HIDE DEF b, l, t, c
    <2>2. b + 1 \in Nat /\ c + 1 \in Nat
      BY <1>1
    <2>3. Append(t, b + 1) \in Seq(Nat)
      BY <1>1, <2>2, AppendProperties
    <2>4. Follow(s, op) \in States
      BY <2>1, <2>2, <2>3 DEF States
    <2>5. /\ Follow(s, op).box = b + 1 /\ Follow(s, op).last = b + 1
          /\ Follow(s, op).to = Append(t, b + 1)
      BY <2>1
    <2>6. op # "line" /\ op # "box"
      BY <1>2
    <2> QED BY <2>4, <2>5, <2>6 DEF b, t
  <1>3. CASE op = "line"
    <2>1. Follow(s, op) = [box |-> b, last |-> l,
                           to |-> Append(t, Larger(1, l)), matches |-> c]
      BY <1>1, <1>3 DEF Follow
    <2> HIDE DEF b, l, t, c
    <2>2. Larger(1, l) \in Nat
      BY <1>1 DEF Larger
    <2>3. Append(t, Larger(1, l)) \in Seq(Nat)
      BY <1>1, <2>2, AppendProperties
    <2>4. Follow(s, op) \in States
      <3> DEFINE a == Append(t, Larger(1, l))
      <3>1. a \in Seq(Nat) /\ b \in Nat /\ l \in Nat /\ c \in Nat
        BY <1>1, <2>3
      <3>2. Follow(s, op) = [box |-> b, last |-> l, to |-> a, matches |-> c]
        BY <2>1
      <3> HIDE DEF a
      <3> QED BY <3>1, <3>2 DEF States
    <2>5. /\ Follow(s, op).box = b /\ Follow(s, op).last = l
          /\ Follow(s, op).to = Append(t, Larger(1, l))
      BY <2>1
    <2>6. op # "match" /\ op # "box"
      BY <1>3
    <2> QED BY <2>4, <2>5, <2>6 DEF b, l, t
  <1>4. CASE op = "box"
    <2>1. Follow(s, op) = [box |-> b + 1, last |-> l, to |-> t, matches |-> c]
      BY <1>1, <1>4 DEF Follow
    <2> HIDE DEF b, l, t, c
    <2>2. b + 1 \in Nat
      BY <1>1
    <2>3. Follow(s, op) \in States
      BY <1>1, <2>1, <2>2 DEF States
    <2>4. /\ Follow(s, op).box = b + 1 /\ Follow(s, op).last = l
          /\ Follow(s, op).to = t
      BY <2>1
    <2>5. op # "match" /\ op # "line"
      BY <1>4
    <2> QED BY <2>3, <2>4, <2>5 DEF b, l, t
  <1> HIDE DEF b, l, t, c
  <1> QED BY <1>2, <1>3, <1>4 DEF Ops

\* after is where each step of ops leads.
Replays(after, ops) ==
  /\ after \in [0 .. Len(ops) -> States]
  /\ after[0] = Start
  /\ \A k \in 1 .. Len(ops) : after[k] = Follow(after[k - 1], ops[k])

\* The replay goes through states, one for each step of the path.
LEMMA ReplayRuns ==
  ASSUME NEW ops \in Seq(Ops)
  PROVE  \E after : Replays(after, ops) /\ Replay(ops) = after[Len(ops)]
  <1> DEFINE
    D == 0 .. Len(ops)
    S == States
    mu == [k \in D |-> k]
    next(g, k) == IF k = 0 THEN [box |-> 0, last |-> 0, to |-> <<>>, matches |-> 0]
                  ELSE Follow(g[k - 1], ops[k])
    After == CHOOSE g : g = [k \in D |-> next(g, k)]
    step == [g \in [D -> S] |-> [k \in D |-> next(g, k)]]
  <1>1. Replay(ops) = After[Len(ops)]
    BY DEF Replay
  <1>2. Start \in States
    BY DEF Start, States
  <1>3. ASSUME NEW k \in D
        PROVE  /\ mu[k] = k /\ k \in Nat
               /\ k # 0 => /\ k - 1 \in D /\ mu[k - 1] < mu[k]
                           /\ k \in 1 .. Len(ops) /\ ops[k] \in Ops
    OBVIOUS
  <1>4. mu \in [D -> Nat]
    OBVIOUS
  <1>5. ASSUME NEW g, NEW k \in D,
               \A y \in D : mu[y] < mu[k] => g[y] \in S
        PROVE  next(g, k) \in S
    <2>1. CASE k = 0
      BY <1>2, <2>1 DEF Start
    <2>2. CASE k # 0
      <3>1. g[k - 1] \in States /\ ops[k] \in Ops
        <4> HIDE DEF mu, D
        <4> QED BY <1>3, <1>5, <2>2
      <3>2. next(g, k) = Follow(g[k - 1], ops[k])
        BY <2>2
      <3> HIDE DEF next
      <3> QED BY <3>1, <3>2, FollowType
    <2> QED BY <2>1, <2>2
  <1>6. ASSUME NEW g, NEW h, NEW k \in D,
               \A y \in D : mu[y] < mu[k] => g[y] = h[y]
        PROVE  next(g, k) = next(h, k)
    <2>1. k # 0 => g[k - 1] = h[k - 1]
      <3> HIDE DEF mu, D
      <3> QED BY <1>3, <1>6
    <2> HIDE DEF mu, D
    <2> QED BY <2>1
  <1> HIDE DEF next
  <1>7. \E g : g = [k \in D |-> next(g, k)]
    <2>1. step \in [[D -> S] -> [D -> S]]
      <3> SUFFICES ASSUME NEW g \in [D -> S], NEW k \in D PROVE next(g, k) \in S
        OBVIOUS
      <3> QED BY <1>5
    <2>2. Descends(step, mu, D, S)
      <3> SUFFICES ASSUME NEW k \in D, NEW f \in [D -> S], NEW g \in [D -> S],
                          \A y \in D : mu[y] < mu[k] => f[y] = g[y]
                   PROVE  step[f][k] = step[g][k]
        BY DEF Descends
      <3>1. step[f][k] = next(f, k) /\ step[g][k] = next(g, k)
        OBVIOUS
      <3>2. next(f, k) = next(g, k)
        BY <1>6
      <3> QED BY <3>1, <3>2
    <2>3. \A g \in [D -> S] : step[g] = [k \in D |-> next(g, k)]
      OBVIOUS
    <2>4. S # {}
      BY <1>2
    <2> HIDE DEF step, mu, D, S
    <2>5. IsDefined(step, D, S)
      BY <1>4, <2>1, <2>2, <2>4, Recursive
    <2> QED BY ZenonT(30), <2>3, <2>5 DEF IsDefined
  <1>8. After = [k \in D |-> next(After, k)]
    <2>1. After = CHOOSE g : g = [k \in D |-> next(g, k)]
      OBVIOUS
    <2> HIDE DEF After, D
    <2> QED BY <1>7, <2>1
  <1> HIDE DEF After
  <1>9. \A k \in D : After[k] = next(After, k)
    <2> HIDE DEF D
    <2> QED BY <1>8
  <1>10. After \in [D -> S]
    <2> DEFINE T == {k \in D : After[k] \in S}
    <2>1. ASSUME NEW k \in D, \A y \in D : mu[y] < mu[k] => y \in T
          PROVE  k \in T
      <3>1. \A y \in D : mu[y] < mu[k] => After[y] \in S
        BY <2>1
      <3> HIDE DEF mu, D, S
      <3> QED BY <1>5, <1>9, <3>1
    <2>2. D \subseteq T
      <3> HIDE DEF T, mu, D
      <3> QED BY <1>4, <2>1, Downwards
    <2> HIDE DEF D
    <2> QED BY <1>8, <2>2
  <1>11. Replays(After, ops)
    <2>1. 0 \in D /\ \A k \in 1 .. Len(ops) : k \in D /\ k # 0
      OBVIOUS
    <2>2. After[0] = Start
      BY <1>9, <2>1 DEF next, Start
    <2>3. \A k \in 1 .. Len(ops) : After[k] = Follow(After[k - 1], ops[k])
      <3> HIDE DEF D
      <3> QED BY <1>9, <2>1 DEF next
    <2> QED BY <1>10, <2>2, <2>3 DEF Replays
  <1> QED BY <1>1, <1>11

\* A path that goes on is followed on.
LEMMA ReplayGoesOn ==
  ASSUME NEW ops \in Seq(Ops), NEW op \in Ops
  PROVE  Replay(Append(ops, op)) = Follow(Replay(ops), op)
  <1> DEFINE n == Len(ops)
             more == Append(ops, op)
  <1>1. /\ n \in Nat /\ more \in Seq(Ops) /\ Len(more) = n + 1
        /\ more[n + 1] = op /\ \A k \in 1 .. n : more[k] = ops[k]
    BY AppendProperties
  <1>2. PICK a : Replays(a, ops) /\ Replay(ops) = a[n]
    BY ReplayRuns
  <1> HIDE DEF more
  <1>3. PICK b : Replays(b, more) /\ Replay(more) = b[Len(more)]
    BY <1>1, ReplayRuns
  <1>4. a[n] = b[n]
    <2> DEFINE T == {k \in 0 .. n : a[k] = b[k]}
    <2>1. 0 \in T
      BY <1>1, <1>2, <1>3 DEF Replays
    <2>2. ASSUME NEW k \in 1 .. n, k - 1 \in T PROVE k \in T
      <3>1. k \in 1 .. Len(ops) /\ k \in 1 .. Len(more) /\ a[k - 1] = b[k - 1]
        BY <1>1, <2>2
      <3>2. a[k] = Follow(a[k - 1], ops[k])
        BY <1>2, <3>1 DEF Replays
      <3>3. b[k] = Follow(b[k - 1], more[k])
        BY <1>3, <3>1 DEF Replays
      <3>4. a[k] = b[k]
        BY <1>1, <3>1, <3>2, <3>3
      <3> QED BY <3>4
    <2>3. n \in T
      <3> HIDE DEF T, n
      <3> QED BY <1>1, <2>1, <2>2, CountFromZero
    <2> QED BY <2>3
  <1>5. b[n + 1] = Follow(b[n], op)
    <2>1. n + 1 \in 1 .. Len(more) /\ (n + 1) - 1 = n
      BY <1>1
    <2> HIDE DEF n
    <2> QED BY <1>1, <1>3, <2>1 DEF Replays
  <1> QED BY <1>1, <1>2, <1>3, <1>4, <1>5 DEF more

\* The replay of an empty path is where it starts.
LEMMA ReplayOfNone == Replay(<<>>) = Start
  <1> DEFINE none == <<>>
  <1>1. none \in Seq(Ops) /\ Len(none) = 0
    OBVIOUS
  <1> HIDE DEF none
  <1>2. PICK after : Replays(after, none) /\ Replay(none) = after[Len(none)]
    BY <1>1, ReplayRuns
  <1> QED BY <1>1, <1>2 DEF Replays, none

\* The replay ends in a state.
LEMMA ReplayType ==
  ASSUME NEW ops \in Seq(Ops)
  PROVE  Replay(ops) \in States
  <1>1. PICK after : Replays(after, ops) /\ Replay(ops) = after[Len(ops)]
    BY ReplayRuns
  <1>2. Len(ops) \in 0 .. Len(ops)
    OBVIOUS
  <1> QED BY <1>1, <1>2 DEF Replays

\* i lines have gone to boxes up to m, and j boxes have been passed.
Placing(s, i, j, m) ==
  /\ s.box = j
  /\ s.last <= j
  /\ Len(s.to) = i
  /\ \A k \in 1 .. i : s.to[k] \in 1 .. m

\* A step of the replay keeps the lines in boxes that are there.
LEMMA FollowPlaces ==
  ASSUME NEW s \in States, NEW i \in Nat, NEW j \in Nat, NEW m \in Nat \ {0},
         j <= m, Placing(s, i, j, m)
  PROVE  /\ j < m => /\ Placing(Follow(s, "match"), i + 1, j + 1, m)
                     /\ Placing(Follow(s, "box"), i, j + 1, m)
         /\ Placing(Follow(s, "line"), i + 1, j, m)
  <1> DEFINE b == s.box
             l == s.last
             t == s.to
  <1>1. /\ b \in Nat /\ l \in Nat /\ t \in Seq(Nat)
        /\ "match" \in Ops /\ "line" \in Ops /\ "box" \in Ops
    BY DEF States, Ops
  <1>2. b = j /\ l <= j /\ Len(t) = i /\ \A k \in 1 .. i : t[k] \in 1 .. m
    BY DEF Placing
  <1>3. ASSUME NEW e \in 1 .. m
        PROVE  /\ Len(Append(t, e)) = i + 1
               /\ \A k \in 1 .. i + 1 : Append(t, e)[k] \in 1 .. m
    <2>0. e \in Nat
      OBVIOUS
    <2> HIDE DEF t
    <2>1. /\ Len(Append(t, e)) = i + 1 /\ Append(t, e)[i + 1] = e
          /\ \A k \in 1 .. i : Append(t, e)[k] = t[k]
      BY <1>1, <1>2, <2>0, AppendProperties
    <2>2. \A k \in 1 .. i + 1 : k = i + 1 \/ k \in 1 .. i
      OBVIOUS
    <2> QED BY <1>2, <2>1, <2>2
  <1>4. j < m => Placing(Follow(s, "match"), i + 1, j + 1, m)
    <2> DEFINE f == Follow(s, "match")
    <2>1. f.box = b + 1 /\ f.last = b + 1 /\ f.to = Append(t, b + 1)
      BY <1>1, FollowType
    <2> HIDE DEF f, b, t, l
    <2>2. SUFFICES ASSUME j < m PROVE Placing(f, i + 1, j + 1, m)
      BY DEF f
    <2>3. b + 1 \in 1 .. m /\ b + 1 = j + 1 /\ b + 1 <= j + 1
      BY <1>2, <2>2
    <2> QED BY <1>3, <2>1, <2>3 DEF Placing
  <1>5. j < m => Placing(Follow(s, "box"), i, j + 1, m)
    <2> DEFINE f == Follow(s, "box")
    <2>1. f.box = b + 1 /\ f.last = l /\ f.to = t
      BY <1>1, FollowType
    <2> HIDE DEF f, b, t, l
    <2>2. b + 1 = j + 1 /\ l <= j + 1
      BY <1>1, <1>2
    <2>3. Placing(f, i, j + 1, m)
      BY <1>2, <2>1, <2>2 DEF Placing
    <2> QED BY <2>3 DEF f
  <1>6. Placing(Follow(s, "line"), i + 1, j, m)
    <2> DEFINE f == Follow(s, "line")
    <2>1. f.box = b /\ f.last = l /\ f.to = Append(t, Larger(1, l))
      BY <1>1, FollowType
    <2> HIDE DEF f, b, t, l
    <2>2. Larger(1, l) \in 1 .. m
      BY <1>1, <1>2 DEF Larger
    <2>3. Placing(f, i + 1, j, m)
      BY <1>2, <1>3, <2>1, <2>2 DEF Placing
    <2> QED BY <2>3 DEF f
  <1> QED BY <1>4, <1>5, <1>6

-----------------------------------------------------------------------------
(* What the engine may rely on.                                            *)

\* Every line goes to a box that is there.
LEMMA PathPlaces ==
  ASSUME NEW ls \in Seq(Lines), NEW boxes \in Seq(Areas), boxes # <<>>
  PROVE  /\ BestPath(ls, boxes) \in Paths
         /\ Placing(Replay(BestPath(ls, boxes).ops),
                    Len(ls), Len(boxes), Len(boxes))
  <1> DEFINE
    n == Len(ls)
    m == Len(boxes)
    cost == PairCost(ls, boxes)
    D == Grid(n, m)
    mu == [x \in D |-> x[1] + x[2]]
  <1>1. n \in Nat /\ m \in Nat \ {0}
    BY EmptySeq
  <1>2. PICK best \in [D -> Paths] :
          Tabulates(best, cost, n, m) /\ BestPath(ls, boxes) = best[<<n, m>>]
    BY TableIsFilled
  <1>3. cost \in [(1 .. n) \X (1 .. m) -> Nat]
    <2>1. DOMAIN ls = 1 .. n /\ DOMAIN boxes = 1 .. m
      OBVIOUS
    <2>2. cost \in [(DOMAIN ls) \X (DOMAIN boxes) -> Nat]
      BY PairCostType
    <2> HIDE DEF cost, n, m
    <2> QED BY <2>1, <2>2
  <1> DEFINE
    at(i, j) == best[<<i, j>>]
    Goes(p, i, j) == Placing(Replay(p.ops), i, j, m)
  <1> HIDE DEF n, m, cost
  <1>4. ASSUME NEW i \in 0 .. n, NEW j \in 0 .. m
        PROVE  <<i, j>> \in D /\ mu[<<i, j>>] = i + j /\ at(i, j) \in Paths
    BY DEF Grid
  <1>5. ASSUME NEW p \in Paths, NEW i \in Nat, NEW j \in Nat, j <= m,
               Goes(p, i, j)
        PROVE  /\ \A c \in Nat : j < m =>
                    Goes(Extend(p, c, "match"), i + 1, j + 1)
               /\ j < m => Goes(Extend(p, SkipBoxCost, "box"), i, j + 1)
               /\ Goes(Extend(p, SkipLineCost, "line"), i + 1, j)
    <2> DEFINE o == p.ops
               s == Replay(o)
    <2>1. o \in Seq(Ops)
      BY DEF Paths
    <2> HIDE DEF o
    <2>2. s \in States
      BY <2>1, ReplayType
    <2>3. Placing(s, i, j, m)
      BY <1>5 DEF o
    <2>4. /\ "match" \in Ops /\ "line" \in Ops /\ "box" \in Ops
          /\ SkipBoxCost \in Nat /\ SkipLineCost \in Nat
      BY DEF Ops, SkipBoxCost, SkipLineCost
    <2>5. ASSUME NEW op \in Ops, NEW c \in Nat
          PROVE  Replay(Extend(p, c, op).ops) = Follow(s, op)
      <3>1. Extend(p, c, op).ops = Append(o, op)
        BY ExtendType DEF o
      <3>2. Replay(Append(o, op)) = Follow(Replay(o), op)
        BY <2>1, ReplayGoesOn
      <3> QED BY <3>1, <3>2
    <2> HIDE DEF s
    <2>6. /\ j < m => /\ Placing(Follow(s, "match"), i + 1, j + 1, m)
                      /\ Placing(Follow(s, "box"), i, j + 1, m)
          /\ Placing(Follow(s, "line"), i + 1, j, m)
      BY <1>1, <1>5, <2>2, <2>3, FollowPlaces
    <2> QED BY <2>4, <2>5, <2>6
  <1> DEFINE T == {x \in D : Goes(best[x], x[1], x[2])}
  <1>6. ASSUME NEW i \in 0 .. n, NEW j \in 0 .. m,
               \A k \in 0 .. n, l \in 0 .. m :
                 k + l < i + j => Goes(at(k, l), k, l)
        PROVE  Goes(at(i, j), i, j)
    <2>1. i \in Nat /\ j \in Nat /\ j <= m
      BY <1>1
    <2>2. CASE i = 0 /\ j = 0
      <3>1. at(i, j) = NoPath
        BY <1>2, <2>2 DEF Tabulates
      <3>2. Replay(at(i, j).ops) = Start
        BY <3>1, ReplayOfNone DEF NoPath
      <3>3. Placing(Start, 0, 0, m)
        BY DEF Placing, Start
      <3> HIDE DEF at
      <3> QED BY <2>2, <3>2, <3>3
    <2>3. CASE i = 0 /\ j # 0
      <3>1. j - 1 \in 0 .. m /\ j \in 1 .. m /\ i + (j - 1) < i + j
            /\ j - 1 \in Nat /\ j - 1 < m /\ j - 1 <= m /\ (j - 1) + 1 = j
        BY <1>1, <2>1, <2>3
      <3>2. at(i, j) = Extend(at(i, j - 1), SkipBoxCost, "box")
        BY <1>2, <2>3, <3>1 DEF Tabulates
      <3>3. at(i, j - 1) \in Paths /\ Goes(at(i, j - 1), i, j - 1)
        BY <1>4, <1>6, <3>1
      <3> HIDE DEF at, Goes
      <3>4. Goes(Extend(at(i, j - 1), SkipBoxCost, "box"), i, (j - 1) + 1)
        BY <1>5, <2>1, <3>1, <3>3
      <3> QED BY <3>1, <3>2, <3>4
    <2>4. CASE i # 0 /\ j = 0
      <3>1. i - 1 \in 0 .. n /\ i \in 1 .. n /\ (i - 1) + j < i + j
            /\ i - 1 \in Nat /\ (i - 1) + 1 = i
        BY <1>1, <2>1, <2>4
      <3>2. at(i, j) = Extend(at(i - 1, j), SkipLineCost, "line")
        BY <1>2, <2>4, <3>1 DEF Tabulates
      <3>3. at(i - 1, j) \in Paths /\ Goes(at(i - 1, j), i - 1, j)
        BY <1>4, <1>6, <3>1
      <3> HIDE DEF at, Goes
      <3>4. Goes(Extend(at(i - 1, j), SkipLineCost, "line"), (i - 1) + 1, j)
        BY <1>5, <2>1, <3>1, <3>3
      <3> QED BY <3>1, <3>2, <3>4
    <2>5. CASE i # 0 /\ j # 0
      <3>1. /\ i - 1 \in 0 .. n /\ i \in 1 .. n /\ i - 1 \in Nat
            /\ j - 1 \in 0 .. m /\ j \in 1 .. m /\ j - 1 \in Nat
            /\ (i - 1) + j < i + j /\ i + (j - 1) < i + j
            /\ (i - 1) + (j - 1) < i + j
            /\ (i - 1) + 1 = i /\ (j - 1) + 1 = j /\ j - 1 < m /\ j - 1 <= m
        BY <1>1, <2>1, <2>5
      <3> DEFINE p == Extend(at(i - 1, j - 1), cost[<<i, j>>], "match")
                 q == Extend(at(i - 1, j), SkipLineCost, "line")
                 r == Extend(at(i, j - 1), SkipBoxCost, "box")
      <3>2. at(i, j) = Cheaper(Cheaper(p, q), r)
        BY <1>2, <3>1 DEF Tabulates
      <3>3. /\ at(i - 1, j - 1) \in Paths /\ Goes(at(i - 1, j - 1), i - 1, j - 1)
            /\ at(i - 1, j) \in Paths /\ Goes(at(i - 1, j), i - 1, j)
            /\ at(i, j - 1) \in Paths /\ Goes(at(i, j - 1), i, j - 1)
        BY <1>4, <1>6, <3>1
      <3>4. cost[<<i, j>>] \in Nat
        BY <1>3, <3>1
      <3> HIDE DEF at, Goes
      <3>5. Goes(p, (i - 1) + 1, (j - 1) + 1)
        BY <1>5, <3>1, <3>3, <3>4
      <3>6. Goes(q, (i - 1) + 1, j)
        BY <1>5, <2>1, <3>1, <3>3
      <3>7. Goes(r, i, (j - 1) + 1)
        BY <1>5, <2>1, <3>1, <3>3
      <3>8. Goes(p, i, j) /\ Goes(q, i, j) /\ Goes(r, i, j)
        BY <3>1, <3>5, <3>6, <3>7
      <3> HIDE DEF p, q, r
      <3>9. at(i, j) \in {p, q, r}
        BY <3>2, CheaperIsOne
      <3> QED BY <3>8, <3>9
    <2> QED BY <2>2, <2>3, <2>4, <2>5
  <1>7. D \subseteq T
    <2>1. mu \in [D -> Nat]
      <3> SUFFICES ASSUME NEW i \in 0 .. n, NEW j \in 0 .. m PROVE i + j \in Nat
        BY DEF Grid
      <3>1. i \in Nat /\ j \in Nat
        BY <1>1
      <3> QED BY <3>1
    <2>2. ASSUME NEW x \in D, \A y \in D : mu[y] < mu[x] => y \in T
          PROVE  x \in T
      <3>1. PICK i \in 0 .. n, j \in 0 .. m : x = <<i, j>>
        BY DEF Grid
      <3>2. ASSUME NEW k \in 0 .. n, NEW l \in 0 .. m, k + l < i + j
            PROVE  Goes(at(k, l), k, l)
        <4> DEFINE y == <<k, l>>
        <4>1. y \in D /\ mu[y] = k + l /\ mu[x] = i + j /\ y[1] = k /\ y[2] = l
          BY <1>4, <3>1
        <4> HIDE DEF y, mu, D, Goes
        <4>2. y \in T
          BY <2>2, <3>2, <4>1
        <4>3. Goes(best[y], k, l)
          BY <4>1, <4>2
        <4> QED BY <4>3 DEF y
      <3>3. Goes(at(i, j), i, j)
        <4> HIDE DEF Goes, at
        <4> QED BY <1>6, <3>2
      <3>4. best[x] = at(i, j) /\ x[1] = i /\ x[2] = j
        BY <3>1
      <3> HIDE DEF Goes, at, D
      <3> QED BY <3>3, <3>4
    <2> HIDE DEF T, mu, D
    <2> QED BY <2>1, <2>2, Downwards
  <1>8. <<n, m>> \in D
    BY <1>1 DEF Grid
  <1>9. Goes(best[<<n, m>>], n, m)
    BY <1>7, <1>8
  <1>10. best[<<n, m>>] \in Paths
    BY <1>2, <1>8
  <1> QED BY <1>2, <1>9, <1>10 DEF n, m

\* Whatever the order of the boxes, every line is placed in a box of the page.
LEMMA DpAlignPlaces ==
  ASSUME NEW ls \in Seq(Lines), NEW boxes \in Seq(Areas), boxes # <<>>,
         NEW order \in Seq(DOMAIN boxes), Len(order) = Len(boxes)
  PROVE  DpAlign(ls, boxes, order).placement \in [DOMAIN ls -> DOMAIN boxes]
  <1> DEFINE
    there == [k \in DOMAIN order |-> boxes[order[k]]]
    path == BestPath(ls, there)
    end == Replay(path.ops)
    to == end.to
    m == Len(boxes)
  <1>1. m \in Nat \ {0} /\ DOMAIN order = 1 .. m /\ DOMAIN boxes = 1 .. m
        /\ \A k \in 1 .. m : order[k] \in 1 .. m
    BY EmptySeq
  <1>2. there \in Seq(Areas) /\ Len(there) = m
    <2>1. \A k \in 1 .. m : boxes[order[k]] \in Areas
      BY <1>1
    <2>2. there \in [1 .. m -> Areas]
      BY <1>1, <2>1
    <2> HIDE DEF there, m
    <2> QED BY <1>1, <2>2
  <1>3. there # <<>>
    BY <1>1, <1>2
  <1> HIDE DEF there
  <1>4. Placing(end, Len(ls), m, m)
    BY <1>2, <1>3, PathPlaces
  <1>5. \A k \in DOMAIN ls : to[k] \in 1 .. m
    BY <1>4 DEF Placing
  <1>6. DpAlign(ls, boxes, order).placement
          = [k \in DOMAIN ls |-> IF to[k] = 0 THEN 0 ELSE order[to[k]]]
    BY DEF DpAlign, there
  <1> HIDE DEF to, m
  <1>7. \A k \in DOMAIN ls : to[k] # 0 /\ order[to[k]] \in DOMAIN boxes
    BY <1>1, <1>5
  <1> QED BY <1>6, <1>7

\* Theorem: for any page and any reading of it, what the aligner makes of
\* them keeps the page's boxes and gives every line to one of them, or makes
\* one box of the page that has all lines; nothing read leaves the boxes as
\* they were.
THEOREM AlignerIsFaithful ==
  ASSUME NEW layout \in Seq(Areas), NEW lines \in Seq(Lines)
  PROVE  AlignText(Unread(layout), lines)
           \in IF lines = <<>> THEN {Unread(layout)}
               ELSE Alignments(Unread(layout), lines)
  <1> DEFINE
    page == Unread(layout)
    boxes == [i \in DOMAIN page |-> page[i].box]
    ids == [i \in DOMAIN page |-> i]
    row == RowMajor(boxes, ids)
    col == ReadingOrder(boxes, ids)
    byRow == DpAlign(lines, boxes, row)
    byCol == DpAlign(lines, boxes, col)
    best == Cheaper(byRow, byCol)
    m == Len(layout)
    Allowed(result) ==
      result \in IF lines = <<>> THEN {page} ELSE Alignments(page, lines)
  <1> SUFFICES Allowed(AlignText(page, lines))
    OBVIOUS
  <1>1. /\ m \in Nat /\ DOMAIN layout = 1 .. m /\ DOMAIN page = 1 .. m
        /\ \A i \in 1 .. m : page[i] = [box |-> layout[i], text |-> <<>>]
    BY DEF Unread
  <1>2. boxes = layout
    <2>1. \A i \in 1 .. m : page[i].box = layout[i]
      BY <1>1
    <2>2. boxes = [i \in 1 .. m |-> layout[i]]
      BY <1>1, <2>1
    <2> QED BY <1>1, <2>2
  <1>3. ids \in Seq(DOMAIN layout) /\ Len(ids) = m
    <2>1. ids = [i \in 1 .. m |-> i]
      BY <1>1
    <2> HIDE DEF ids, m
    <2>2. ids \in [1 .. m -> 1 .. m]
      BY <2>1
    <2> QED BY <1>1, <2>2
  <1>4. page = <<>> <=> layout = <<>>
    <2>1. page = <<>> <=> m = 0
      <3>1. page = [i \in 1 .. m |-> [box |-> layout[i], text |-> <<>>]]
        BY <1>1 DEF Unread
      <3> HIDE DEF page, m
      <3>2. page \in Seq({[box |-> layout[i], text |-> <<>>] : i \in 1 .. m})
            /\ Len(page) = m
        BY <1>1, <3>1
      <3> QED BY <1>1, <3>2, EmptySeq
    <2>2. layout = <<>> <=> m = 0
      BY EmptySeq
    <2> QED BY <2>1, <2>2
  <1> HIDE DEF ids, boxes
  <1>5. AlignText(page, lines) =
          CASE page = <<>> /\ lines = <<>> -> <<>>
            [] page = <<>> /\ lines # <<>> -> WholePage(lines)
            [] page # <<>> /\ lines = <<>> ->
                 [i \in DOMAIN page |-> SetText(page[i], <<>>)]
            [] page # <<>> /\ lines # <<>> ->
                 IF Degenerate(lines, page, best.matches) THEN WholePage(lines)
                 ELSE Placed(page, lines, best.placement)
    <2> HIDE DEF page
    <2> QED BY DEF AlignText, ids, boxes
  <1> HIDE DEF page, best
  <1>6. WholePage(lines) \in Alignments(page, lines)
    BY DEF Alignments
  <1>7. CASE page = <<>>
    <2>1. CASE lines = <<>>
      <3>1. AlignText(page, lines) = <<>>
        BY <1>5, <1>7, <2>1
      <3> HIDE DEF best
      <3> QED BY <1>7, <2>1, <3>1
    <2>2. CASE lines # <<>>
      <3>1. AlignText(page, lines) = WholePage(lines)
        BY <1>5, <1>7, <2>2
      <3> QED BY <1>6, <2>2, <3>1
    <2> QED BY <2>1, <2>2
  <1>8. CASE page # <<>> /\ lines = <<>>
    <2>1. \A i \in 1 .. m : SetText(page[i], <<>>) = page[i]
      BY <1>1 DEF SetText
    <2>2. page = [i \in 1 .. m |-> page[i]]
      BY <1>1 DEF page, Unread
    <2>3. [i \in DOMAIN page |-> SetText(page[i], <<>>)] = page
      BY <1>1, <2>1, <2>2
    <2>4. AlignText(page, lines)
            = [i \in DOMAIN page |-> SetText(page[i], <<>>)]
      BY <1>5, <1>8
    <2> QED BY <1>8, <2>3, <2>4
  <1>9. CASE page # <<>> /\ lines # <<>>
    <2>1. boxes \in Seq(Areas) /\ boxes # <<>> /\ DOMAIN boxes = DOMAIN page
          /\ ids \in Seq(DOMAIN boxes) /\ Len(ids) = Len(boxes)
      BY <1>1, <1>2, <1>3, <1>4, <1>9
    <2>2. row \in Seq(DOMAIN boxes) /\ Len(row) = Len(boxes)
      BY <2>1, RowMajorType
    <2>3. col \in Seq(DOMAIN boxes) /\ Len(col) = Len(boxes)
      BY <2>1, ReadingOrderType
    <2> HIDE DEF row, col
    <2>4. /\ byRow.placement \in [DOMAIN lines -> DOMAIN page]
          /\ byCol.placement \in [DOMAIN lines -> DOMAIN page]
      BY <2>1, <2>2, <2>3, DpAlignPlaces
    <2>5. best \in {byRow, byCol}
      BY CheaperIsOne DEF best
    <2> HIDE DEF byRow, byCol
    <2>6. best.placement \in [DOMAIN lines -> DOMAIN page]
      BY <2>4, <2>5
    <2>7. Placed(page, lines, best.placement) \in Alignments(page, lines)
      BY <2>6 DEF Alignments
    <2>8. AlignText(page, lines)
            = IF Degenerate(lines, page, best.matches) THEN WholePage(lines)
              ELSE Placed(page, lines, best.placement)
      BY <1>5, <1>9
    <2>9. AlignText(page, lines) \in Alignments(page, lines)
      BY <1>6, <2>7, <2>8
    <2> QED BY <1>9, <2>9
  <1> QED BY <1>7, <1>8, <1>9

-----------------------------------------------------------------------------
(* The cheapest alignment.                                                 *)

\* What the pairs of a matching cost, line by line.
Charges(f, cost) == [k \in DOMAIN f |-> cost[<<k, f[k]>>]]

\* Later lines go to later boxes.
Rising(f) == \A k, l \in DOMAIN f : k < l => f[k] < f[l]

\* The costs of pairing one of n lines with one of m boxes.
Costs(n, m) == [(1 .. n) \X (1 .. m) -> Nat]

\* A matching of i lines and j boxes, and what it costs, apart from
\* MatchingCost.
LEMMA MatchingFacts ==
  ASSUME NEW i \in Nat, NEW j \in Nat, NEW f \in Matchings(i, j),
         NEW n \in Nat, NEW m \in Nat, i <= n, j <= m,
         NEW cost \in Costs(n, m)
  PROVE  /\ DOMAIN f \subseteq 1 .. i /\ f \in [DOMAIN f -> 1 .. j]
         /\ Rising(f)
         /\ IsFiniteSet(DOMAIN f) /\ Cardinality(DOMAIN f) \in Nat
         /\ Charges(f, cost) \in [DOMAIN f -> Nat]
         /\ SumFunction(Charges(f, cost)) \in Nat
         /\ MatchingCost(f, i, j, cost) =
              SumFunction(Charges(f, cost))
                + 1000 * (i - Cardinality(DOMAIN f))
                + 400 * (j - Cardinality(DOMAIN f))
  <1>1. /\ DOMAIN f \subseteq 1 .. i /\ f \in [DOMAIN f -> 1 .. j]
        /\ Rising(f)
    BY DEF Matchings, Rising
  <1>2. IsFiniteSet(DOMAIN f) /\ Cardinality(DOMAIN f) \in Nat
    <2>1. IsFiniteSet(1 .. i)
      BY FS_Interval
    <2>2. IsFiniteSet(DOMAIN f)
      BY <1>1, <2>1, FS_Subset
    <2> QED BY <2>2, FS_CardinalityType
  <1>3. Charges(f, cost) \in [DOMAIN f -> Nat]
    <2>1. ASSUME NEW k \in DOMAIN f PROVE cost[<<k, f[k]>>] \in Nat
      <3>1. k \in 1 .. n /\ f[k] \in 1 .. m
        BY <1>1
      <3> QED BY <3>1 DEF Costs
    <2> QED BY <2>1 DEF Charges
  <1>4. SumFunction(Charges(f, cost)) \in Nat
    BY <1>2, <1>3, SumType
  <1>5. MatchingCost(f, i, j, cost) =
          SumFunction(Charges(f, cost))
            + 1000 * (i - Cardinality(DOMAIN f))
            + 400 * (j - Cardinality(DOMAIN f))
    BY DEF MatchingCost, Charges, SkipLineCost, SkipBoxCost
  <1> QED BY <1>1, <1>2, <1>3, <1>4, <1>5

\* A matching without the last line is one of the lines before it, and one
\* without the last box is one of the boxes before it.
LEMMA NarrowMatching ==
  ASSUME NEW i \in Nat, NEW j \in Nat, NEW f \in Matchings(i, j),
         NEW n \in Nat, NEW m \in Nat, i <= n, j <= m,
         NEW cost \in Costs(n, m)
  PROVE  /\ i > 0 /\ i \notin DOMAIN f =>
              /\ f \in Matchings(i - 1, j)
              /\ MatchingCost(f, i, j, cost)
                   = MatchingCost(f, i - 1, j, cost) + 1000
         /\ j > 0 /\ (\A k \in DOMAIN f : f[k] # j) =>
              /\ f \in Matchings(i, j - 1)
              /\ MatchingCost(f, i, j, cost)
                   = MatchingCost(f, i, j - 1, cost) + 400
  <1> DEFINE L == DOMAIN f
             s == SumFunction(Charges(f, cost))
             c == Cardinality(L)
  <1> HIDE DEF L, s, c
  <1>1. /\ L \subseteq 1 .. i /\ f \in [L -> 1 .. j]
        /\ Rising(f)
        /\ s \in Nat /\ c \in Nat
        /\ MatchingCost(f, i, j, cost) = s + 1000 * (i - c) + 400 * (j - c)
    BY MatchingFacts DEF L, s, c
  <1>2. ASSUME i > 0, i \notin L
        PROVE  /\ f \in Matchings(i - 1, j)
               /\ MatchingCost(f, i, j, cost)
                    = MatchingCost(f, i - 1, j, cost) + 1000
    <2> DEFINE p == i - 1
    <2>1. p \in Nat /\ p <= n /\ i = p + 1 /\ L \subseteq 1 .. p
      BY <1>1, <1>2
    <2> HIDE DEF p
    <2>2. f \in Matchings(p, j)
      BY <1>1, <2>1 DEF Matchings, Rising
    <2>3. MatchingCost(f, p, j, cost) = s + 1000 * (p - c) + 400 * (j - c)
      BY <2>1, <2>2, MatchingFacts DEF s, c, L
    <2>4. MatchingCost(f, i, j, cost) = MatchingCost(f, p, j, cost) + 1000
      BY <1>1, <2>1, <2>3
    <2> QED BY <2>2, <2>4 DEF p
  <1>3. ASSUME j > 0, \A k \in L : f[k] # j
        PROVE  /\ f \in Matchings(i, j - 1)
               /\ MatchingCost(f, i, j, cost)
                    = MatchingCost(f, i, j - 1, cost) + 400
    <2> DEFINE q == j - 1
    <2>1. q \in Nat /\ q <= m /\ j = q + 1
      BY <1>3
    <2>2. f \in [L -> 1 .. q]
      <3>1. \A k \in L : f[k] \in 1 .. q
        BY <1>1, <1>3
      <3> QED BY <1>1, <3>1
    <2> HIDE DEF q
    <2>3. f \in Matchings(i, q)
      BY <1>1, <2>1, <2>2 DEF Matchings, Rising
    <2>4. MatchingCost(f, i, q, cost) = s + 1000 * (i - c) + 400 * (q - c)
      BY <2>1, <2>3, MatchingFacts DEF s, c, L
    <2>5. MatchingCost(f, i, j, cost) = MatchingCost(f, i, q, cost) + 400
      BY <1>1, <2>1, <2>4
    <2> QED BY <2>3, <2>5 DEF q
  <1> QED BY <1>2, <1>3 DEF L

\* A matching is also one of more lines, or of more boxes.
LEMMA WiderMatching ==
  ASSUME NEW i \in Nat, NEW j \in Nat, NEW f \in Matchings(i, j)
  PROVE  f \in Matchings(i + 1, j) /\ f \in Matchings(i, j + 1)
  BY DEF Matchings

\* f is g and, after it, line i in box j.
Adds(f, g, i, j) ==
  /\ DOMAIN f = DOMAIN g \cup {i}
  /\ f[i] = j
  /\ \A k \in DOMAIN g : f[k] = g[k]

\* A pair of the last line and the last box adds what it costs.
LEMMA LastPairCosts ==
  ASSUME NEW i \in Nat \ {0}, NEW j \in Nat \ {0},
         NEW n \in Nat, NEW m \in Nat, i <= n, j <= m,
         NEW cost \in Costs(n, m),
         NEW f \in Matchings(i, j), NEW g \in Matchings(i - 1, j - 1),
         Adds(f, g, i, j)
  PROVE  /\ MatchingCost(g, i - 1, j - 1, cost) \in Int
         /\ MatchingCost(f, i, j, cost)
              = MatchingCost(g, i - 1, j - 1, cost) + cost[<<i, j>>]
  <1> DEFINE p == i - 1
             q == j - 1
             F == DOMAIN f
             G == DOMAIN g
             cf == Charges(f, cost)
             cg == Charges(g, cost)
             s == SumFunction(cf)
             t == SumFunction(cg)
             b == Cardinality(F)
             c == Cardinality(G)
             last == cost[<<i, j>>]
  <1> HIDE DEF F, G, cf, cg, s, t, b, c
  <1>1. p \in Nat /\ q \in Nat /\ p <= n /\ q <= m /\ i = p + 1 /\ j = q + 1
    OBVIOUS
  <1>2. g \in Matchings(p, q)
    OBVIOUS
  <1>3. last \in Nat
    BY DEF Costs
  <1> HIDE DEF p, q, last
  <1>4. /\ IsFiniteSet(F) /\ b \in Nat /\ cf \in [F -> Nat] /\ s \in Nat
        /\ MatchingCost(f, i, j, cost) = s + 1000 * (i - b) + 400 * (j - b)
    <2>1. i \in Nat /\ j \in Nat
      OBVIOUS
    <2> QED BY <2>1, MatchingFacts DEF F, cf, s, b
  <1>5. /\ G \subseteq 1 .. p /\ IsFiniteSet(G) /\ c \in Nat
        /\ cg \in [G -> Nat] /\ t \in Nat
        /\ MatchingCost(g, p, q, cost) = t + 1000 * (p - c) + 400 * (q - c)
    BY <1>1, <1>2, MatchingFacts DEF G, cg, t, c
  <1>6. i \notin G /\ F = G \cup {i} /\ F \ {i} = G /\ i \in F
    <2>1. i \notin G
      BY <1>1, <1>5
    <2>2. F = G \cup {i}
      BY DEF Adds, F, G
    <2> QED BY <2>1, <2>2
  <1>7. b = c + 1
    <2> DEFINE x == i
    <2>1. IsFiniteSet(G) /\ x \notin G /\ F = G \cup {x}
      BY <1>5, <1>6
    <2> HIDE DEF x
    <2>2. Cardinality(F) = Cardinality(G) + 1
      BY <2>1, FS_AddElement
    <2> QED BY <2>2 DEF b, c
  <1>8. Without(cg, cf, F, i)
    <2>1. ASSUME NEW k \in G PROVE cg[k] = cf[k]
      <3>1. f[k] = g[k] /\ k \in F
        BY <1>6 DEF Adds, G
      <3> QED BY <3>1 DEF Charges, cf, cg, F, G
    <2> QED BY <1>5, <1>6, <2>1 DEF Without
  <1>9. cf[i] = last
    BY <1>6 DEF Adds, Charges, cf, F, last
  <1>10. s = last + t
    <2> DEFINE x == i
    <2>1. /\ IsFiniteSet(F) /\ cf \in [F -> Nat] /\ x \in F
          /\ Without(cg, cf, F, x) /\ cf[x] = last
      BY <1>4, <1>6, <1>8, <1>9
    <2> HIDE DEF x
    <2>2. SumFunction(cf) = cf[x] + SumFunction(cg)
      BY <2>1, SumOfOneMore
    <2> QED BY <2>1, <2>2 DEF s, t
  <1>11. MatchingCost(f, i, j, cost) = MatchingCost(g, p, q, cost) + last
    BY <1>1, <1>3, <1>4, <1>5, <1>7, <1>10
  <1>12. MatchingCost(g, p, q, cost) \in Int
    BY <1>1, <1>5
  <1> QED BY <1>11, <1>12 DEF p, q, last

\* A matching can be given a pair of its own after it.
LEMMA PairCanBeAdded ==
  ASSUME NEW i \in Nat \ {0}, NEW j \in Nat \ {0},
         NEW g \in Matchings(i - 1, j - 1)
  PROVE  \E f \in Matchings(i, j) : Adds(f, g, i, j)
  <1> DEFINE p == i - 1
             q == j - 1
             G == DOMAIN g
             F == G \cup {i}
             f == [k \in F |-> IF k = i THEN j ELSE g[k]]
  <1>1. p \in Nat /\ q \in Nat /\ i = p + 1 /\ j = q + 1
    OBVIOUS
  <1>2. g \in Matchings(p, q)
    OBVIOUS
  <1> HIDE DEF p, q
  <1>3. G \subseteq 1 .. p /\ g \in [G -> 1 .. q] /\ Rising(g)
    BY <1>2 DEF Matchings, Rising
  <1>4. i \notin G /\ F \subseteq 1 .. i
    BY <1>1, <1>3
  <1>5. \A k \in G : k # i /\ k < i /\ f[k] = g[k] /\ g[k] \in 1 .. j /\ g[k] < j
    BY <1>1, <1>3, <1>4
  <1>6. f[i] = j /\ j \in 1 .. j /\ DOMAIN f = F
    BY <1>1
  <1> HIDE DEF G
  <1>7. f \in [F -> 1 .. j]
    BY <1>5, <1>6
  <1> HIDE DEF f
  <1>8. Rising(f)
    <2>1. ASSUME NEW k \in F, NEW l \in F, k < l PROVE f[k] < f[l]
      <3>1. CASE l = i
        <4>1. k \in G
          BY <1>4, <2>1, <3>1
        <4> QED BY <1>5, <1>6, <3>1, <4>1
      <3>2. CASE l # i
        <4>1. l \in G /\ l < i
          BY <1>5, <3>2
        <4>2. k \in G
          BY <1>4, <2>1, <4>1
        <4> QED BY <1>3, <1>5, <2>1, <4>1, <4>2 DEF Rising, G
      <3> QED BY <3>1, <3>2
    <2> QED BY <1>6, <2>1 DEF Rising
  <1>9. f \in Matchings(i, j)
    BY <1>4, <1>7, <1>8 DEF Matchings, Rising
  <1>10. Adds(f, g, i, j)
    BY <1>5, <1>6 DEF Adds, G
  <1> QED BY <1>9, <1>10

\* A matching that ends with the last line in the last box is one of the
\* others, and that pair.
LEMMA PairCanBeTaken ==
  ASSUME NEW i \in Nat \ {0}, NEW j \in Nat \ {0},
         NEW f \in Matchings(i, j), i \in DOMAIN f, f[i] = j
  PROVE  \E g \in Matchings(i - 1, j - 1) : Adds(f, g, i, j)
  <1> DEFINE p == i - 1
             q == j - 1
             F == DOMAIN f
             G == F \ {i}
             g == [k \in G |-> f[k]]
  <1>1. p \in Nat /\ q \in Nat /\ i = p + 1 /\ j = q + 1
    OBVIOUS
  <1> HIDE DEF p, q
  <1>2. F \subseteq 1 .. i /\ f \in [F -> 1 .. j] /\ Rising(f) /\ i \in F
    BY DEF Matchings, Rising
  <1> HIDE DEF F
  <1>3. G \subseteq 1 .. p /\ F = G \cup {i}
    BY <1>1, <1>2
  <1>4. DOMAIN g = G /\ \A k \in G : g[k] = f[k]
    OBVIOUS
  <1>5. ASSUME NEW k \in G PROVE f[k] \in 1 .. q
    <2>1. k \in F /\ k < i
      BY <1>1, <1>3
    <2>2. f[k] < f[i]
      BY <1>2, <2>1 DEF Rising, F
    <2> QED BY <1>1, <1>2, <2>1, <2>2
  <1>6. g \in [G -> 1 .. q]
    BY <1>5
  <1> HIDE DEF g
  <1>7. Rising(g)
    <2>1. ASSUME NEW k \in G, NEW l \in G, k < l PROVE g[k] < g[l]
      BY <1>2, <1>3, <1>4, <2>1 DEF Rising, F
    <2> QED BY <1>4, <2>1 DEF Rising
  <1>8. g \in Matchings(p, q)
    BY <1>3, <1>6, <1>7 DEF Matchings, Rising
  <1>9. Adds(f, g, i, j)
    BY <1>3, <1>4 DEF Adds, F
  <1> QED BY <1>8, <1>9 DEF p, q

\* Some alignment of the first i lines and j boxes costs c.
Reached(c, i, j, cost) ==
  \E f \in Matchings(i, j) : MatchingCost(f, i, j, cost) = c

\* No alignment of the first i lines and j boxes costs less than c.
NoneBelow(c, i, j, cost) ==
  \A f \in Matchings(i, j) : c <= MatchingCost(f, i, j, cost)

\* An alignment is made longer by a skipped line.
LEMMA ReachedByLine ==
  ASSUME NEW i \in Nat, NEW j \in Nat, i > 0,
         NEW n \in Nat, NEW m \in Nat, i <= n, j <= m,
         NEW cost \in Costs(n, m), NEW c \in Nat,
         Reached(c, i - 1, j, cost)
  PROVE  Reached(c + 1000, i, j, cost)
  <1> DEFINE p == i - 1
  <1>1. p \in Nat /\ p + 1 = i /\ i \notin 1 .. p
    OBVIOUS
  <1>2. PICK f \in Matchings(p, j) : MatchingCost(f, p, j, cost) = c
    BY DEF Reached
  <1> HIDE DEF p
  <1>3. f \in Matchings(i, j) /\ DOMAIN f \subseteq 1 .. p
    <2>1. f \in Matchings(p + 1, j)
      BY <1>1, WiderMatching
    <2> QED BY <1>1, <2>1 DEF Matchings
  <1>4. i \notin DOMAIN f
    BY <1>1, <1>3
  <1>5. MatchingCost(f, i, j, cost) = MatchingCost(f, p, j, cost) + 1000
    BY <1>3, <1>4, NarrowMatching DEF p
  <1> QED BY <1>2, <1>3, <1>5 DEF Reached

\* An alignment is made longer by a skipped box.
LEMMA ReachedByBox ==
  ASSUME NEW i \in Nat, NEW j \in Nat, j > 0,
         NEW n \in Nat, NEW m \in Nat, i <= n, j <= m,
         NEW cost \in Costs(n, m), NEW c \in Nat,
         Reached(c, i, j - 1, cost)
  PROVE  Reached(c + 400, i, j, cost)
  <1> DEFINE q == j - 1
  <1>1. q \in Nat /\ q + 1 = j /\ j \notin 1 .. q
    OBVIOUS
  <1>2. PICK f \in Matchings(i, q) : MatchingCost(f, i, q, cost) = c
    BY DEF Reached
  <1> HIDE DEF q
  <1>3. f \in Matchings(i, j)
    <2>1. f \in Matchings(i, q + 1)
      BY <1>1, WiderMatching
    <2> QED BY <1>1, <2>1
  <1>4. \A k \in DOMAIN f : f[k] # j
    <2>1. \A k \in DOMAIN f : f[k] \in 1 .. q
      BY DEF Matchings
    <2> QED BY <1>1, <2>1
  <1>5. MatchingCost(f, i, j, cost) = MatchingCost(f, i, q, cost) + 400
    BY <1>3, <1>4, NarrowMatching DEF q
  <1> QED BY <1>2, <1>3, <1>5 DEF Reached

\* An alignment is made longer by a line in a box.
LEMMA ReachedByMatch ==
  ASSUME NEW i \in Nat, NEW j \in Nat, i > 0, j > 0,
         NEW n \in Nat, NEW m \in Nat, i <= n, j <= m,
         NEW cost \in Costs(n, m), NEW c \in Nat,
         Reached(c, i - 1, j - 1, cost)
  PROVE  Reached(c + cost[<<i, j>>], i, j, cost)
  <1>0. i \in Nat \ {0} /\ j \in Nat \ {0}
    OBVIOUS
  <1>1. PICK g \in Matchings(i - 1, j - 1) :
          MatchingCost(g, i - 1, j - 1, cost) = c
    BY DEF Reached
  <1>2. PICK f \in Matchings(i, j) : Adds(f, g, i, j)
    BY <1>0, PairCanBeAdded
  <1>3. MatchingCost(f, i, j, cost)
          = MatchingCost(g, i - 1, j - 1, cost) + cost[<<i, j>>]
    BY <1>0, <1>2, LastPairCosts
  <1> QED BY <1>1, <1>3 DEF Reached

\* c is no more than what the alignments that end with a match, with a skipped
\* line and with a skipped box cost at least, where there are such.
Bounds(c, p, q, r, i, j, cost) ==
  /\ i > 0 /\ j > 0 => /\ NoneBelow(p, i - 1, j - 1, cost)
                       /\ c <= p + cost[<<i, j>>]
  /\ i > 0 => NoneBelow(q, i - 1, j, cost) /\ c <= q + 1000
  /\ j > 0 => NoneBelow(r, i, j - 1, cost) /\ c <= r + 400

\* Nor is there a cheaper one than those made so.
LEMMA NoneBelowNext ==
  ASSUME NEW i \in Nat, NEW j \in Nat, i > 0 \/ j > 0,
         NEW n \in Nat, NEW m \in Nat, i <= n, j <= m,
         NEW cost \in Costs(n, m), NEW c \in Nat,
         NEW p \in Nat, NEW q \in Nat, NEW r \in Nat,
         Bounds(c, p, q, r, i, j, cost)
  PROVE  NoneBelow(c, i, j, cost)
  <1> SUFFICES ASSUME NEW f \in Matchings(i, j)
               PROVE  c <= MatchingCost(f, i, j, cost)
    BY DEF NoneBelow
  <1> DEFINE all == MatchingCost(f, i, j, cost)
             Unused == \A k \in DOMAIN f : f[k] # j
  <1>0. /\ i > 0 /\ j > 0 => /\ NoneBelow(p, i - 1, j - 1, cost)
                             /\ c <= p + cost[<<i, j>>]
        /\ i > 0 => NoneBelow(q, i - 1, j, cost) /\ c <= q + 1000
        /\ j > 0 => NoneBelow(r, i, j - 1, cost) /\ c <= r + 400
    BY DEF Bounds
  <1>1. /\ DOMAIN f \subseteq 1 .. i /\ f \in [DOMAIN f -> 1 .. j]
        /\ Rising(f)
    BY DEF Matchings, Rising
  <1>2. CASE i > 0 /\ i \notin DOMAIN f
    <2> DEFINE rest == MatchingCost(f, i - 1, j, cost)
    <2>1. f \in Matchings(i - 1, j) /\ all = rest + 1000
      BY <1>2, NarrowMatching
    <2>2. q <= rest
      BY <1>0, <1>2, <2>1 DEF NoneBelow
    <2>3. rest \in Int
      <3> DEFINE h == i - 1
      <3>1. h \in Nat /\ h <= n /\ f \in Matchings(h, j)
        BY <1>2, <2>1
      <3> HIDE DEF h
      <3>2. MatchingCost(f, h, j, cost) \in Int
        BY <3>1, MatchingFacts
      <3> QED BY <3>2 DEF h
    <2> HIDE DEF rest, all
    <2>4. c <= q + 1000
      BY <1>0, <1>2
    <2>5. c <= all
      BY <2>1, <2>2, <2>3, <2>4
    <2> QED BY <2>5 DEF all
  <1>3. CASE j > 0 /\ Unused
    <2> DEFINE rest == MatchingCost(f, i, j - 1, cost)
    <2>1. f \in Matchings(i, j - 1) /\ all = rest + 400
      BY <1>3, NarrowMatching
    <2>2. r <= rest
      BY <1>0, <1>3, <2>1 DEF NoneBelow
    <2>3. rest \in Int
      <3> DEFINE h == j - 1
      <3>1. h \in Nat /\ h <= m /\ f \in Matchings(i, h)
        BY <1>3, <2>1
      <3> HIDE DEF h
      <3>2. MatchingCost(f, i, h, cost) \in Int
        BY <3>1, MatchingFacts
      <3> QED BY <3>2 DEF h
    <2> HIDE DEF rest, all
    <2>4. c <= r + 400
      BY <1>0, <1>3
    <2>5. c <= all
      BY <2>1, <2>2, <2>3, <2>4
    <2> QED BY <2>5 DEF all
  <1>4. CASE i > 0 /\ j > 0 /\ i \in DOMAIN f /\ f[i] = j
    <2> DEFINE last == cost[<<i, j>>]
    <2>1. i \in Nat \ {0} /\ j \in Nat \ {0} /\ last \in Nat
      BY <1>4 DEF Costs
    <2>2. PICK g \in Matchings(i - 1, j - 1) : Adds(f, g, i, j)
      BY <1>4, <2>1, PairCanBeTaken
    <2> DEFINE rest == MatchingCost(g, i - 1, j - 1, cost)
    <2>3. all = rest + last
      BY <2>1, <2>2, LastPairCosts
    <2>4. p <= rest
      BY <1>0, <1>4 DEF NoneBelow
    <2>5. rest \in Int
      BY <2>1, <2>2, LastPairCosts
    <2>6. c <= p + last
      BY <1>0, <1>4
    <2> HIDE DEF rest, all, last
    <2>7. c <= all
      BY <2>1, <2>3, <2>4, <2>5, <2>6
    <2> QED BY <2>7 DEF all
  <1>5. CASE i > 0 /\ i \in DOMAIN f /\ f[i] # j
    <2>1. f[i] \in 1 .. j /\ j > 0
      BY <1>1, <1>5
    <2>2. ASSUME NEW k \in DOMAIN f PROVE f[k] # j
      <3>1. k \in 1 .. i /\ f[k] \in 1 .. j
        BY <1>1
      <3>2. CASE k = i
        BY <1>5, <3>2
      <3>3. CASE k # i
        <4>1. k < i
          BY <3>1, <3>3
        <4>2. f[k] < f[i]
          BY <1>1, <1>5, <4>1 DEF Rising
        <4> QED BY <2>1, <3>1, <4>2
      <3> QED BY <3>2, <3>3
    <2>3. Unused
      BY <2>2
    <2> HIDE DEF Unused
    <2> QED BY <1>3, <2>1, <2>3
  <1>6. CASE i = 0 /\ j > 0
    <2>1. DOMAIN f = {}
      <3>1. 1 .. i = {}
        BY <1>6
      <3> QED BY <1>1, <3>1
    <2>2. Unused
      BY <2>1
    <2> HIDE DEF Unused, all
    <2> QED BY <1>3, <1>6, <2>2 DEF all
  <1>7. CASE i > 0 /\ i \in DOMAIN f /\ f[i] = j /\ j = 0
    <2>1. f[i] \in 1 .. 0
      BY <1>1, <1>7
    <2> QED BY <2>1
  <1> QED BY <1>2, <1>4, <1>5, <1>6, <1>7

\* q is p and one step more, which costs c.
Longer(q, p, c) == \E op \in Ops : q = Extend(p, c, op)

\* It costs that much more.
LEMMA LongerCosts ==
  ASSUME NEW p \in Paths, NEW c \in Nat, NEW q, Longer(q, p, c)
  PROVE  q \in Paths /\ q.cost = p.cost + c
  BY ExtendType DEF Longer

\* Of two paths the cheaper costs no more than either.
LEMMA CheaperCosts ==
  ASSUME NEW p \in Paths, NEW q \in Paths
  PROVE  /\ Cheaper(p, q) \in {p, q}
         /\ Cheaper(p, q) \in Paths
         /\ Cheaper(p, q).cost <= p.cost
         /\ Cheaper(p, q).cost <= q.cost
  <1> DEFINE a == p.cost
             b == q.cost
  <1>1. a \in Nat /\ b \in Nat
    BY DEF Paths
  <1>2. Cheaper(p, q) = IF b < a THEN q ELSE p
    BY DEF Cheaper
  <1> HIDE DEF a, b
  <1>3. CASE b < a
    <2>1. Cheaper(p, q) = q /\ b <= a /\ b <= b
      BY <1>1, <1>2, <1>3
    <2> QED BY <2>1 DEF a, b
  <1>4. CASE ~(b < a)
    <2>1. Cheaper(p, q) = p /\ a <= a /\ a <= b
      BY <1>1, <1>2, <1>4
    <2> QED BY <2>1 DEF a, b
  <1> QED BY <1>3, <1>4

\* Nothing aligned with nothing costs nothing.
LEMMA NothingToAlign ==
  ASSUME NEW n \in Nat, NEW m \in Nat, NEW cost \in Costs(n, m)
  PROVE  Reached(0, 0, 0, cost) /\ NoneBelow(0, 0, 0, cost)
  <1> DEFINE z == 0
  <1>1. z \in Nat /\ z <= n /\ z <= m /\ 1 .. z = {}
    OBVIOUS
  <1>2. z + 1000 * (z - z) + 400 * (z - z) = z /\ z <= z
    OBVIOUS
  <1> DEFINE none == [k \in {} |-> z]
  <1>3. none \in Matchings(z, z)
    <2>1. none \in [{} -> 1 .. z] /\ {} \subseteq 1 .. z /\ DOMAIN none = {}
      OBVIOUS
    <2> HIDE DEF none, z
    <2> QED BY <2>1 DEF Matchings
  <1>4. ASSUME NEW f \in Matchings(z, z)
        PROVE  MatchingCost(f, z, z, cost) = z
    <2> DEFINE zero == z
    <2> HIDE DEF none
    <2>1. /\ DOMAIN f \subseteq 1 .. zero
          /\ MatchingCost(f, zero, zero, cost) =
              SumFunction(Charges(f, cost))
                + 1000 * (zero - Cardinality(DOMAIN f))
                + 400 * (zero - Cardinality(DOMAIN f))
      <3>1. zero \in Nat /\ zero <= n /\ zero <= m /\ f \in Matchings(zero, zero)
        BY <1>1
      <3> HIDE DEF zero, z
      <3> QED BY <3>1, MatchingFacts
    <2>2. DOMAIN f = {}
      BY SMTT(30), <1>1, <2>1
    <2>3. SumFunction(Charges(f, cost)) = z
      <3>1. DOMAIN Charges(f, cost) = {}
        BY <2>2 DEF Charges
      <3> QED BY <3>1, SumOfNone
    <2>4. Cardinality(DOMAIN f) = z
      BY <2>2, FS_EmptySet
    <2> QED BY <1>2, <2>1, <2>3, <2>4
  <1> HIDE DEF none
  <1>5. Reached(z, z, z, cost)
    BY <1>3, <1>4 DEF Reached
  <1>6. NoneBelow(z, z, z, cost)
    BY <1>2, <1>4 DEF NoneBelow
  <1> QED BY <1>5, <1>6

\* The table has the least cost of every alignment of the first lines and
\* boxes.
LEMMA TableIsCheapest ==
  ASSUME NEW n \in Nat, NEW m \in Nat, NEW cost \in Costs(n, m),
         NEW best \in [Grid(n, m) -> Paths], Tabulates(best, cost, n, m)
  PROVE  /\ best[<<n, m>>] \in Paths
         /\ Reached(best[<<n, m>>].cost, n, m, cost)
         /\ NoneBelow(best[<<n, m>>].cost, n, m, cost)
  <1> DEFINE
    D == Grid(n, m)
    mu == [x \in D |-> x[1] + x[2]]
    at(i, j) == best[<<i, j>>]
    price(i, j) == at(i, j).cost
    Least(c, i, j) == Reached(c, i, j, cost) /\ NoneBelow(c, i, j, cost)
    T == {x \in D : Least(best[x].cost, x[1], x[2])}
  <1>1. ASSUME NEW i \in 0 .. n, NEW j \in 0 .. m
        PROVE  /\ <<i, j>> \in D /\ mu[<<i, j>>] = i + j
               /\ at(i, j) \in Paths /\ price(i, j) \in Nat
    BY DEF Grid, Paths
  <1>2. /\ "match" \in Ops /\ "line" \in Ops /\ "box" \in Ops
        /\ SkipBoxCost = 400 /\ SkipLineCost = 1000
        /\ SkipBoxCost \in Nat /\ SkipLineCost \in Nat
    BY DEF Ops, SkipBoxCost, SkipLineCost
  <1>3. ASSUME NEW i \in 0 .. n, NEW j \in 0 .. m,
               \A k \in 0 .. n, l \in 0 .. m :
                 k + l < i + j => Least(price(k, l), k, l)
        PROVE  Least(price(i, j), i, j)
    <2>1. i \in Nat /\ j \in Nat /\ j <= m /\ i <= n
      OBVIOUS
    <2>2. CASE i = 0 /\ j = 0
      <3>1. at(i, j) = NoPath /\ NoPath.cost = 0
        BY <2>2 DEF Tabulates, NoPath
      <3> QED BY <2>2, <3>1, NothingToAlign
    <2>3. CASE i = 0 /\ j # 0
      <3>1. j - 1 \in 0 .. m /\ j \in 1 .. m /\ i + (j - 1) < i + j /\ j > 0
        BY <2>1, <2>3
      <3> DEFINE r == price(i, j - 1)
      <3>2. at(i, j) = Extend(at(i, j - 1), SkipBoxCost, "box")
        BY <2>3, <3>1 DEF Tabulates
      <3>3. /\ at(i, j - 1) \in Paths /\ r \in Nat
            /\ Reached(r, i, j - 1, cost) /\ NoneBelow(r, i, j - 1, cost)
        BY <1>1, <1>3, <3>1
      <3> HIDE DEF at
      <3>4. price(i, j) = r + 400
        <4> DEFINE here == at(i, j - 1)
        <4>1. here \in Paths /\ r = here.cost
              /\ Longer(at(i, j), here, SkipBoxCost)
          BY <1>2, <3>2, <3>3 DEF Longer
        <4> HIDE DEF here, r
        <4> QED BY <1>2, <4>1, LongerCosts
      <3> HIDE DEF price, r
      <3> DEFINE c == price(i, j)
      <3>5. c = r + 400 /\ c \in Nat /\ c <= r + 400
        BY <3>3, <3>4
      <3> HIDE DEF c
      <3>6. Reached(c, i, j, cost)
        <4>1. j > 0 /\ Reached(r, i, j - 1, cost) /\ r \in Nat
          BY <3>1, <3>3
        <4>2. Reached(r + 400, i, j, cost)
          BY <2>1, <4>1, ReachedByBox
        <4> QED BY <3>5, <4>2
      <3>7. NoneBelow(c, i, j, cost)
        <4>1. Bounds(c, r, r, r, i, j, cost)
          BY <2>3, <2>1, <3>3, <3>5 DEF Bounds
        <4> QED BY <2>1, <3>1, <3>3, <3>5, <4>1, NoneBelowNext
      <3> QED BY <3>6, <3>7 DEF c
    <2>4. CASE i # 0 /\ j = 0
      <3>1. i - 1 \in 0 .. n /\ i \in 1 .. n /\ (i - 1) + j < i + j /\ i > 0
        BY <2>1, <2>4
      <3> DEFINE q == price(i - 1, j)
      <3>2. at(i, j) = Extend(at(i - 1, j), SkipLineCost, "line")
        BY <2>4, <3>1 DEF Tabulates
      <3>3. /\ at(i - 1, j) \in Paths /\ q \in Nat
            /\ Reached(q, i - 1, j, cost) /\ NoneBelow(q, i - 1, j, cost)
        BY <1>1, <1>3, <3>1
      <3> HIDE DEF at
      <3>4. price(i, j) = q + 1000
        <4> DEFINE here == at(i - 1, j)
        <4>1. here \in Paths /\ q = here.cost
              /\ Longer(at(i, j), here, SkipLineCost)
          BY <1>2, <3>2, <3>3 DEF Longer
        <4> HIDE DEF here, q
        <4> QED BY <1>2, <4>1, LongerCosts
      <3> HIDE DEF price, q
      <3> DEFINE c == price(i, j)
      <3>5. c = q + 1000 /\ c \in Nat /\ c <= q + 1000
        BY <3>3, <3>4
      <3> HIDE DEF c
      <3>6. Reached(c, i, j, cost)
        <4>1. i > 0 /\ Reached(q, i - 1, j, cost) /\ q \in Nat
          BY <3>1, <3>3
        <4>2. Reached(q + 1000, i, j, cost)
          BY <2>1, <4>1, ReachedByLine
        <4> QED BY <3>5, <4>2
      <3>7. NoneBelow(c, i, j, cost)
        <4>1. Bounds(c, q, q, q, i, j, cost)
          BY <2>4, <2>1, <3>3, <3>5 DEF Bounds
        <4> QED BY <2>1, <3>1, <3>3, <3>5, <4>1, NoneBelowNext
      <3> QED BY <3>6, <3>7 DEF c
    <2>5. CASE i # 0 /\ j # 0
      <3>1. /\ i - 1 \in 0 .. n /\ i \in 1 .. n /\ i > 0
            /\ j - 1 \in 0 .. m /\ j \in 1 .. m /\ j > 0
            /\ (i - 1) + j < i + j /\ i + (j - 1) < i + j
            /\ (i - 1) + (j - 1) < i + j
        BY <2>1, <2>5
      <3> DEFINE last == cost[<<i, j>>]
                 p == price(i - 1, j - 1)
                 q == price(i - 1, j)
                 r == price(i, j - 1)
                 P == Extend(at(i - 1, j - 1), last, "match")
                 Q == Extend(at(i - 1, j), SkipLineCost, "line")
                 R == Extend(at(i, j - 1), SkipBoxCost, "box")
                 c == price(i, j)
      <3>2. at(i, j) = Cheaper(Cheaper(P, Q), R)
        BY <3>1 DEF Tabulates
      <3>3. /\ at(i - 1, j - 1) \in Paths /\ p \in Nat /\ Reached(p, i - 1, j - 1, cost)
            /\ NoneBelow(p, i - 1, j - 1, cost)
            /\ at(i - 1, j) \in Paths /\ q \in Nat /\ Reached(q, i - 1, j, cost)
            /\ NoneBelow(q, i - 1, j, cost)
            /\ at(i, j - 1) \in Paths /\ r \in Nat /\ Reached(r, i, j - 1, cost)
            /\ NoneBelow(r, i, j - 1, cost)
        BY <1>1, <1>3, <3>1
      <3>4. last \in Nat
        BY <3>1 DEF Costs
      <3> HIDE DEF at, last
      <3>5. P \in Paths /\ P.cost = p + last
        <4> DEFINE here == at(i - 1, j - 1)
        <4>1. here \in Paths /\ p = here.cost /\ Longer(P, here, last)
          BY <1>2, <3>3 DEF Longer
        <4> HIDE DEF here, p, P
        <4> QED BY <1>2, <3>4, <4>1, LongerCosts
      <3>6. Q \in Paths /\ Q.cost = q + 1000
        <4> DEFINE here == at(i - 1, j)
        <4>1. here \in Paths /\ q = here.cost /\ Longer(Q, here, SkipLineCost)
          BY <1>2, <3>3 DEF Longer
        <4> HIDE DEF here, q, Q
        <4> QED BY <1>2, <3>4, <4>1, LongerCosts
      <3>7. R \in Paths /\ R.cost = r + 400
        <4> DEFINE here == at(i, j - 1)
        <4>1. here \in Paths /\ r = here.cost /\ Longer(R, here, SkipBoxCost)
          BY <1>2, <3>3 DEF Longer
        <4> HIDE DEF here, r, R
        <4> QED BY <1>2, <3>4, <4>1, LongerCosts
      <3> HIDE DEF P, Q, R
      <3>8. /\ c \in {p + last, q + 1000, r + 400}
            /\ c <= p + last /\ c <= q + 1000 /\ c <= r + 400 /\ c \in Nat
        <4> DEFINE S == Cheaper(P, Q)
                   W == Cheaper(S, R)
                   s == S.cost
                   w == W.cost
        <4>1. /\ S \in {P, Q} /\ S \in Paths /\ s <= P.cost /\ s <= Q.cost
          BY <3>5, <3>6, CheaperCosts
        <4> HIDE DEF S
        <4>2. /\ W \in {S, R} /\ W \in Paths /\ w <= s /\ w <= R.cost
          BY <3>7, <4>1, CheaperCosts
        <4>3. c = w
          BY <3>2 DEF S
        <4> HIDE DEF W
        <4>4. s \in {p + last, q + 1000} /\ s <= p + last /\ s <= q + 1000
          BY <3>5, <3>6, <4>1
        <4>5. w \in {s, r + 400} /\ w <= s /\ w <= r + 400
          BY <3>7, <4>2
        <4> HIDE DEF s, w, c, p, q, r
        <4> QED BY <3>3, <3>4, <4>3, <4>4, <4>5
      <3> HIDE DEF c, p, q, r
      <3>9. /\ Reached(p + last, i, j, cost)
            /\ Reached(q + 1000, i, j, cost)
            /\ Reached(r + 400, i, j, cost)
        <4>1. Reached(p + last, i, j, cost)
          BY <2>1, <3>1, <3>3, ReachedByMatch DEF last
        <4>2. Reached(q + 1000, i, j, cost)
          BY <2>1, <3>1, <3>3, ReachedByLine
        <4>3. Reached(r + 400, i, j, cost)
          BY <2>1, <3>1, <3>3, ReachedByBox
        <4> QED BY <4>1, <4>2, <4>3
      <3>10. Reached(c, i, j, cost)
        BY <3>8, <3>9
      <3>11. NoneBelow(c, i, j, cost)
        <4>1. Bounds(c, p, q, r, i, j, cost)
          BY <3>3, <3>8 DEF Bounds, last
        <4> QED BY <2>1, <3>1, <3>3, <3>8, <4>1, NoneBelowNext
      <3> QED BY <3>10, <3>11 DEF c
    <2> QED BY <2>2, <2>3, <2>4, <2>5
  <1>4. D \subseteq T
    <2>1. mu \in [D -> Nat]
      <3> SUFFICES ASSUME NEW i \in 0 .. n, NEW j \in 0 .. m PROVE i + j \in Nat
        BY DEF Grid
      <3>1. i \in Nat /\ j \in Nat
        OBVIOUS
      <3> QED BY <3>1
    <2>2. ASSUME NEW x \in D, \A y \in D : mu[y] < mu[x] => y \in T
          PROVE  x \in T
      <3>1. PICK i \in 0 .. n, j \in 0 .. m : x = <<i, j>>
        BY DEF Grid
      <3>2. ASSUME NEW k \in 0 .. n, NEW l \in 0 .. m, k + l < i + j
            PROVE  Least(price(k, l), k, l)
        <4> DEFINE y == <<k, l>>
        <4>1. y \in D /\ mu[y] = k + l /\ mu[x] = i + j /\ y[1] = k /\ y[2] = l
          BY <1>1, <3>1
        <4> HIDE DEF y, mu, D, Least
        <4>2. y \in T
          BY <2>2, <3>2, <4>1
        <4>3. Least(best[y].cost, k, l)
          BY <4>1, <4>2
        <4> QED BY <4>3 DEF y
      <3>3. Least(price(i, j), i, j)
        <4> HIDE DEF Least, price
        <4> QED BY <1>3, <3>2
      <3>4. best[x].cost = price(i, j) /\ x[1] = i /\ x[2] = j
        BY <3>1
      <3> HIDE DEF Least, price, D
      <3> QED BY <3>3, <3>4
    <2> HIDE DEF T, mu, D
    <2> QED BY <2>1, <2>2, Downwards
  <1>5. <<n, m>> \in D
    BY DEF Grid
  <1>6. Least(best[<<n, m>>].cost, n, m)
    <2> HIDE DEF Least
    <2> QED BY <1>4, <1>5
  <1> QED BY <1>5, <1>6

\* Theorem: for any page and reading, with the boxes in any order, the dynamic
\* programme finds an alignment that costs what it says, and none costs less.
THEOREM AlignmentIsOptimal ==
  ASSUME NEW ls \in Seq(Lines), NEW boxes \in Seq(Areas),
         NEW order \in Seq(DOMAIN boxes), Len(order) = Len(boxes)
  PROVE  Cheapest(ls, boxes, order)
  <1> DEFINE
    there == [k \in DOMAIN order |-> boxes[order[k]]]
    n == Len(ls)
    m == Len(boxes)
    cost == PairCost(ls, there)
    found == BestPath(ls, there).cost
  <1>1. m \in Nat /\ n \in Nat /\ DOMAIN order = 1 .. m /\ DOMAIN ls = 1 .. n
        /\ \A k \in 1 .. m : boxes[order[k]] \in Areas
    OBVIOUS
  <1>2. there \in Seq(Areas) /\ Len(there) = m /\ DOMAIN there = 1 .. m
    <2>1. there \in [1 .. m -> Areas]
      BY <1>1
    <2> HIDE DEF there, m
    <2> QED BY <1>1, <2>1
  <1> HIDE DEF there
  <1>3. cost \in Costs(n, m)
    <2>1. cost \in [(DOMAIN ls) \X (DOMAIN there) -> Nat]
      BY <1>2, PairCostType
    <2> HIDE DEF cost, n, m
    <2> QED BY <1>1, <1>2, <2>1 DEF Costs
  <1>4. PICK best \in [Grid(n, m) -> Paths] :
          Tabulates(best, cost, n, m) /\ BestPath(ls, there) = best[<<n, m>>]
    BY <1>2, TableIsFilled
  <1> HIDE DEF cost, n, m
  <1>5. Reached(found, n, m, cost) /\ NoneBelow(found, n, m, cost)
    BY <1>1, <1>3, <1>4, TableIsCheapest
  <1>6. DpAlign(ls, boxes, order).cost = found
    BY DEF DpAlign, there
  <1> DEFINE all == {MatchingCost(f, n, m, cost) : f \in Matchings(n, m)}
  <1> HIDE DEF found
  <1>7. found \in all /\ \A c \in all : found <= c
    BY <1>5 DEF Reached, NoneBelow
  <1>8. Cheapest(ls, boxes, order) <=>
          DpAlign(ls, boxes, order).cost \in all
          /\ \A c \in all : DpAlign(ls, boxes, order).cost <= c
    BY DEF Cheapest, cost, n, m, there
  <1> HIDE DEF all
  <1> QED BY <1>6, <1>7, <1>8

-----------------------------------------------------------------------------
(* Alignments that cost nothing.                                           *)

\* The replay after k matches and nothing else.
Straight(k) ==
  [box |-> k, last |-> k, to |-> [i \in 1 .. k |-> i], matches |-> k]

\* One match more.
LEMMA StraightGoesOn ==
  ASSUME NEW k \in Nat
  PROVE  Follow(Straight(k), "match") = Straight(k + 1)
  <1> DEFINE to == [i \in 1 .. k |-> i]
             on == [i \in 1 .. k + 1 |-> i]
  <1>1. Append(to, k + 1) = on
    <2>1. to \in Seq(Nat) /\ Len(to) = k
      OBVIOUS
    <2>2. on \in Seq(Nat) /\ Len(on) = k + 1
      OBVIOUS
    <2>3. \A i \in 1 .. k : to[i] = i
      OBVIOUS
    <2>4. \A i \in 1 .. k + 1 : on[i] = i
      OBVIOUS
    <2> HIDE DEF to, on
    <2>5. k + 1 \in Nat
      OBVIOUS
    <2>6. /\ Append(to, k + 1) \in Seq(Nat) /\ Len(Append(to, k + 1)) = k + 1
          /\ \A i \in 1 .. k : Append(to, k + 1)[i] = to[i]
          /\ Append(to, k + 1)[k + 1] = k + 1
      BY <2>1, <2>5, AppendProperties
    <2>7. \A i \in 1 .. k + 1 : Append(to, k + 1)[i] = on[i]
      <3> SUFFICES ASSUME NEW i \in 1 .. k + 1
                   PROVE  Append(to, k + 1)[i] = i
        BY <2>4
      <3>1. CASE i = k + 1
        BY <2>6, <3>1
      <3>2. CASE i # k + 1
        <4>1. i \in 1 .. k
          BY <3>2
        <4> QED BY <2>3, <2>6, <4>1
      <3> QED BY <3>1, <3>2
    <2> DEFINE s == Append(to, k + 1)
    <2>8. s \in Seq(Nat) /\ Len(s) = Len(on) /\ \A i \in 1 .. Len(s) : s[i] = on[i]
      BY <2>2, <2>6, <2>7
    <2> HIDE DEF s
    <2>9. s = on
      BY <2>2, <2>8, SeqEqual
    <2> QED BY <2>9 DEF s
  <1> DEFINE s == Straight(k)
  <1>2. s = [box |-> k, last |-> k, to |-> to, matches |-> k]
    BY DEF Straight
  <1>3. Straight(k + 1)
          = [box |-> k + 1, last |-> k + 1, to |-> on, matches |-> k + 1]
    BY DEF Straight
  <1> HIDE DEF to, on
  <1>4. Follow(s, "match")
          = [s EXCEPT !.box = s.box + 1, !.last = s.box + 1,
                      !.to = Append(s.to, s.box + 1), !.matches = s.matches + 1]
    BY DEF Follow
  <1> HIDE DEF s
  <1>5. Follow(s, "match")
          = [box |-> k + 1, last |-> k + 1, to |-> Append(to, k + 1),
             matches |-> k + 1]
    BY <1>2, <1>4
  <1> QED BY <1>1, <1>3, <1>5 DEF s

\* A path over i lines and j boxes that costs nothing matches line after line
\* with box after box, at no cost.
FreePath(p, i, j, cost) ==
  p.cost = 0 => /\ i = j
                /\ \A k \in 1 .. i : cost[<<k, k>>] = 0
                /\ Replay(p.ops) = Straight(i)

\* A path that goes on by a skip costs something; one that goes on by a match
\* may be free, if it was and the match is.
LEMMA FreeGoesOn ==
  ASSUME NEW p \in Paths, NEW i \in Nat, NEW j \in Nat,
         NEW cost, NEW c \in Nat, c = cost[<<i + 1, j + 1>>],
         FreePath(p, i, j, cost)
  PROVE  FreePath(Extend(p, c, "match"), i + 1, j + 1, cost)
  <1> DEFINE q == Extend(p, c, "match")
             spent == p.cost
             o == p.ops
  <1>1. "match" \in Ops /\ spent \in Nat /\ o \in Seq(Ops)
    BY DEF Ops, Paths
  <1>2. q.cost = spent + c /\ q.ops = Append(o, "match")
    BY <1>1, ExtendType
  <1>3. Replay(Append(o, "match")) = Follow(Replay(o), "match")
    BY <1>1, ReplayGoesOn
  <1>4. spent = 0 => /\ i = j /\ \A k \in 1 .. i : cost[<<k, k>>] = 0
                     /\ Replay(o) = Straight(i)
    BY DEF FreePath
  <1> HIDE DEF q, spent, o
  <1> SUFFICES ASSUME q.cost = 0
               PROVE  /\ i + 1 = j + 1
                      /\ \A k \in 1 .. i + 1 : cost[<<k, k>>] = 0
                      /\ Replay(q.ops) = Straight(i + 1)
    BY DEF FreePath, q
  <1>5. spent = 0 /\ c = 0
    BY <1>1, <1>2
  <1>6. ASSUME NEW k \in 1 .. i + 1 PROVE cost[<<k, k>>] = 0
    <2>1. CASE k = i + 1
      BY <1>4, <1>5, <2>1
    <2>2. CASE k # i + 1
      <3>1. k \in 1 .. i
        BY <2>2
      <3> QED BY <1>4, <1>5, <3>1
    <2> QED BY <2>1, <2>2
  <1>7. Replay(q.ops) = Straight(i + 1)
    BY <1>2, <1>3, <1>4, <1>5, StraightGoesOn
  <1> QED BY <1>4, <1>5, <1>6, <1>7

\* A path that ends with a skip is not free.
LEMMA SkipsAreNotFree ==
  ASSUME NEW p \in Paths, NEW c \in Nat \ {0}, NEW op \in Ops,
         NEW i, NEW j, NEW cost
  PROVE  FreePath(Extend(p, c, op), i, j, cost)
  <1> DEFINE q == Extend(p, c, op)
             spent == p.cost
  <1>1. spent \in Nat /\ q.cost = spent + c
    BY ExtendType DEF Paths
  <1> HIDE DEF q, spent
  <1>2. q.cost # 0
    BY <1>1
  <1> QED BY <1>2 DEF FreePath, q

\* What the table holds of the first lines and boxes, if it is free, is so.
LEMMA FreeTable ==
  ASSUME NEW n \in Nat, NEW m \in Nat, NEW cost \in Costs(n, m),
         NEW best \in [Grid(n, m) -> Paths], Tabulates(best, cost, n, m)
  PROVE  FreePath(best[<<n, m>>], n, m, cost)
  <1> DEFINE
    D == Grid(n, m)
    mu == [x \in D |-> x[1] + x[2]]
    at(i, j) == best[<<i, j>>]
    T == {x \in D : FreePath(best[x], x[1], x[2], cost)}
  <1>1. ASSUME NEW i \in 0 .. n, NEW j \in 0 .. m
        PROVE  <<i, j>> \in D /\ mu[<<i, j>>] = i + j /\ at(i, j) \in Paths
    BY DEF Grid
  <1>2. /\ "line" \in Ops /\ "box" \in Ops
        /\ SkipBoxCost \in Nat \ {0} /\ SkipLineCost \in Nat \ {0}
    BY DEF Ops, SkipBoxCost, SkipLineCost
  <1>3. ASSUME NEW i \in 0 .. n, NEW j \in 0 .. m,
               \A k \in 0 .. n, l \in 0 .. m :
                 k + l < i + j => FreePath(at(k, l), k, l, cost)
        PROVE  FreePath(at(i, j), i, j, cost)
    <2>1. i \in Nat /\ j \in Nat
      OBVIOUS
    <2>2. CASE i = 0 /\ j = 0
      <3>1. at(i, j) = NoPath
        BY <2>2 DEF Tabulates
      <3>2. Replay(at(i, j).ops) = Start
        BY <3>1, ReplayOfNone DEF NoPath
      <3>3. Start = Straight(0)
        <4>1. 1 .. 0 = {} /\ <<>> = [k \in {} |-> k]
          OBVIOUS
        <4> QED BY <4>1 DEF Start, Straight
      <3>4. \A k \in 1 .. 0 : cost[<<k, k>>] = 0
        OBVIOUS
      <3> HIDE DEF at
      <3> QED BY <2>2, <3>2, <3>3, <3>4 DEF FreePath
    <2>3. CASE i = 0 /\ j # 0
      <3>1. j - 1 \in 0 .. m /\ j \in 1 .. m
        BY <2>1, <2>3
      <3>2. at(i, j) = Extend(at(i, j - 1), SkipBoxCost, "box")
        BY <2>3, <3>1 DEF Tabulates
      <3>3. at(i, j - 1) \in Paths
        BY <1>1, <3>1
      <3> HIDE DEF at
      <3> QED BY <1>2, <3>2, <3>3, SkipsAreNotFree
    <2>4. CASE i # 0 /\ j = 0
      <3>1. i - 1 \in 0 .. n /\ i \in 1 .. n
        BY <2>1, <2>4
      <3>2. at(i, j) = Extend(at(i - 1, j), SkipLineCost, "line")
        BY <2>4, <3>1 DEF Tabulates
      <3>3. at(i - 1, j) \in Paths
        BY <1>1, <3>1
      <3> HIDE DEF at
      <3> QED BY <1>2, <3>2, <3>3, SkipsAreNotFree
    <2>5. CASE i # 0 /\ j # 0
      <3>1. /\ i - 1 \in 0 .. n /\ i \in 1 .. n /\ i - 1 \in Nat
            /\ j - 1 \in 0 .. m /\ j \in 1 .. m /\ j - 1 \in Nat
            /\ (i - 1) + (j - 1) < i + j
            /\ (i - 1) + 1 = i /\ (j - 1) + 1 = j
        BY <2>1, <2>5
      <3> DEFINE last == cost[<<i, j>>]
                 p == Extend(at(i - 1, j - 1), last, "match")
                 q == Extend(at(i - 1, j), SkipLineCost, "line")
                 r == Extend(at(i, j - 1), SkipBoxCost, "box")
      <3>2. at(i, j) = Cheaper(Cheaper(p, q), r)
        BY <3>1 DEF Tabulates
      <3>3. /\ at(i - 1, j - 1) \in Paths /\ at(i - 1, j) \in Paths
            /\ at(i, j - 1) \in Paths
            /\ FreePath(at(i - 1, j - 1), i - 1, j - 1, cost)
        BY <1>1, <1>3, <3>1
      <3>4. last \in Nat
        BY <3>1 DEF Costs
      <3> HIDE DEF at
      <3>5. FreePath(p, i, j, cost)
        <4> DEFINE k == i - 1
                   l == j - 1
        <4>1. k \in Nat /\ l \in Nat /\ k + 1 = i /\ l + 1 = j
          BY <3>1
        <4>2. at(k, l) \in Paths /\ FreePath(at(k, l), k, l, cost)
          BY <3>3
        <4> HIDE DEF k, l
        <4>3. last = cost[<<k + 1, l + 1>>]
          BY <4>1
        <4> HIDE DEF last
        <4>4. FreePath(Extend(at(k, l), last, "match"), k + 1, l + 1, cost)
          BY <3>4, <4>1, <4>2, <4>3, FreeGoesOn
        <4> QED BY <4>1, <4>4 DEF k, l
      <3>6. FreePath(q, i, j, cost)
        BY <1>2, <3>3, SkipsAreNotFree
      <3>7. FreePath(r, i, j, cost)
        BY <1>2, <3>3, SkipsAreNotFree
      <3> HIDE DEF p, q, r
      <3>8. at(i, j) \in {p, q, r}
        BY <3>2, CheaperIsOne
      <3> QED BY <3>5, <3>6, <3>7, <3>8
    <2> QED BY <2>2, <2>3, <2>4, <2>5
  <1>4. D \subseteq T
    <2>1. mu \in [D -> Nat]
      <3> SUFFICES ASSUME NEW i \in 0 .. n, NEW j \in 0 .. m PROVE i + j \in Nat
        BY DEF Grid
      <3>1. i \in Nat /\ j \in Nat
        OBVIOUS
      <3> QED BY <3>1
    <2>2. ASSUME NEW x \in D, \A y \in D : mu[y] < mu[x] => y \in T
          PROVE  x \in T
      <3>1. PICK i \in 0 .. n, j \in 0 .. m : x = <<i, j>>
        BY DEF Grid
      <3>2. ASSUME NEW k \in 0 .. n, NEW l \in 0 .. m, k + l < i + j
            PROVE  FreePath(at(k, l), k, l, cost)
        <4> DEFINE y == <<k, l>>
        <4>1. y \in D /\ mu[y] = k + l /\ mu[x] = i + j /\ y[1] = k /\ y[2] = l
          BY <1>1, <3>1
        <4> HIDE DEF y, mu, D
        <4>2. y \in T
          BY <2>2, <3>2, <4>1
        <4>3. FreePath(best[y], k, l, cost)
          BY <4>1, <4>2
        <4> QED BY <4>3 DEF y
      <3>3. FreePath(at(i, j), i, j, cost)
        <4> HIDE DEF at
        <4> QED BY <1>3, <3>2
      <3>4. best[x] = at(i, j) /\ x[1] = i /\ x[2] = j
        BY <3>1
      <3> HIDE DEF at, D
      <3> QED BY <3>3, <3>4
    <2> HIDE DEF T, mu, D
    <2> QED BY <2>1, <2>2, Downwards
  <1>5. <<n, m>> \in D
    BY DEF Grid
  <1> QED BY <1>4, <1>5

\* When matching line after line with box after box is free, the table has a
\* free path.
LEMMA DiagonalIsFree ==
  ASSUME NEW n \in Nat, NEW cost \in Costs(n, n),
         NEW best \in [Grid(n, n) -> Paths], Tabulates(best, cost, n, n),
         \A k \in 1 .. n : cost[<<k, k>>] = 0
  PROVE  best[<<n, n>>].cost = 0
  <1> DEFINE at(i, j) == best[<<i, j>>]
             T == {k \in 0 .. n : at(k, k).cost = 0}
  <1>1. ASSUME NEW i \in 0 .. n, NEW j \in 0 .. n PROVE at(i, j) \in Paths
    BY DEF Grid
  <1>2. /\ "match" \in Ops /\ "line" \in Ops /\ "box" \in Ops
        /\ SkipBoxCost \in Nat /\ SkipLineCost \in Nat
    BY DEF Ops, SkipBoxCost, SkipLineCost
  <1>3. 0 \in T
    BY DEF Tabulates, NoPath
  <1>4. ASSUME NEW i \in 1 .. n, i - 1 \in T PROVE i \in T
    <2>1. i \in Nat /\ i - 1 \in 0 .. n /\ i \in 0 .. n
      OBVIOUS
    <2> DEFINE last == cost[<<i, i>>]
               P == Extend(at(i - 1, i - 1), last, "match")
               Q == Extend(at(i - 1, i), SkipLineCost, "line")
               R == Extend(at(i, i - 1), SkipBoxCost, "box")
    <2>2. at(i, i) = Cheaper(Cheaper(P, Q), R)
      BY DEF Tabulates
    <2>3. /\ at(i - 1, i - 1) \in Paths /\ at(i - 1, i) \in Paths
          /\ at(i, i - 1) \in Paths
      BY <1>1, <2>1
    <2>4. at(i - 1, i - 1).cost = 0
      BY <1>4
    <2>5. last = 0 /\ last \in Nat
      OBVIOUS
    <2> HIDE DEF at, last
    <2>6. P \in Paths /\ P.cost = 0
      <3>1. P \in Paths /\ P.cost = at(i - 1, i - 1).cost + last
        BY <1>2, <2>3, <2>5, ExtendType
      <3> QED BY <2>4, <2>5, <3>1
    <2>7. Q \in Paths /\ R \in Paths
      BY <1>2, <2>3, ExtendType
    <2> HIDE DEF P, Q, R
    <2> DEFINE S == Cheaper(P, Q)
               W == Cheaper(S, R)
               s == S.cost
               w == W.cost
    <2>8. S \in Paths /\ s <= P.cost
      BY <2>6, <2>7, CheaperCosts
    <2> HIDE DEF S
    <2>9. W \in Paths /\ w <= s
      BY <2>7, <2>8, CheaperCosts
    <2>10. W = at(i, i)
      BY <2>2 DEF S
    <2> HIDE DEF W
    <2>11. s \in Nat /\ w \in Nat
      BY <2>8, <2>9 DEF Paths
    <2> HIDE DEF s, w
    <2>12. w = 0
      BY <2>6, <2>8, <2>9, <2>11
    <2> QED BY <2>1, <2>10, <2>12 DEF w
  <1>5. n \in T
    <2> HIDE DEF T
    <2> QED BY <1>3, <1>4, CountFromZero
  <1> QED BY <1>5

\* For the boxes in some order, the cheapest alignment is free when every line
\* fits the box at its place, and only then; and it puts them there.
LEMMA FittingIsFree ==
  ASSUME NEW ls \in Seq(Lines), NEW boxes \in Seq(Areas),
         NEW order \in Seq(DOMAIN boxes), Len(order) = Len(boxes),
         Len(ls) = Len(boxes)
  PROVE  /\ DpAlign(ls, boxes, order).cost \in Nat
         /\ Fits(ls, boxes, order) <=> DpAlign(ls, boxes, order).cost = 0
         /\ Fits(ls, boxes, order) =>
              /\ DpAlign(ls, boxes, order).matches = Len(ls)
              /\ \A k \in DOMAIN ls :
                   DpAlign(ls, boxes, order).placement[k] = order[k]
              /\ DpAlign(ls, boxes, order).placement \in [DOMAIN ls -> DOMAIN boxes]
  <1> DEFINE
    there == [k \in DOMAIN order |-> boxes[order[k]]]
    n == Len(boxes)
    cost == PairCost(ls, there)
    path == BestPath(ls, there)
    end == Replay(path.ops)
    to == end.to
    found == DpAlign(ls, boxes, order)
  <1>1. n \in Nat /\ DOMAIN order = 1 .. n /\ DOMAIN ls = 1 .. n
        /\ \A k \in 1 .. n : order[k] \in DOMAIN boxes /\ boxes[order[k]] \in Areas
        /\ DOMAIN boxes = 1 .. n /\ Len(ls) = n
    OBVIOUS
  <1>2. there \in Seq(Areas) /\ Len(there) = n /\ DOMAIN there = 1 .. n
    <2>1. there \in [1 .. n -> Areas]
      BY <1>1
    <2> HIDE DEF there, n
    <2> QED BY <1>1, <2>1
  <1>3. Fits(ls, boxes, order) <=> \A k \in 1 .. n : cost[<<k, k>>] = 0
    BY <1>1 DEF Fits
  <1>4. found = [cost |-> path.cost, matches |-> end.matches,
                 placement |-> [k \in DOMAIN ls |->
                                  IF to[k] = 0 THEN 0 ELSE order[to[k]]]]
    BY DEF DpAlign
  <1> HIDE DEF there
  <1>5. cost \in Costs(n, n)
    <2>1. cost \in [(DOMAIN ls) \X (DOMAIN there) -> Nat]
      BY <1>2, PairCostType
    <2> HIDE DEF cost, n
    <2> QED BY <1>1, <1>2, <2>1 DEF Costs
  <1>6. PICK best \in [Grid(n, n) -> Paths] :
          Tabulates(best, cost, n, n) /\ path = best[<<n, n>>]
    <2>1. \E best \in [Grid(Len(ls), Len(there)) -> Paths] :
            /\ Tabulates(best, PairCost(ls, there), Len(ls), Len(there))
            /\ BestPath(ls, there) = best[<<Len(ls), Len(there)>>]
      BY <1>2, TableIsFilled
    <2> QED BY <1>1, <1>2, <2>1
  <1> HIDE DEF cost, path, n
  <1>7. FreePath(path, n, n, cost)
    BY <1>1, <1>5, <1>6, FreeTable
  <1>8. (\A k \in 1 .. n : cost[<<k, k>>] = 0) => path.cost = 0
    BY <1>1, <1>5, <1>6, DiagonalIsFree
  <1>9. path \in Paths
    BY <1>1, <1>6 DEF Grid
  <1>10. path.cost \in Nat
    BY <1>9 DEF Paths
  <1>11. Fits(ls, boxes, order) <=> path.cost = 0
    BY <1>3, <1>7, <1>8 DEF FreePath
  <1> HIDE DEF found
  <1>12. ASSUME Fits(ls, boxes, order)
         PROVE  /\ found.matches = n
                /\ \A k \in 1 .. n : found.placement[k] = order[k]
                /\ found.placement \in [DOMAIN ls -> DOMAIN boxes]
    <2>1. end = Straight(n)
      BY <1>7, <1>11, <1>12 DEF FreePath
    <2>2. end.matches = n /\ \A k \in 1 .. n : to[k] = k
      BY <2>1 DEF Straight
    <2> HIDE DEF to, end
    <2>3. /\ found.matches = end.matches
          /\ found.placement = [k \in 1 .. n |->
                                  IF to[k] = 0 THEN 0 ELSE order[to[k]]]
      BY <1>1, <1>4
    <2>4. \A k \in 1 .. n : to[k] = k /\ k # 0
      BY <1>1, <2>2
    <2>5. found.placement = [k \in 1 .. n |-> order[k]]
      BY <2>3, <2>4
    <2> QED BY <1>1, <2>2, <2>3, <2>5
  <1>13. found.cost = path.cost
    BY <1>4
  <1> QED BY <1>1, <1>10, <1>11, <1>12, <1>13 DEF found, n

\* Sequences one after another, of which one is not empty.
LEMMA FlatteningRuns ==
  ASSUME NEW S, NEW seqs \in Seq(Seq(S)), seqs # <<>>
  PROVE  \E flat : /\ FlattenSeq(seqs) = flat[Len(seqs)]
                   /\ flat[1] = seqs[1]
                   /\ \A i \in 2 .. Len(seqs) : flat[i] = flat[i - 1] \o seqs[i]
  <1> DEFINE
    T == Seq(S)
    size == Len(seqs)
    Step == [a \in T \X (2 .. size) |-> a[1] \o seqs[a[2]]]
    Rec(f) == f = [i \in 1 .. size |->
                     IF i = 1 THEN seqs[i] ELSE f[i - 1] \o seqs[i]]
    flatten == CHOOSE f : Rec(f)
  <1>1. /\ size \in Nat /\ size # 0 /\ 1 <= size
        /\ \A k \in 1 .. size : seqs[k] \in T
    <2>1. seqs \in Seq(T)
      OBVIOUS
    <2> HIDE DEF T
    <2>2. size \in Nat /\ size # 0 /\ \A k \in 1 .. size : seqs[k] \in T
      BY <2>1, EmptySeq
    <2> QED BY <2>2
  <1>2. Step \in [T \X (2 .. size) -> T]
    <2>1. ASSUME NEW a \in T \X (2 .. size) PROVE a[1] \o seqs[a[2]] \in T
      <3>1. a[1] \in T /\ a[2] \in 1 .. size
        BY <1>1
      <3>2. seqs[a[2]] \in T
        BY <3>1, <1>1
      <3> QED BY <3>1, <3>2, ConcatProperties
    <2> QED BY <2>1
  <1>3. PICK f \in [1 .. size -> T] : Runs(f, seqs[1], Step, 1, size)
    <2> DEFINE one == 1  first == seqs[1]
    <2>1. /\ one \in Nat /\ size \in Nat /\ one <= size /\ first \in T
          /\ Step \in [T \X (one + 1 .. size) -> T]
      BY <1>1, <1>2
    <2>2. \E f \in [one .. size -> T] : Runs(f, first, Step, one, size)
      <3> HIDE DEF size, Step, one, T, first
      <3> QED BY <2>1, Recursion
    <2> QED BY <2>2
  <1>4. Rec(f)
    <2>1. ASSUME NEW i \in 1 .. size
          PROVE  f[i] = IF i = 1 THEN seqs[i] ELSE f[i - 1] \o seqs[i]
      <3>1. CASE i = 1
        BY <1>3, <3>1 DEF Runs
      <3>2. CASE i # 1
        <4>1. i \in 1 + 1 .. size /\ i \in 2 .. size /\ i - 1 \in 1 .. size
          <5> HIDE DEF size
          <5> QED BY <1>1, <3>2
        <4>2. <<f[i - 1], i>> \in T \X (2 .. size)
          BY <1>3, <4>1
        <4>3. f[i] = Step[<<f[i - 1], i>>]
          <5> HIDE DEF Step, size
          <5> QED BY <1>3, <4>1 DEF Runs
        <4> QED BY <3>2, <4>2, <4>3
      <3> QED BY <3>1, <3>2
    <2> QED BY <1>3, <2>1
  <1>5. Rec(flatten)
    <2> HIDE DEF Rec
    <2> QED BY <1>4
  <1>6. FlattenSeq(seqs) = flatten[size]
    BY <1>1 DEF FlattenSeq
  <1>7. /\ flatten[1] = seqs[1]
        /\ \A i \in 2 .. size : flatten[i] = flatten[i - 1] \o seqs[i]
    <2>1. flatten = [i \in 1 .. size |->
                       IF i = 1 THEN seqs[i] ELSE flatten[i - 1] \o seqs[i]]
      BY <1>5
    <2>2. 1 \in 1 .. size /\ \A i \in 2 .. size : i \in 1 .. size /\ i # 1
      <3> HIDE DEF size
      <3> QED BY <1>1
    <2> HIDE DEF flatten, size
    <2> QED BY <2>1, <2>2
  <1> HIDE DEF flatten
  <1> QED BY <1>6, <1>7

\* The lines of a box that has one line are that line.
LEMMA OneLineJoined ==
  ASSUME NEW lines \in Seq(Lines), NEW c \in DOMAIN lines
  PROVE  Joined(lines, {c}) = lines[c]
  <1> DEFINE n == Len(lines)
             S == Seq(Words)
             seqs == [k \in DOMAIN lines |-> IF k \in {c} THEN lines[k] ELSE <<>>]
             line == lines[c]
  <1>1. /\ n \in Nat /\ DOMAIN lines = 1 .. n /\ c \in 1 .. n
        /\ \A k \in 1 .. n : lines[k] \in S
    BY DEF Lines
  <1>2. <<>> \in S /\ line \in S
    BY <1>1
  <1>3. /\ seqs \in [1 .. n -> S] /\ seqs[c] = line
        /\ \A k \in 1 .. n : k # c => seqs[k] = <<>>
    BY <1>1, <1>2
  <1>4. Joined(lines, {c}) = FlattenSeq(seqs)
    BY DEF Joined
  <1>5. /\ \A s \in S : s \o <<>> = s /\ <<>> \o s = s
    BY ConcatEmptySeq
  <1> HIDE DEF n, seqs, line
  <1>6. seqs \in Seq(S) /\ Len(seqs) = n /\ seqs # <<>>
    BY <1>1, <1>3
  <1>7. seqs \in Seq(Seq(Words))
    BY <1>6
  <1> HIDE DEF S
  <1>8. PICK flat : /\ FlattenSeq(seqs) = flat[n]
                    /\ flat[1] = seqs[1]
                    /\ \A i \in 2 .. n : flat[i] = flat[i - 1] \o seqs[i]
    BY <1>6, <1>7, FlatteningRuns
  <1> DEFINE T == {i \in 1 .. n : flat[i] = IF i < c THEN <<>> ELSE line}
  <1>9. n \in Nat \ {0} /\ 1 \in 1 .. n
    BY <1>1
  <1>10. 1 \in T
    <2>1. CASE c = 1
      BY <1>3, <1>8, <1>9, <2>1
    <2>2. CASE c # 1
      <3>1. 1 < c
        BY <1>1, <2>2
      <3> QED BY <1>3, <1>8, <1>9, <2>2, <3>1
    <2> QED BY <2>1, <2>2
  <1>11. ASSUME NEW i \in 2 .. n, i - 1 \in T PROVE i \in T
    <2>1. i \in 1 .. n /\ flat[i] = flat[i - 1] \o seqs[i]
      <3>1. flat[i] = flat[i - 1] \o seqs[i]
        <4> HIDE DEF T
        <4> QED BY Zenon, <1>8
      <3>2. i \in 1 .. n
        BY <1>9
      <3> QED BY <3>1, <3>2
    <2>2. flat[i - 1] = IF i - 1 < c THEN <<>> ELSE line
      BY <1>11
    <2>3. CASE i < c
      <3>1. i - 1 < c /\ i # c
        BY <1>1, <2>3
      <3> QED BY <1>2, <1>3, <1>5, <2>1, <2>2, <2>3, <3>1
    <2>4. CASE i = c
      <3>1. i - 1 < c /\ ~(i < c)
        BY <1>1, <2>4
      <3> QED BY <1>2, <1>3, <1>5, <2>1, <2>2, <2>4, <3>1
    <2>5. CASE c < i
      <3>1. ~(i - 1 < c) /\ ~(i < c) /\ i # c
        BY <1>1, <2>5
      <3> QED BY <1>2, <1>3, <1>5, <2>1, <2>2, <3>1
    <2> QED BY <1>1, <2>3, <2>4, <2>5
  <1>12. n \in T
    <2> HIDE DEF T
    <2> QED BY <1>9, <1>10, <1>11, CountFromOne
  <1>13. ~(n < c)
    BY <1>1
  <1> QED BY <1>4, <1>8, <1>12, <1>13 DEF line

\* The text that box i gets.
TextAt(lines, placement, i) ==
  Joined(lines, {k \in DOMAIN lines : placement[k] = i})

\* What align_text does with a page and a reading, neither of them empty.
LEMMA AlignUnread ==
  ASSUME NEW boxes \in Seq(Areas), boxes # <<>>, NEW lines, lines # <<>>,
         NEW best,
         best = Cheaper(DpAlign(lines, boxes, RowMajor(boxes, Ids(boxes))),
                        DpAlign(lines, boxes, ReadingOrder(boxes, Ids(boxes)))),
         ~Degenerate(lines, Unread(boxes), best.matches)
  PROVE  \A i \in DOMAIN boxes :
           AlignText(Unread(boxes), lines)[i].text
             = TextAt(lines, best.placement, i)
  <1> DEFINE n == Len(boxes)
             page == Unread(boxes)
             mine == [i \in DOMAIN page |-> page[i].box]
             ids == [i \in DOMAIN page |-> i]
             text(i) == TextAt(lines, best.placement, i)
  <1>1. /\ n \in Nat /\ DOMAIN boxes = 1 .. n /\ DOMAIN page = 1 .. n
        /\ \A i \in 1 .. n : page[i] = [box |-> boxes[i], text |-> <<>>]
    BY DEF Unread
  <1>2. 1 \in 1 .. n
    BY <1>1, EmptySeq
  <1>3. page # <<>>
    <2>1. DOMAIN <<>> = {}
      OBVIOUS
    <2> HIDE DEF page
    <2> QED BY <1>1, <1>2, <2>1
  <1>4. mine = boxes
    <2>1. \A i \in 1 .. n : page[i].box = boxes[i]
      BY <1>1
    <2>2. boxes = [i \in 1 .. n |-> boxes[i]]
      BY <1>1
    <2> HIDE DEF page, n
    <2> QED BY <1>1, <2>1, <2>2
  <1>5. ids = Ids(boxes)
    BY <1>1 DEF Ids
  <1> HIDE DEF mine, ids
  <1>6. AlignText(page, lines) = Placed(page, lines, best.placement)
    <2>1. best = Cheaper(DpAlign(lines, mine, RowMajor(mine, ids)),
                         DpAlign(lines, mine, ReadingOrder(mine, ids)))
      BY <1>4, <1>5
    <2> HIDE DEF page
    <2>2. AlignText(page, lines) =
            CASE page = <<>> /\ lines = <<>> -> <<>>
              [] page = <<>> /\ lines # <<>> -> WholePage(lines)
              [] page # <<>> /\ lines = <<>> ->
                   [i \in DOMAIN page |-> SetText(page[i], <<>>)]
              [] page # <<>> /\ lines # <<>> ->
                   IF Degenerate(lines, page, best.matches) THEN WholePage(lines)
                   ELSE Placed(page, lines, best.placement)
      BY <2>1 DEF AlignText, mine, ids
    <2>3. AlignText(page, lines)
            = IF Degenerate(lines, page, best.matches) THEN WholePage(lines)
              ELSE Placed(page, lines, best.placement)
      BY <1>3, <2>2
    <2> QED BY <2>3 DEF page
  <1>7. ASSUME NEW i \in 1 .. n
        PROVE  Placed(page, lines, best.placement)[i].text = text(i)
    <2>1. Placed(page, lines, best.placement)[i] = SetText(page[i], text(i))
      <3> HIDE DEF page
      <3> QED BY <1>1 DEF Placed, TextAt
    <2> HIDE DEF text
    <2>2. SetText([box |-> boxes[i], text |-> <<>>], text(i)).text = text(i)
      BY DEF SetText
    <2> QED BY <1>1, <2>1, <2>2
  <1> QED BY <1>1, <1>6, <1>7

\* Theorem: a reading that fits the boxes of a page of columns when they are
\* read column by column, and does not when they are read row by row, is
\* put there: align_text gives line k to the k-th box down the columns, and
\* nothing else to that box.
THEOREM ColumnsAreFollowed == ColumnsFollowed
  <1> SUFFICES ASSUME NEW boxes \in BoxPages,
                      NEW column \in [DOMAIN boxes -> 1 .. Len(boxes) \div 2],
                      InColumns(boxes, column),
                      NEW order \in [DOMAIN boxes -> DOMAIN boxes],
                      DownColumns(boxes, column, order),
                      NEW lines \in Texts, Len(lines) = Len(boxes),
                      Fits(lines, boxes, order),
                      ~Fits(lines, boxes, RowMajor(boxes, Ids(boxes))),
                      NEW k \in DOMAIN lines
               PROVE  AlignText(Unread(boxes), lines)[order[k]].text = lines[k]
    BY DEF ColumnsFollowed
  <1> DEFINE n == Len(boxes)
             row == RowMajor(boxes, Ids(boxes))
             byRow == DpAlign(lines, boxes, row)
             byCol == DpAlign(lines, boxes, order)
             D == DOMAIN boxes
  <1>1. /\ boxes \in Seq(Areas) /\ lines \in Seq(Lines)
        /\ column \in [DOMAIN boxes -> Nat]
    BY AlignmentAssumption DEF Lines
  <1>2. n \in Nat /\ D = 1 .. n /\ DOMAIN lines = 1 .. n
    BY <1>1
  <1>3. n >= 2
    <2>1. \A i \in 1 .. n : \E j \in (1 .. n) \ {i} : column[j] = column[i]
      BY <1>2 DEF InColumns
    <2>2. \E j \in 1 .. n : j # k
      BY <1>2, <2>1
    <2> QED BY <1>2, <2>2
  <1>4. ReadingOrder(boxes, Ids(boxes)) = order
    BY <1>1, ColumnsAreInOrder
  <1>5. order \in Seq(D) /\ Len(order) = n /\ order \in [1 .. n -> D]
    <2>1. order \in [1 .. n -> D] /\ n \in Nat
      BY <1>2
    <2> HIDE DEF n, D
    <2> QED BY <2>1
  <1>6. row \in Seq(D) /\ Len(row) = n
    BY <1>1, IdsType, RowMajorType
  <1> HIDE DEF row
  <1>7. /\ byCol.cost = 0 /\ byCol.matches = n
        /\ \A l \in 1 .. n : byCol.placement[l] = order[l]
    <2>1. order \in Seq(DOMAIN boxes) /\ Len(order) = Len(boxes)
      BY <1>5
    <2>2. /\ byCol.cost = 0 /\ byCol.matches = Len(lines)
          /\ \A l \in DOMAIN lines : byCol.placement[l] = order[l]
      <3> HIDE DEF n, D
      <3> QED BY <1>1, <2>1, FittingIsFree
    <2> HIDE DEF byCol
    <2> QED BY <1>2, <2>2
  <1>8. byRow.cost \in Nat /\ byRow.cost # 0
    BY <1>1, <1>6, FittingIsFree DEF row
  <1> HIDE DEF byRow, byCol
  <1>9. Cheaper(byRow, byCol) = byCol
    BY <1>7, <1>8 DEF Cheaper
  <1>10. byCol = Cheaper(DpAlign(lines, boxes, RowMajor(boxes, Ids(boxes))),
                         DpAlign(lines, boxes, ReadingOrder(boxes, Ids(boxes))))
    BY <1>4, <1>9 DEF byRow, byCol, row
  <1>11. ~Degenerate(lines, Unread(boxes), byCol.matches)
    BY <1>2, <1>3, <1>7 DEF Degenerate
  <1>12. order[k] \in D
    BY <1>2, <1>5
  <1>13. {l \in DOMAIN lines : byCol.placement[l] = order[k]} = {k}
    <2>1. TakesAll(order, D)
      BY <1>1, DownTakesAll
    <2> HIDE DEF n, D
    <2>2. \A l \in 1 .. n : order[l] = order[k] => l = k
      BY <1>2, <1>5, <2>1 DEF TakesAll
    <2> QED BY <1>2, <1>7, <2>2
  <1>14. boxes # <<>> /\ lines # <<>>
    BY <1>1, <1>2, <1>3, EmptySeq
  <1>15. AlignText(Unread(boxes), lines)[order[k]].text
           = Joined(lines, {l \in DOMAIN lines : byCol.placement[l] = order[k]})
    <2>1. \A i \in D :
            AlignText(Unread(boxes), lines)[i].text
              = TextAt(lines, byCol.placement, i)
      BY <1>1, <1>10, <1>11, <1>14, AlignUnread
    <2> HIDE DEF D
    <2> QED BY <1>12, <2>1 DEF TextAt
  <1> QED BY <1>1, <1>13, <1>15, OneLineJoined

-----------------------------------------------------------------------------
(* Page ranges.                                                            *)

\* The members of S below s.
Under(S, s) == {r \in S : r < s}

\* In a finite set of numbers, each has fewer below it than there are, a
\* larger one has more below it, and no two have as many.
LEMMA UnderFacts ==
  ASSUME NEW S, S \subseteq Nat, IsFiniteSet(S), NEW s \in S
  PROVE  /\ Cardinality(S) \in Nat
         /\ Cardinality(Under(S, s)) \in Nat
         /\ Cardinality(Under(S, s)) < Cardinality(S)
         /\ \A t \in S : t <= s => Cardinality(Under(S, t)) <= Cardinality(Under(S, s))
         /\ \A t \in S : Cardinality(Under(S, t)) = Cardinality(Under(S, s)) => t = s
  <1>1. ASSUME NEW t \in S
        PROVE  /\ Under(S, t) \subseteq S /\ t \notin Under(S, t)
               /\ IsFiniteSet(Under(S, t)) /\ Cardinality(Under(S, t)) \in Nat
               /\ Cardinality(Under(S, t)) <= Cardinality(S)
    <2>1. Under(S, t) \subseteq S /\ t \notin Under(S, t)
      BY DEF Under
    <2> QED BY <2>1, FS_Subset, FS_CardinalityType
  <1>2. ASSUME NEW t \in S, NEW u \in S, t < u
        PROVE  /\ Cardinality(Under(S, t)) <= Cardinality(Under(S, u))
               /\ Cardinality(Under(S, t)) # Cardinality(Under(S, u))
    <2>1. t \in Nat /\ u \in Nat
      OBVIOUS
    <2>2. Under(S, t) \subseteq Under(S, u) /\ t \in Under(S, u)
      <3>1. ASSUME NEW r \in S, r < t PROVE r < u
        <4>1. r \in Nat
          OBVIOUS
        <4> QED BY <1>2, <2>1, <3>1, <4>1
      <3> QED BY <1>2, <3>1 DEF Under
    <2>3. Under(S, t) # Under(S, u)
      BY <1>1, <2>2
    <2> DEFINE A == Under(S, t)
               B == Under(S, u)
    <2>4. IsFiniteSet(B) /\ A \subseteq B /\ A # B
      BY <1>1, <2>2, <2>3
    <2> HIDE DEF A, B
    <2>5. Cardinality(A) <= Cardinality(B) /\ Cardinality(A) # Cardinality(B)
      BY <2>4, FS_Subset
    <2> QED BY <2>5 DEF A, B
  <1>3. Cardinality(S) \in Nat
    BY FS_CardinalityType
  <1>4. Cardinality(Under(S, s)) < Cardinality(S)
    <2>1. Under(S, s) # S
      BY <1>1
    <2>2. Cardinality(Under(S, s)) # Cardinality(S)
      BY <1>1, <2>1, FS_Subset
    <2> DEFINE c == Cardinality(Under(S, s))
               n == Cardinality(S)
    <2>3. c \in Nat /\ n \in Nat /\ c <= n /\ c # n
      BY <1>1, <1>3, <2>2
    <2> HIDE DEF c, n
    <2>4. c < n
      BY <2>3
    <2> QED BY <2>4 DEF c, n
  <1>5. ASSUME NEW t \in S, t <= s
        PROVE  Cardinality(Under(S, t)) <= Cardinality(Under(S, s))
    <2>1. t \in Nat /\ s \in Nat
      OBVIOUS
    <2>2. CASE t = s
      <3> DEFINE c == Cardinality(Under(S, s))
      <3>1. c \in Nat
        BY <1>1
      <3> HIDE DEF c
      <3>2. c <= c
        BY <3>1
      <3> QED BY <2>2, <3>2 DEF c
    <2>3. CASE t < s
      BY <1>2, <2>3
    <2> QED BY <1>5, <2>1, <2>2, <2>3
  <1>6. ASSUME NEW t \in S, Cardinality(Under(S, t)) = Cardinality(Under(S, s))
        PROVE  t = s
    <2>1. t \in Nat /\ s \in Nat
      OBVIOUS
    <2>2. t < s \/ s < t \/ t = s
      BY <2>1
    <2> QED BY <1>2, <1>6, <2>2
  <1> QED BY <1>1, <1>3, <1>4, <1>5, <1>6

\* There is one with none below it, one with one, and so on.
LEMMA UnderIsTaken ==
  ASSUME NEW S, S \subseteq Nat, IsFiniteSet(S), NEW k \in 1 .. Cardinality(S)
  PROVE  \E s \in S : Cardinality(Under(S, s)) = k - 1
  <1> DEFINE n == Cardinality(S)
             T == {m \in 1 .. n : \E s \in S : Cardinality(Under(S, s)) = m - 1}
  <1>1. n \in Nat \ {0} /\ S # {}
    <2>1. n \in Nat
      BY FS_CardinalityType
    <2>2. n # 0
      BY <2>1
    <2> HIDE DEF n
    <2> QED BY <2>1, <2>2, FS_EmptySet DEF n
  <1>2. \E s \in S : Cardinality(Under(S, s)) = 0
    <2>1. PICK s \in S : \A t \in S : s <= t
      BY <1>1, LeastElement
    <2>2. ASSUME NEW t \in S PROVE ~(t < s)
      <3>1. t \in Nat /\ s \in Nat /\ s <= t
        BY <2>1
      <3> QED BY <3>1
    <2>3. Under(S, s) = {}
      BY <2>2 DEF Under
    <2> QED BY <2>3, FS_EmptySet
  <1>3. ASSUME NEW m \in 2 .. n, NEW s \in S, Cardinality(Under(S, s)) = m - 2
        PROVE  \E t \in S : Cardinality(Under(S, t)) = m - 1
    <2> DEFINE V == Under(S, s) \cup {s}
               U == {t \in S : s < t}
    <2>1. /\ IsFiniteSet(Under(S, s)) /\ s \notin Under(S, s) /\ s \in Nat
          /\ m \in Nat /\ m <= n
      <3>1. Under(S, s) \subseteq S /\ s \notin Under(S, s)
        BY DEF Under
      <3> HIDE DEF n
      <3> QED BY <1>1, <3>1, FS_Subset
    <2>2. IsFiniteSet(V) /\ Cardinality(V) = m - 1
      <3>1. Cardinality(V) = Cardinality(Under(S, s)) + 1 /\ IsFiniteSet(V)
        BY <2>1, FS_AddElement
      <3> QED BY <1>3, <2>1, <3>1
    <2>3. U # {}
      <3> SUFFICES ASSUME U = {} PROVE FALSE
        OBVIOUS
      <3>1. S \subseteq V
        BY <2>1 DEF Under
      <3>2. V \subseteq S
        BY DEF Under
      <3>3. V = S
        BY <3>1, <3>2
      <3> HIDE DEF V, U
      <3> QED BY <2>1, <2>2, <3>3
    <2>4. U \subseteq Nat
      OBVIOUS
    <2>5. PICK t \in U : \A r \in U : t <= r
      <3> HIDE DEF U
      <3> QED BY <2>3, <2>4, LeastElement
    <2>6. t \in S /\ t \in Nat /\ s < t
      BY <2>5
    <2>7. ASSUME NEW r \in S PROVE r < t <=> r \in V
      <3>1. r \in Nat
        OBVIOUS
      <3>2. r \in V <=> r <= s
        BY <2>1, <3>1 DEF Under
      <3>3. r \in U <=> s < r
        OBVIOUS
      <3>4. r \in U => t <= r
        BY <2>5
      <3> HIDE DEF V, U
      <3> QED BY <2>1, <2>6, <3>1, <3>2, <3>3, <3>4
    <2>8. Under(S, t) = V
      <3>1. V \subseteq S
        BY DEF Under
      <3> HIDE DEF V
      <3> QED BY <2>7, <3>1 DEF Under
    <2> QED BY <2>2, <2>6, <2>8
  <1>4. ASSUME NEW i \in 2 .. n, i - 1 \in T PROVE i \in T
    <2>1. PICK s \in S : Cardinality(Under(S, s)) = (i - 1) - 1
      BY <1>4
    <2>2. i \in 1 .. n /\ (i - 1) - 1 = i - 2
      BY <1>1
    <2> HIDE DEF n
    <2>3. \E t \in S : Cardinality(Under(S, t)) = i - 1
      BY <1>3, <2>1, <2>2
    <2> QED BY <2>2, <2>3
  <1>5. 1 \in T
    BY <1>1, <1>2
  <1>6. k \in Nat \ {0} /\ k <= n
    BY <1>1
  <1>7. \A i \in 2 .. k : i - 1 \in T => i \in T
    <2> HIDE DEF T
    <2> QED BY <1>1, <1>4, <1>6
  <1>8. k \in T
    <2> HIDE DEF T
    <2> QED BY <1>5, <1>6, <1>7, CountFromOne
  <1> QED BY <1>8

\* Where the run of pages that s begins ends.
EndOf(pages, s) ==
  CHOOSE e \in pages : s <= e /\ s .. e \subseteq pages /\ e + 1 \notin pages

\* Every run of pages ends.
LEMMA RunEndsSomewhere ==
  ASSUME NEW n \in Nat, NEW pages, pages \subseteq 1 .. n, NEW s \in pages
  PROVE  /\ EndOf(pages, s) \in pages
         /\ s <= EndOf(pages, s)
         /\ s .. EndOf(pages, s) \subseteq pages
         /\ EndOf(pages, s) + 1 \notin pages
  <1> DEFINE E == {e \in s .. n : e + 1 \notin pages}
  <1>1. s \in Nat /\ s <= n /\ n + 1 \notin pages /\ n \in s .. n
    <2>1. s \in 1 .. n
      OBVIOUS
    <2>2. n + 1 \notin 1 .. n
      OBVIOUS
    <2> QED BY <2>1, <2>2
  <1>2. E \subseteq Nat /\ n \in E
    BY <1>1
  <1>3. PICK e \in E : \A x \in E : e <= x
    <2>1. E # {}
      BY <1>2
    <2> HIDE DEF E
    <2> QED BY <1>2, <2>1, LeastElement
  <1>4. e \in Nat /\ s <= e /\ e <= n /\ e + 1 \notin pages
    BY <1>1, <1>3
  <1>5. s .. e \subseteq pages
    <2>1. ASSUME NEW i \in s + 1 .. e, i - 1 \in pages PROVE i \in pages
      <3> SUFFICES ASSUME i \notin pages PROVE FALSE
        OBVIOUS
      <3>1. i - 1 \in s .. n /\ (i - 1) + 1 = i /\ ~(e <= i - 1)
        BY <1>1, <1>4
      <3>2. i - 1 \in E
        BY <3>1
      <3> HIDE DEF E
      <3> QED BY <1>3, <3>1, <3>2
    <2> QED BY <1>1, <1>4, <2>1, Counting
  <1>6. e \in pages
    BY <1>4, <1>5
  <1> HIDE DEF E
  <1>7. \E x \in pages : s <= x /\ s .. x \subseteq pages /\ x + 1 \notin pages
    BY <1>4, <1>5, <1>6
  <1> QED BY <1>7 DEF EndOf

\* Every page is in a run that begins somewhere.
LEMMA RunBeginsSomewhere ==
  ASSUME NEW n \in Nat, NEW pages, pages \subseteq 1 .. n, NEW p \in pages
  PROVE  \E s \in pages : /\ s - 1 \notin pages
                          /\ s <= p /\ s .. p \subseteq pages
  <1> DEFINE B == {b \in 1 .. p : b .. p \subseteq pages}
  <1>1. p \in Nat /\ p \in 1 .. p /\ 0 \notin pages
    BY SMT
  <1>2. B \subseteq Nat /\ p \in B
    BY <1>1
  <1>3. PICK s \in B : \A x \in B : s <= x
    <2>1. B # {}
      BY <1>2
    <2> HIDE DEF B
    <2> QED BY <1>2, <2>1, LeastElement
  <1>4. s \in 1 .. p /\ s .. p \subseteq pages /\ s \in pages
    BY <1>1, <1>3
  <1>5. s - 1 \notin pages
    <2> SUFFICES ASSUME s - 1 \in pages PROVE FALSE
      OBVIOUS
    <2>1. s - 1 \in 1 .. p /\ ~(s <= s - 1)
      BY <1>1, <1>4
    <2>2. \A x \in s - 1 .. p : x = s - 1 \/ x \in s .. p
      BY <1>1, <1>4
    <2>3. s - 1 .. p \subseteq pages
      BY <1>4, <2>2
    <2>4. s - 1 \in B
      BY <2>1, <2>3
    <2> HIDE DEF B
    <2> QED BY <1>3, <2>1, <2>4
  <1> QED BY <1>1, <1>4, <1>5

\* The first pages of the runs.
Starts(pages) == {p \in pages : p - 1 \notin pages}

\* The first page of run k.
Nth(pages, k) ==
  CHOOSE s \in Starts(pages) : Cardinality(Under(Starts(pages), s)) = k - 1

\* The text of a selection, run by run: each run has its place in it.
LEMMA SerializedRuns ==
  ASSUME NEW n \in Nat, NEW pages, pages \subseteq 1 .. n
  PROVE  /\ Cardinality(Starts(pages)) \in Nat
         /\ SerializePages(pages) =
              [k \in 1 .. Cardinality(Starts(pages)) |->
                 <<Nth(pages, k), EndOf(pages, Nth(pages, k))>>]
         /\ \A k \in 1 .. Cardinality(Starts(pages)) :
              /\ Nth(pages, k) \in Starts(pages)
              /\ Cardinality(Under(Starts(pages), Nth(pages, k))) = k - 1
         /\ \A s \in Starts(pages) :
              \E k \in 1 .. Cardinality(Starts(pages)) : Nth(pages, k) = s
  <1> DEFINE S == Starts(pages)
             m == Cardinality(S)
  <1>1. S \subseteq Nat /\ IsFiniteSet(S) /\ m \in Nat
    <2>1. S \subseteq 1 .. n
      BY DEF Starts
    <2>2. IsFiniteSet(1 .. n)
      BY FS_Interval
    <2> HIDE DEF S
    <2>3. S \subseteq Nat
      BY <2>1
    <2> QED BY <2>1, <2>2, <2>3, FS_Subset, FS_CardinalityType
  <1>2. SerializePages(pages) =
          [k \in 1 .. m |-> <<Nth(pages, k), EndOf(pages, Nth(pages, k))>>]
    BY DEF SerializePages, Nth, EndOf, Starts, Under
  <1>3. ASSUME NEW k \in 1 .. m
        PROVE  Nth(pages, k) \in S /\ Cardinality(Under(S, Nth(pages, k))) = k - 1
    <2>1. \E s \in S : Cardinality(Under(S, s)) = k - 1
      <3> HIDE DEF S
      <3> QED BY <1>1, UnderIsTaken
    <2> QED BY <2>1 DEF Nth
  <1>4. ASSUME NEW s \in S PROVE \E k \in 1 .. m : Nth(pages, k) = s
    <2> DEFINE c == Cardinality(Under(S, s))
    <2>1. c \in Nat /\ c < m
      <3> HIDE DEF S
      <3> QED BY <1>1, UnderFacts
    <2> HIDE DEF c, m
    <2>2. c + 1 \in 1 .. m /\ (c + 1) - 1 = c
      BY <1>1, <2>1
    <2>3. /\ Nth(pages, c + 1) \in S
          /\ Cardinality(Under(S, Nth(pages, c + 1))) = Cardinality(Under(S, s))
      BY <1>3, <2>2 DEF c
    <2>4. Nth(pages, c + 1) = s
      <3> HIDE DEF S
      <3> QED BY <1>1, <2>3, UnderFacts
    <2> QED BY <2>2, <2>4
  <1> QED BY <1>1, <1>2, <1>3, <1>4

\* Theorem: a page selection survives its text, whatever pages it names and
\* however many the document has; the text names each run of pages once, in
\* ascending order and as far as it goes.
THEOREM SelectionsSurvive ==
  ASSUME NEW n \in Nat, NEW pages \in SUBSET (1 .. n), NEW total \in Nat
  PROVE  SelectionSurvives(pages, total)
  <1> DEFINE
    spec == SerializePages(pages)
    S == Starts(pages)
    m == Cardinality(S)
    b(k) == Nth(pages, k)
    e(k) == EndOf(pages, b(k))
  <1>1. /\ m \in Nat
        /\ spec = [k \in 1 .. m |-> <<b(k), e(k)>>]
        /\ \A k \in 1 .. m : b(k) \in S /\ Cardinality(Under(S, b(k))) = k - 1
        /\ \A s \in S : \E k \in 1 .. m : b(k) = s
    BY SerializedRuns
  <1>2. ASSUME NEW k \in 1 .. m
        PROVE  /\ b(k) \in pages /\ b(k) - 1 \notin pages /\ b(k) \in 1 .. n
               /\ e(k) \in pages /\ e(k) \in 1 .. n /\ b(k) <= e(k)
               /\ b(k) .. e(k) \subseteq pages /\ e(k) + 1 \notin pages
               /\ spec[k] = <<b(k), e(k)>>
    <2>1. b(k) \in pages /\ b(k) - 1 \notin pages
      BY <1>1 DEF Starts
    <2>2. spec[k] = <<b(k), e(k)>>
      BY <1>1
    <2>3. /\ e(k) \in pages /\ b(k) <= e(k)
          /\ b(k) .. e(k) \subseteq pages /\ e(k) + 1 \notin pages
      <3> HIDE DEF b
      <3> QED BY <2>1, RunEndsSomewhere
    <2> HIDE DEF b, e, spec, S, m
    <2> QED BY <2>1, <2>2, <2>3
  <1>3. DOMAIN spec = 1 .. m /\ Len(spec) = m
    <2> HIDE DEF m, b, e
    <2>1. DOMAIN spec = 1 .. m
      BY <1>1
    <2> HIDE DEF spec
    <2> QED BY <1>1, <2>1
  <1>4. WellFormedSpec(spec)
    <2> SUFFICES ASSUME NEW k \in 1 .. m
                 PROVE  /\ spec[k] # Garbage
                        /\ 1 <= spec[k][1] /\ spec[k][1] <= spec[k][2]
      BY <1>3 DEF WellFormedSpec
    <2> HIDE DEF spec, m, b, e
    <2>1. spec[k] \in Nat \X Nat /\ spec[k][1] = b(k) /\ spec[k][2] = e(k)
      <3>1. spec[k] = <<b(k), e(k)>> /\ b(k) \in Nat /\ e(k) \in Nat
        BY <1>2
      <3> QED BY <3>1
    <2> QED BY <1>2, <2>1, PageRangeAssumption
  <1>5. UNION {spec[k][1] .. spec[k][2] : k \in DOMAIN spec} = pages
    <2>1. \A k \in 1 .. m : spec[k][1] .. spec[k][2] \subseteq pages
      <3> HIDE DEF spec, m, b, e
      <3> QED BY <1>2
    <2>2. ASSUME NEW p \in pages
          PROVE  \E k \in 1 .. m : p \in spec[k][1] .. spec[k][2]
      <3>1. PICK s \in pages : s - 1 \notin pages /\ s <= p /\ s .. p \subseteq pages
        BY RunBeginsSomewhere
      <3>2. PICK k \in 1 .. m : b(k) = s
        <4>1. s \in S
          BY <3>1 DEF Starts
        <4> HIDE DEF S, b, m
        <4> QED BY <1>1, <4>1
      <3> HIDE DEF spec, m, b, e
      <3>3. e(k) \in 1 .. n /\ s <= e(k) /\ e(k) + 1 \notin pages /\ p \in 1 .. n
            /\ s \in 1 .. n
        BY <1>2, <3>2
      <3>4. p <= e(k)
        <4> SUFFICES ASSUME ~(p <= e(k)) PROVE FALSE
          OBVIOUS
        <4>1. e(k) + 1 \in s .. p
          BY <3>3
        <4> QED BY <3>1, <3>3, <4>1
      <3>5. spec[k][1] = s /\ spec[k][2] = e(k)
        BY <1>2, <3>2
      <3> QED BY <3>1, <3>3, <3>4, <3>5
    <2> HIDE DEF spec, m
    <2> QED BY <1>3, <2>1, <2>2
  <1>6. ASSUME NEW k \in 1 .. Len(spec) - 1
        PROVE  spec[k][2] + 1 < spec[k + 1][1]
    <2>1. k \in 1 .. m /\ k + 1 \in 1 .. m /\ k \in Nat
      <3> HIDE DEF spec, m
      <3> QED BY <1>1, <1>3
    <2>2. ~(b(k + 1) <= b(k))
      <3> SUFFICES ASSUME b(k + 1) <= b(k) PROVE FALSE
        OBVIOUS
      <3>1. S \subseteq Nat /\ IsFiniteSet(S)
        <4>1. S \subseteq 1 .. n
          BY DEF Starts
        <4>2. IsFiniteSet(1 .. n)
          BY FS_Interval
        <4> HIDE DEF S
        <4>3. S \subseteq Nat
          BY <4>1
        <4> QED BY <4>1, <4>2, <4>3, FS_Subset
      <3>2. /\ b(k) \in S /\ b(k + 1) \in S
            /\ Cardinality(Under(S, b(k))) = k - 1
            /\ Cardinality(Under(S, b(k + 1))) = (k + 1) - 1
        <4> HIDE DEF S, b, m
        <4> QED BY <1>1, <2>1
      <3> HIDE DEF S, b, m, e, spec
      <3>3. Cardinality(Under(S, b(k + 1))) <= Cardinality(Under(S, b(k)))
        BY <3>1, <3>2, UnderFacts
      <3>4. (k + 1) - 1 <= k - 1
        BY <3>2, <3>3
      <3> QED BY <2>1, <3>4
    <2> HIDE DEF spec, m, S, b, e
    <2> DEFINE s == b(k)
               t == b(k + 1)
               d == e(k)
    <2>3. /\ s \in 1 .. n /\ t \in 1 .. n /\ d \in 1 .. n
          /\ t \in pages /\ t - 1 \notin pages
          /\ s .. d \subseteq pages /\ d + 1 \notin pages
          /\ ~(t <= s)
      BY <1>2, <2>1, <2>2
    <2>4. spec[k][2] = d /\ spec[k + 1][1] = t
      BY <1>2, <2>1
    <2> HIDE DEF s, t, d
    <2>5. ~(t <= d)
      <3> SUFFICES ASSUME t <= d PROVE FALSE
        OBVIOUS
      <3>1. t - 1 \in s .. d
        BY <2>3
      <3> QED BY <2>3, <3>1
    <2>6. t # d + 1
      BY <2>3
    <2> QED BY <2>3, <2>4, <2>5, <2>6
  <1>7. SelectedPages(spec, total) = {p - 1 : p \in pages \cap 1 .. total}
    <2> HIDE DEF spec
    <2> QED BY <1>5 DEF SelectedPages
  <1>8. /\ WellFormedSpec(spec)
        /\ SelectedPages(spec, total) = {p - 1 : p \in pages \cap 1 .. total}
        /\ \A k \in 1 .. Len(spec) - 1 : spec[k][2] + 1 < spec[k + 1][1]
    BY <1>4, <1>6, <1>7
  <1> QED BY <1>8 DEF SelectionSurvives
==============================================================================
