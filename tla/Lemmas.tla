------------------------------ MODULE Lemmas --------------------------------
(***************************************************************************)
(* Facts about numbers and finite sets on which the proofs of several      *)
(* components rest.  Induction is stated with sets where the theorems of   *)
(* the library take an operator.                                           *)
(***************************************************************************)
EXTENDS Integers, FiniteSetsExt, FiniteSetTheorems, TLAPS

\* Quotient and remainder are unique.
LEMMA DivisionUnique ==
  ASSUME NEW d \in Nat \ {0}, NEW k \in Int, NEW r \in 0 .. d - 1
  PROVE  (d * k + r) \div d = k /\ (d * k + r) % d = r
<1> DEFINE n == d * k + r
           q == n \div d
           m == n % d
<1>1. n \in Int /\ q \in Int /\ m \in 0 .. d - 1 /\ n = d * q + m
  OBVIOUS
<1>2. d * (q - k) = r - m
  BY <1>1
<1>3. q - k < 1
  <2>1. SUFFICES ASSUME q - k >= 1 PROVE FALSE
    BY <1>1
  <2>2. d * (q - k) >= d
    BY <1>1, <2>1
  <2> QED BY <1>1, <1>2, <2>2
<1>4. q - k > -1
  <2>1. SUFFICES ASSUME q - k <= -1 PROVE FALSE
    BY <1>1
  <2>2. d * (q - k) <= -d
    BY <1>1, <2>1
  <2> QED BY <1>1, <1>2, <2>2
<1> QED BY <1>1, <1>2, <1>3, <1>4

\* Multiples of d are what d divides without remainder, and d times the quotient.
LEMMA DivisionExact ==
  ASSUME NEW d \in Nat \ {0}, NEW n \in Int
  PROVE  /\ n % d = 0 => n = d * (n \div d) /\ n \div d \in Int
         /\ \A k \in Int : n = d * k => n % d = 0 /\ n \div d = k
<1>1. n % d = 0 => n = d * (n \div d) /\ n \div d \in Int
  OBVIOUS
<1>2. \A k \in Int : n = d * k => n % d = 0 /\ n \div d = k
  <2> TAKE k \in Int
  <2>1. d * k + 0 = d * k /\ 0 \in 0 .. d - 1
    OBVIOUS
  <2> QED BY <2>1, DivisionUnique
<1> QED BY <1>1, <1>2

\* Every set of naturals that is not empty has a least element.
LEMMA LeastElement ==
  ASSUME NEW T \in SUBSET Nat, T # {}
  PROVE  \E x \in T : \A y \in T : x <= y
<1> DEFINE Below(x) == {k \in T : k < x}
           Segments == {Below(x) : x \in T}
<1>1. \A x \in T : Below(x) \in FiniteSubsetsOf(T)
  <2> TAKE x \in T
  <2>1. IsFiniteSet(Below(x))
    BY FS_BoundedSetOfNaturals
  <2> QED BY <2>1 DEF FiniteSubsetsOf
<1>2. PICK m \in Segments : \A n \in Segments : <<n, m>> \notin StrictSubsetOrdering(T)
  <2>1. Segments \subseteq FiniteSubsetsOf(T) /\ Segments # {}
    BY <1>1
  <2> HIDE DEF Segments
  <2> QED BY <2>1, FS_StrictSubsetOrderingWellFounded, WFMin
<1>3. PICK x \in T : m = Below(x)
  OBVIOUS
<1>4. ASSUME NEW y \in T, y < x PROVE FALSE
  <2>1. x \in Nat /\ y \in Nat
    OBVIOUS
  <2>2. \A k \in Below(y) : k \in T /\ k < x
    BY <1>4, <2>1
  <2>3. y \in Below(x) /\ y \notin Below(y)
    BY <1>4, <2>1
  <2>4. Below(y) \in SUBSET T /\ Below(x) \in SUBSET T
        /\ Below(y) \subseteq Below(x) /\ Below(y) # Below(x)
    BY <2>2, <2>3
  <2>5. <<Below(y), Below(x)>> \in StrictSubsetOrdering(T)
    <3> HIDE DEF Below
    <3> QED BY <2>4 DEF StrictSubsetOrdering
  <2> QED BY <1>2, <1>3, <2>5
<1> QED BY <1>4

\* Induction: a set with 0 and with the successor of each of its elements.
LEMMA Induction ==
  ASSUME NEW S \in SUBSET Nat, 0 \in S, \A n \in S : n + 1 \in S
  PROVE  S = Nat
<1> SUFFICES ASSUME Nat \ S # {} PROVE FALSE
  OBVIOUS
<1>1. PICK x \in Nat \ S : \A y \in Nat \ S : x <= y
  BY LeastElement
<1>2. x - 1 \in Nat
  OBVIOUS
<1>3. x - 1 \in S
  BY <1>1, <1>2
<1> QED BY <1>1, <1>3

\* Induction up to a bound.
LEMMA BoundedInduction ==
  ASSUME NEW N \in Nat, NEW S, 0 \in S, \A n \in 0 .. N - 1 : n \in S => n + 1 \in S
  PROVE  0 .. N \subseteq S
<1> DEFINE T == {n \in Nat : n <= N => n \in S}
<1>1. T \in SUBSET Nat /\ 0 \in T
  OBVIOUS
<1>2. \A n \in T : n + 1 \in T
  OBVIOUS
<1>3. T = Nat
  <2> HIDE DEF T
  <2> QED BY <1>1, <1>2, Induction
<1> QED BY <1>3

\* Induction in which every smaller number may be used.
LEMMA StrongInduction ==
  ASSUME NEW S, \A n \in Nat : (\A m \in Nat : m < n => m \in S) => n \in S
  PROVE  Nat \subseteq S
<1> SUFFICES ASSUME Nat \ S # {} PROVE FALSE
  OBVIOUS
<1>1. PICK x \in Nat \ S : \A y \in Nat \ S : x <= y
  BY LeastElement
<1>2. \A m \in Nat : m < x => m \in S
  BY <1>1
<1> QED BY <1>1, <1>2

\* G[n] makes of a function its value at n, and looks only at its values below n.
LooksBelow(D, T, G) ==
  \A n \in D : \A f, g \in [D -> T] :
    /\ G[n][f] \in T
    /\ (\A m \in D : m < n => f[m] = g[m]) => G[n][f] = G[n][g]

\* A function on numbers may be defined by its values below: there is one.
LEMMA RecursionExists ==
  ASSUME NEW D \in SUBSET Nat, NEW T, T # {}, NEW G, LooksBelow(D, T, G)
  PROVE  \E f \in [D -> T] : \A n \in D : f[n] = G[n][f]
<1> DEFINE Right(f, n) == f[n] = G[n][f]
           RightBelow(f, k) == \A n \in D : n < k => Right(f, n)
           Bounds == {k \in Nat : \E f \in [D -> T] : RightBelow(f, k)}
<1>1. \A n \in D : \A f, g \in [D -> T] :
        /\ G[n][f] \in T
        /\ (\A m \in D : m < n => f[m] = g[m]) => G[n][f] = G[n][g]
  BY DEF LooksBelow
<1>2. 0 \in Bounds
  <2>1. PICK t \in T : TRUE
    OBVIOUS
  <2>2. [n \in D |-> t] \in [D -> T] /\ RightBelow([n \in D |-> t], 0)
    OBVIOUS
  <2> HIDE DEF RightBelow
  <2> QED BY <2>2
<1>3. ASSUME NEW k \in Bounds PROVE k + 1 \in Bounds
  <2>0. k \in Nat
    OBVIOUS
  <2>1. PICK f \in [D -> T] : RightBelow(f, k)
    OBVIOUS
  <2> DEFINE g == [n \in D |-> IF n = k THEN G[n][f] ELSE f[n]]
  <2>2. g \in [D -> T]
    BY <1>1
  <2>3. \A m \in D : m < k => g[m] = f[m]
    OBVIOUS
  <2>4. ASSUME NEW n \in D, n < k + 1 PROVE Right(g, n)
    <3>1. g[n] = G[n][f]
      <4>1. CASE n = k
        BY <4>1
      <4>2. CASE n # k
        <5>1. n < k
          <6> HIDE DEF Bounds, g
          <6> QED BY <2>0, <2>4, <4>2
        <5> QED BY <2>1, <2>3, <5>1
      <4> QED BY <4>1, <4>2
    <3>2. \A m \in D : m < n => f[m] = g[m]
      BY <2>3, <2>4
    <3> HIDE DEF g
    <3> QED BY <1>1, <2>2, <3>1, <3>2
  <2> HIDE DEF g, Right
  <2>5. RightBelow(g, k + 1)
    BY <2>4
  <2> HIDE DEF RightBelow
  <2> QED BY <2>2, <2>5
<1>4. \A k \in Nat : \E f \in [D -> T] : RightBelow(f, k)
  <2>1. Bounds \in SUBSET Nat
    OBVIOUS
  <2>2. Bounds = Nat
    <3> HIDE DEF Bounds
    <3> QED BY <1>2, <1>3, <2>1, Induction
  <2> HIDE DEF RightBelow
  <2> QED BY <2>2
<1>5. ASSUME NEW f \in [D -> T], NEW g \in [D -> T], NEW j \in Nat, NEW k \in Nat,
             RightBelow(f, j), RightBelow(g, k)
      PROVE  \A n \in D : n < j /\ n < k => f[n] = g[n]
  <2> DEFINE Same == {n \in Nat : n \in D /\ n < j /\ n < k => f[n] = g[n]}
  <2>1. ASSUME NEW n \in Nat, \A m \in Nat : m < n => m \in Same PROVE n \in Same
    <3> SUFFICES ASSUME n \in D, n < j, n < k PROVE f[n] = g[n]
      OBVIOUS
    <3>1. \A m \in D : m < n => f[m] = g[m]
      BY <2>1
    <3>2. f[n] = G[n][f] /\ g[n] = G[n][g]
      BY <1>5
    <3> QED BY <1>1, <3>1, <3>2
  <2>2. Nat \subseteq Same
    <3> HIDE DEF Same
    <3> QED BY <2>1, StrongInduction
  <2> QED BY <2>2
<1> DEFINE Upto(n) == CHOOSE f \in [D -> T] : RightBelow(f, n + 1)
           whole == [n \in D |-> Upto(n)[n]]
<1>6. \A n \in D : Upto(n) \in [D -> T] /\ RightBelow(Upto(n), n + 1)
  <2> TAKE n \in D
  <2>1. n + 1 \in Nat
    OBVIOUS
  <2> HIDE DEF RightBelow
  <2> QED BY <1>4, <2>1
<1> HIDE DEF Upto
<1>7. whole \in [D -> T]
  BY <1>6
<1>8. ASSUME NEW n \in D PROVE whole[n] = G[n][whole]
  <2>1. whole[n] = Upto(n)[n] /\ Right(Upto(n), n)
    BY <1>6
  <2>2. ASSUME NEW m \in D, m < n PROVE Upto(n)[m] = whole[m]
    <3>1. m < n + 1 /\ m < m + 1 /\ n + 1 \in Nat /\ m + 1 \in Nat
      BY <2>2
    <3> HIDE DEF RightBelow
    <3> QED BY <1>5, <1>6, <3>1
  <2> HIDE DEF whole
  <2> QED BY <1>1, <1>6, <1>7, <2>1, <2>2
<1> HIDE DEF whole
<1> QED BY <1>7, <1>8

-----------------------------------------------------------------------------
(***************************************************************************)
(* Folds, as the community modules define them: one element after the      *)
(* other is taken out of a finite set.                                     *)
(***************************************************************************)

\* Induction over the subsets of a finite set.
LEMMA FiniteInduction ==
  ASSUME NEW S, IsFiniteSet(S), NEW T,
         \A s \in SUBSET S : (\A x \in s : s \ {x} \in T) => s \in T
  PROVE  SUBSET S \subseteq T
<1> DEFINE Small == {n \in Nat : \A s \in SUBSET S : Cardinality(s) <= n => s \in T}
<1>1. \A s \in SUBSET S : IsFiniteSet(s) /\ Cardinality(s) \in Nat
                          /\ (Cardinality(s) = 0 => s = {})
  BY FS_Subset, FS_CardinalityType, FS_EmptySet
<1>2. 0 \in Small
  BY <1>1
<1>3. ASSUME NEW n \in Small PROVE n + 1 \in Small
  <2> SUFFICES ASSUME NEW s \in SUBSET S, Cardinality(s) <= n + 1, NEW x \in s
               PROVE  s \ {x} \in T
    OBVIOUS
  <2>1. s \ {x} \in SUBSET S /\ Cardinality(s \ {x}) = Cardinality(s) - 1
    BY <1>1, FS_RemoveElement
  <2>2. Cardinality(s \ {x}) <= n
    BY <1>1, <2>1
  <2> QED BY <2>1, <2>2
<1>4. Small = Nat
  <2>1. Small \in SUBSET Nat
    OBVIOUS
  <2> HIDE DEF Small
  <2> QED BY <1>2, <1>3, <2>1, Induction
<1> QED BY <1>1, <1>4

\* ch takes an element out of every set, and G adds an element to a result of T.
Chooses(S, ch) == \A s \in SUBSET S : s # {} => ch[s] \in s
Keeps(S, T, G) == \A x \in S, t \in T : G[x][t] \in T

\* The results, in T, of folding the subsets of S, when iter is them.
Folds(S, ch, base, T, G, iter) ==
  /\ iter \in [SUBSET S -> T]
  /\ iter = [s \in SUBSET S |-> IF s = {} THEN base ELSE G[ch[s]][iter[s \ {ch[s]}]]]

\* There are such results.
LEMMA FoldsExist ==
  ASSUME NEW S, IsFiniteSet(S), NEW ch, Chooses(S, ch),
         NEW T, NEW base, base \in T, NEW G, Keeps(S, T, G)
  PROVE  \E iter : Folds(S, ch, base, T, G, iter)
<1> DEFINE Right(iter, s) ==
             /\ iter[s] = IF s = {} THEN base ELSE G[ch[s]][iter[s \ {ch[s]}]]
             /\ iter[s] \in T
           RightUpTo(n) ==
             \E iter : \A s \in SUBSET S : Cardinality(s) <= n => Right(iter, s)
           Sizes == {n \in Nat : RightUpTo(n)}
<1>0. \A s \in SUBSET S : s # {} =>
        /\ ch[s] \in s /\ ch[s] \in S /\ s \ {ch[s]} \in SUBSET S /\ Cardinality(s) \in Nat \ {0}
        /\ Cardinality(s \ {ch[s]}) = Cardinality(s) - 1
  <2> TAKE s \in SUBSET S
  <2>1. IsFiniteSet(s) /\ Cardinality(s) \in Nat /\ (Cardinality(s) = 0 => s = {})
    BY FS_Subset, FS_CardinalityType, FS_EmptySet
  <2>2. s # {} => ch[s] \in s
    BY DEF Chooses
  <2>3. s # {} => Cardinality(s \ {ch[s]}) = Cardinality(s) - 1
    BY <2>1, <2>2, FS_RemoveElement
  <2> QED BY <2>1, <2>2, <2>3
<1>1. 0 \in Sizes
  <2> DEFINE first == [s \in SUBSET S |-> base]
  <2>1. ASSUME NEW s \in SUBSET S, Cardinality(s) <= 0 PROVE s = {}
    <3>1. s # {} => Cardinality(s) \in Nat \ {0}
      BY <1>0
    <3> QED BY <2>1, <3>1
  <2>2. \A s \in SUBSET S : Cardinality(s) <= 0 => Right(first, s)
    BY <2>1
  <2> QED BY <2>2
<1>2. ASSUME NEW n \in Sizes PROVE n + 1 \in Sizes
  <2>1. PICK iter : \A s \in SUBSET S : Cardinality(s) <= n => Right(iter, s)
    OBVIOUS
  <2> DEFINE next == [s \in SUBSET S |->
                       IF s = {} THEN base ELSE G[ch[s]][iter[s \ {ch[s]}]]]
  <2>2. \A s \in SUBSET S : Cardinality(s) <= n => next[s] = iter[s]
    BY <2>1
  <2>3. ASSUME NEW s \in SUBSET S, Cardinality(s) <= n + 1 PROVE Right(next, s)
    <3>1. CASE s = {}
      BY <3>1
    <3>2. CASE s # {}
      <4>1. s \ {ch[s]} \in SUBSET S /\ Cardinality(s \ {ch[s]}) <= n
        BY <1>0, <2>3, <3>2
      <4>2. next[s \ {ch[s]}] = iter[s \ {ch[s]}] /\ iter[s \ {ch[s]}] \in T
        BY <2>1, <2>2, <4>1
      <4>3. next[s] = G[ch[s]][iter[s \ {ch[s]}]]
        BY <3>2
      <4>4. G[ch[s]][iter[s \ {ch[s]}]] \in T
        BY <1>0, <3>2, <4>2 DEF Keeps
      <4> HIDE DEF next
      <4> QED BY <3>2, <4>2, <4>3, <4>4
    <3> QED BY <3>1, <3>2
  <2> HIDE DEF next, Right
  <2>4. RightUpTo(n + 1)
    BY <2>3
  <2> QED BY <2>4
<1>3. Sizes = Nat
  <2>1. Sizes \in SUBSET Nat
    OBVIOUS
  <2> HIDE DEF Sizes
  <2> QED BY <1>1, <1>2, <2>1, Induction
<1>4. PICK iter : \A s \in SUBSET S : Cardinality(s) <= Cardinality(S) => Right(iter, s)
  <2>1. Cardinality(S) \in Sizes
    BY <1>3, FS_CardinalityType
  <2> HIDE DEF Right
  <2> QED BY <2>1
<1>5. \A s \in SUBSET S : Right(iter, s)
  <2>1. \A s \in SUBSET S : Cardinality(s) <= Cardinality(S)
    BY FS_Subset
  <2> HIDE DEF Right
  <2> QED BY <1>4, <2>1
<1> DEFINE all == [s \in SUBSET S |-> iter[s]]
<1>6. all \in [SUBSET S -> T]
  BY <1>5
<1>7. all = [s \in SUBSET S |-> IF s = {} THEN base ELSE G[ch[s]][all[s \ {ch[s]}]]]
  <2>1. \A s \in SUBSET S : s # {} => all[s \ {ch[s]}] = iter[s \ {ch[s]}]
    BY <1>0
  <2>2. \A s \in SUBSET S :
          all[s] = IF s = {} THEN base ELSE G[ch[s]][all[s \ {ch[s]}]]
    BY <1>5, <2>1
  <2>3. all = [s \in SUBSET S |-> all[s]]
    OBVIOUS
  <2> HIDE DEF all
  <2> QED BY <2>2, <2>3
<1> QED BY <1>6, <1>7 DEF Folds

\* A set of numbers up to n has a greatest element, and without it 1 .. k becomes
\* 1 .. k - 1.
LEMMA GreatestElement ==
  /\ \A n \in Nat : \A s \in SUBSET (1 .. n) :
       s # {} => Max(s) \in s /\ \A x \in s : x <= Max(s)
  /\ \A k \in Nat \ {0} : Max(1 .. k) = k /\ (1 .. k) \ {k} = 1 .. k - 1 /\ k \in 1 .. k
<1>1. ASSUME NEW n \in Nat, NEW s \in SUBSET (1 .. n), s # {}
      PROVE  Max(s) \in s /\ \A x \in s : x <= Max(s)
  <2> DEFINE T == {n - x : x \in s}
  <2>0. \A x \in s : x \in 1 .. n /\ n - x \in Nat
    OBVIOUS
  <2>1. T \in SUBSET Nat /\ T # {}
    <3>1. PICK x \in s : TRUE
      BY <1>1
    <3>2. n - x \in T
      OBVIOUS
    <3> QED BY <2>0, <3>2
  <2>2. PICK t \in T : \A y \in T : t <= y
    <3> HIDE DEF T
    <3> QED BY <2>1, LeastElement
  <2>3. PICK m \in s : t = n - m
    BY <2>2
  <2>4. ASSUME NEW x \in s PROVE x <= m
    <3>1. n - x \in T
      OBVIOUS
    <3>2. n - m <= n - x
      <4> HIDE DEF T
      <4> QED BY <2>2, <2>3, <3>1
    <3> QED BY <2>0, <3>2
  <2>5. \E x \in s : \A y \in s : x >= y
    BY <2>3, <2>4
  <2>6. Max(s) \in s /\ \A y \in s : Max(s) >= y
    <3> HIDE DEF T
    <3> QED BY <2>5 DEF Max
  <2> QED BY <2>6
<1>2. ASSUME NEW k \in Nat \ {0}
      PROVE  Max(1 .. k) = k /\ (1 .. k) \ {k} = 1 .. k - 1 /\ k \in 1 .. k
  <2>1. k \in 1 .. k /\ (1 .. k) \ {k} = 1 .. k - 1
    OBVIOUS
  <2>2. Max(1 .. k) \in 1 .. k /\ k <= Max(1 .. k)
    BY <1>1, <2>1
  <2> QED BY <2>1, <2>2
<1> QED BY <1>1, <1>2

\* Folds from left to right: the last element is taken out first.
LastOf(n) == [s \in SUBSET (1 .. n) |-> Max(s)]

\* There are the results of folding 1 .. n from left to right.
LEMMA LeftFoldsExist ==
  ASSUME NEW n \in Nat, NEW T, NEW base, base \in T, NEW G, Keeps(1 .. n, T, G)
  PROVE  \E iter : Folds(1 .. n, LastOf(n), base, T, G, iter)
<1>1. IsFiniteSet(1 .. n)
  BY FS_Interval
<1>2. Chooses(1 .. n, LastOf(n))
  BY GreatestElement DEF Chooses, LastOf
<1> QED BY <1>1, <1>2, FoldsExist

\* iter takes out the last element of a set, wherever that leaves a result of T.
TakesLast(n, T, base, G, iter) ==
  /\ iter[{}] = base
  /\ \A s \in SUBSET (1 .. n) : s # {} /\ iter[s \ {Max(s)}] \in T =>
       iter[s] = G[Max(s)][iter[s \ {Max(s)}]]

\* The results of folding 1 .. k, for each k, when run is them.
Runs(n, T, base, G, run) ==
  /\ run \in [0 .. n -> T]
  /\ run[0] = base
  /\ \A k \in 1 .. n : run[k] = G[k][run[k - 1]]

\* Whatever function takes out the last elements has these results.
LEMMA LeftFoldRuns ==
  ASSUME NEW n \in Nat, NEW T, NEW base, base \in T, NEW G, Keeps(1 .. n, T, G),
         NEW iter, TakesLast(n, T, base, G, iter)
  PROVE  \E run : Runs(n, T, base, G, run) /\ run[n] = iter[1 .. n]
<1> DEFINE run == [k \in 0 .. n |-> iter[1 .. k]]
           Done == {k \in 0 .. n : run[k] \in T}
<1>1. run[0] = base
  <2>1. 1 .. 0 = {}
    OBVIOUS
  <2> QED BY <2>1 DEF TakesLast
<1>2. ASSUME NEW k \in 1 .. n, run[k - 1] \in T PROVE run[k] = G[k][run[k - 1]]
  <2>1. k \in Nat \ {0} /\ 1 .. k \in SUBSET (1 .. n) /\ k - 1 \in 0 .. n
    OBVIOUS
  <2>2. Max(1 .. k) = k /\ (1 .. k) \ {k} = 1 .. k - 1 /\ 1 .. k # {}
    BY <2>1, GreatestElement
  <2>3. run[k] = iter[1 .. k] /\ run[k - 1] = iter[1 .. k - 1]
    BY <2>1
  <2>4. \A s \in SUBSET (1 .. n) : s # {} /\ iter[s \ {Max(s)}] \in T =>
          iter[s] = G[Max(s)][iter[s \ {Max(s)}]]
    BY DEF TakesLast
  <2>5. iter[(1 .. k) \ {Max(1 .. k)}] = run[k - 1]
    BY <2>2, <2>3
  <2>6. iter[1 .. k] = G[Max(1 .. k)][iter[(1 .. k) \ {Max(1 .. k)}]]
    <3> HIDE DEF run
    <3> QED BY <1>2, <2>1, <2>2, <2>4, <2>5
  <2> HIDE DEF run
  <2> QED BY <2>2, <2>3, <2>5, <2>6
<1>3. 0 .. n \subseteq Done
  <2>1. 0 \in Done
    BY <1>1
  <2>2. ASSUME NEW k \in 0 .. n - 1, k \in Done PROVE k + 1 \in Done
    <3>1. k + 1 \in 1 .. n /\ k + 1 \in 0 .. n /\ (k + 1) - 1 = k
      OBVIOUS
    <3>2. run[k] \in T
      BY <2>2
    <3> HIDE DEF run
    <3>3. run[k + 1] = G[k + 1][run[k]]
      BY <1>2, <3>1, <3>2
    <3>4. G[k + 1][run[k]] \in T
      BY <3>1, <3>2 DEF Keeps
    <3> QED BY <3>1, <3>3, <3>4
  <2>3. \A k \in 0 .. n - 1 : k \in Done => k + 1 \in Done
    BY <2>2
  <2> HIDE DEF Done
  <2> QED BY <2>1, <2>3, BoundedInduction
<1>4. run \in [0 .. n -> T]
  BY <1>3
<1>5. \A k \in 1 .. n : run[k] = G[k][run[k - 1]]
  <2> TAKE k \in 1 .. n
  <2>1. k - 1 \in 0 .. n
    OBVIOUS
  <2>2. run[k - 1] \in T
    BY <1>4, <2>1
  <2> HIDE DEF run
  <2> QED BY <1>2, <2>2
<1>6. run[n] = iter[1 .. n]
  OBVIOUS
<1> HIDE DEF run
<1> QED BY <1>1, <1>4, <1>5, <1>6 DEF Runs

\* There are results of G taken n times.
LEMMA RunsExist ==
  ASSUME NEW n \in Nat, NEW T, NEW base, base \in T, NEW G, Keeps(1 .. n, T, G)
  PROVE  \E run : Runs(n, T, base, G, run)
<1>1. PICK iter : Folds(1 .. n, LastOf(n), base, T, G, iter)
  BY LeftFoldsExist
<1>2. TakesLast(n, T, base, G, iter)
  BY <1>1 DEF Folds, TakesLast, LastOf
<1> QED BY <1>2, LeftFoldRuns

-----------------------------------------------------------------------------
(***************************************************************************)
(* Sums over a finite set.                                                 *)
(***************************************************************************)

Taken(s) == CHOOSE x \in s : TRUE

\* The sums of all subsets of S, when sum is them.
SumStep(f, S, sum) ==
  [s \in SUBSET S |-> IF s = {} THEN 0 ELSE f[Taken(s)] + sum[s \ {Taken(s)}]]

\* The sum of the values of a function.
SumOver(f, S) == MapThenSumSet(LAMBDA x : f[x], S)

\* A sum of integers is that of all subsets.
LEMMA SumDefined ==
  ASSUME NEW S, IsFiniteSet(S), NEW f, \A x \in S : f[x] \in Int
  PROVE  \E sum : sum = SumStep(f, S, sum) /\ SumOver(f, S) = sum[S]
<1> DEFINE ch == [s \in SUBSET S |-> Taken(s)]
           G == [x \in S |-> [t \in Int |-> f[x] + t]]
<1>1. \A s \in SUBSET S : s # {} => ch[s] \in s /\ ch[s] = Taken(s)
  BY DEF Taken
<1>2. \A x \in S, t \in Int : G[x][t] = f[x] + t /\ G[x][t] \in Int
  OBVIOUS
<1> HIDE DEF ch, G
<1>3. Chooses(S, ch) /\ Keeps(S, Int, G)
  BY <1>1, <1>2 DEF Chooses, Keeps
<1>4. PICK sum : Folds(S, ch, 0, Int, G, sum)
  <2>1. 0 \in Int
    OBVIOUS
  <2> QED BY <1>3, <2>1, FoldsExist
<1>5. sum = SumStep(f, S, sum)
  <2>1. \A s \in SUBSET S : s # {} =>
          G[ch[s]][sum[s \ {ch[s]}]] = f[Taken(s)] + sum[s \ {Taken(s)}]
    BY <1>1, <1>2, <1>4 DEF Folds
  <2> QED BY <1>4, <2>1 DEF Folds, SumStep
<1>6. \E any : any = SumStep(f, S, any)
  BY <1>5
<1> QED BY <1>6 DEF SumOver, MapThenSumSet, MapThenFoldSet, SumStep, Taken

\* A sum of integers in which one changes is changed by as much.
LEMMA SumChanges ==
  ASSUME NEW S, IsFiniteSet(S), NEW f, NEW g, NEW a \in S,
         \A x \in S : f[x] \in Int /\ g[x] \in Int /\ (x # a => g[x] = f[x])
  PROVE  SumOver(f, S) \in Int /\ SumOver(g, S) = SumOver(f, S) + g[a] - f[a]
<1>1. PICK sumF : sumF = SumStep(f, S, sumF) /\ SumOver(f, S) = sumF[S]
  BY SumDefined
<1>2. PICK sumG : sumG = SumStep(g, S, sumG) /\ SumOver(g, S) = sumG[S]
  BY SumDefined
<1> DEFINE Differ(s) == /\ sumF[s] \in Int
                        /\ sumG[s] = sumF[s] + (IF a \in s THEN g[a] - f[a] ELSE 0)
           T == {s \in SUBSET S : Differ(s)}
<1>3. {} \in T
  <2>1. sumF[{}] = 0 /\ sumG[{}] = 0
    BY <1>1, <1>2 DEF SumStep
  <2> QED BY <2>1
<1>4. ASSUME NEW s \in SUBSET S, \A x \in s : s \ {x} \in T, s # {} PROVE s \in T
  <2> DEFINE x == Taken(s)
             rest == s \ {x}
  <2>1. x \in s /\ x \in S
    BY <1>4 DEF Taken
  <2>2. sumF[s] = f[x] + sumF[rest] /\ sumG[s] = g[x] + sumG[rest]
    BY <1>1, <1>2, <1>4 DEF SumStep
  <2>3. sumF[rest] \in Int /\ sumG[rest] = sumF[rest] + (IF a \in rest THEN g[a] - f[a] ELSE 0)
    BY <1>4, <2>1
  <2> HIDE DEF x
  <2>4. f[x] \in Int /\ g[x] \in Int /\ f[a] \in Int /\ g[a] \in Int /\ (x # a => g[x] = f[x])
    BY <2>1
  <2>5. CASE x = a
    BY <2>1, <2>2, <2>3, <2>4, <2>5
  <2>6. CASE x # a
    <3>1. a \in rest <=> a \in s
      BY <2>6
    <3> QED BY <2>2, <2>3, <2>4, <2>6, <3>1
  <2> QED BY <2>5, <2>6
<1>5. S \in T
  <2> HIDE DEF T
  <2>1. \A s \in SUBSET S : (\A x \in s : s \ {x} \in T) => s \in T
    BY <1>3, <1>4
  <2>2. SUBSET S \subseteq T
    BY <2>1, FiniteInduction
  <2> QED BY <2>2
<1> QED BY <1>1, <1>2, <1>5

\* A sum of zeros.
LEMMA SumOfZeros ==
  ASSUME NEW S, IsFiniteSet(S), NEW f, \A x \in S : f[x] = 0
  PROVE  SumOver(f, S) = 0
<1>1. PICK sum : sum = SumStep(f, S, sum) /\ SumOver(f, S) = sum[S]
  BY SumDefined
<1> DEFINE T == {s \in SUBSET S : sum[s] = 0}
<1>2. {} \in T
  BY <1>1 DEF SumStep
<1>3. ASSUME NEW s \in SUBSET S, \A x \in s : s \ {x} \in T, s # {} PROVE s \in T
  <2>0. Taken(s) \in s
    BY <1>3 DEF Taken
  <2>1. sum[s] = f[Taken(s)] + sum[s \ {Taken(s)}]
    BY <1>1, <1>3 DEF SumStep
  <2>2. f[Taken(s)] = 0
    BY <2>0
  <2> QED BY <1>3, <2>0, <2>1, <2>2
<1>4. S \in T
  <2> HIDE DEF T
  <2>1. \A s \in SUBSET S : (\A x \in s : s \ {x} \in T) => s \in T
    BY <1>2, <1>3
  <2>2. SUBSET S \subseteq T
    BY <2>1, FiniteInduction
  <2> QED BY <2>2
<1> QED BY <1>1, <1>4
\* The sum of the values below k.
SumBelow(f, S, k) == SumOver([x \in S |-> IF x < k THEN f[x] ELSE 0], S)

\* A sum over numbers grows from zero by a value at a time.
LEMMA SumsBelow ==
  ASSUME NEW S \in SUBSET Nat, IsFiniteSet(S), NEW f, f = [x \in S |-> f[x]],
         \A x \in S : f[x] \in Int
  PROVE  /\ SumBelow(f, S, 0) = 0
         /\ \A k \in Nat :
              /\ SumBelow(f, S, k) \in Int
              /\ SumBelow(f, S, k + 1) = SumBelow(f, S, k) + (IF k \in S THEN f[k] ELSE 0)
         /\ \A k \in Nat : S \subseteq 0 .. k - 1 => SumOver(f, S) = SumBelow(f, S, k)
<1> DEFINE g(k) == [x \in S |-> IF x < k THEN f[x] ELSE 0]
<1>1. \A k \in Nat, x \in S : g(k)[x] = (IF x < k THEN f[x] ELSE 0) /\ g(k)[x] \in Int
  OBVIOUS
<1>2. SumBelow(f, S, 0) = 0
  <2>1. \A x \in S : g(0)[x] = 0
    OBVIOUS
  <2>2. SumOver(g(0), S) = 0
    <3> HIDE DEF g
    <3> QED BY <2>1, SumOfZeros
  <2> QED BY <2>2 DEF SumBelow
<1>3. ASSUME NEW k \in Nat
      PROVE  /\ SumBelow(f, S, k) \in Int
             /\ SumBelow(f, S, k + 1) = SumBelow(f, S, k) + (IF k \in S THEN f[k] ELSE 0)
  <2> DEFINE less == g(k)
             more == g(k + 1)
  <2>1. /\ less = [x \in S |-> IF x < k THEN f[x] ELSE 0]
        /\ more = [x \in S |-> IF x < k + 1 THEN f[x] ELSE 0]
    OBVIOUS
  <2>2. \A x \in S : /\ less[x] \in Int /\ more[x] \in Int
                     /\ x # k => more[x] = less[x]
                     /\ x = k => less[x] = 0 /\ more[x] = f[x]
    OBVIOUS
  <2>3. SumBelow(f, S, k) = SumOver(less, S) /\ SumBelow(f, S, k + 1) = SumOver(more, S)
    BY DEF SumBelow
  <2>4. CASE k \in S
    <3> HIDE DEF less, more, g
    <3>1. SumOver(less, S) \in Int /\ SumOver(more, S) = SumOver(less, S) + more[k] - less[k]
      <4>1. \A x \in S : less[x] \in Int /\ more[x] \in Int /\ (x # k => more[x] = less[x])
        BY <2>2
      <4>2. \A y \in S : y = k => SumOver(less, S) \in Int
                         /\ SumOver(more, S) = SumOver(less, S) + more[y] - less[y]
        BY <4>1, SumChanges
      <4> QED BY <2>4, <4>2
    <3>2. less[k] = 0 /\ more[k] = f[k] /\ f[k] \in Int
      BY <2>2, <2>4
    <3> QED BY <2>3, <2>4, <3>1, <3>2
  <2>5. CASE k \notin S
    <3>1. \A x \in S : (x < k) = (x < k + 1)
      BY <2>5
    <3>2. less = more
      BY <3>1
    <3>3. SumOver(less, S) \in Int
      <4> HIDE DEF less
      <4>1. CASE S = {}
        <5>1. SumOver(less, S) = 0
          BY <4>1, SumOfZeros
        <5> QED BY <5>1
      <4>2. CASE S # {}
        <5>1. PICK y \in S : TRUE
          BY <4>2
        <5> QED BY <2>2, <5>1, SumChanges
      <4> QED BY <4>1, <4>2
    <3> HIDE DEF less, more
    <3> QED BY <2>3, <2>5, <3>2, <3>3
  <2> QED BY <2>4, <2>5
<1>4. ASSUME NEW k \in Nat, S \subseteq 0 .. k - 1 PROVE SumOver(f, S) = SumBelow(f, S, k)
  <2>1. \A x \in S : x < k
    BY <1>4
  <2>2. g(k) = f
    BY <2>1
  <2> QED BY <2>2 DEF SumBelow
<1> QED BY <1>2, <1>3, <1>4

-----------------------------------------------------------------------------
(***************************************************************************)
(* Powers of two, and a number shifted left in a register of some bits.    *)
(***************************************************************************)

\* The sequence p doubles from 1 up to its member N.
Doubles(p, N) ==
  /\ p[0] = 1
  /\ \A k \in 0 .. N : p[k] \in Nat
  /\ \A k \in 0 .. N - 1 : p[k + 1] = 2 * p[k]

\* A sequence that doubles from 1 outgrows its index, and its later members are
\* multiples of its earlier ones.
LEMMA Doubling ==
  ASSUME NEW N \in Nat, NEW p, Doubles(p, N)
  PROVE  /\ \A k \in 0 .. N : k < p[k]
         /\ \A k \in 0 .. N : \A d \in 0 .. N - k :
              \E m \in Nat \ {0} : p[k + d] = p[k] * m
<1>0. /\ p[0] = 1 /\ \A k \in 0 .. N : p[k] \in Nat
      /\ \A k \in 0 .. N - 1 : p[k + 1] = 2 * p[k]
  BY DEF Doubles
<1>1. \A k \in 0 .. N : k < p[k]
  <2> DEFINE S == {k \in 0 .. N : k < p[k]}
  <2>1. 0 \in S
    BY <1>0
  <2>2. \A k \in 0 .. N - 1 : k \in S => k + 1 \in S
    <3> TAKE k \in 0 .. N - 1
    <3>1. p[k + 1] = 2 * p[k] /\ p[k] \in Nat /\ k + 1 \in 0 .. N
      BY <1>0
    <3> QED BY <3>1
  <2> HIDE DEF S
  <2>3. 0 .. N \subseteq S
    BY <2>1, <2>2, BoundedInduction
  <2> QED BY <2>3 DEF S
<1>2. ASSUME NEW k \in 0 .. N
      PROVE  \A d \in 0 .. N - k : \E m \in Nat \ {0} : p[k + d] = p[k] * m
  <2> DEFINE S == {d \in 0 .. N - k : \E m \in Nat \ {0} : p[k + d] = p[k] * m}
  <2>1. 0 \in S
    <3>1. p[k + 0] = p[k] * 1 /\ 0 \in 0 .. N - k
      BY <1>0
    <3> QED BY <3>1
  <2>2. \A d \in 0 .. N - k - 1 : d \in S => d + 1 \in S
    <3> SUFFICES ASSUME NEW d \in 0 .. N - k - 1, d \in S PROVE d + 1 \in S
      OBVIOUS
    <3>1. PICK m \in Nat \ {0} : p[k + d] = p[k] * m
      OBVIOUS
    <3>2. /\ k + d \in 0 .. N - 1 /\ (k + d) + 1 = k + (d + 1)
          /\ d + 1 \in 0 .. N - k /\ p[k] \in Nat /\ 2 * m \in Nat \ {0}
      BY <1>0
    <3>3. p[k + (d + 1)] = 2 * p[k + d]
      BY <1>0, <3>2
    <3>4. 2 * (p[k] * m) = p[k] * (2 * m)
      BY <3>2
    <3>5. p[k + (d + 1)] = p[k] * (2 * m)
      BY <3>1, <3>3, <3>4
    <3> QED BY <3>2, <3>5
  <2>3. N - k \in Nat
    OBVIOUS
  <2> HIDE DEF S
  <2>4. 0 .. N - k \subseteq S
    BY <2>1, <2>2, <2>3, BoundedInduction
  <2> QED BY <2>4 DEF S
<1> QED BY <1>1, <1>2

\* Moving every member of a set of numbers up by one does not change their number.
LEMMA MovedUp ==
  ASSUME NEW S \in SUBSET Nat, IsFiniteSet(S)
  PROVE  LET up == {k + 1 : k \in S}
         IN  IsFiniteSet(up) /\ Cardinality(up) = Cardinality(S) /\ 0 \notin up
<1> DEFINE up == {k + 1 : k \in S}
           f == [k \in S |-> k + 1]
<1>1. f \in Bijection(S, up)
  <2>1. f \in [S -> up] /\ \A k, l \in S : f[k] = f[l] => k = l
    OBVIOUS
  <2>2. \A x \in up : \E k \in S : f[k] = x
    OBVIOUS
  <2> HIDE DEF f, up
  <2> QED BY <2>1, <2>2 DEF Bijection, Injection, Surjection, IsInjective
<1>2. IsFiniteSet(up) /\ Cardinality(up) = Cardinality(S)
  <2> HIDE DEF f, up
  <2> QED BY <1>1, FS_Bijection DEF ExistsBijection
<1>3. 0 \notin up
  OBVIOUS
<1> QED BY <1>2, <1>3

\* What a shift to the left brings into bit 0 of a register of an even number of
\* values.
LEMMA BitEntered ==
  ASSUME NEW m \in Nat \ {0}, NEW g \in Nat, NEW t \in {0, 1}
  PROVE  ((2 * g + t) % (2 * m)) % 2 = t
<1> DEFINE x == 2 * g + t
           z == x \div (2 * m)
           y == x % (2 * m)
<1>1. z \in Int /\ y \in Int /\ x = (2 * m) * z + y
  OBVIOUS
<1> HIDE DEF y, z
<1>2. (2 * m) * z = 2 * (m * z) /\ m * z \in Int
  <2>1. \A u, v \in Int : (2 * u) * v = 2 * (u * v) /\ u * v \in Int
    OBVIOUS
  <2> QED BY <1>1, <2>1
<1> DEFINE w == m * z
<1>3. y = 2 * (g - w) + t /\ g - w \in Int /\ t \in 0 .. 2 - 1
  BY <1>1, <1>2
<1> HIDE DEF w
<1>4. (2 * (g - w) + t) % 2 = t
  BY <1>3, DivisionUnique
<1>5. y % 2 = t
  BY <1>3, <1>4
<1> QED BY <1>5 DEF y

\* The other bits move up by one: what was the bit of value p is that of value 2 * p.
LEMMA BitShifted ==
  ASSUME NEW p \in Nat \ {0}, NEW m \in Nat \ {0}, NEW g \in Nat, NEW t \in {0, 1}
  PROVE  (((2 * g + t) % (2 * (2 * p) * m)) \div (2 * p)) % 2 = (g \div p) % 2
<1> DEFINE T == 2 * (2 * p) * m
           x == 2 * g + t
           z == x \div T
           y == x % T
           a == g \div p
           r == g % p
           c == a \div 2
           e == a % 2
           w == m * z
<1>0. T \in Nat \ {0} /\ x \in Nat
  OBVIOUS
<1>1. z \in Int /\ y \in Int /\ x = T * z + y
  BY <1>0
<1>2. a \in Int /\ r \in 0 .. p - 1 /\ g = p * a + r
  OBVIOUS
<1>3. c \in Int /\ e \in 0 .. 2 - 1 /\ a = 2 * c + e
  BY <1>2
<1>4. w \in Int /\ T * z = (2 * p) * (2 * w)
  <2> HIDE DEF z
  <2>1. \A u, v, o \in Int : (2 * (2 * u) * v) * o = (2 * u) * (2 * (v * o)) /\ v * o \in Int
    OBVIOUS
  <2> QED BY <1>1, <2>1
<1>5. x = (2 * p) * a + (2 * r + t)
  <2> HIDE DEF a, r
  <2>1. \A u, v \in Int : 2 * (u * v) = (2 * u) * v /\ u * v \in Int
    OBVIOUS
  <2>2. 2 * (p * a) = (2 * p) * a /\ p * a \in Int /\ 2 * (p * a + r) = 2 * (p * a) + 2 * r
    BY <1>2, <2>1
  <2> QED BY <1>2, <2>2
<1>6. 2 * r + t \in 0 .. 2 * p - 1 /\ 2 * p \in Nat \ {0}
  BY <1>2
<1> HIDE DEF a, r, c, e, w, y, z, T, x
<1>7. a - 2 * w \in Int /\ c - w \in Int /\ a - 2 * w = 2 * (c - w) + e
  BY <1>2, <1>3, <1>4
<1>8. y = (2 * p) * (a - 2 * w) + (2 * r + t)
  <2>1. (2 * p) * (a - 2 * w) = (2 * p) * a - (2 * p) * (2 * w)
    BY <1>2, <1>4
  <2>2. (2 * p) * a \in Int /\ (2 * p) * (2 * w) \in Int /\ 2 * r + t \in Int
    BY <1>2, <1>4, <1>6
  <2> QED BY <1>1, <1>4, <1>5, <2>1, <2>2
<1>9. y \div (2 * p) = a - 2 * w
  BY <1>6, <1>7, <1>8, DivisionUnique
<1>10. (a - 2 * w) % 2 = e
  BY <1>3, <1>7, DivisionUnique
<1>11. (y \div (2 * p)) % 2 = e
  BY <1>9, <1>10
<1> QED BY <1>11 DEF y, x, T, e, a
=============================================================================
