-------------------------- MODULE BranchUnitProofs --------------------------
(***************************************************************************)
(* The predictors driven by any program of branches: typing, the cost of a *)
(* change of behaviour, and what the choice of index does to the bimodal   *)
(* predictor.                                                              *)
(***************************************************************************)
EXTENDS BranchUnit, PartsProofs

\* Every branch continues at some address and selects entries of the tables.
LEMMA ExecuteSelects ==
  ASSUME TypeOK, NEW b \in Branches, NEW taken \in Outcomes(b)
  PROVE  /\ taken \in {0, 1}
         /\ Continuation(b, taken) \in Int
         /\ BimodalIndex(Continuation(b, taken)) \in Index
         /\ b.imm \in Int
<1>1. taken \in {0, 1} /\ (taken = 1 => b.known)
  BY DEF Outcomes
<1>2. b.pc \in Int /\ b.imm \in Int /\ AddressMod \in Nat \ {0}
  BY BranchAssumption
<1>3. b.pc + (IF taken = 1 THEN b.imm ELSE IF b.known THEN 4 ELSE 0) \in Int
  BY <1>1, <1>2
<1>4. Continuation(b, taken) \in Int
  BY <1>2, <1>3 DEF Continuation
<1> QED
  BY <1>1, <1>2, <1>4, EntriesSelected DEF TypeOK, PredictorTypeOK, Stat

\* The initial state is well typed.
LEMMA InitTypeOK == Init => TypeOK
  BY InitialPredictors DEF Init, TypeOK

\* So is every state a branch leads to.
LEMMA NextTypeOK == TypeOK /\ [Next]_vars => TypeOK'
<1> SUFFICES ASSUME TypeOK, [Next]_vars PROVE TypeOK'
  OBVIOUS
<1>1. ASSUME NEW b \in Branches, NEW taken \in Outcomes(b), Execute(b, taken)
      PROVE  TypeOK'
  <2> DEFINE i == BimodalIndex(Continuation(b, taken))
  <2>1. taken \in {0, 1} /\ i \in Index
    BY ExecuteSelects
  <2>2. PredictorTypeOK'
    BY <1>1, ExecuteSelects, BranchTypeOK DEF Execute, TypeOK
  <2>3. last' \in [Index -> {-1, 0, 1}] /\ runs' \in [Index -> Nat]
    BY <1>1, <2>1 DEF Execute, Record, TypeOK
  <2>4. wrong' \in [Index -> Nat]
    BY <1>1, <2>1 DEF Execute, Record, TypeOK, Wrong
  <2> QED
    BY <2>2, <2>3, <2>4 DEF TypeOK
<1>2. CASE UNCHANGED vars
  BY <1>2 DEF vars, TypeOK, PredictorTypeOK, Stat
<1> QED
  BY <1>1, <1>2 DEF Next

\* Every reachable state is well typed: counters in their scale, ghr in range.
THEOREM TypeCorrect == Spec => []TypeOK
  BY InitTypeOK, NextTypeOK, PTL DEF Spec

-----------------------------------------------------------------------------
\* What remains of a run can still cost: a counter on the wrong side of the
\* threshold is that many mispredictions away from it.
Paid(l, c, r, w) ==
  /\ l = -1 => c = 2 /\ r = 0 /\ w = 0
  /\ l # -1 => r >= 1 /\ w <= 3 * r - 2
  /\ l = 1  => w + (3 - c) <= 3 * r - 2
  /\ l = 0  => w + (c - 2) <= 3 * r - 2

EntryPaid(i) == Paid(last[i], bimodal[i], runs[i], wrong[i])

\* One step of training keeps the account of its entry.
LEMMA PaidStep ==
  ASSUME NEW l \in {-1, 0, 1}, NEW c \in Counter, NEW r \in Nat, NEW w \in Nat,
         NEW taken \in {0, 1}, Paid(l, c, r, w)
  PROVE  Paid(taken, Trained(c, taken), IF l = taken THEN r ELSE r + 1,
              w + Wrong(Predicted(c), taken))
<1> DEFINE r2 == IF l = taken THEN r ELSE r + 1
<1>1. c \in 0 .. 5
  BY DEF Counter
<1>2. CASE c >= 3 /\ taken = 1
  <2>1. Wrong(Predicted(c), taken) = 0 /\ Trained(c, taken) \in c .. c + 1
    BY <1>1, <1>2 DEF Wrong, Predicted, Trained
  <2> QED
    BY <1>1, <1>2, <2>1 DEF Paid
<1>3. CASE c < 3 /\ taken = 1
  <2>1. Wrong(Predicted(c), taken) = 1 /\ Trained(c, taken) = c + 1
    BY <1>1, <1>3 DEF Wrong, Predicted, Trained
  <2> QED
    BY <1>1, <1>3, <2>1 DEF Paid
<1>4. CASE c < 3 /\ taken = 0
  <2>1. Wrong(Predicted(c), taken) = 0 /\ Trained(c, taken) \in c - 1 .. c
    BY <1>1, <1>4 DEF Wrong, Predicted, Trained
  <2> QED
    BY <1>1, <1>4, <2>1 DEF Paid
<1>5. CASE c >= 3 /\ taken = 0
  <2>1. Wrong(Predicted(c), taken) = 1 /\ Trained(c, taken) = c - 1
    BY <1>1, <1>5 DEF Wrong, Predicted, Trained
  <2> QED
    BY <1>1, <1>5, <2>1 DEF Paid
<1> QED
  BY <1>1, <1>2, <1>3, <1>4, <1>5

\* The entries that a branch does not select keep theirs.
LEMMA EntriesStep ==
  TypeOK /\ (\A i \in Index : EntryPaid(i)) /\ [Next]_vars
    => (\A i \in Index : EntryPaid(i))'
<1> SUFFICES ASSUME TypeOK, \A i \in Index : EntryPaid(i), [Next]_vars,
                    NEW i \in Index
             PROVE  EntryPaid(i)'
  BY DEF Index
<1>1. ASSUME NEW b \in Branches, NEW taken \in Outcomes(b), Execute(b, taken)
      PROVE  EntryPaid(i)'
  <2> DEFINE k == BimodalIndex(Continuation(b, taken))
  <2>1. taken \in {0, 1} /\ k \in Index
    BY ExecuteSelects
  <2>2. /\ bimodal' = [bimodal EXCEPT ![k] = Trained(@, taken)]
        /\ Record(k, taken)
    BY <1>1 DEF Execute, Branch
  <2> HIDE DEF k
  <2>3. CASE i = k
    <3>1. /\ last'[i] = taken
          /\ bimodal'[i] = Trained(bimodal[i], taken)
          /\ runs'[i] = IF last[i] = taken THEN runs[i] ELSE runs[i] + 1
          /\ wrong'[i] = wrong[i] + Wrong(Predicted(bimodal[i]), taken)
      BY <2>1, <2>2, <2>3 DEF Record, TypeOK, PredictorTypeOK, Stat
    <3>2. Paid(taken, Trained(bimodal[i], taken),
               IF last[i] = taken THEN runs[i] ELSE runs[i] + 1,
               wrong[i] + Wrong(Predicted(bimodal[i]), taken))
      BY <2>1, PaidStep DEF EntryPaid, TypeOK, PredictorTypeOK, Stat
    <3> QED
      BY <3>1, <3>2 DEF EntryPaid
  <2>4. CASE i # k
    <3>1. /\ last'[i] = last[i] /\ bimodal'[i] = bimodal[i]
          /\ runs'[i] = runs[i] /\ wrong'[i] = wrong[i]
      BY <2>1, <2>2, <2>4 DEF Record, TypeOK, PredictorTypeOK, Stat
    <3> QED
      BY <3>1 DEF EntryPaid
  <2> QED
    BY <2>3, <2>4
<1>2. CASE UNCHANGED vars
  BY <1>2 DEF vars, EntryPaid
<1> QED
  BY <1>1, <1>2 DEF Next

\* A change of behaviour at an entry costs at most three mispredictions, the
\* first run at most one, for every program and every size of the tables.
THEOREM Hysteresis == Spec => []EntryMispredictions
<1>1. Init => \A i \in Index : EntryPaid(i)
  BY DEF Init, PredictorInit, EntryPaid, Paid
<1>2. TypeOK /\ (\A i \in Index : EntryPaid(i)) => EntryMispredictions
  <2> SUFFICES ASSUME TypeOK, \A i \in Index : EntryPaid(i), NEW i \in Index
               PROVE  wrong[i] <= IF runs[i] = 0 THEN 0 ELSE 3 * runs[i] - 2
    BY DEF EntryMispredictions
  <2>1. /\ bimodal[i] \in 0 .. 5 /\ runs[i] \in Nat /\ wrong[i] \in Nat
        /\ last[i] \in {-1, 0, 1}
    BY DEF TypeOK, PredictorTypeOK, Stat, Counter
  <2> QED
    BY <2>1 DEF EntryPaid, Paid
<1> QED
  BY <1>1, <1>2, EntriesStep, TypeCorrect, PTL DEF Spec

-----------------------------------------------------------------------------
\* The statistics account for the tables after any program of branches.
THEOREM StatsAccount == Spec => []StatsAccountForTables
<1>1. Init => StatsAccountForTables
  BY InitialPredictors DEF Init
<1>2. TypeOK /\ StatsAccountForTables /\ [Next]_vars => StatsAccountForTables'
  <2> SUFFICES ASSUME TypeOK, StatsAccountForTables, [Next]_vars
               PROVE  StatsAccountForTables'
    OBVIOUS
  <2>1. ASSUME NEW b \in Branches, NEW taken \in Outcomes(b), Execute(b, taken)
        PROVE  StatsAccountForTables'
    BY <2>1, ExecuteSelects, BranchStatsAccount DEF Execute, TypeOK
  <2>2. CASE UNCHANGED vars
    BY <2>2 DEF vars, StatsAccountForTables, PredictTaken
  <2> QED
    BY <2>1, <2>2 DEF Next
<1> QED
  BY <1>1, <1>2, TypeCorrect, PTL DEF Spec

-----------------------------------------------------------------------------
\* The entries are finitely many, and the total is a sum over a function.
LEMMA TotalIsSum ==
  /\ IsFiniteSet(Index)
  /\ TotalMispredictions <=> stat.wrong_bimodal = SumOver(wrong, Index)
<1>1. IsFiniteSet(Index)
  BY FS_Interval, PredictorAssumption DEF Index
<1>2. TotalMispredictions <=> stat.wrong_bimodal = SumOver(wrong, Index)
  BY DEF TotalMispredictions, SumOver, MapThenSumSet, MapThenFoldSet
<1> QED BY <1>1, <1>2

\* The statistic and the entry that predicted are charged the same.
LEMMA TotalStep == TypeOK /\ TotalMispredictions /\ [Next]_vars => TotalMispredictions'
<1> SUFFICES ASSUME TypeOK, TotalMispredictions, [Next]_vars
             PROVE  stat'.wrong_bimodal = SumOver(wrong', Index)
  BY DEF TotalMispredictions, SumOver, MapThenSumSet, MapThenFoldSet
<1>1. ASSUME NEW b \in Branches, NEW taken \in Outcomes(b), Execute(b, taken)
      PROVE  stat'.wrong_bimodal = SumOver(wrong', Index)
  <2> DEFINE k == BimodalIndex(Continuation(b, taken))
             m == Wrong(Predicted(bimodal[k]), taken)
  <2>1. k \in Index
    BY ExecuteSelects
  <2>2. m \in Int
    BY DEF Wrong
  <2>3. stat'.wrong_bimodal = stat.wrong_bimodal + m
    BY <1>1 DEF Execute, Branch, Mispredicted
  <2>4. wrong' = [wrong EXCEPT ![k] = @ + m]
    BY <1>1 DEF Execute, Record
  <2> HIDE DEF k, m
  <2>5. \A i \in Index : wrong[i] \in Int /\ wrong'[i] \in Int /\ (i # k => wrong'[i] = wrong[i])
    BY <2>1, <2>2, <2>4 DEF TypeOK
  <2>6. wrong'[k] = wrong[k] + m
    BY <2>1, <2>4 DEF TypeOK
  <2>7. SumOver(wrong, Index) \in Int
        /\ SumOver(wrong', Index) = SumOver(wrong, Index) + wrong'[k] - wrong[k]
    BY <2>1, <2>5, SumChanges, TotalIsSum
  <2> QED BY <2>1, <2>2, <2>3, <2>5, <2>6, <2>7, TotalIsSum
<1>2. CASE UNCHANGED vars
  BY <1>2, TotalIsSum DEF vars
<1> QED BY <1>1, <1>2 DEF Next

\* The mispredictions that simulate reports for bimodal are those of the entries,
\* none counted twice and none at an entry that did not predict.
THEOREM TotalsAgree == Spec => []TotalMispredictions
<1>1. Init => TotalMispredictions
  <2> SUFFICES ASSUME Init PROVE TotalMispredictions
    OBVIOUS
  <2>1. stat.wrong_bimodal = 0 /\ \A i \in Index : wrong[i] = 0
    BY DEF Init, PredictorInit
  <2>2. SumOver(wrong, Index) = 0
    BY <2>1, SumOfZeros, TotalIsSum
  <2> QED BY <2>1, <2>2, TotalIsSum
<1> QED BY <1>1, TotalStep, TypeCorrect, PTL DEF Spec

-----------------------------------------------------------------------------
(***************************************************************************)
(* The history: bit k of ghr is the outcome of the branch before the last  *)
(* k.  Powers are taken from a function, which the provers can read.       *)
(***************************************************************************)
Power == [k \in 0 .. TableSize + MaxBranches + 1 |-> 2^k]

\* The places of the history, and those of a value of it that hold a taken branch.
Places == {k \in Index : Power[k] < TableSize}

BitsOf(g) == {k \in Places : (g \div Power[k]) % 2 = 1}

\* The bits that the properties speak of, in these terms.
LEMMA PowersRead ==
  /\ TakenBits = BitsOf(ghr) /\ TakenBits' = BitsOf(ghr')
  /\ \A n \in 0 .. MaxBranches : 2^n = Power[n]
<1>1. \A k \in 0 .. TableSize + MaxBranches + 1 : 2^k = Power[k]
  BY DEF Power
<1>2. TableSize \in Nat \ {0} /\ MaxBranches \in Nat
  BY PredictorAssumption, BranchAssumption
<1>3. \A g : BitsOf(g) = {k \in 0 .. TableSize - 1 : 2^k < TableSize /\ (g \div 2^k) % 2 = 1}
  BY <1>1, <1>2 DEF BitsOf, Places, Index
<1>4. TakenBits = BitsOf(ghr) /\ TakenBits' = BitsOf(ghr')
  BY <1>3 DEF TakenBits
<1> QED BY <1>1, <1>2, <1>4

\* They double from 1, and the number of values of ghr is a multiple of each that is
\* less, and of its double.
LEMMA PowersDouble ==
  /\ Power[0] = 1
  /\ \A k \in 0 .. TableSize + MaxBranches :
       /\ Power[k] \in Nat /\ k < Power[k]
       /\ k + 1 \in 0 .. TableSize + MaxBranches + 1 /\ Power[k + 1] = 2 * Power[k]
  /\ \A k \in Places : \E m \in Nat \ {0} : TableSize = 2 * Power[k] * m
<1> DEFINE N == TableSize + MaxBranches + 1
           p == Power
<1>0. TableSize \in Nat \ {0} /\ MaxBranches \in Nat /\ N \in Nat /\ N - 1 = TableSize + MaxBranches
  BY PredictorAssumption, BranchAssumption
<1>1. \A k \in 0 .. N : p[k] = 2^k
  BY DEF Power
<1>2. p[0] = 1
  <2>1. 0 \in 0 .. N /\ 2^0 = 1
    BY <1>0, HistoryRegister
  <2> QED BY <1>1, <2>1
<1>3. \A k \in 0 .. N - 1 : p[k] \in Nat /\ p[k + 1] = 2 * p[k]
  <2> TAKE k \in 0 .. N - 1
  <2>1. k \in 0 .. TableSize + MaxBranches /\ k \in 0 .. N /\ k + 1 \in 0 .. N
    BY <1>0
  <2>2. 2^k \in Nat /\ 2^(k + 1) = 2 * 2^k
    BY <2>1, HistoryRegister
  <2> QED BY <1>1, <2>1, <2>2
<1>4. PICK width \in 0 .. TableSize : TableSize = p[width]
  BY <1>0, <1>1, HistoryRegister
<1> HIDE DEF p, N
<1>5. \A k \in 0 .. N : p[k] \in Nat
  <2> TAKE k \in 0 .. N
  <2>1. CASE k \in 0 .. N - 1
    BY <1>3, <2>1
  <2>2. CASE k = N
    <3>1. N - 1 \in 0 .. N - 1 /\ (N - 1) + 1 = N
      BY <1>0 DEF N
    <3>2. p[N - 1] \in Nat /\ p[(N - 1) + 1] = 2 * p[N - 1]
      BY <1>3, <3>1
    <3> QED BY <2>2, <3>1, <3>2
  <2> QED BY <1>0, <2>1, <2>2
<1>6. /\ \A k \in 0 .. N : k < p[k]
      /\ \A k \in 0 .. N : \A d \in 0 .. N - k : \E m \in Nat \ {0} : p[k + d] = p[k] * m
  <2>1. \A k \in 0 .. N - 1 : p[k + 1] = 2 * p[k]
    BY <1>3
  <2>2. N \in Nat
    BY <1>0
  <2>3. Doubles(p, N)
    BY <1>2, <1>5, <2>1 DEF Doubles
  <2> QED BY <2>2, <2>3, Doubling, Zenon
<1>7. ASSUME NEW k \in 0 .. N, p[k] < TableSize
      PROVE  \E m \in Nat \ {0} : TableSize = 2 * p[k] * m
  <2>1. width \in 0 .. N /\ width <= N - 1
    BY <1>0
  <2>2. CASE width <= k
    <3>1. k - width \in 0 .. N - width /\ width + (k - width) = k
      BY <1>0, <2>1, <2>2
    <3>2. PICK m \in Nat \ {0} : p[k] = p[width] * m
      BY <1>6, <2>1, <3>1
    <3>3. p[width] * m >= p[width]
      <4>1. \A u \in Nat, v \in Nat \ {0} : u * v >= u
        OBVIOUS
      <4> QED BY <1>5, <2>1, <4>1
    <3> QED BY <1>4, <1>7, <3>2, <3>3, <1>0
  <2>3. CASE k < width
    <3>1. /\ k + 1 \in 0 .. N /\ k \in 0 .. N - 1 /\ width - (k + 1) \in 0 .. N - (k + 1)
          /\ (k + 1) + (width - (k + 1)) = width
      BY <1>0, <2>1, <2>3
    <3>2. PICK m \in Nat \ {0} : p[width] = p[k + 1] * m
      BY <1>6, <3>1
    <3>3. p[k + 1] = 2 * p[k]
      BY <1>3, <3>1
    <3> QED BY <1>4, <3>2, <3>3
  <2> QED BY <2>1, <2>2, <2>3
<1>8. \A k \in Places : k \in 0 .. N /\ p[k] < TableSize
  BY <1>0 DEF Places, Index, p, N
<1> QED
  <2>1. \A k \in 0 .. N - 1 : /\ p[k] \in Nat /\ k < p[k]
                              /\ k + 1 \in 0 .. N /\ p[k + 1] = 2 * p[k]
    BY <1>0, <1>3, <1>6
  <2> QED BY <1>0, <1>2, <1>7, <1>8, <2>1 DEF p, N

\* A branch enters the history at place 0 and moves the others up, losing the last.
LEMMA HistoryShifts ==
  ASSUME NEW g \in Index, NEW taken \in {0, 1}
  PROVE  /\ 0 \in Places => (0 \in BitsOf(Shifted(g, taken)) <=> taken = 1)
         /\ \A k \in Places \ {0} :
              /\ k - 1 \in Places
              /\ k \in BitsOf(Shifted(g, taken)) <=> k - 1 \in BitsOf(g)
<1>0. TableSize \in Nat \ {0} /\ MaxBranches \in Nat /\ g \in Nat
  BY PredictorAssumption, BranchAssumption DEF Index
<1>1. ASSUME 0 \in Places
      PROVE  0 \in BitsOf(Shifted(g, taken)) <=> taken = 1
  <2>1. Power[0] = 1
    BY PowersDouble
  <2>2. PICK m \in Nat \ {0} : TableSize = 2 * Power[0] * m
    BY <1>1, PowersDouble
  <2>3. TableSize = 2 * m
    BY <2>1, <2>2
  <2>4. Shifted(g, taken) % 2 = taken
    BY <1>0, <2>3, BitEntered DEF Shifted
  <2>5. Shifted(g, taken) \in Nat
    BY <1>0 DEF Shifted
  <2>6. Shifted(g, taken) \div 1 = Shifted(g, taken)
    BY <2>5
  <2> QED BY <1>1, <2>1, <2>4, <2>6 DEF BitsOf
<1>2. ASSUME NEW k \in Places \ {0}
      PROVE  /\ k - 1 \in Places
             /\ k \in BitsOf(Shifted(g, taken)) <=> k - 1 \in BitsOf(g)
  <2>1. /\ k \in Nat \ {0} /\ k - 1 \in 0 .. TableSize + MaxBranches /\ (k - 1) + 1 = k
        /\ k - 1 \in Index /\ Power[k] < TableSize
    BY <1>0, <1>2 DEF Places, Index
  <2>2. /\ Power[k - 1] \in Nat \ {0} /\ Power[k] = 2 * Power[k - 1]
    <3>1. Power[k - 1] \in Nat /\ k - 1 < Power[k - 1] /\ Power[(k - 1) + 1] = 2 * Power[k - 1]
      BY <2>1, PowersDouble
    <3> QED BY <2>1, <3>1
  <2>3. k - 1 \in Places
    BY <1>0, <2>1, <2>2 DEF Places
  <2>4. PICK m \in Nat \ {0} : TableSize = 2 * Power[k] * m
    BY <1>2, PowersDouble
  <2> DEFINE p == Power[k - 1]
  <2>5. p \in Nat \ {0} /\ Power[k] = 2 * p /\ TableSize = 2 * (2 * p) * m
    BY <2>2, <2>4
  <2>6. (Shifted(g, taken) \div (2 * p)) % 2 = (g \div p) % 2
    <3> HIDE DEF p
    <3>1. (((2 * g + taken) % (2 * (2 * p) * m)) \div (2 * p)) % 2 = (g \div p) % 2
      <4>1. p \in Nat \ {0} /\ g \in Nat
        BY <1>0, <2>5
      <4> QED BY <4>1, BitShifted, Zenon
    <3> QED BY <2>5, <3>1 DEF Shifted
  <2>7. (Shifted(g, taken) \div Power[k]) % 2 = (g \div Power[k - 1]) % 2
    BY <2>5, <2>6
  <2> QED BY <1>2, <2>3, <2>7 DEF BitsOf
<1> QED BY <1>1, <1>2

\* A branch adds at most its own outcome to the taken branches remembered, and
\* exactly that while the history is shorter than its register.
LEMMA HistoryCounts ==
  ASSUME NEW g \in Index, NEW taken \in {0, 1}
  PROVE  LET h == Shifted(g, taken)
             count == Cardinality(BitsOf(g))
         IN  /\ count \in Nat /\ Cardinality(BitsOf(h)) \in Nat
             /\ Cardinality(BitsOf(h)) <= count + taken
             /\ \A n \in 0 .. MaxBranches - 1 :
                  g < Power[n] /\ Power[n + 1] <= TableSize
                    => h < Power[n + 1] /\ Cardinality(BitsOf(h)) = count + taken
<1> DEFINE h == Shifted(g, taken)
           up == {k + 1 : k \in BitsOf(g)}
           added == IF taken = 1 THEN up \cup {0} ELSE up
<1>0. TableSize \in Nat \ {0} /\ MaxBranches \in Nat /\ g \in Nat /\ h \in Nat
  BY PredictorAssumption, BranchAssumption DEF Index, Shifted
<1>1. \A v : BitsOf(v) \subseteq Index /\ IsFiniteSet(BitsOf(v)) /\ Cardinality(BitsOf(v)) \in Nat
  <2> TAKE v
  <2>1. BitsOf(v) \in SUBSET Index
    BY DEF BitsOf, Places
  <2> QED BY <2>1, TotalIsSum, FS_Subset, FS_CardinalityType
<1>2. Index \subseteq Nat
  BY DEF Index
<1>3. IsFiniteSet(up) /\ Cardinality(up) = Cardinality(BitsOf(g)) /\ 0 \notin up
  BY <1>1, <1>2, MovedUp
<1>4. IsFiniteSet(added) /\ Cardinality(added) = Cardinality(BitsOf(g)) + taken
  <2> HIDE DEF up
  <2>1. CASE taken = 1
    BY <1>1, <1>3, <2>1, FS_AddElement
  <2>2. CASE taken = 0
    BY <1>1, <1>3, <2>2
  <2> QED BY <2>1, <2>2
<1>5. BitsOf(h) \subseteq added
  <2> SUFFICES ASSUME NEW k \in BitsOf(h) PROVE k \in added
    OBVIOUS
  <2>1. k \in Places /\ k \in Nat
    BY <1>1, <1>2 DEF BitsOf
  <2>2. CASE k = 0
    BY <2>1, <2>2, HistoryShifts
  <2>3. CASE k # 0
    <3>1. k - 1 \in BitsOf(g) /\ (k - 1) + 1 = k
      BY <2>1, <2>3, HistoryShifts
    <3> QED BY <3>1
  <2> QED BY <2>2, <2>3
<1>6. Cardinality(BitsOf(h)) <= Cardinality(BitsOf(g)) + taken
  <2> HIDE DEF h, added
  <2> QED BY <1>4, <1>5, FS_Subset
<1>7. ASSUME NEW n \in 0 .. MaxBranches - 1, g < Power[n], Power[n + 1] <= TableSize
      PROVE  h < Power[n + 1] /\ Cardinality(BitsOf(h)) = Cardinality(BitsOf(g)) + taken
  <2>1. Power[n] \in Nat /\ Power[n] > 0 /\ Power[n + 1] = 2 * Power[n]
    <3>1. n \in 0 .. TableSize + MaxBranches /\ n \in Nat
      BY <1>0
    <3>2. Power[n] \in Nat /\ n < Power[n] /\ Power[n + 1] = 2 * Power[n]
      BY <3>1, PowersDouble
    <3> QED BY <3>1, <3>2
  <2>2. 2 * g + taken < TableSize /\ 2 * g + taken < Power[n + 1] /\ 2 * g + taken \in Nat
    BY <1>0, <1>7, <2>1
  <2>3. h = 2 * g + taken
    BY <1>0, <2>2 DEF Shifted
  <2>4. 0 \in Places
    BY <1>0, <1>7, <2>1, PowersDouble DEF Places, Index
  <2>5. ASSUME NEW k \in BitsOf(g) PROVE k + 1 \in Places \ {0}
    <3>1. k \in Nat /\ k \in 0 .. TableSize + MaxBranches /\ k + 1 \in 0 .. TableSize + MaxBranches
      BY <1>0, <1>1, <1>2 DEF Index
    <3>2. Power[k] \in Nat /\ Power[k + 1] \in Nat /\ Power[k + 1] = 2 * Power[k] /\ k + 1 < Power[k + 1]
          /\ k < Power[k]
      BY <3>1, PowersDouble
    <3>3. Power[k] <= g
      <4> DEFINE p == Power[k]
      <4>1. (g \div p) % 2 = 1 /\ p \in Nat \ {0}
        BY <3>1, <3>2 DEF BitsOf
      <4> HIDE DEF p
      <4>2. g < p => g = p * 0 + g /\ g \in 0 .. p - 1
        BY <1>0, <4>1
      <4>3. g < p => g \div p = 0
        BY <4>1, <4>2, DivisionUnique
      <4>4. ~(g < p)
        BY <4>1, <4>3
      <4> QED BY <1>0, <4>1, <4>4 DEF p
    <3>4. Power[k + 1] < TableSize /\ k + 1 \in Index
      BY <1>0, <1>7, <2>1, <3>1, <3>2, <3>3 DEF Index
    <3> QED BY <3>1, <3>4 DEF Places
  <2>6. added \subseteq BitsOf(h)
    <3>1. ASSUME NEW k \in BitsOf(g) PROVE k + 1 \in BitsOf(h)
      <4>1. k \in Nat
        BY <1>1, <1>2
      <4>2. (k + 1) - 1 = k
        BY <4>1
      <4> QED BY <2>5, <4>2, HistoryShifts
    <3>2. taken = 1 => 0 \in BitsOf(h)
      BY <2>4, HistoryShifts
    <3> QED BY <3>1, <3>2
  <2>7. BitsOf(h) = added
    BY <1>5, <2>6
  <2> QED BY <1>4, <2>2, <2>3, <2>7
<1> QED BY <1>1, <1>6, <1>7

\* While nothing has been forgotten, ghr has no more bits than there were branches.
HistoryInv ==
  /\ HistoryMatchesNT
  /\ 2^stat.branches <= TableSize => ghr < 2^stat.branches

\* The same in terms of the function of powers.
LEMMA HistoryRead ==
  ASSUME NEW n \in 0 .. MaxBranches, n = stat.branches
  PROVE  HistoryInv <=>
           /\ Cardinality(BitsOf(ghr)) <= stat.wrong_nt
           /\ Power[n] <= TableSize => /\ Cardinality(BitsOf(ghr)) = stat.wrong_nt
                                       /\ ghr < Power[n]
<1>1. 2^stat.branches = Power[n]
  BY PowersRead
<1> QED BY <1>1, PowersRead DEF HistoryInv, HistoryMatchesNT

\* No branch puts the two apart.
LEMMA HistoryStep == TypeOK /\ stat.branches <= MaxBranches /\ HistoryInv /\ [Next]_vars
                       => HistoryInv' /\ stat'.branches <= MaxBranches
<1> SUFFICES ASSUME TypeOK, stat.branches <= MaxBranches, HistoryInv, [Next]_vars
             PROVE  HistoryInv' /\ stat'.branches <= MaxBranches
  OBVIOUS
<1>1. ASSUME NEW b \in Branches, NEW taken \in Outcomes(b), Execute(b, taken)
      PROVE  HistoryInv' /\ stat'.branches <= MaxBranches
  <2> DEFINE n == stat.branches
             B == BitsOf(ghr)
             C == BitsOf(Shifted(ghr, taken))
  <2>1. taken \in {0, 1} /\ ghr \in Index /\ n \in Nat /\ stat.wrong_nt \in Nat
        /\ MaxBranches \in Nat /\ TableSize \in Nat
    BY ExecuteSelects, BranchAssumption, PredictorAssumption DEF TypeOK, PredictorTypeOK, Stat
  <2>2. n < MaxBranches /\ stat'.branches = n + 1 /\ ghr' = Shifted(ghr, taken)
        /\ stat'.wrong_nt = stat.wrong_nt + taken
    BY <1>1, <2>1 DEF Execute, Branch, Wrong
  <2>3. n \in 0 .. MaxBranches /\ n \in 0 .. MaxBranches - 1 /\ n + 1 \in 0 .. MaxBranches
        /\ n \in 0 .. TableSize + MaxBranches
    BY <2>1, <2>2
  <2>4. /\ Cardinality(B) <= stat.wrong_nt
        /\ Power[n] <= TableSize => Cardinality(B) = stat.wrong_nt /\ ghr < Power[n]
    BY <2>3, HistoryRead
  <2>5. /\ Cardinality(B) \in Nat /\ Cardinality(C) \in Nat
        /\ Cardinality(C) <= Cardinality(B) + taken
        /\ ghr < Power[n] /\ Power[n + 1] <= TableSize
             => Shifted(ghr, taken) < Power[n + 1] /\ Cardinality(C) = Cardinality(B) + taken
    BY <2>1, <2>3, HistoryCounts
  <2>6. Power[n] \in Nat /\ Power[n + 1] = 2 * Power[n]
    BY <2>3, PowersDouble
  <2>7. Power[n + 1] <= TableSize => Power[n] <= TableSize
    BY <2>1, <2>6
  <2>8. Cardinality(BitsOf(ghr')) <= stat'.wrong_nt
    BY <2>1, <2>2, <2>4, <2>5
  <2>9. Power[n + 1] <= TableSize
          => Cardinality(BitsOf(ghr')) = stat'.wrong_nt /\ ghr' < Power[n + 1]
    BY <2>2, <2>4, <2>5, <2>7
  <2>10. TakenBits' = BitsOf(ghr')
    BY PowersRead
  <2>11. 2^(stat'.branches) = Power[n + 1]
    BY <2>2, <2>3, PowersRead
  <2>12. stat'.branches <= MaxBranches
    BY <2>1, <2>2
  <2> QED BY <2>8, <2>9, <2>10, <2>11, <2>12 DEF HistoryInv, HistoryMatchesNT
<1>2. CASE UNCHANGED vars
  <2>1. TakenBits' = TakenBits
    BY <1>2 DEF vars, TakenBits
  <2> QED BY <1>2, <2>1 DEF vars, HistoryInv, HistoryMatchesNT
<1> QED BY <1>1, <1>2 DEF Next

\* The outcomes that gshare selects its entries with are mispredictions of NT, all of
\* them as long as the register has forgotten none, for every program.
THEOREM HistoryAgrees == Spec => []HistoryMatchesNT
<1> DEFINE I == stat.branches <= MaxBranches /\ HistoryInv
<1>1. Init => I
  <2> SUFFICES ASSUME Init PROVE I
    OBVIOUS
  <2>1. stat.branches = 0 /\ stat.wrong_nt = 0 /\ ghr = 0 /\ MaxBranches \in Nat
    BY BranchAssumption DEF Init, PredictorInit
  <2>2. BitsOf(ghr) = {}
    <3>1. ASSUME NEW k \in Places PROVE (0 \div Power[k]) % 2 = 0
      <4>1. Power[k] \in Nat \ {0}
        <5>1. k \in Nat /\ k \in 0 .. TableSize + MaxBranches
          BY <2>1, PredictorAssumption DEF Places, Index
        <5> QED BY <5>1, PowersDouble
      <4> DEFINE p == Power[k]
      <4> HIDE DEF p
      <4>2. p \in Nat \ {0} /\ 0 \in 0 .. p - 1 /\ p * 0 + 0 = 0
        BY <4>1 DEF p
      <4>3. 0 \div p = 0
        BY <4>2, DivisionUnique
      <4> QED BY <4>3 DEF p
    <3> QED BY <2>1, <3>1 DEF BitsOf
  <2>3. Cardinality(BitsOf(ghr)) = 0
    BY <2>2, FS_EmptySet
  <2>4. Power[0] = 1
    BY PowersDouble
  <2>5. HistoryInv
    BY <2>1, <2>3, <2>4, HistoryRead
  <2> QED BY <2>1, <2>5
<1>2. TypeOK /\ I /\ [Next]_vars => I'
  BY HistoryStep
<1>3. I => HistoryMatchesNT
  BY DEF HistoryInv
<1> QED BY <1>1, <1>2, <1>3, TypeCorrect, PTL DEF Spec

-----------------------------------------------------------------------------
\* An entry moves up only as a target, and down only as a fall-through.
LEMMA SelectedEntries ==
  ASSUME NEW b \in Branches, NEW taken \in Outcomes(b)
  PROVE  /\ taken = 1 => BimodalIndex(Continuation(b, taken)) \in TargetEntries
         /\ taken = 0 => BimodalIndex(Continuation(b, taken)) \in FallEntries
  BY DEF Outcomes, TargetEntries, FallEntries

\* No branch brings an entry to the side of the scale it cannot be trained to.
LEMMA SelectionStep ==
  TypeOK /\ OutcomeSelectsEntry /\ [Next]_vars => OutcomeSelectsEntry'
<1> SUFFICES ASSUME TypeOK, OutcomeSelectsEntry, [Next]_vars, NEW i \in Index
             PROVE  /\ i \notin TargetEntries => bimodal'[i] <= 2
                    /\ i \notin FallEntries => bimodal'[i] >= 2
  BY DEF OutcomeSelectsEntry, Index, TargetEntries, FallEntries, BimodalIndex, Continuation
<1>0. bimodal[i] \in Counter /\ (i \notin TargetEntries => bimodal[i] <= 2)
        /\ (i \notin FallEntries => bimodal[i] >= 2)
  BY DEF TypeOK, PredictorTypeOK, Stat, OutcomeSelectsEntry
<1>1. ASSUME NEW b \in Branches, NEW taken \in Outcomes(b), Execute(b, taken)
      PROVE  /\ i \notin TargetEntries => bimodal'[i] <= 2
             /\ i \notin FallEntries => bimodal'[i] >= 2
  <2> DEFINE k == BimodalIndex(Continuation(b, taken))
  <2>1. taken \in {0, 1} /\ k \in Index
    BY ExecuteSelects
  <2>2. bimodal' = [bimodal EXCEPT ![k] = Trained(@, taken)]
    BY <1>1 DEF Execute, Branch, Mispredicted
  <2>3. (taken = 1 => k \in TargetEntries) /\ (taken = 0 => k \in FallEntries)
    BY SelectedEntries
  <2> HIDE DEF k
  <2>4. bimodal'[i] = IF i = k THEN Trained(bimodal[i], taken) ELSE bimodal[i]
    BY <2>1, <2>2 DEF TypeOK, PredictorTypeOK, Stat
  <2>5. taken = 1 => Trained(bimodal[i], taken) >= bimodal[i]
    BY <1>0 DEF Trained, Counter
  <2>6. taken = 0 => Trained(bimodal[i], taken) <= bimodal[i]
    BY <1>0 DEF Trained, Counter
  <2>7. Trained(bimodal[i], taken) \in Counter
    BY <1>0, <2>1, CounterTrained
  <2> QED
    BY <1>0, <2>1, <2>3, <2>4, <2>5, <2>6, <2>7 DEF Counter
<1>2. CASE UNCHANGED vars
  BY <1>0, <1>2 DEF vars
<1> QED
  BY <1>1, <1>2 DEF Next

\* The entry a branch selects reveals its outcome, for every program.
THEOREM OutcomeVisible == Spec => []OutcomeSelectsEntry
<1>1. Init => OutcomeSelectsEntry
  BY DEF Init, PredictorInit, OutcomeSelectsEntry
<1> QED
  BY <1>1, SelectionStep, TypeCorrect, PTL DEF Spec

\* What the counter of an entry on one side only shows: whether it was ever trained.
Sided(i) ==
  /\ i \notin FallEntries
       => \/ bimodal[i] = 2 /\ wrong[i] = 0 /\ last[i] = -1
          \/ bimodal[i] \in 3 .. 5 /\ wrong[i] = 1 /\ last[i] = 1
  /\ i \notin TargetEntries => bimodal[i] \in 0 .. 2 /\ wrong[i] = 0

\* Training keeps what the counter of such an entry shows.
LEMMA SidedStep ==
  ASSUME TypeOK, [Next]_vars, NEW i \in Index, Sided(i)
  PROVE  Sided(i)'
<1>0. /\ TargetEntries' = TargetEntries /\ FallEntries' = FallEntries
  BY DEF TargetEntries, FallEntries, BimodalIndex, Continuation
<1>1. ASSUME NEW b \in Branches, NEW taken \in Outcomes(b), Execute(b, taken)
      PROVE  Sided(i)'
  <2> DEFINE k == BimodalIndex(Continuation(b, taken))
  <2>1. taken \in {0, 1} /\ k \in Index
    BY ExecuteSelects
  <2>2. /\ bimodal' = [bimodal EXCEPT ![k] = Trained(@, taken)]
        /\ wrong' = [wrong EXCEPT ![k] = @ + Wrong(Predicted(bimodal[k]), taken)]
        /\ last' = [last EXCEPT ![k] = taken]
    BY <1>1 DEF Execute, Branch, Mispredicted, Record
  <2>3. (taken = 1 => k \in TargetEntries) /\ (taken = 0 => k \in FallEntries)
    BY SelectedEntries
  <2> HIDE DEF k
  <2>4. /\ bimodal'[i] = IF i = k THEN Trained(bimodal[i], taken) ELSE bimodal[i]
        /\ wrong'[i] = IF i = k THEN wrong[i] + Wrong(Predicted(bimodal[i]), taken)
                       ELSE wrong[i]
        /\ last'[i] = IF i = k THEN taken ELSE last[i]
    BY <2>1, <2>2 DEF TypeOK, PredictorTypeOK, Stat
  <2>5. /\ i \notin FallEntries'
             => \/ bimodal'[i] = 2 /\ wrong'[i] = 0 /\ last'[i] = -1
                \/ bimodal'[i] \in 3 .. 5 /\ wrong'[i] = 1 /\ last'[i] = 1
    BY <1>0, <2>1, <2>3, <2>4, SMT DEF Sided, Trained, Wrong, Predicted
  <2>6. i \notin TargetEntries' => bimodal'[i] \in 0 .. 2 /\ wrong'[i] = 0
    BY <1>0, <2>1, <2>3, <2>4, SMT DEF Sided, Trained, Wrong, Predicted
  <2> QED
    BY <2>5, <2>6 DEF Sided
<1>2. CASE UNCHANGED vars
  BY <1>0, <1>2 DEF Sided, vars
<1> QED
  BY <1>1, <1>2 DEF Next

\* One misprediction per target, for every program, at every entry that is on one
\* side only.
THEOREM OnePerTarget == Spec => []OneMispredictionPerTarget
<1> DEFINE IInv == \A i \in Index : Sided(i)
<1>1. Init => IInv
  BY DEF Init, PredictorInit, Sided
<1>2. TypeOK /\ IInv /\ [Next]_vars => IInv'
  BY SidedStep DEF Index
<1>3. IInv => OneMispredictionPerTarget
  BY DEF Sided, OneMispredictionPerTarget
<1> QED
  BY <1>1, <1>2, <1>3, TypeCorrect, PTL DEF Spec
=============================================================================
