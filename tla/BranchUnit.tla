----------------------------- MODULE BranchUnit -----------------------------
(***************************************************************************)
(* The predictors driven by a program: a fixed set of branch instructions, *)
(* executed in any order with any outcomes.  History variables record what *)
(* each entry of the bimodal table has been trained with, so that the      *)
(* counters of struct Stat can be compared with the stream of outcomes.    *)
(***************************************************************************)
EXTENDS Predictor, FiniteSetsExt

CONSTANTS
  Branches,     \* the branch instructions: records with fields pc and imm,
                \* and known, whether funct3 names one of the six conditions
  AddressMod,   \* number of addresses (2^32): pc wraps around
  MaxBranches   \* bound on the branches of a behaviour

ASSUME BranchAssumption ==
  /\ AddressMod \in Nat \ {0}
  /\ MaxBranches \in Nat
  /\ \A b \in Branches : /\ b.pc \in 0 .. AddressMod - 1
                         /\ b.imm \in Int
                         /\ b.known \in BOOLEAN

\* The history is a register of bits: the mask 0x3FF of simulate.c keeps ten.
\* Powers of two are what they are.
ASSUME HistoryRegister ==
  /\ \E width \in 0 .. TableSize : TableSize = 2^width
  /\ 2^0 = 1
  /\ \A k \in 0 .. TableSize + MaxBranches : 2^k \in Nat /\ 2^(k + 1) = 2 * 2^k

VARIABLES
  last,   \* the last outcome an entry was trained with, -1 before the first
  runs,   \* the number of runs of equal outcomes an entry has seen
  wrong   \* the mispredictions counted at an entry

history == <<last, runs, wrong>>
vars == <<bimodal, gshare_table, ghr, stat, last, runs, wrong>>

\* beq, bne and the others have set pc before the predictors look at it; an
\* unknown condition leaves pc alone and counts as not taken.
Continuation(b, taken) ==
  (b.pc + (IF taken = 1 THEN b.imm ELSE IF b.known THEN 4 ELSE 0)) % AddressMod

Outcomes(b) == IF b.known THEN {0, 1} ELSE {0}

Init ==
  /\ PredictorInit
  /\ last = [i \in Index |-> -1]
  /\ runs = [i \in Index |-> 0]
  /\ wrong = [i \in Index |-> 0]

Record(i, taken) ==
  /\ last' = [last EXCEPT ![i] = taken]
  /\ runs' = [runs EXCEPT ![i] = IF last[i] = taken THEN @ ELSE @ + 1]
  /\ wrong' = [wrong EXCEPT ![i] = @ + Wrong(Predicted(bimodal[i]), taken)]

\* Mutant: the entry is selected by the address of the branch.
ExecuteAtBranch(b, taken) ==
  /\ stat.branches < MaxBranches
  /\ Branch(b.pc, b.imm, taken)
  /\ Record(BimodalIndex(b.pc), taken)

Execute(b, taken) ==
  /\ stat.branches < MaxBranches
  /\ Branch(Continuation(b, taken), b.imm, taken)
  /\ Record(BimodalIndex(Continuation(b, taken)), taken)

Next == \E b \in Branches : \E taken \in Outcomes(b) : Execute(b, taken)

Spec == Init /\ [][Next]_vars

-----------------------------------------------------------------------------
\* Counters stay in their 0 to 5 scale, ghr in its ten bits.
TypeOK ==
  /\ PredictorTypeOK
  /\ last \in [Index -> {-1, 0, 1}]
  /\ runs \in [Index -> Nat]
  /\ wrong \in [Index -> Nat]

\* Hysteresis: a change of behaviour at an entry of the bimodal table costs at
\* most three mispredictions, however long each run of outcomes is, and the
\* first run, which starts from the middle of the scale, at most one.
EntryMispredictions ==
  \A i \in Index : wrong[i] <= IF runs[i] = 0 THEN 0 ELSE 3 * runs[i] - 2

\* The statistic that simulate returns is the sum over the entries: every
\* misprediction is charged to the entry that predicted, before it is trained.
TotalMispredictions ==
  stat.wrong_bimodal = MapThenSumSet(LAMBDA i : wrong[i], Index)

\* The entries selected when the branches are taken, and when they are not.
TargetEntries ==
  {BimodalIndex(Continuation(b, 1)) : b \in {c \in Branches : c.known}}
FallEntries == {BimodalIndex(Continuation(b, 0)) : b \in Branches}

\* Since the entry is selected by the address after the branch, an entry is
\* trained upwards only as some branch's target and downwards only as some
\* branch's fall-through: the outcome is visible in the index.
OutcomeSelectsEntry ==
  \A i \in Index : /\ i \notin TargetEntries => bimodal[i] <= 2
                   /\ i \notin FallEntries => bimodal[i] >= 2

\* Hence an entry that is no branch's fall-through is charged exactly once, when it
\* is first a target, and one that is no branch's target never, whatever the
\* branches do: where the two do not meet, bimodal reports one misprediction per
\* target entry ever taken (simulate.c:582-588).
OneMispredictionPerTarget ==
  \A i \in Index :
    /\ i \notin FallEntries => wrong[i] = IF last[i] = 1 THEN 1 ELSE 0
    /\ i \notin TargetEntries => wrong[i] = 0

\* The set bits of ghr: outcomes that were taken.
TakenBits == {k \in 0 .. TableSize - 1 : 2^k < TableSize /\ (ghr \div 2^k) % 2 = 1}

\* The global history and the NT counter tell the same story: every outcome
\* that ghr remembers as taken is a misprediction of NT, and while ghr has
\* forgotten nothing the two counts are equal.
HistoryMatchesNT ==
  /\ Cardinality(TakenBits) <= stat.wrong_nt
  /\ 2^stat.branches <= TableSize => Cardinality(TakenBits) = stat.wrong_nt
=============================================================================
