----------------------------- MODULE Predictor ------------------------------
(***************************************************************************)
(* The four branch predictors that simulate.c runs side by side, and the   *)
(* counters of struct Stat: never taken (NT), backward taken (BTFNT), a    *)
(* table of saturating counters (bimodal), and one indexed by the address  *)
(* xor the recent outcomes (gshare).                                       *)
(*                                                                         *)
(* Branch is the whole predictor part of a branch instruction.  It runs    *)
(* after the branch itself, so the address that selects the entries is the *)
(* one execution continues at, not the address of the branch.              *)
(***************************************************************************)
EXTENDS Integers, FiniteSets, Bits

CONSTANT TableSize  \* entries of each table, and number of values of ghr (1024)

ASSUME PredictorAssumption ==
  /\ TableSize \in Nat \ {0}
  /\ \A a, b \in 0 .. TableSize - 1 : BitXor(a, b) \in Nat

VARIABLES
  bimodal,       \* the counters of the bimodal predictor
  gshare_table,  \* the counters of the gshare predictor
  ghr,           \* the outcomes of the last branches, the latest in bit 0
  stat           \* the branch counters of struct Stat

predictorVars == <<bimodal, gshare_table, ghr, stat>>

Index == 0 .. TableSize - 1
Counter == 0 .. 5

\* The instructions are counted by the machine.
Stat == [branches : Nat, wrong_nt : Nat, wrong_btfnt : Nat,
         wrong_bimodal : Nat, wrong_gshare : Nat]

PredictorInit ==
  /\ bimodal = [i \in Index |-> 2]
  /\ gshare_table = [i \in Index |-> 2]
  /\ ghr = 0
  /\ stat = [branches |-> 0, wrong_nt |-> 0, wrong_btfnt |-> 0,
             wrong_bimodal |-> 0, wrong_gshare |-> 0]

\* Mutants of the next two: the middle of the scale off by one either way, and
\* counters that do not saturate.
PredictedFromTwo(counter) == IF counter >= 2 THEN 1 ELSE 0
PredictedFromFour(counter) == IF counter >= 4 THEN 1 ELSE 0
Unsaturated(counter, taken) == IF taken = 1 THEN counter + 1 ELSE counter - 1

\* A counter predicts taken in its upper half, and saturates at both ends.
Predicted(counter) == IF counter >= 3 THEN 1 ELSE 0

Trained(counter, taken) ==
  IF taken = 1 THEN IF counter < 5 THEN counter + 1 ELSE counter
               ELSE IF counter > 0 THEN counter - 1 ELSE counter

Wrong(predicted, taken) == IF predicted # taken THEN 1 ELSE 0

\* Mutant: the counter is trained before the statistic is taken.
MispredictedLate(counter, taken) ==
  Wrong(Predicted(Trained(counter, taken)), taken)

\* What the statistic adds for an entry that still has its old counter.
Mispredicted(counter, taken) == Wrong(Predicted(counter), taken)

\* Mutant: a branch not taken enters the history as a 1.
ShiftedNegated(history, taken) == (2 * history + 1 - taken) % TableSize

Shifted(history, taken) == (2 * history + taken) % TableSize

BimodalIndex(pc) == (pc \div 4) % TableSize
GshareIndex(pc) == BitXor((pc \div 4) % TableSize, ghr) % TableSize

\* Count and train for a branch with this outcome and displacement, when the
\* program continues at pc.
Branch(pc, imm, taken) ==
  LET b == BimodalIndex(pc)
      g == GshareIndex(pc)
  IN  /\ stat' = [branches      |-> stat.branches + 1,
                  wrong_nt      |-> stat.wrong_nt + Wrong(0, taken),
                  wrong_btfnt   |-> stat.wrong_btfnt
                                      + Wrong(IF imm < 0 THEN 1 ELSE 0, taken),
                  wrong_bimodal |-> stat.wrong_bimodal
                                      + Mispredicted(bimodal[b], taken),
                  wrong_gshare  |-> stat.wrong_gshare
                                      + Mispredicted(gshare_table[g], taken)]
      /\ bimodal' = [bimodal EXCEPT ![b] = Trained(@, taken)]
      /\ gshare_table' = [gshare_table EXCEPT ![g] = Trained(@, taken)]
      /\ ghr' = Shifted(ghr, taken)

-----------------------------------------------------------------------------
PredictorTypeOK ==
  /\ bimodal \in [Index -> Counter]
  /\ gshare_table \in [Index -> Counter]
  /\ ghr \in Index
  /\ stat \in Stat

\* The entries that now predict taken.
PredictTaken(table) == {i \in Index : table[i] >= 3}

\* Every table entry that has been trained to predict taken was paid for by a
\* counted misprediction, and no predictor is charged more than once for a
\* branch.
StatsAccountForTables ==
  /\ Cardinality(PredictTaken(bimodal)) <= stat.wrong_bimodal
  /\ Cardinality(PredictTaken(gshare_table)) <= stat.wrong_gshare
  /\ \A counter \in {stat.wrong_nt, stat.wrong_btfnt, stat.wrong_bimodal,
                     stat.wrong_gshare} : counter <= stat.branches
=============================================================================
