---------------------------- MODULE SortedStore -----------------------------
(***************************************************************************)
(* What radix.c is for: the numbers of its input go into a bag, in their   *)
(* order; a negative one, -N, asks for the N smallest of the bag, which    *)
(* are taken in ascending order, or for all if there are fewer.            *)
(***************************************************************************)
EXTENDS Integers, Bags, SequencesExt

CONSTANTS
  Numbers,  \* what the input consists of
  Smallest  \* the int without a negation, which asks for nothing

VARIABLES
  pending,  \* the part of the input that has arrived and was not looked at
  content,  \* the bag
  want,     \* how many numbers are still asked for
  taken     \* all the numbers taken so far

vars == <<pending, content, want, taken>>

Init == pending = <<>> /\ content = EmptyBag /\ want = 0 /\ taken = <<>>

Receive ==
  /\ want = 0 /\ pending = <<>>
  /\ pending' \in Seq(Numbers)
  /\ UNCHANGED <<content, want, taken>>

\* The next number of the input.
NextNumber ==
  /\ want = 0 /\ pending # <<>>
  /\ pending' = Tail(pending)

Add ==
  /\ NextNumber
  /\ Head(pending) >= 0
  /\ content' = content (+) SetToBag({Head(pending)})
  /\ UNCHANGED <<want, taken>>

Request ==
  /\ NextNumber
  /\ Head(pending) < 0
  /\ want' = IF Head(pending) = Smallest THEN 0 ELSE -Head(pending)
  /\ UNCHANGED <<content, taken>>

\* Some of the numbers that are asked for.
Take ==
  LET numbers == SubSeq(taken', Len(taken) + 1, Len(taken'))
  IN  /\ taken' = taken \o numbers
      /\ Len(numbers) \in 1 .. want
      /\ want' = want - Len(numbers)
      /\ content = content' (+) ToBag(numbers)
      /\ \A i, j \in DOMAIN numbers : i <= j => numbers[i] <= numbers[j]
      /\ \A i \in DOMAIN numbers, kept \in BagToSet(content') : numbers[i] <= kept
      /\ UNCHANGED pending

\* There are no more.
GiveUp ==
  /\ content = EmptyBag
  /\ want' = 0
  /\ UNCHANGED <<pending, content, taken>>

Next == Receive \/ Add \/ Request \/ Take \/ GiveUp

Spec == Init /\ [][Next]_vars
=============================================================================
