---------------------------- MODULE Conversions -----------------------------
(***************************************************************************)
(* The conversions between strings and numbers of lib.c.  A character is   *)
(* its code; a string is what memory holds from its first character on,    *)
(* its NUL and what comes after that included.                             *)
(***************************************************************************)
EXTENDS Integers, SequencesExt

CONSTANT UIntValues  \* the number of values of an unsigned int (2^32)

ASSUME ConversionsAssumption == UIntValues \in Nat /\ UIntValues > 1

NUL == 0
ZeroChar == 48

\* Mutant: the search begins at the first character.
CharsBeforeNul(str) ==
  SubSeq(str, 1, Min({k \in DOMAIN str : str[k] = NUL}) - 1)

\* The first character is taken whatever it is, and the search for the NUL begins
\* after it.
CharsTaken(str) ==
  LET ends == {k \in DOMAIN str : k > 1 /\ str[k] = NUL}
  IN  SubSeq(str, 1, Min(ends) - 1)

str_to_uns(str) ==
  FoldLeft(LAMBDA val, c : (val * 10 + c - ZeroChar) % UIntValues, 0, CharsTaken(str))

\* The digits of a number, the last one first.
DigitsReversed[val \in Nat] ==
  IF val = 0 THEN <<>> ELSE <<(val % 10) + ZeroChar>> \o DigitsReversed[val \div 10]

\* What is written into the buffer, and what is returned: the index of the last
\* digit, or for zero the index of the NUL.
uns_to_str(val) ==
  IF val = 0 THEN [buffer |-> <<ZeroChar, NUL>>, retval |-> 1]
  ELSE [buffer |-> Append(Reverse(DigitsReversed[val]), NUL),
        retval |-> Len(DigitsReversed[val]) - 1]

\* print_string: the characters that it prints.
print_string(str) == SubSeq(str, 1, Min({k \in DOMAIN str : str[k] = NUL}) - 1)
=============================================================================
