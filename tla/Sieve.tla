------------------------------- MODULE Sieve --------------------------------
(***************************************************************************)
(* erat.c: the sieve of Eratosthenes.  The numbers it prints appear as the *)
(* strings that uns_to_str makes of them.                                  *)
(***************************************************************************)
EXTENDS Conversions

CONSTANT Limits  \* the values of MAX that are considered (1000000)

ASSUME SieveAssumption == Limits \subseteq 1 .. UIntValues

VARIABLES
  max,      \* MAX
  numbers,  \* the array; numbers[0] and numbers[1] are not looked at
  i, j,     \* the variables of the loops; j is 0 outside of the inner one
  primes    \* the strings printed

eratVars == <<max, numbers, i, j, primes>>

\* After the loop that fills the array.
EratInit ==
  /\ max \in Limits
  /\ numbers = [n \in 0 .. max - 1 |-> 1]
  /\ i = 2 /\ j = 0
  /\ primes = <<<<ZeroChar + 1>>>>

Skip ==
  /\ i < max /\ j = 0 /\ numbers[i] = 0
  /\ i' = i + 1
  /\ UNCHANGED <<max, numbers, j, primes>>

PrintPrime ==
  /\ i < max /\ j = 0 /\ numbers[i] = 1
  /\ primes' = Append(primes, print_string(uns_to_str(i).buffer))
  /\ j' = i
  /\ UNCHANGED <<max, numbers, i>>

\* Mutant: the multiples begin above the square.
CrossOutAbove ==
  /\ j > 0 /\ j < max
  /\ numbers' = [numbers EXCEPT ![j] = IF j > i * i \/ j = i THEN 0 ELSE @]
  /\ j' = j + i
  /\ UNCHANGED <<max, i, primes>>

CrossOut ==
  /\ j > 0 /\ j < max
  /\ numbers' = [numbers EXCEPT ![j] = 0]
  /\ j' = j + i
  /\ UNCHANGED <<max, i, primes>>

CrossedOut ==
  /\ j >= max
  /\ i' = i + 1
  /\ j' = 0
  /\ UNCHANGED <<max, numbers, primes>>

EratNext == Skip \/ PrintPrime \/ CrossOut \/ CrossedOut

-----------------------------------------------------------------------------
Divides(d, n) == n % d = 0
Primes(n) == {p \in 2 .. n - 1 : \A d \in 2 .. p - 1 : ~Divides(d, p)}

\* The primes that have been printed.
PrimesPassed == Primes(IF i > max THEN max ELSE IF j > 0 THEN i + 1 ELSE i)

\* erat.c:12-19: before a number is looked at, exactly the multiples of the smaller
\* primes are crossed out, and of the prime at hand those that the inner loop has
\* passed; every prime passed is printed, once, in ascending order, as a text
\* that str_to_uns reads back as that number.
CrossesOutMultiples ==
  /\ \A n \in 2 .. max - 1 :
       (numbers[n] = 0) =
         \/ \E p \in Primes(i) : Divides(p, n)
         \/ j > 0 /\ Divides(i, n) /\ n < j
  /\ LET printed == [k \in DOMAIN primes |-> str_to_uns(Append(primes[k], NUL))]
     IN  /\ ToSet(printed) = {1} \cup PrimesPassed
         /\ \A k \in 1 .. Len(printed) - 1 : printed[k] < printed[k + 1]
=============================================================================
