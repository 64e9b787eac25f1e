--------------------------- MODULE BenchmarkProofs ---------------------------
(***************************************************************************)
(* What fib.c and erat.c compute, for every width of an unsigned int, every*)
(* argument and every size of the sieve.  First the conversions: the       *)
(* digits that uns_to_str writes are the number that str_to_uns reads.     *)
(***************************************************************************)
EXTENDS Benchmarks, Lemmas, SequenceTheorems

UInt == 0 .. UIntValues - 1

\* One turn of the loop of str_to_uns.
Turned(val, c) == (val * 10 + c - ZeroChar) % UIntValues

\* The number that the loop makes of characters, whatever they are.
NumberOf(text) ==
  FoldLeft(LAMBDA val, c : (val * 10 + c - ZeroChar) % UIntValues, 0, text)

\* A turn, for each character of a text.
Turns(text) == [k \in 1 .. Len(text) |-> [val \in UInt |-> Turned(val, text[k])]]

\* A remainder is an unsigned number.
LEMMA Wraps == \A x \in Int : x % UIntValues \in UInt
  BY ConversionsAssumption DEF UInt

\* The loop passes the characters one after the other.
LEMMA NumberRuns ==
  ASSUME NEW text \in Seq(Int)
  PROVE  \E run : Runs(Len(text), UInt, 0, Turns(text), run) /\ NumberOf(text) = run[Len(text)]
<1> DEFINE n == Len(text)
           r == NumberOf(text)
           op(t, k) == (t * 10 + text[k] - ZeroChar) % UIntValues
           body(iter) == [s \in SUBSET DOMAIN text |->
                            IF s = {} THEN 0 ELSE op(iter[s \ {Max(s)}], Max(s))]
           G == Turns(text)
           T == UInt
<1>1. n \in Nat /\ DOMAIN text = 1 .. n
  BY LenProperties
<1>2. \A k \in 1 .. n, t \in T : G[k][t] = op(t, k) /\ op(t, k) \in T
  <2> TAKE k \in 1 .. n, t \in T
  <2>1. G[k][t] = op(t, k)
    BY DEF Turns, Turned
  <2>2. text[k] \in Int /\ t \in Int
    BY ElementOfSeq DEF UInt
  <2>3. t * 10 + text[k] - ZeroChar \in Int
    BY <2>2 DEF ZeroChar
  <2> QED BY <2>1, <2>3, Wraps
<1>3. 0 \in T
  BY ConversionsAssumption DEF UInt
<1> HIDE DEF n, G, op, T
<1>4. Keeps(1 .. n, T, G)
  BY <1>2 DEF Keeps
<1>5. \A s \in SUBSET (1 .. n) : s # {} => Max(s) \in s /\ LastOf(n)[s] = Max(s)
  BY <1>1, GreatestElement DEF LastOf
<1>6. \E iter : iter = body(iter)
  <2>1. PICK iter : Folds(1 .. n, LastOf(n), 0, T, G, iter)
    BY <1>1, <1>3, <1>4, LeftFoldsExist
  <2>2. \A s \in SUBSET (1 .. n) : s # {} =>
          G[LastOf(n)[s]][iter[s \ {LastOf(n)[s]}]] = op(iter[s \ {Max(s)}], Max(s))
    BY <1>2, <1>5, <2>1 DEF Folds
  <2>3. iter = body(iter)
    BY <1>1, <2>1, <2>2 DEF Folds
  <2> QED BY <2>3
<1>7. \E iter : iter = body(iter) /\ r = iter[DOMAIN text]
  BY <1>6 DEF NumberOf, FoldLeft, MapThenFoldSet, op
<1> HIDE DEF r
<1>8. PICK iter : iter = body(iter) /\ r = iter[1 .. n]
  BY <1>1, <1>7
<1>9. TakesLast(n, T, 0, G, iter)
  <2>1. iter[{}] = 0
    BY <1>8
  <2>2. ASSUME NEW s \in SUBSET (1 .. n), s # {}, iter[s \ {Max(s)}] \in T
        PROVE  iter[s] = G[Max(s)][iter[s \ {Max(s)}]]
    <3>1. iter[s] = op(iter[s \ {Max(s)}], Max(s)) /\ Max(s) \in 1 .. n
      BY <1>1, <1>5, <1>8, <2>2
    <3> QED BY <1>2, <2>2, <3>1
  <2> QED BY <2>1, <2>2 DEF TakesLast
<1>10. PICK run : Runs(n, T, 0, G, run) /\ run[n] = iter[1 .. n]
  BY <1>1, <1>3, <1>4, <1>9, LeftFoldRuns
<1> QED BY <1>8, <1>10 DEF n, G, r, T

\* The characters before the last make a number, and the last one is added to it.
LEMMA NumberOfLonger ==
  ASSUME NEW text \in Seq(Int), NEW c \in Int
  PROVE  NumberOf(Append(text, c)) = Turned(NumberOf(text), c)
<1> DEFINE n == Len(text)
           longer == Append(text, c)
<1>1. /\ n \in Nat /\ longer \in Seq(Int) /\ Len(longer) = n + 1
      /\ longer[n + 1] = c /\ \A k \in 1 .. n : longer[k] = text[k]
  BY LenProperties, AppendProperties
<1>2. PICK run : Runs(n, UInt, 0, Turns(text), run) /\ NumberOf(text) = run[n]
  BY NumberRuns
<1> HIDE DEF longer
<1>3. PICK all : Runs(n + 1, UInt, 0, Turns(longer), all) /\ NumberOf(longer) = all[n + 1]
  BY <1>1, NumberRuns
<1> HIDE DEF n
<1> DEFINE Same == {k \in 0 .. n : all[k] = run[k]}
<1>4. 0 \in Same
  BY <1>1, <1>2, <1>3 DEF Runs
<1>5. ASSUME NEW k \in 0 .. n - 1, k \in Same PROVE k + 1 \in Same
  <2>1. k + 1 \in 1 .. n /\ k + 1 \in 1 .. n + 1 /\ k + 1 \in 0 .. n /\ (k + 1) - 1 = k
        /\ k \in 0 .. n
    BY <1>1
  <2>2. run[k + 1] = Turns(text)[k + 1][run[k]] /\ run[k] \in UInt
    BY <1>2, <2>1 DEF Runs
  <2>3. all[k + 1] = Turns(longer)[k + 1][all[k]]
    BY <1>3, <2>1 DEF Runs
  <2>4. Turns(longer)[k + 1] = Turns(text)[k + 1]
    BY <1>1, <2>1 DEF Turns, n
  <2>5. all[k] = run[k]
    BY <1>5
  <2> QED BY <2>1, <2>2, <2>3, <2>4, <2>5
<1>6. n \in Same
  <2>1. \A k \in 0 .. n - 1 : k \in Same => k + 1 \in Same
    BY <1>5
  <2> HIDE DEF Same
  <2>2. 0 .. n \subseteq Same
    BY <1>1, <1>4, <2>1, BoundedInduction
  <2> QED BY <1>1, <2>2
<1>7. all[n] = run[n] /\ run[n] \in UInt
  BY <1>1, <1>2, <1>6 DEF Runs
<1>8. all[n + 1] = Turns(longer)[n + 1][all[n]]
  <2>1. n + 1 \in 1 .. n + 1 /\ (n + 1) - 1 = n
    BY <1>1
  <2> QED BY <1>3, <2>1 DEF Runs
<1>9. Turns(longer)[n + 1][all[n]] = Turned(all[n], c)
  BY <1>1, <1>7 DEF Turns
<1> QED BY <1>2, <1>3, <1>7, <1>8, <1>9 DEF longer

\* No character makes 0, and every text a number.
LEMMA NumberOfText ==
  /\ NumberOf(<<>>) = 0
  /\ \A text \in Seq(Int) : NumberOf(text) \in UInt
<1>1. ASSUME NEW text \in Seq(Int)
      PROVE  NumberOf(text) \in UInt /\ (Len(text) = 0 => NumberOf(text) = 0)
  <2>1. PICK run : Runs(Len(text), UInt, 0, Turns(text), run) /\ NumberOf(text) = run[Len(text)]
    BY NumberRuns
  <2>2. Len(text) \in 0 .. Len(text)
    BY LenProperties
  <2> QED BY <2>1, <2>2 DEF Runs
<1>2. <<>> \in Seq(Int) /\ Len(<<>>) = 0
  BY EmptySeq
<1> QED BY <1>1, <1>2

-----------------------------------------------------------------------------
(***************************************************************************)
(* Texts.                                                                  *)
(***************************************************************************)

\* The part of a text up to a position.
LEMMA Beginning ==
  ASSUME NEW S, NEW s \in Seq(S), NEW n \in 0 .. Len(s)
  PROVE  /\ SubSeq(s, 1, n) \in Seq(S) /\ Len(SubSeq(s, 1, n)) = n
         /\ \A k \in 1 .. n : SubSeq(s, 1, n)[k] = s[k]
<1>1. n \in Nat /\ Len(s) \in Nat /\ 1 \in Int /\ \A k \in 1 .. n : k \in 1 .. Len(s)
  BY LenProperties
<1>2. \A k \in 1 .. n : s[k] \in S
  BY <1>1, ElementOfSeq
<1>3. /\ SubSeq(s, 1, n) \in Seq(S)
      /\ Len(SubSeq(s, 1, n)) = IF 1 <= n THEN n - 1 + 1 ELSE 0
      /\ \A k \in 1 .. n - 1 + 1 : SubSeq(s, 1, n)[k] = s[1 + k - 1]
  BY <1>1, <1>2, SubSeqProperties
<1>4. n - 1 + 1 = n /\ (IF 1 <= n THEN n ELSE 0) = n /\ \A k \in 1 .. n : 1 + k - 1 = k
  BY <1>1
<1> QED BY <1>3, <1>4

\* What lies in front of the first NUL, from a position on.
LEMMA FirstNul ==
  ASSUME NEW str \in Seq(Int), NEW from \in Nat \ {0}, NEW n \in Nat, from <= n, n <= Len(str),
         str[n] = NUL, \A k \in 1 .. n - 1 : k >= from => str[k] # NUL
  PROVE  Min({k \in DOMAIN str : k >= from /\ str[k] = NUL}) = n
<1> DEFINE T == {k \in DOMAIN str : k >= from /\ str[k] = NUL}
<1>1. DOMAIN str = 1 .. Len(str) /\ Len(str) \in Nat
  BY LenProperties
<1>2. n \in T
  BY <1>1
<1>3. \A k \in T : n <= k /\ k \in Nat
  <2> TAKE k \in T
  <2>1. k \in Nat \ {0} /\ k >= from /\ str[k] = NUL
    BY <1>1
  <2>2. SUFFICES ASSUME k < n PROVE FALSE
    BY <2>1
  <2>3. k \in 1 .. n - 1
    BY <2>1, <2>2
  <2> QED BY <2>1, <2>3
<1>4. \E x \in T : \A y \in T : x =< y
  BY <1>2, <1>3
<1>5. Min(T) \in T /\ \A y \in T : Min(T) =< y
  <2> HIDE DEF T
  <2> QED BY <1>4 DEF Min
<1>6. Min(T) <= n /\ n <= Min(T) /\ Min(T) \in Nat
  <2> HIDE DEF T
  <2> QED BY <1>2, <1>3, <1>5
<1> HIDE DEF T
<1>7. Min(T) = n
  BY <1>6
<1> QED BY <1>7 DEF T

\* A text and a NUL are printed as the text and, unless empty, read as the text.
LEMMA TextBeforeNul ==
  ASSUME NEW text \in Seq(Int), \A k \in 1 .. Len(text) : text[k] # NUL
  PROVE  /\ print_string(Append(text, NUL)) = text
         /\ Len(text) > 0 => str_to_uns(Append(text, NUL)) = NumberOf(text)
<1> DEFINE n == Len(text)
           str == Append(text, NUL)
<1>1. /\ n \in Nat /\ str \in Seq(Int) /\ Len(str) = n + 1
      /\ str[n + 1] = NUL /\ \A k \in 1 .. n : str[k] = text[k]
  BY LenProperties, AppendProperties DEF NUL
<1>2. DOMAIN str = 1 .. n + 1
  BY <1>1, LenProperties
<1> HIDE DEF str
<1>3. SubSeq(str, 1, n) = text
  <2>1. n \in 0 .. Len(str)
    BY <1>1
  <2>2. /\ SubSeq(str, 1, n) \in Seq(Int) /\ Len(SubSeq(str, 1, n)) = n
        /\ \A k \in 1 .. n : SubSeq(str, 1, n)[k] = str[k]
    BY <1>1, <2>1, Beginning
  <2> QED BY <1>1, <2>2, SeqEqual
<1>4. ASSUME NEW from \in {1, 2}, from <= n + 1
      PROVE  Min({k \in DOMAIN str : k >= from /\ str[k] = NUL}) = n + 1
  <2>1. from \in Nat \ {0} /\ n + 1 \in Nat /\ n + 1 <= Len(str) /\ (n + 1) - 1 = n
    BY <1>1
  <2>2. \A k \in 1 .. (n + 1) - 1 : k >= from => str[k] # NUL
    BY <1>1, <2>1
  <2> HIDE DEF n
  <2> QED BY <1>1, <1>4, <2>1, <2>2, FirstNul
<1>5. print_string(str) = text
  <2>1. {k \in DOMAIN str : str[k] = NUL} = {k \in DOMAIN str : k >= 1 /\ str[k] = NUL}
    BY <1>1, <1>2
  <2>2. 1 \in {1, 2} /\ 1 <= n + 1
    BY <1>1
  <2>3. Min({k \in DOMAIN str : str[k] = NUL}) = n + 1
    BY <1>4, <2>1, <2>2
  <2>4. (n + 1) - 1 = n
    BY <1>1
  <2> QED BY <1>3, <2>3, <2>4 DEF print_string
<1>6. ASSUME n > 0 PROVE str_to_uns(str) = NumberOf(text)
  <2>1. {k \in DOMAIN str : k > 1 /\ str[k] = NUL} = {k \in DOMAIN str : k >= 2 /\ str[k] = NUL}
    BY <1>1, <1>2
  <2>2. 2 \in {1, 2} /\ 2 <= n + 1
    BY <1>1, <1>6
  <2>3. Min({k \in DOMAIN str : k > 1 /\ str[k] = NUL}) = n + 1
    BY <1>4, <2>1, <2>2
  <2>4. (n + 1) - 1 = n
    BY <1>1
  <2>5. CharsTaken(str) = text
    BY <1>3, <2>3, <2>4 DEF CharsTaken
  <2> QED BY <2>5 DEF str_to_uns, NumberOf
<1> QED BY <1>5, <1>6 DEF str

\* The characters 0 to 9.
DigitChars == ZeroChar .. ZeroChar + 9

\* A text put after a character, the other way around.
LEMMA ReversedAfter ==
  ASSUME NEW S, NEW s \in Seq(S), NEW x \in S
  PROVE  /\ Reverse(s) \in Seq(S) /\ Len(Reverse(s)) = Len(s)
         /\ Reverse(<<x>> \o s) = Append(Reverse(s), x)
<1> DEFINE n == Len(s)
           r == Reverse(s)
           t == <<x>> \o s
<1>1. n \in Nat /\ \A k \in 1 .. n : s[k] \in S
  BY LenProperties, ElementOfSeq
<1>2. <<x>> \in Seq(S) /\ Len(<<x>>) = 1 /\ <<x>>[1] = x
  OBVIOUS
<1>3. /\ t \in Seq(S) /\ Len(t) = 1 + n
      /\ \A k \in 1 .. 1 + n : t[k] = IF k <= 1 THEN <<x>>[k] ELSE s[k - 1]
  BY <1>2, ConcatProperties
<1>4. r \in Seq(S) /\ Len(r) = n /\ \A k \in 1 .. n : r[k] = s[(n - k) + 1]
  <2>1. \A k \in 1 .. n : (n - k) + 1 \in 1 .. n
    BY <1>1
  <2>2. r = [k \in 1 .. n |-> s[(n - k) + 1]]
    BY DEF Reverse
  <2> HIDE DEF n, r
  <2> QED BY <1>1, <2>1, <2>2
<1> HIDE DEF t
<1> DEFINE u == Reverse(t)
<1>5. u \in Seq(S) /\ Len(u) = n + 1 /\ \A k \in 1 .. n + 1 : u[k] = t[(n + 1 - k) + 1]
  <2>1. \A k \in 1 .. n + 1 : (n + 1 - k) + 1 \in 1 .. 1 + n /\ t[(n + 1 - k) + 1] \in S
    <3> TAKE k \in 1 .. n + 1
    <3>1. (n + 1 - k) + 1 \in 1 .. 1 + n
      BY <1>1
    <3> QED BY <1>3, <3>1, ElementOfSeq
  <2>2. u = [k \in 1 .. n + 1 |-> t[(n + 1 - k) + 1]] /\ n + 1 \in Nat
    BY <1>1, <1>3 DEF Reverse
  <2> HIDE DEF n, u
  <2> QED BY <2>1, <2>2
<1>6. /\ Append(r, x) \in Seq(S) /\ Len(Append(r, x)) = n + 1
      /\ \A k \in 1 .. n : Append(r, x)[k] = r[k]
      /\ Append(r, x)[n + 1] = x
  <2> HIDE DEF r, n
  <2> QED BY <1>4, AppendProperties
<1> HIDE DEF u, r, n
<1>7. ASSUME NEW k \in 1 .. n + 1 PROVE u[k] = Append(r, x)[k]
  <2>1. CASE k = n + 1
    <3>1. (n + 1 - k) + 1 = 1 /\ 1 \in 1 .. 1 + n
      BY <1>1, <2>1
    <3> QED BY <1>2, <1>3, <1>5, <1>6, <2>1, <3>1
  <2>2. CASE k # n + 1
    <3>1. k \in 1 .. n /\ (n + 1 - k) + 1 \in 1 .. 1 + n /\ ~((n + 1 - k) + 1 <= 1)
          /\ (n + 1 - k) + 1 - 1 = (n - k) + 1
      BY <1>1, <1>7, <2>2
    <3> QED BY <1>3, <1>4, <1>5, <1>6, <3>1
  <2> QED BY <2>1, <2>2
<1>8. u = Append(r, x)
  BY <1>5, <1>6, <1>7, SeqEqual
<1> QED BY <1>4, <1>8 DEF n, r, u, t

-----------------------------------------------------------------------------
(***************************************************************************)
(* Numbers as texts.                                                       *)
(***************************************************************************)

\* The digits of a number, as DigitsReversed defines them.
DigitsStep(digits, val) ==
  IF val = 0 THEN <<>> ELSE <<(val % 10) + ZeroChar>> \o digits[val \div 10]

\* The quotient of a number that is not zero is smaller.
LEMMA Tenth ==
  ASSUME NEW val \in Nat
  PROVE  /\ val \div 10 \in Nat /\ val % 10 \in 0 .. 9 /\ val = 10 * (val \div 10) + (val % 10)
         /\ val # 0 => val \div 10 < val
  OBVIOUS

\* DigitsReversed exists, and what it holds are digits.
LEMMA DigitsDefined ==
  \A val \in Nat : /\ DigitsReversed[val] = DigitsStep(DigitsReversed, val)
                   /\ DigitsReversed[val] \in Seq(DigitChars)
<1> DEFINE T == Seq(DigitChars)
           G == [val \in Nat |-> [f \in [Nat -> T] |-> DigitsStep(f, val)]]
<1>1. ASSUME NEW val \in Nat, NEW f, \A m \in Nat : m < val => f[m] \in T
      PROVE  DigitsStep(f, val) \in T
  <2>1. <<>> \in T
    OBVIOUS
  <2>2. ASSUME val # 0 PROVE <<(val % 10) + ZeroChar>> \o f[val \div 10] \in T
    <3>1. f[val \div 10] \in T
      BY <1>1, <2>2, Tenth
    <3>2. (val % 10) + ZeroChar \in DigitChars
      BY Tenth DEF DigitChars, ZeroChar
    <3>3. <<(val % 10) + ZeroChar>> \in T
      BY <3>2
    <3> QED BY <3>1, <3>3, ConcatProperties
  <2> QED BY <2>1, <2>2 DEF DigitsStep
<1>2. ASSUME NEW val \in Nat, NEW f, NEW g, \A m \in Nat : m < val => f[m] = g[m]
      PROVE  DigitsStep(f, val) = DigitsStep(g, val)
  BY <1>2, Tenth DEF DigitsStep
<1> HIDE DEF T
<1>3. LooksBelow(Nat, T, G)
  <2> SUFFICES ASSUME NEW val \in Nat, NEW f \in [Nat -> T], NEW g \in [Nat -> T]
               PROVE  /\ G[val][f] \in T
                      /\ (\A m \in Nat : m < val => f[m] = g[m]) => G[val][f] = G[val][g]
    BY DEF LooksBelow
  <2>1. G[val][f] = DigitsStep(f, val) /\ G[val][g] = DigitsStep(g, val)
    OBVIOUS
  <2>2. DigitsStep(f, val) \in T
    BY <1>1
  <2>3. (\A m \in Nat : m < val => f[m] = g[m]) => DigitsStep(f, val) = DigitsStep(g, val)
    BY <1>2
  <2> QED BY <2>1, <2>2, <2>3
<1>4. T # {}
  <2>1. <<>> \in T
    BY DEF T
  <2> QED BY <2>1
<1>5. PICK f \in [Nat -> T] : \A val \in Nat : f[val] = G[val][f]
  <2> HIDE DEF G
  <2> DEFINE D == Nat
  <2>1. D \in SUBSET Nat /\ LooksBelow(D, T, G)
    BY <1>3
  <2> HIDE DEF D
  <2>2. \E f \in [D -> T] : \A val \in D : f[val] = G[val][f]
    BY <1>4, <2>1, RecursionExists
  <2> QED BY <2>2 DEF D
<1>6. f = [val \in Nat |-> DigitsStep(f, val)]
  BY <1>5
<1>7. \E g : g = [val \in Nat |->
                    IF val = 0 THEN <<>> ELSE <<(val % 10) + ZeroChar>> \o g[val \div 10]]
  BY <1>6 DEF DigitsStep
<1>8. DigitsReversed = [val \in Nat |-> DigitsStep(DigitsReversed, val)]
  BY <1>7 DEF DigitsReversed, DigitsStep
<1>9. \A val \in Nat : DigitsReversed[val] = DigitsStep(DigitsReversed, val)
  BY <1>8
<1> DEFINE Typed == {val \in Nat : DigitsReversed[val] \in T}
<1>10. Nat \subseteq Typed
  <2>1. ASSUME NEW val \in Nat, \A m \in Nat : m < val => m \in Typed PROVE val \in Typed
    <3>1. \A m \in Nat : m < val => DigitsReversed[m] \in T
      BY <2>1
    <3>2. DigitsStep(DigitsReversed, val) \in T
      BY <1>1, <3>1
    <3> QED BY <1>9, <3>2
  <2> HIDE DEF Typed
  <2> QED BY <2>1, StrongInduction
<1> QED BY <1>9, <1>10 DEF T

\* The digits of a number, the first one first.
Digits(val) == Reverse(DigitsReversed[val])

\* The last digit comes after those of the tenth part.
LEMMA LastDigit ==
  /\ Digits(0) = <<>>
  /\ \A val \in Nat : Digits(val) \in Seq(DigitChars)
  /\ \A val \in Nat \ {0} :
       Digits(val) = Append(Digits(val \div 10), (val % 10) + ZeroChar)
<1>1. DigitsReversed[0] = <<>>
  <2>1. 0 \in Nat
    OBVIOUS
  <2> QED BY <2>1, DigitsDefined DEF DigitsStep
<1>2. Reverse(<<>>) = <<>>
  <2>1. Len(<<>>) = 0
    OBVIOUS
  <2>2. [k \in 1 .. 0 |-> <<>>[(0 - k) + 1]] = <<>>
    OBVIOUS
  <2> QED BY <2>1, <2>2 DEF Reverse
<1>3. ASSUME NEW val \in Nat PROVE Digits(val) \in Seq(DigitChars)
  <2>1. ZeroChar \in DigitChars
    BY DEF DigitChars, ZeroChar
  <2> QED BY <2>1, DigitsDefined, ReversedAfter DEF Digits
<1>4. ASSUME NEW val \in Nat \ {0}
      PROVE  Digits(val) = Append(Digits(val \div 10), (val % 10) + ZeroChar)
  <2>1. DigitsReversed[val] = <<(val % 10) + ZeroChar>> \o DigitsReversed[val \div 10]
    BY DigitsDefined DEF DigitsStep
  <2>2. (val % 10) + ZeroChar \in DigitChars
    BY Tenth DEF DigitChars, ZeroChar
  <2>3. DigitsReversed[val \div 10] \in Seq(DigitChars)
    BY Tenth, DigitsDefined
  <2> QED BY <2>1, <2>2, <2>3, ReversedAfter DEF Digits
<1> QED BY <1>1, <1>2, <1>3, <1>4 DEF Digits

\* A number is read from its own digits; the first of them is not 0.
LEMMA DigitsRead ==
  ASSUME NEW val \in Nat
  PROVE  /\ val \in UInt => NumberOf(Digits(val)) = val
         /\ val # 0 => Len(Digits(val)) > 0 /\ Digits(val)[1] # ZeroChar
<1> DEFINE Read(v) == /\ v \in UInt => NumberOf(Digits(v)) = v
                      /\ v # 0 => Len(Digits(v)) > 0 /\ Digits(v)[1] # ZeroChar
           Good == {v \in Nat : Read(v)}
<1>1. ASSUME NEW v \in Nat, \A m \in Nat : m < v => m \in Good PROVE v \in Good
  <2>1. CASE v = 0
    <3>1. Digits(v) = <<>>
      BY <2>1, LastDigit
    <3> QED BY <2>1, <3>1, NumberOfText
  <2>2. CASE v # 0
    <3> DEFINE q == v \div 10
               c == (v % 10) + ZeroChar
               d == Digits(q)
    <3>1. q \in Nat /\ q < v /\ v = 10 * q + (v % 10) /\ v % 10 \in 0 .. 9
      BY <2>2, Tenth
    <3>2. Read(q)
      BY <1>1, <3>1
    <3>3. Digits(v) = Append(d, c)
      BY <2>2, LastDigit
    <3>4. d \in Seq(Int) /\ c \in Int /\ c = (v % 10) + 48
      <4>1. d \in Seq(DigitChars)
        BY <3>1, LastDigit
      <4>2. DigitChars \subseteq Int
        BY DEF DigitChars, ZeroChar
      <4>3. d \in Seq(Int)
        <5> HIDE DEF d
        <5> QED BY <4>1, <4>2, SeqMonotonic
      <4> QED BY <3>1, <4>3 DEF ZeroChar
    <3> HIDE DEF d, c
    <3>5. v \in UInt => NumberOf(Digits(v)) = v
      <4> SUFFICES ASSUME v \in UInt PROVE NumberOf(Digits(v)) = v
        OBVIOUS
      <4>1. q \in UInt
        BY <3>1, ConversionsAssumption DEF UInt
      <4>2. NumberOf(d) = q
        BY <3>2, <4>1 DEF d
      <4>3. NumberOf(Digits(v)) = (q * 10 + c - ZeroChar) % UIntValues
        BY <3>3, <3>4, <4>2, NumberOfLonger DEF Turned
      <4>4. q * 10 + c - ZeroChar = v
        <5> HIDE DEF q
        <5> QED BY <3>1, <3>4 DEF ZeroChar
      <4>5. v % UIntValues = v
        BY ConversionsAssumption DEF UInt
      <4> QED BY <4>3, <4>4, <4>5
    <3>6. /\ Len(Append(d, c)) = Len(d) + 1 /\ Len(d) \in Nat
          /\ \A k \in 1 .. Len(d) : Append(d, c)[k] = d[k]
          /\ Append(d, c)[Len(d) + 1] = c
      BY <3>4, LenProperties, AppendProperties
    <3>7. Len(Digits(v)) > 0
      BY <3>3, <3>6
    <3>8. Digits(v)[1] # ZeroChar
      <4>1. CASE q = 0
        <5>1. d = <<>>
          BY <4>1, LastDigit DEF d
        <5>2. Append(d, c)[1] = c
          BY <3>6, <5>1
        <5>3. c # ZeroChar
          <6> HIDE DEF q
          <6> QED BY <2>2, <3>1, <3>4, <4>1 DEF ZeroChar
        <5> QED BY <3>3, <5>2, <5>3
      <4>2. CASE q # 0
        <5>1. Len(d) > 0 /\ d[1] # ZeroChar
          BY <3>2, <4>2 DEF d
        <5>2. 1 \in 1 .. Len(d)
          BY <3>6, <5>1
        <5> QED BY <3>3, <3>6, <5>1, <5>2
      <4> QED BY <4>1, <4>2
    <3> HIDE DEF q
    <3> QED BY <3>5, <3>7, <3>8
  <2> QED BY <2>1, <2>2
<1>2. Nat \subseteq Good
  <2> HIDE DEF Good
  <2> QED BY <1>1, StrongInduction
<1> QED BY <1>2

\* The loop of str_to_uns carries the remainder of the value along: the next character
\* counts p, and the ones before it ten times as much.
LEMMA Carried ==
  ASSUME NEW h \in Int, NEW c \in Int, NEW p \in Int, NEW q \in Int, NEW u \in Int,
         NEW r \in Int, NEW next \in Int, h * 10 + c = u * r + next
  PROVE  (h * (10 * p) + u * q) + c * p = next * p + u * (r * p + q)
<1>1. h * (10 * p) + c * p = (h * 10 + c) * p
  OBVIOUS
<1>2. (u * r + next) * p = u * (r * p) + next * p
  OBVIOUS
<1>3. u * (r * p + q) = u * (r * p) + u * q
  OBVIOUS
<1> DEFINE A == h * (10 * p)
           B == c * p
           C == u * (r * p)
           D == next * p
           E == u * q
<1>4. A \in Int /\ B \in Int /\ C \in Int /\ D \in Int /\ E \in Int
  OBVIOUS
<1>5. A + B = C + D
  BY <1>1, <1>2
<1>6. (A + E) + B = D + (C + E)
  <2> HIDE DEF A, B, C, D, E
  <2> QED BY <1>4, <1>5
<1> QED BY <1>3, <1>6

\* str_to_uns adds up the values of the characters in their places.
LEMMA NumberIsValue ==
  ASSUME NEW text \in Seq(Int)
  PROVE  ValueOfText(text) = NumberOf(text)
<1> DEFINE n == Len(text)
           place == CHOOSE p : p = [k \in 0 .. n |-> IF k = 0 THEN 1 ELSE 10 * p[k - 1]]
           sum == CHOOSE s : s = [k \in 0 .. n |->
                    IF k = 0 THEN 0 ELSE s[k - 1] + (text[k] - ZeroChar) * place[n - k]]
           T == Int
           U == UIntValues
<1>1. n \in Nat /\ \A k \in 1 .. n : text[k] - ZeroChar \in Int
  BY LenProperties, ElementOfSeq DEF ZeroChar
<1>2. ValueOfText(text) = sum[n] % U
  BY DEF ValueOfText
<1> HIDE DEF n
<1>3. \A k \in 1 .. n : k \in 0 .. n /\ k - 1 \in 0 .. n /\ k # 0 /\ n - k \in 0 .. n
  BY <1>1
<1>4. /\ place[0] = 1 /\ \A k \in 0 .. n : place[k] \in Int
      /\ \A k \in 1 .. n : place[k] = 10 * place[k - 1]
  <2> DEFINE G == [k \in 1 .. n |-> [t \in T |-> 10 * t]]
  <2>1. Keeps(1 .. n, T, G) /\ 1 \in T
    BY DEF Keeps
  <2>2. \A k \in 1 .. n, t \in Int : G[k][t] = 10 * t
    OBVIOUS
  <2> HIDE DEF T, G
  <2>3. PICK run : Runs(n, T, 1, G, run)
    BY <1>1, <2>1, RunsExist
  <2>4. run \in [0 .. n -> Int] /\ run[0] = 1 /\ \A k \in 1 .. n : run[k] = 10 * run[k - 1]
    BY <1>3, <2>2, <2>3 DEF Runs, T
  <2>5. run = [k \in 0 .. n |-> IF k = 0 THEN 1 ELSE 10 * run[k - 1]]
    <3>1. \A k \in 0 .. n : k # 0 => k \in 1 .. n
      BY <1>1
    <3> QED BY <2>4, <3>1
  <2>6. place = [k \in 0 .. n |-> IF k = 0 THEN 1 ELSE 10 * place[k - 1]]
    BY <2>5
  <2> HIDE DEF place
  <2>7. place[0] = 1 /\ \A k \in 1 .. n : place[k] = 10 * place[k - 1]
    BY <1>1, <1>3, <2>6
  <2> DEFINE Typed == {k \in 0 .. n : place[k] \in Int}
  <2>8. 0 \in Typed
    BY <1>1, <2>7
  <2>9. \A k \in 0 .. n - 1 : k \in Typed => k + 1 \in Typed
    <3> SUFFICES ASSUME NEW k \in 0 .. n - 1, place[k] \in Int PROVE place[k + 1] \in Int
      BY <1>1
    <3>1. k + 1 \in 1 .. n /\ (k + 1) - 1 = k
      BY <1>1
    <3>2. place[k + 1] = 10 * place[k]
      BY <2>7, <3>1
    <3> QED BY <3>2
  <2>10. 0 .. n \subseteq Typed
    <3> HIDE DEF Typed
    <3> QED BY <1>1, <2>8, <2>9, BoundedInduction
  <2> QED BY <2>7, <2>10
<1> HIDE DEF place
<1> DEFINE term(k) == (text[k] - ZeroChar) * place[n - k]
<1>5. \A k \in 1 .. n : term(k) \in Int
  BY <1>1, <1>3, <1>4
<1>6. /\ sum[0] = 0 /\ \A k \in 1 .. n : sum[k] = sum[k - 1] + term(k)
  <2> DEFINE G == [k \in 1 .. n |-> [t \in T |-> t + term(k)]]
  <2>1. \A k \in 1 .. n, t \in Int : G[k][t] = t + term(k)
    OBVIOUS
  <2> HIDE DEF G, term
  <2>2. Keeps(1 .. n, T, G) /\ 0 \in T
    BY <1>5, <2>1 DEF Keeps
  <2> HIDE DEF T
  <2>3. PICK run : Runs(n, T, 0, G, run)
    BY <1>1, <2>2, RunsExist
  <2>4. run \in [0 .. n -> Int] /\ run[0] = 0 /\ \A k \in 1 .. n : run[k] = run[k - 1] + term(k)
    BY <1>3, <2>1, <2>3 DEF Runs, T
  <2>5. run = [k \in 0 .. n |-> IF k = 0 THEN 0 ELSE run[k - 1] + term(k)]
    <3>1. \A k \in 0 .. n : k # 0 => k \in 1 .. n
      BY <1>1
    <3> QED BY <2>4, <3>1
  <2>6. sum = [k \in 0 .. n |-> IF k = 0 THEN 0 ELSE sum[k - 1] + term(k)]
    BY <2>5 DEF term
  <2> HIDE DEF sum
  <2> QED BY <1>1, <1>3, <2>6
<1> HIDE DEF sum
<1>7. PICK h : Runs(n, UInt, 0, Turns(text), h) /\ NumberOf(text) = h[n]
  BY NumberRuns DEF n
<1> DEFINE Carry(k) == \E q \in Int : sum[k] = h[k] * place[n - k] + U * q
           Good == {k \in 0 .. n : Carry(k)}
<1>8. \A k \in 0 .. n : h[k] \in Int /\ h[k] \in UInt
  BY <1>7 DEF Runs, UInt
<1>9. U \in Nat \ {0}
  BY ConversionsAssumption
<1>10. 0 \in Good
  <2>1. h[0] = 0 /\ place[n - 0] \in Int /\ sum[0] = 0
    BY <1>1, <1>4, <1>6, <1>7 DEF Runs
  <2>2. 0 = 0 * place[n - 0] + U * 0
    BY <1>9, <2>1
  <2>3. Carry(0)
    BY <2>1, <2>2
  <2> HIDE DEF Carry
  <2> QED BY <1>1, <2>3
<1>11. ASSUME NEW k \in 0 .. n - 1, k \in Good PROVE k + 1 \in Good
  <2> DEFINE m == k + 1
             p == place[n - m]
             c == text[m] - ZeroChar
             r == (h[k] * 10 + c) \div U
  <2>1. m \in 1 .. n /\ m - 1 = k /\ k \in 0 .. n /\ n - k \in 1 .. n /\ (n - k) - 1 = n - m
        /\ n - m \in 0 .. n /\ m \in 0 .. n
    BY <1>1
  <2>2. PICK q \in Int : sum[k] = h[k] * place[n - k] + U * q
    BY <1>11
  <2>3. place[n - k] = 10 * p /\ p \in Int
    BY <1>4, <2>1
  <2>4. sum[m] = (h[k] * (10 * p) + U * q) + c * p
    BY <1>6, <2>1, <2>2, <2>3
  <2>5. c \in Int /\ h[k] \in Int
    BY <1>1, <1>8, <2>1
  <2>6. h[m] = (h[k] * 10 + c) % U
    <3>1. h[m] = Turns(text)[m][h[k]] /\ h[k] \in UInt
      BY <1>7, <1>8, <2>1 DEF Runs
    <3>2. h[m] = (h[k] * 10 + text[m] - ZeroChar) % U
      BY <2>1, <3>1 DEF Turns, Turned, n
    <3>3. h[k] * 10 + text[m] - ZeroChar = h[k] * 10 + c
      <4>1. text[m] \in Int
        BY <2>1, ElementOfSeq DEF n
      <4> QED BY <2>5, <4>1 DEF ZeroChar
    <3> QED BY <3>2, <3>3
  <2> HIDE DEF p, c, m
  <2>7. h[k] * 10 + c = U * r + h[m] /\ r \in Int /\ h[m] \in Int
    <3>1. \A x \in Int, u \in Nat \ {0} :
            x \div u \in Int /\ x % u \in Int /\ x = u * (x \div u) + (x % u)
      OBVIOUS
    <3>2. h[k] * 10 + c \in Int
      BY <2>5
    <3> HIDE DEF U
    <3> QED BY <1>9, <2>6, <3>1, <3>2
  <2>8. sum[m] = h[m] * p + U * (r * p + q)
    <3> HIDE DEF r, U
    <3>0. U \in Int
      BY <1>9
    <3>1. (h[k] * (10 * p) + U * q) + c * p = h[m] * p + U * (r * p + q)
      <4> DEFINE x == h[k]
                 y == h[m]
      <4>1. x \in Int /\ y \in Int /\ c \in Int /\ p \in Int /\ q \in Int /\ r \in Int
            /\ x * 10 + c = U * r + y
        BY <2>3, <2>5, <2>7
      <4> HIDE DEF x, y
      <4>2. (x * (10 * p) + U * q) + c * p = y * p + U * (r * p + q)
        BY ONLY <3>0, <4>1, Carried, q \in Int
      <4> QED BY <4>2 DEF x, y
    <3> QED BY <2>4, <3>1
  <2>9. r * p + q \in Int
    BY <2>3, <2>7
  <2>10. Carry(m)
    BY <2>8, <2>9 DEF p
  <2> HIDE DEF Carry
  <2> QED BY <2>1, <2>10 DEF m
<1>12. n \in Good
  <2>1. \A k \in 0 .. n - 1 : k \in Good => k + 1 \in Good
    BY <1>11
  <2> HIDE DEF Good
  <2>2. 0 .. n \subseteq Good
    BY <1>1, <1>10, <2>1, BoundedInduction
  <2> QED BY <1>1, <2>2
<1>13. PICK q \in Int : sum[n] = h[n] * place[n - n] + U * q
  BY <1>12
<1>14. sum[n] = U * q + h[n]
  <2>1. n - n = 0 /\ h[n] \in Int
    BY <1>1, <1>8
  <2>2. h[n] * 1 = h[n]
    BY <2>1
  <2> QED BY <1>4, <1>9, <1>13, <2>1, <2>2
<1>15. (U * q + h[n]) % U = h[n]
  <2>1. h[n] \in 0 .. U - 1
    BY <1>1, <1>8 DEF UInt
  <2> HIDE DEF U
  <2> QED BY <1>9, <2>1, DivisionUnique
<1> QED BY <1>2, <1>7, <1>14, <1>15

\* What is printed for a number.
Printed(val) == print_string(uns_to_str(val).buffer)

\* It is digits, with no zero in front, that are read as the number.
LEMMA PrintedReads ==
  ASSUME NEW val \in UInt
  PROVE  /\ Printed(val) \in Seq(DigitChars) /\ Printed(val) \in Seq(Int)
         /\ Len(Printed(val)) > 0
         /\ Len(Printed(val)) > 1 => Printed(val)[1] # ZeroChar
         /\ NumberOf(Printed(val)) = val
         /\ str_to_uns(Append(Printed(val), NUL)) = val
<1> DEFINE text == IF val = 0 THEN <<ZeroChar>> ELSE Digits(val)
<1>1. val \in Nat /\ DigitChars \subseteq Int /\ \A c \in DigitChars : c # NUL
  BY ConversionsAssumption DEF UInt, DigitChars, ZeroChar, NUL
<1>2. ASSUME val = 0
      PROVE  /\ text \in Seq(DigitChars) /\ Len(text) = 1 /\ NumberOf(text) = val
             /\ uns_to_str(val).buffer = Append(text, NUL)
  <2>1. text = <<ZeroChar>> /\ text = Append(<<>>, ZeroChar)
    BY <1>2
  <2>2. text \in Seq(DigitChars) /\ Len(text) = 1
    <3>1. ZeroChar \in DigitChars
      BY DEF DigitChars, ZeroChar
    <3> HIDE DEF text
    <3> QED BY <2>1, <3>1
  <2>3. NumberOf(text) = 0
    <3>1. <<>> \in Seq(Int) /\ ZeroChar \in Int
      BY DEF ZeroChar
    <3>2. NumberOf(text) = Turned(0, ZeroChar)
      BY <2>1, <3>1, NumberOfLonger, NumberOfText
    <3>3. Turned(0, ZeroChar) = 0
      BY ConversionsAssumption DEF Turned, ZeroChar
    <3> QED BY <3>2, <3>3
  <2>4. uns_to_str(val).buffer = Append(text, NUL)
    BY <1>2, <2>1 DEF uns_to_str
  <2> QED BY <1>2, <2>2, <2>3, <2>4
<1>3. ASSUME val # 0
      PROVE  /\ text \in Seq(DigitChars) /\ Len(text) > 0 /\ text[1] # ZeroChar
             /\ NumberOf(text) = val
             /\ uns_to_str(val).buffer = Append(text, NUL)
  <2>1. text = Digits(val)
    BY <1>3
  <2>2. uns_to_str(val).buffer = Append(text, NUL)
    BY <1>3, <2>1 DEF uns_to_str, Digits
  <2> QED BY <1>1, <1>3, <2>1, <2>2, LastDigit, DigitsRead
<1> HIDE DEF text
<1>4. /\ text \in Seq(DigitChars) /\ Len(text) > 0 /\ NumberOf(text) = val
      /\ Len(text) > 1 => text[1] # ZeroChar
      /\ uns_to_str(val).buffer = Append(text, NUL)
  BY <1>2, <1>3
<1>5. text \in Seq(Int) /\ \A k \in 1 .. Len(text) : text[k] # NUL
  BY <1>1, <1>4, SeqMonotonic, ElementOfSeq
<1>6. Printed(val) = text
  BY <1>4, <1>5, TextBeforeNul DEF Printed
<1> QED BY <1>4, <1>5, <1>6, TextBeforeNul

-----------------------------------------------------------------------------
(***************************************************************************)
(* The sieve.                                                              *)
(***************************************************************************)

\* What divides a divisor divides the number.
LEMMA DividesTransitive ==
  ASSUME NEW d \in Nat \ {0}, NEW p \in Nat \ {0}, NEW n \in Nat, Divides(d, p), Divides(p, n)
  PROVE  Divides(d, n)
<1>1. p = d * (p \div d) /\ p \div d \in Int /\ n = p * (n \div p) /\ n \div p \in Int
  BY DivisionExact DEF Divides
<1>2. n = d * ((p \div d) * (n \div p)) /\ (p \div d) * (n \div p) \in Int
  <2> DEFINE a == p \div d
             b == n \div p
  <2>1. a \in Int /\ b \in Int /\ p = d * a /\ n = p * b
    BY <1>1
  <2> HIDE DEF a, b
  <2>2. (d * a) * b = d * (a * b) /\ a * b \in Int
    BY <2>1
  <2>3. n = d * (a * b)
    BY <2>1, <2>2
  <2> QED BY <2>2, <2>3 DEF a, b
<1> QED BY <1>2, DivisionExact DEF Divides

\* Of two multiples the larger one is larger by d at least.
LEMMA MultiplesApart ==
  ASSUME NEW d \in Nat \ {0}, NEW m \in Nat, NEW n \in Nat, Divides(d, m), Divides(d, n), m < n
  PROVE  m + d <= n
<1> DEFINE a == m \div d
           b == n \div d
<1>1. m = d * a /\ a \in Int /\ n = d * b /\ b \in Int
  BY DivisionExact DEF Divides
<1> HIDE DEF a, b
<1>2. n - m = d * (b - a)
  BY <1>1
<1>3. b - a >= 1
  <2>1. SUFFICES ASSUME b - a <= 0 PROVE FALSE
    BY <1>1
  <2>2. d * (b - a) <= 0
    BY <1>1, <2>1
  <2> QED BY <1>2, <2>2
<1>4. d * (b - a) >= d
  BY <1>1, <1>3
<1> QED BY <1>2, <1>4

\* A sum of multiples is one.
LEMMA MultiplesAdd ==
  ASSUME NEW d \in Nat \ {0}, NEW m \in Nat, Divides(d, m)
  PROVE  Divides(d, m + d) /\ Divides(d, d) /\ Divides(d, 0)
<1>1. m = d * (m \div d) /\ m \div d \in Int
  BY DivisionExact DEF Divides
<1>2. m + d = d * (m \div d + 1) /\ m \div d + 1 \in Int
  <2> DEFINE a == m \div d
  <2>1. m = d * a /\ a \in Int
    BY <1>1
  <2> HIDE DEF a
  <2>2. m + d = d * (a + 1) /\ a + 1 \in Int
    BY <2>1
  <2> QED BY <2>2 DEF a
<1>3. d = d * 1 /\ 0 = d * 0 /\ 1 \in Int /\ 0 \in Int
  OBVIOUS
<1>4. \A n \in Int : \A k \in Int : n = d * k => Divides(d, n)
  BY DivisionExact DEF Divides
<1>5. m + d \in Int /\ d \in Int
  OBVIOUS
<1> QED BY <1>2, <1>3, <1>4, <1>5

\* Every number from 2 on has a prime divisor.
LEMMA PrimeDivisor ==
  ASSUME NEW n \in Nat, n >= 2
  PROVE  \E p \in Primes(n + 1) : Divides(p, n)
<1> DEFINE T == {d \in 2 .. n : Divides(d, n)}
<1>1. n \in T
  <2>1. n \in Nat \ {0} /\ n \in 2 .. n /\ 0 \in Nat
    OBVIOUS
  <2>2. Divides(n, n)
    BY <2>1, DivisionExact DEF Divides
  <2> QED BY <2>1, <2>2
<1>2. PICK p \in T : \A d \in T : p <= d
  <2>1. T \in SUBSET Nat /\ T # {}
    BY <1>1
  <2> HIDE DEF T
  <2> QED BY <2>1, LeastElement
<1>3. p \in 2 .. n /\ Divides(p, n)
  OBVIOUS
<1>4. ASSUME NEW d \in 2 .. p - 1, Divides(d, p) PROVE FALSE
  <2>1. d \in Nat \ {0} /\ p \in Nat \ {0} /\ d \in 2 .. n /\ d < p
    BY <1>3
  <2>2. Divides(d, n)
    BY <1>3, <1>4, <2>1, DividesTransitive
  <2>3. d \in T
    BY <2>1, <2>2
  <2>4. p <= d
    <3> HIDE DEF T
    <3> QED BY <1>2, <2>3
  <2> QED BY <1>3, <2>1, <2>4
<1>5. p \in 2 .. (n + 1) - 1
  BY <1>3
<1> QED BY <1>3, <1>4, <1>5 DEF Primes

\* The next number is a prime unless a smaller prime divides it.
LEMMA PrimesGrow ==
  ASSUME NEW n \in Nat, n >= 2
  PROVE  /\ (\E p \in Primes(n) : Divides(p, n)) => Primes(n + 1) = Primes(n)
         /\ (~\E p \in Primes(n) : Divides(p, n)) => Primes(n + 1) = Primes(n) \cup {n}
<1>1. ASSUME NEW p
      PROVE  p \in Primes(n + 1) <=> \/ p \in Primes(n)
                                     \/ p = n /\ \A d \in 2 .. n - 1 : ~Divides(d, n)
  BY DEF Primes
<1>2. n \notin Primes(n) /\ \A p \in Primes(n) : p \in 2 .. n - 1
  BY DEF Primes
<1>3. ASSUME NEW d \in 2 .. n - 1, Divides(d, n) PROVE \E p \in Primes(n) : Divides(p, n)
  <2>1. d \in Nat /\ d >= 2 /\ d + 1 <= n
    OBVIOUS
  <2>2. PICK p \in Primes(d + 1) : Divides(p, d)
    BY <2>1, PrimeDivisor
  <2>3. p \in 2 .. (d + 1) - 1 /\ \A e \in 2 .. p - 1 : ~Divides(e, p)
    BY DEF Primes
  <2>4. p \in 2 .. n - 1 /\ p \in Nat \ {0} /\ d \in Nat \ {0}
    BY <2>1, <2>3
  <2>5. p \in Primes(n)
    BY <2>3, <2>4 DEF Primes
  <2>6. Divides(p, n)
    BY <1>3, <2>2, <2>4, DividesTransitive
  <2> QED BY <2>5, <2>6
<1> QED BY <1>1, <1>2, <1>3

\* What is crossed out, and what is printed, of the loops' numbers so far.
Crossing(n) == \/ \E p \in Primes(i) : Divides(p, n)
               \/ j > 0 /\ Divides(i, n) /\ n < j
Seen == Primes(IF j > 0 THEN i + 1 ELSE i)
Value(text) == str_to_uns(Append(text, NUL))

Crosses == \A n \in 2 .. max - 1 : numbers[n] = 0 <=> Crossing(n)

\* The texts are the numbers seen, in ascending order.
Lists(texts, S) ==
  /\ \A k \in 1 .. Len(texts) : Value(texts[k]) \in {1} \cup S
  /\ \A p \in {1} \cup S : \E k \in 1 .. Len(texts) : Value(texts[k]) = p
  /\ \A k \in 1 .. Len(texts) - 1 : Value(texts[k]) < Value(texts[k + 1])

SieveTypeOK ==
  /\ max \in Limits
  /\ numbers \in [0 .. max - 1 -> {0, 1}]
  /\ i \in Nat /\ i >= 2 /\ (i > max => i = 2 /\ max = 1)
  /\ j \in Nat
  /\ primes \in Seq(Seq(Int))

\* In the inner loop i is a prime and j one of its multiples.
InnerLoop == j > 0 => i < max /\ i \in Primes(i + 1) /\ i <= j /\ Divides(i, j)

SieveInv == SieveTypeOK /\ InnerLoop /\ Crosses /\ Lists(primes, Seen)

\* The size of the sieve is a number, and an unsigned one.
LEMMA SizeOfSieve == \A m \in Limits : m \in Nat /\ m >= 1 /\ m <= UIntValues
  BY SieveAssumption, ConversionsAssumption

\* No number is below 2, and the primes below a number are.
LEMMA PrimesBelow ==
  /\ Primes(1) = {} /\ Primes(2) = {}
  /\ \A n \in Nat : \A p \in Primes(n) : p \in Nat /\ 2 <= p /\ p < n
  BY DEF Primes

\* The invariant is what the property says.
LEMMA SieveInvMeans == SieveInv => CrossesOutMultiples
<1> SUFFICES ASSUME SieveInv PROVE CrossesOutMultiples
  OBVIOUS
<1>1. PrimesPassed = Seen
  <2>1. CASE i > max
    <3>1. i = 2 /\ max = 1 /\ ~(j > 0)
      BY <2>1 DEF SieveInv, SieveTypeOK, InnerLoop
    <3> QED BY <2>1, <3>1, PrimesBelow DEF PrimesPassed, Seen
  <2>2. CASE ~(i > max)
    BY <2>2 DEF PrimesPassed, Seen
  <2> QED BY <2>1, <2>2
<1>2. ASSUME NEW n \in 2 .. max - 1
      PROVE  (numbers[n] = 0) = \/ \E p \in Primes(i) : Divides(p, n)
                                \/ j > 0 /\ Divides(i, n) /\ n < j
  <2>1. (numbers[n] = 0) <=> Crossing(n)
    BY DEF SieveInv, Crosses
  <2> QED BY <2>1 DEF Crossing
<1> DEFINE printed == [k \in DOMAIN primes |-> str_to_uns(Append(primes[k], NUL))]
<1>3. /\ DOMAIN primes = 1 .. Len(primes) /\ Len(primes) \in Nat
      /\ DOMAIN printed = DOMAIN primes
      /\ printed \in Seq({printed[k] : k \in DOMAIN primes}) /\ Len(printed) = Len(primes)
  <2>1. DOMAIN primes = 1 .. Len(primes) /\ Len(primes) \in Nat
    BY LenProperties DEF SieveInv, SieveTypeOK
  <2>2. printed = [k \in 1 .. Len(primes) |-> Value(primes[k])]
    BY <2>1 DEF Value
  <2> HIDE DEF printed
  <2> QED BY <2>1, <2>2
<1>4. \A k \in 1 .. Len(primes) : printed[k] = Value(primes[k])
  BY <1>3 DEF Value
<1>5. Lists(primes, PrimesPassed)
  BY <1>1 DEF SieveInv
<1> HIDE DEF printed
<1>6. ToSet(printed) = {1} \cup PrimesPassed
  <2>1. \A x : x \in ToSet(printed) <=> \E k \in 1 .. Len(primes) : x = Value(primes[k])
    BY <1>3, <1>4 DEF ToSet
  <2>2. \A x : x \in {1} \cup PrimesPassed <=> \E k \in 1 .. Len(primes) : x = Value(primes[k])
    <3> HIDE DEF Value
    <3> QED BY <1>5, Zenon DEF Lists
  <2> QED BY <2>1, <2>2, Zenon
<1>7. \A k \in 1 .. Len(printed) - 1 : printed[k] < printed[k + 1]
  <2> SUFFICES ASSUME NEW k \in 1 .. Len(primes) - 1 PROVE printed[k] < printed[k + 1]
    BY <1>3
  <2>1. k \in 1 .. Len(primes) /\ k + 1 \in 1 .. Len(primes)
    BY <1>3
  <2> QED BY <1>4, <1>5, <2>1 DEF Lists
<1> QED BY <1>2, <1>6, <1>7 DEF CrossesOutMultiples, printed

\* Before the loops only the 1 has been printed.
LEMMA SieveInit == EratInit => SieveInv
<1> SUFFICES ASSUME EratInit PROVE SieveInv
  OBVIOUS
<1>1. max \in Nat /\ max >= 1 /\ i = 2 /\ j = 0 /\ primes = <<<<ZeroChar + 1>>>>
  BY SizeOfSieve DEF EratInit
<1>2. SieveTypeOK
  <2>1. <<ZeroChar + 1>> \in Seq(Int)
    BY DEF ZeroChar
  <2>2. primes \in Seq(Seq(Int))
    BY <1>1, <2>1
  <2> QED BY <1>1, <2>2 DEF EratInit, SieveTypeOK
<1>3. InnerLoop
  BY <1>1 DEF InnerLoop
<1>4. Crosses
  <2>1. \A n \in 2 .. max - 1 : numbers[n] = 1
    BY <1>1 DEF EratInit
  <2> QED BY <1>1, <2>1, PrimesBelow DEF Crosses, Crossing
<1>5. Lists(primes, Seen)
  <2>1. Seen = {}
    BY <1>1, PrimesBelow DEF Seen
  <2>2. Len(primes) = 1 /\ primes[1] = <<ZeroChar + 1>>
    BY <1>1
  <2>3. Value(<<ZeroChar + 1>>) = 1
    <3> DEFINE text == <<ZeroChar + 1>>
    <3>1. /\ text = Append(<<>>, ZeroChar + 1) /\ text \in Seq(Int) /\ Len(text) = 1
          /\ text[1] = ZeroChar + 1 /\ ZeroChar + 1 \in Int /\ ZeroChar + 1 # NUL
          /\ <<>> \in Seq(Int)
      BY DEF ZeroChar, NUL
    <3>2. NumberOf(text) = Turned(0, ZeroChar + 1)
      BY <3>1, NumberOfLonger, NumberOfText
    <3>3. Turned(0, ZeroChar + 1) = 1
      BY ConversionsAssumption DEF Turned, ZeroChar
    <3> HIDE DEF text
    <3>4. \A k \in 1 .. Len(text) : text[k] # NUL
      BY <3>1
    <3>5. str_to_uns(Append(text, NUL)) = NumberOf(text)
      <4>1. text \in Seq(Int) /\ Len(text) > 0
        BY <3>1
      <4> QED BY <3>4, <4>1, TextBeforeNul
    <3> QED BY <3>2, <3>3, <3>5 DEF Value, text
  <2> HIDE DEF Value
  <2> QED BY <2>1, <2>2, <2>3 DEF Lists
<1> QED BY <1>2, <1>3, <1>4, <1>5 DEF SieveInv

\* A step keeps the size, the type of the array and the numbers' own ranges.
LEMMA SieveTypeKept == SieveInv /\ EratNext => SieveTypeOK' /\ max' = max
<1> SUFFICES ASSUME SieveInv, EratNext PROVE SieveTypeOK' /\ max' = max
  OBVIOUS
<1> USE DEF SieveInv, SieveTypeOK, InnerLoop
<1>1. max' = max /\ max \in Nat /\ max <= UIntValues
  BY SizeOfSieve DEF EratNext, Skip, PrintPrime, CrossOut, CrossedOut
<1>2. numbers' \in [0 .. max - 1 -> {0, 1}]
  BY DEF EratNext, Skip, PrintPrime, CrossOut, CrossedOut
<1>3. i' \in Nat /\ i' >= 2 /\ (i' > max => i' = 2 /\ max = 1)
  BY <1>1 DEF EratNext, Skip, PrintPrime, CrossOut, CrossedOut
<1>4. j' \in Nat
  BY <1>1 DEF EratNext, Skip, PrintPrime, CrossOut, CrossedOut
<1>5. primes' \in Seq(Seq(Int))
  <2>1. CASE PrintPrime
    <3>0. i \in Nat /\ i < max
      BY <2>1 DEF PrintPrime
    <3>1. i \in UInt
      BY <1>1, <3>0, ConversionsAssumption DEF UInt
    <3>2. Printed(i) \in Seq(Int)
      BY <3>1, PrintedReads
    <3>3. primes' = Append(primes, Printed(i))
      BY <2>1 DEF PrintPrime, Printed
    <3> QED BY <3>2, <3>3, AppendProperties
  <2>2. CASE ~PrintPrime
    BY <2>2 DEF EratNext, Skip, CrossOut, CrossedOut
  <2> QED BY <2>1, <2>2
<1> QED BY <1>1, <1>2, <1>3, <1>4, <1>5

\* A number that is crossed out is no prime.
LEMMA SkipHolds == SieveInv /\ Skip => InnerLoop' /\ Crosses' /\ Lists(primes, Seen)'
<1> SUFFICES ASSUME SieveInv, Skip PROVE InnerLoop' /\ Crosses' /\ Lists(primes, Seen)'
  OBVIOUS
<1>1. /\ i \in 2 .. max - 1 /\ i \in Nat /\ i >= 2 /\ j = 0 /\ numbers[i] = 0 /\ i' = i + 1
      /\ max' = max /\ numbers' = numbers /\ j' = j /\ primes' = primes /\ ~(j > 0)
  BY SizeOfSieve DEF SieveInv, SieveTypeOK, Skip
<1>2. Primes(i + 1) = Primes(i)
  <2>1. Crossing(i)
    BY <1>1 DEF SieveInv, Crosses
  <2> QED BY <1>1, <2>1, PrimesGrow DEF Crossing
<1>3. Primes(i)' = Primes(i) /\ Seen' = Seen
  BY <1>1, <1>2 DEF Seen, Primes
<1>4. InnerLoop'
  BY <1>1 DEF InnerLoop
<1>5. \A n : Crossing(n)' <=> Crossing(n)
  BY <1>1, <1>3 DEF Crossing
<1>6. Crosses'
  BY <1>1, <1>5 DEF SieveInv, Crosses
<1>7. Lists(primes, Seen)'
  BY <1>1, <1>3 DEF SieveInv, Lists, Value
<1> QED BY <1>4, <1>6, <1>7

\* One more text makes the list longer by its number.
LEMMA ListGrows ==
  ASSUME NEW texts \in Seq(Seq(Int)), NEW text \in Seq(Int), NEW S \in SUBSET Nat,
         Lists(texts, S), Value(text) \in Nat,
         \A p \in {1} \cup S : p < Value(text)
  PROVE  Lists(Append(texts, text), S \cup {Value(text)})
<1> DEFINE n == Len(texts)
           longer == Append(texts, text)
           all == {1} \cup S
           v == Value(text)
<1>1. /\ n \in Nat /\ Len(longer) = n + 1 /\ longer[n + 1] = text
      /\ \A k \in 1 .. n : longer[k] = texts[k]
  BY LenProperties, AppendProperties
<1>2. /\ \A k \in 1 .. n : Value(texts[k]) \in all
      /\ \A p \in all : \E k \in 1 .. n : Value(texts[k]) = p
      /\ \A k \in 1 .. n - 1 : Value(texts[k]) < Value(texts[k + 1])
  BY DEF Lists
<1> HIDE DEF n, longer, Value
<1>3. \A k \in 1 .. n + 1 : k = n + 1 \/ k \in 1 .. n
  BY <1>1
<1>4. \A k \in 1 .. n + 1 : Value(longer[k]) \in {1} \cup (S \cup {v})
  BY <1>1, <1>2, <1>3
<1>5. \A p \in {1} \cup (S \cup {v}) : \E k \in 1 .. n + 1 : Value(longer[k]) = p
  <2> SUFFICES ASSUME NEW p \in {1} \cup (S \cup {v})
               PROVE  \E k \in 1 .. n + 1 : Value(longer[k]) = p
    OBVIOUS
  <2>1. CASE p = v
    <3>1. n + 1 \in 1 .. n + 1
      BY <1>1
    <3> QED BY <1>1, <2>1, <3>1
  <2>2. CASE p \in all
    <3>1. PICK k \in 1 .. n : Value(texts[k]) = p
      BY <1>2, <2>2
    <3>2. k \in 1 .. n + 1
      BY <1>1
    <3> QED BY <1>1, <3>1, <3>2
  <2> QED BY <2>1, <2>2
<1>6. ASSUME NEW k \in 1 .. (n + 1) - 1 PROVE Value(longer[k]) < Value(longer[k + 1])
  <2>1. k \in 1 .. n /\ (k = n \/ (k \in 1 .. n - 1 /\ k + 1 \in 1 .. n))
    BY <1>1
  <2>2. CASE k = n
    BY <1>1, <1>2, <2>1, <2>2
  <2>3. CASE k \in 1 .. n - 1 /\ k + 1 \in 1 .. n
    BY <1>1, <1>2, <2>1, <2>3
  <2> QED BY <2>1, <2>2, <2>3
<1> QED BY <1>1, <1>4, <1>5, <1>6 DEF Lists, longer

\* A number that is not crossed out is a prime, and is printed.
LEMMA PrintHolds == SieveInv /\ PrintPrime => InnerLoop' /\ Crosses' /\ Lists(primes, Seen)'
<1> SUFFICES ASSUME SieveInv, PrintPrime PROVE InnerLoop' /\ Crosses' /\ Lists(primes, Seen)'
  OBVIOUS
<1>1. /\ i \in 2 .. max - 1 /\ i \in Nat \ {0} /\ i \in Nat /\ i >= 2 /\ j = 0 /\ numbers[i] = 1
      /\ max' = max /\ numbers' = numbers /\ j' = i /\ i' = i /\ ~(j > 0) /\ j' > 0
      /\ primes' = Append(primes, Printed(i)) /\ i \in UInt /\ max \in Nat
  BY SizeOfSieve DEF SieveInv, SieveTypeOK, PrintPrime, Printed, UInt
<1>2. Primes(i + 1) = Primes(i) \cup {i}
  <2>1. ~Crossing(i)
    BY <1>1 DEF SieveInv, Crosses
  <2> QED BY <1>1, <2>1, PrimesGrow DEF Crossing
<1>3. Primes(i)' = Primes(i) /\ Seen' = Primes(i) \cup {i} /\ Seen = Primes(i)
  BY <1>1, <1>2 DEF Seen, Primes
<1>4. InnerLoop'
  <2>1. Divides(i, i)
    BY <1>1, MultiplesAdd DEF Divides
  <2>2. i' \in Primes(i' + 1)
    BY <1>1, <1>2
  <2>3. i' < max' /\ i' <= j' /\ Divides(i', j')
    BY <1>1, <2>1
  <2> QED BY <2>2, <2>3 DEF InnerLoop, Primes, Divides
<1>5. ASSUME NEW n \in 2 .. max - 1 PROVE Crossing(n)' <=> Crossing(n)
  <2>1. ASSUME Divides(i, n), n < i PROVE FALSE
    <3>1. n \in Nat /\ 0 \in Nat /\ 0 < n
      BY <1>1
    <3>2. Divides(i, 0)
      BY <1>1, <2>1, <3>1, MultiplesAdd
    <3>3. 0 + i <= n
      BY <1>1, <2>1, <3>1, <3>2, MultiplesApart
    <3> QED BY <1>1, <2>1, <3>1, <3>3
  <2>2. Crossing(n) <=> \E p \in Primes(i) : Divides(p, n)
    BY <1>1 DEF Crossing
  <2>3. Crossing(n)' <=> (\E p \in Primes(i) : Divides(p, n)) \/ (Divides(i, n) /\ n < i)
    BY <1>1, <1>3 DEF Crossing, Divides
  <2> QED BY <2>1, <2>2, <2>3
<1>6. Crosses'
  BY <1>1, <1>5 DEF SieveInv, Crosses
<1>7. Lists(primes, Seen)'
  <2>1. Value(Printed(i)) = i /\ Printed(i) \in Seq(Int)
    BY <1>1, PrintedReads DEF Value
  <2>2. Primes(i) \in SUBSET Nat /\ \A p \in {1} \cup Primes(i) : p < i
    BY <1>1, PrimesBelow
  <2>3. Lists(primes, Primes(i)) /\ primes \in Seq(Seq(Int))
    BY <1>3 DEF SieveInv, SieveTypeOK
  <2>4. Lists(Append(primes, Printed(i)), Primes(i) \cup {i})
    BY <1>1, <2>1, <2>2, <2>3, ListGrows
  <2> QED BY <1>1, <1>3, <2>4 DEF Lists, Value
<1> QED BY <1>4, <1>6, <1>7

\* The inner loop takes the next multiple.
LEMMA CrossOutHolds == SieveInv /\ CrossOut => InnerLoop' /\ Crosses' /\ Lists(primes, Seen)'
<1> SUFFICES ASSUME SieveInv, CrossOut PROVE InnerLoop' /\ Crosses' /\ Lists(primes, Seen)'
  OBVIOUS
<1>1. /\ i \in Nat \ {0} /\ i >= 2 /\ j \in Nat /\ j > 0 /\ j < max /\ i < max
      /\ i \in Primes(i + 1) /\ i <= j /\ Divides(i, j)
      /\ max' = max /\ i' = i /\ primes' = primes /\ j' = j + i /\ j' > 0
      /\ numbers' = [numbers EXCEPT ![j] = 0] /\ max \in Nat
      /\ numbers \in [0 .. max - 1 -> {0, 1}]
  BY SizeOfSieve DEF SieveInv, SieveTypeOK, InnerLoop, CrossOut
<1>2. Primes(i)' = Primes(i) /\ Seen' = Seen
  BY <1>1 DEF Seen, Primes
<1>3. InnerLoop'
  <2>1. Divides(i, j + i)
    BY <1>1, MultiplesAdd
  <2>2. i' < max' /\ (i \in Primes(i + 1))' /\ i' <= j' /\ Divides(i, j)'
    BY <1>1, <2>1 DEF Divides, Primes
  <2> QED BY <2>2 DEF InnerLoop
<1>4. ASSUME NEW n \in 2 .. max - 1
      PROVE  Crossing(n)' <=> Crossing(n) \/ n = j
  <2>1. n \in Nat
    BY <1>1
  <2>2. ASSUME Divides(i, n), n < j + i, n # j PROVE n < j
    <3>1. SUFFICES ASSUME j < n PROVE FALSE
      BY <1>1, <2>1, <2>2
    <3>2. j + i <= n
      BY <1>1, <2>1, <2>2, <3>1, MultiplesApart
    <3> QED BY <1>1, <2>1, <2>2, <3>2
  <2>3. Crossing(n)' <=> (\E p \in Primes(i) : Divides(p, n)) \/ (Divides(i, n) /\ n < j + i)
    BY <1>1, <1>2 DEF Crossing, Divides
  <2>4. Crossing(n) <=> (\E p \in Primes(i) : Divides(p, n)) \/ (Divides(i, n) /\ n < j)
    BY <1>1 DEF Crossing
  <2>5. n < j => n < j + i
    BY <1>1, <2>1
  <2>6. n = j => Divides(i, n) /\ n < j + i
    BY <1>1
  <2> QED BY <2>2, <2>3, <2>4, <2>5, <2>6
<1>5. \A n \in 2 .. max - 1 : numbers'[n] = 0 <=> numbers[n] = 0 \/ n = j
  BY <1>1
<1>6. Crosses'
  BY <1>1, <1>4, <1>5 DEF SieveInv, Crosses
<1>7. Lists(primes, Seen)'
  BY <1>1, <1>2 DEF SieveInv, Lists, Value
<1> QED BY <1>3, <1>6, <1>7

\* The inner loop has crossed out every multiple: the prime is one of the smaller ones.
LEMMA CrossedOutHolds == SieveInv /\ CrossedOut => InnerLoop' /\ Crosses' /\ Lists(primes, Seen)'
<1> SUFFICES ASSUME SieveInv, CrossedOut PROVE InnerLoop' /\ Crosses' /\ Lists(primes, Seen)'
  OBVIOUS
<1>1. /\ j >= max /\ j \in Nat /\ max \in Nat /\ max >= 1 /\ j > 0 /\ i \in Nat /\ i >= 2
      /\ i \in Primes(i + 1) /\ max' = max /\ numbers' = numbers /\ primes' = primes
      /\ i' = i + 1 /\ j' = 0 /\ ~(j' > 0)
  BY SizeOfSieve DEF SieveInv, SieveTypeOK, InnerLoop, CrossedOut
<1>2. Primes(i + 1) = Primes(i) \cup {i}
  BY <1>1, PrimesGrow, PrimesBelow
<1>3. Primes(i)' = Primes(i) \cup {i} /\ Seen' = Seen
  BY <1>1, <1>2 DEF Seen, Primes
<1>4. InnerLoop'
  BY <1>1 DEF InnerLoop
<1>5. ASSUME NEW n \in 2 .. max - 1 PROVE Crossing(n)' <=> Crossing(n)
  <2>1. n < j
    BY <1>1
  <2>2. Crossing(n)' <=> \E p \in Primes(i) \cup {i} : Divides(p, n)
    BY <1>1, <1>3 DEF Crossing, Divides
  <2>3. Crossing(n) <=> (\E p \in Primes(i) : Divides(p, n)) \/ Divides(i, n)
    BY <1>1, <2>1 DEF Crossing
  <2> QED BY <2>2, <2>3
<1>6. Crosses'
  BY <1>1, <1>5 DEF SieveInv, Crosses
<1>7. Lists(primes, Seen)'
  BY <1>1, <1>3 DEF SieveInv, Lists, Value
<1> QED BY <1>4, <1>6, <1>7

\* Every step of the sieve keeps the invariant, and so does a step of the other program.
LEMMA SieveNext == SieveInv /\ (EratNext \/ UNCHANGED eratVars) => SieveInv'
<1> SUFFICES ASSUME SieveInv, EratNext \/ UNCHANGED eratVars PROVE SieveInv'
  OBVIOUS
<1>1. CASE EratNext
  <2>1. InnerLoop' /\ Crosses' /\ Lists(primes, Seen)'
    BY <1>1, SkipHolds, PrintHolds, CrossOutHolds, CrossedOutHolds DEF EratNext
  <2> QED BY <1>1, <2>1, SieveTypeKept DEF SieveInv
<1>2. CASE UNCHANGED eratVars
  <2>1. max' = max /\ numbers' = numbers /\ i' = i /\ j' = j /\ primes' = primes
    BY <1>2 DEF eratVars
  <2>2. SieveTypeOK' /\ InnerLoop'
    BY <2>1 DEF SieveInv, SieveTypeOK, InnerLoop, Primes, Divides
  <2>3. Primes(i)' = Primes(i) /\ Seen' = Seen
    BY <2>1 DEF Seen, Primes
  <2>4. Crosses'
    BY <2>1, <2>3 DEF SieveInv, Crosses, Crossing, Divides
  <2>5. Lists(primes, Seen)'
    BY <2>1, <2>3 DEF SieveInv, Lists, Value
  <2> QED BY <2>2, <2>4, <2>5 DEF SieveInv
<1> QED BY <1>1, <1>2

\* erat.c:12-19: before a number is looked at, exactly the multiples of the smaller primes
\* are crossed out, and the texts printed are, in ascending order, the primes passed.
THEOREM PrimesListed == Spec => []CrossesOutMultiples
<1>1. Init => SieveInv
  BY SieveInit DEF Init
<1>2. SieveInv /\ [Next]_benchmarkVars => SieveInv'
  BY SieveNext DEF Next, benchmarkVars
<1> QED BY <1>1, <1>2, SieveInvMeans, PTL DEF Spec

-----------------------------------------------------------------------------
(***************************************************************************)
(* The argument of fib, as it lies in memory.                              *)
(***************************************************************************)

\* Sequences one after the other begin with the first one, and the second one follows.
LEMMA Flattened ==
  ASSUME NEW S, NEW seqs \in Seq(Seq(S)), seqs # <<>>
  PROVE  /\ Len(seqs) = 1 => FlattenSeq(seqs) = seqs[1]
         /\ \E rest \in Seq(S) : FlattenSeq(seqs) = seqs[1] \o rest
         /\ Len(seqs) > 1 =>
              \E rest \in Seq(S) : FlattenSeq(seqs) = (seqs[1] \o seqs[2]) \o rest
<1> DEFINE n == Len(seqs)
           D == 1 .. n
           T == Seq(S)
           G == [k \in D |-> [f \in [D -> T] |-> IF k = 1 THEN seqs[k] ELSE f[k - 1] \o seqs[k]]]
<1>1. n \in Nat \ {0} /\ \A k \in D : seqs[k] \in Seq(S)
  BY EmptySeq, ElementOfSeq
<1>2. \A k \in D : k # 1 => k - 1 \in D /\ k - 1 < k
  BY <1>1
<1>3. \A s, t \in T : s \o t \in T
  BY ConcatProperties
<1>15. \A s, t, u \in T : (s \o t) \o u = s \o (t \o u)
  <2> TAKE s, t, u \in T
  <2>1. s \in Seq(S) /\ t \in Seq(S) /\ u \in Seq(S)
    OBVIOUS
  <2>2. (s \o t) \o u = s \o (t \o u)
    BY ONLY <2>1, ConcatAssociative
  <2> QED BY <2>2
<1> HIDE DEF n
<1>4. \A k \in D, f \in [D -> T] :
        /\ G[k][f] = IF k = 1 THEN seqs[k] ELSE f[k - 1] \o seqs[k]
        /\ G[k][f] \in T
  <2> TAKE k \in D, f \in [D -> T]
  <2>1. G[k][f] = IF k = 1 THEN seqs[k] ELSE f[k - 1] \o seqs[k]
    OBVIOUS
  <2>2. k # 1 => f[k - 1] \in T
    BY <1>2
  <2> HIDE DEF G, D
  <2> QED BY <1>1, <1>3, <2>1, <2>2
<1>5. T # {}
  <2>1. <<>> \in T
    OBVIOUS
  <2> QED BY <2>1
<1>6. D \in SUBSET Nat
  BY <1>1
<1> HIDE DEF G, D, T
<1>7. LooksBelow(D, T, G)
  <2> SUFFICES ASSUME NEW k \in D, NEW f \in [D -> T], NEW g \in [D -> T]
               PROVE  /\ G[k][f] \in T
                      /\ (\A m \in D : m < k => f[m] = g[m]) => G[k][f] = G[k][g]
    BY DEF LooksBelow
  <2> QED BY <1>2, <1>4
<1>8. PICK f \in [D -> T] : \A k \in D : f[k] = G[k][f]
  BY ONLY <1>5, <1>6, <1>7, RecursionExists
<1>9. f = [k \in D |-> IF k = 1 THEN seqs[k] ELSE f[k - 1] \o seqs[k]]
  <2>1. \A k \in D : f[k] = IF k = 1 THEN seqs[k] ELSE f[k - 1] \o seqs[k]
    BY <1>4, <1>8
  <2> QED BY ONLY <2>1, f \in [D -> T]
<1>10. \E g : /\ g = [k \in 1 .. n |-> IF k = 1 THEN seqs[k] ELSE g[k - 1] \o seqs[k]]
              /\ FlattenSeq(seqs) = g[n]
  <2>1. \E g : g = [k \in 1 .. Len(seqs) |-> IF k = 1 THEN seqs[k] ELSE g[k - 1] \o seqs[k]]
    BY <1>9 DEF D, n
  <2>2. ~(Len(seqs) = 0)
    BY <1>1 DEF n
  <2> QED BY <2>1, <2>2 DEF FlattenSeq, n
<1>11. PICK g : /\ g = [k \in 1 .. n |-> IF k = 1 THEN seqs[k] ELSE g[k - 1] \o seqs[k]]
                /\ FlattenSeq(seqs) = g[n]
  BY <1>10
<1>12. g[1] = seqs[1] /\ \A k \in 2 .. n : g[k] = g[k - 1] \o seqs[k]
  <2>1. \A k \in 1 .. n : g[k] = IF k = 1 THEN seqs[k] ELSE g[k - 1] \o seqs[k]
    BY ONLY <1>11
  <2>2. 1 \in 1 .. n /\ \A k \in 2 .. n : k \in 1 .. n /\ k # 1
    BY <1>1
  <2> QED BY ONLY <2>1, <2>2
<1> DEFINE First(k) == \E rest \in T : g[k + 1] = seqs[1] \o rest
           Second(k) == k > 0 => \E rest \in T : g[k + 1] = (seqs[1] \o seqs[2]) \o rest
           Good == {k \in 0 .. n - 1 : First(k) /\ Second(k)}
<1>13. \A k \in 1 .. n : seqs[k] \in T
  BY <1>1 DEF D, T
<1>14. <<>> \in T /\ \A s \in T : s \o <<>> = s
  <2>1. <<>> \in T
    BY DEF T
  <2> QED BY <2>1, ConcatEmptySeq DEF T
<1>16. 0 \in Good
  <2>1. 1 \in 1 .. n /\ 0 \in 0 .. n - 1 /\ 0 + 1 = 1 /\ ~(0 > 0)
    BY <1>1
  <2>2. g[0 + 1] = seqs[1] \o <<>>
    BY <1>12, <1>13, <1>14, <2>1
  <2> QED BY <1>14, <2>1, <2>2
<1>17. ASSUME NEW k \in 0 .. (n - 1) - 1, k \in Good PROVE k + 1 \in Good
  <2> DEFINE m == k + 1
  <2>1. m \in 0 .. n - 1 /\ m + 1 \in 2 .. n /\ (m + 1) - 1 = m /\ m + 1 \in 1 .. n /\ m > 0
        /\ 1 \in 1 .. n /\ (k = 0 \/ k > 0)
    BY <1>1
  <2>2. First(k) /\ Second(k)
    BY <1>17
  <2>3. g[m + 1] = g[m] \o seqs[m + 1]
    BY <1>12, <2>1
  <2>4. First(m)
    <3>1. PICK rest \in T : g[m] = seqs[1] \o rest
      BY <2>2
    <3>2. seqs[1] \in T /\ seqs[m + 1] \in T
      BY <1>13, <2>1
    <3>3. rest \o seqs[m + 1] \in T
      BY <1>3, <3>2
    <3>4. (seqs[1] \o rest) \o seqs[m + 1] = seqs[1] \o (rest \o seqs[m + 1])
      BY <1>15, <3>2
    <3> QED BY <2>3, <3>1, <3>3, <3>4
  <2>5. \E rest \in T : g[m + 1] = (seqs[1] \o seqs[2]) \o rest
    <3>1. CASE k = 0
      <4>1. m = 1 /\ m + 1 = 2 /\ 2 \in 1 .. n
        BY <2>1, <3>1
      <4>2. g[m + 1] = seqs[1] \o seqs[2]
        BY <1>12, <2>3, <4>1
      <4>3. seqs[1] \o seqs[2] \in T
        BY <1>3, <1>13, <2>1, <4>1
      <4> QED BY <1>14, <4>2, <4>3
    <3>2. CASE k > 0
      <4>1. PICK rest \in T : g[m] = (seqs[1] \o seqs[2]) \o rest
        BY <2>2, <3>2
      <4>2. 2 \in 1 .. n
        BY <1>1, <2>1, <3>2
      <4>3. seqs[1] \o seqs[2] \in T
        BY <1>3, <1>13, <2>1, <4>2
      <4>4. seqs[m + 1] \in T
        BY <1>13, <2>1
      <4>5. rest \o seqs[m + 1] \in T
        BY <1>3, <4>4
      <4>6. ((seqs[1] \o seqs[2]) \o rest) \o seqs[m + 1]
              = (seqs[1] \o seqs[2]) \o (rest \o seqs[m + 1])
        BY <1>15, <4>3, <4>4
      <4> QED BY <2>3, <4>1, <4>5, <4>6
    <3> QED BY <2>1, <3>1, <3>2
  <2> HIDE DEF m
  <2> QED BY <2>1, <2>4, <2>5 DEF m
<1>18. n - 1 \in Good
  <2>1. \A k \in 0 .. (n - 1) - 1 : k \in Good => k + 1 \in Good
    BY <1>17
  <2>2. n - 1 \in Nat
    BY <1>1
  <2> HIDE DEF Good
  <2>3. 0 .. n - 1 \subseteq Good
    BY <1>16, <2>1, <2>2, BoundedInduction
  <2> QED BY <2>2, <2>3
<1>19. (n - 1) + 1 = n /\ (n > 1 => n - 1 > 0) /\ First(n - 1) /\ Second(n - 1)
  <2>1. First(n - 1) /\ Second(n - 1)
    BY <1>18
  <2> HIDE DEF First, Second
  <2> QED BY <1>1, <2>1
<1> QED BY <1>11, <1>12, <1>19 DEF n, T

\* str_to_uns takes the characters up to the first NUL behind the first one.
LEMMA TakenUpTo ==
  ASSUME NEW str \in Seq(Int), NEW n \in Nat, n >= 2, n <= Len(str), str[n] = NUL,
         \A k \in 2 .. n - 1 : str[k] # NUL
  PROVE  CharsTaken(str) = SubSeq(str, 1, n - 1)
<1>1. DOMAIN str = 1 .. Len(str) /\ Len(str) \in Nat
  BY LenProperties
<1>2. {k \in DOMAIN str : k > 1 /\ str[k] = NUL} = {k \in DOMAIN str : k >= 2 /\ str[k] = NUL}
  BY <1>1
<1>3. \A k \in 1 .. n - 1 : k >= 2 => str[k] # NUL
  OBVIOUS
<1>4. 2 \in Nat \ {0} /\ 2 <= n
  OBVIOUS
<1>5. Min({k \in DOMAIN str : k >= 2 /\ str[k] = NUL}) = n
  BY <1>3, <1>4, FirstNul
<1> QED BY <1>2, <1>5 DEF CharsTaken

\* The characters of an argument; argv[1] comes first in memory.
LEMMA ArgumentText ==
  ASSUME args \in Arguments, args # <<>>
  PROVE  /\ \A k \in 1 .. Len(args) :
              /\ args[k] \in Seq(Int) /\ Len(args[k]) \in Nat \ {0}
              /\ Front(args[k]) \in Seq(Int) /\ Len(Front(args[k])) = Len(args[k]) - 1
              /\ \A c \in 1 .. Len(args[k]) - 1 : Front(args[k])[c] = args[k][c]
              /\ \A c \in 1 .. Len(args[k]) : args[k][c] = NUL <=> c = Len(args[k])
         /\ args \in Seq(Seq(Int)) /\ Len(args) \in Nat \ {0}
<1>1. /\ args \in Seq(Seq(0 .. 255))
      /\ \A k \in DOMAIN args :
           args[k] # <<>> /\ \A c \in DOMAIN args[k] : args[k][c] = NUL <=> c = Len(args[k])
  BY FibAssumption
<1>2. Len(args) \in Nat \ {0} /\ DOMAIN args = 1 .. Len(args)
  BY <1>1, LenProperties, EmptySeq
<1>3. ASSUME NEW k \in 1 .. Len(args)
      PROVE  /\ args[k] \in Seq(Int) /\ Len(args[k]) \in Nat \ {0}
             /\ Front(args[k]) \in Seq(Int) /\ Len(Front(args[k])) = Len(args[k]) - 1
             /\ \A c \in 1 .. Len(args[k]) - 1 : Front(args[k])[c] = args[k][c]
             /\ \A c \in 1 .. Len(args[k]) : args[k][c] = NUL <=> c = Len(args[k])
  <2> DEFINE s == args[k]
  <2>1. s \in Seq(0 .. 255) /\ s # <<>> /\ \A c \in DOMAIN s : s[c] = NUL <=> c = Len(s)
    BY <1>1, <1>2, ElementOfSeq
  <2> HIDE DEF s
  <2>2. s \in Seq(Int)
    <3>1. 0 .. 255 \subseteq Int
      OBVIOUS
    <3> QED BY <2>1, <3>1, SeqMonotonic
  <2>3. Len(s) \in Nat \ {0} /\ DOMAIN s = 1 .. Len(s)
    BY <2>1, <2>2, LenProperties, EmptySeq
  <2>4. Len(s) - 1 \in 0 .. Len(s)
    BY <2>3
  <2>5. /\ Front(s) \in Seq(Int) /\ Len(Front(s)) = Len(s) - 1
        /\ \A c \in 1 .. Len(s) - 1 : Front(s)[c] = s[c]
    BY <2>2, <2>4, Beginning DEF Front
  <2> QED BY <2>1, <2>2, <2>3, <2>5 DEF s
<1>4. args \in Seq(Seq(Int))
  BY <1>2, <1>3, <1>1
<1> QED BY <1>2, <1>3, <1>4

\* Memory holds the first argument, and then the second one, or else another NUL.
LEMMA FirstInMemory ==
  ASSUME args \in Arguments, args # <<>>
  PROVE  /\ InMemory \in Seq(Int) /\ Len(InMemory) >= Len(args[1]) + 2
         /\ \A k \in 1 .. Len(args[1]) : InMemory[k] = args[1][k]
         /\ Len(args) = 1 => InMemory[Len(args[1]) + 1] = NUL
         /\ Len(args) > 1 =>
              /\ Len(InMemory) >= Len(args[1]) + Len(args[2])
              /\ \A k \in 1 .. Len(args[2]) : InMemory[Len(args[1]) + k] = args[2][k]
<1> DEFINE T == Seq(Int)
           ends == <<NUL, NUL>>
           a == args[1]
           b == args[2]
           joined == FlattenSeq(args)
<1>1. /\ args \in Seq(Seq(Int)) /\ Len(args) \in Nat \ {0}
      /\ \A k \in 1 .. Len(args) : args[k] \in T /\ Len(args[k]) \in Nat \ {0}
  BY ArgumentText
<1>2. ends \in T /\ Len(ends) = 2 /\ ends[1] = NUL
  BY DEF NUL
<1>3. /\ Len(args) = 1 => joined = a
      /\ \E rest \in T : joined = a \o rest
      /\ Len(args) > 1 => \E rest \in T : joined = (a \o b) \o rest
  <2> DEFINE S == Int
  <2>1. args \in Seq(Seq(S))
    BY <1>1
  <2> HIDE DEF S
  <2>2. /\ Len(args) = 1 => FlattenSeq(args) = args[1]
        /\ \E rest \in Seq(S) : FlattenSeq(args) = args[1] \o rest
        /\ Len(args) > 1 => \E rest \in Seq(S) : FlattenSeq(args) = (args[1] \o args[2]) \o rest
    BY <2>1, Flattened
  <2> QED BY <2>2 DEF S
<1>4. InMemory = joined \o ends
  BY DEF InMemory
<1>5. a \in T /\ Len(a) \in Nat \ {0}
  BY <1>1
<1>6. Len(args) > 1 => b \in T /\ Len(b) \in Nat \ {0}
  BY <1>1
<1>7. \A s, t \in T : /\ s \o t \in T /\ Len(s) \in Nat /\ Len(t) \in Nat
                      /\ Len(s \o t) = Len(s) + Len(t)
                      /\ \A k \in 1 .. Len(s) : (s \o t)[k] = s[k]
                      /\ \A k \in 1 .. Len(t) : (s \o t)[Len(s) + k] = t[k]
  <2> TAKE s, t \in T
  <2>1. Len(s) \in Nat /\ Len(t) \in Nat
    BY LenProperties
  <2>2. /\ s \o t \in Seq(Int) /\ Len(s \o t) = Len(s) + Len(t)
        /\ \A k \in 1 .. Len(s) + Len(t) :
             (s \o t)[k] = IF k <= Len(s) THEN s[k] ELSE t[k - Len(s)]
    BY ConcatProperties
  <2>3. \A k \in 1 .. Len(s) : k \in 1 .. Len(s) + Len(t) /\ k <= Len(s)
    BY <2>1
  <2>4. \A k \in 1 .. Len(t) : /\ Len(s) + k \in 1 .. Len(s) + Len(t) /\ ~(Len(s) + k <= Len(s))
                               /\ (Len(s) + k) - Len(s) = k
    BY <2>1
  <2>5. \A k \in 1 .. Len(s) : (s \o t)[k] = s[k]
    BY ONLY <2>2, <2>3
  <2>6. \A k \in 1 .. Len(t) : (s \o t)[Len(s) + k] = t[k]
    BY ONLY <2>2, <2>4
  <2> QED BY <2>1, <2>2, <2>5, <2>6
<1> HIDE DEF T, ends, a, b, joined
<1>8. PICK rest \in T : joined = a \o rest
  BY <1>3
<1>9. joined \in T /\ InMemory \in T /\ Len(InMemory) = Len(a) + Len(rest) + 2
      /\ Len(rest) \in Nat
  <2>1. joined \in T /\ Len(joined) = Len(a) + Len(rest) /\ Len(rest) \in Nat
    BY <1>5, <1>7, <1>8
  <2>2. joined \o ends \in T /\ Len(joined \o ends) = Len(joined) + Len(ends)
    BY <1>2, <1>7, <2>1
  <2> QED BY <1>2, <1>4, <1>5, <2>1, <2>2
<1>10. \A k \in 1 .. Len(a) : InMemory[k] = a[k]
  <2>1. \A k \in 1 .. Len(a) : joined[k] = a[k]
    BY <1>5, <1>7, <1>8
  <2>2. \A k \in 1 .. Len(joined) : InMemory[k] = joined[k]
    BY <1>2, <1>4, <1>7, <1>9
  <2>3. Len(joined) = Len(a) + Len(rest)
    BY <1>5, <1>7, <1>8
  <2>4. \A k \in 1 .. Len(a) : k \in 1 .. Len(joined)
    BY <1>5, <1>9, <2>3
  <2> QED BY <2>1, <2>2, <2>4
<1>11. Len(args) = 1 => InMemory[Len(a) + 1] = NUL
  <2>1. 1 \in 1 .. Len(ends)
    BY <1>2
  <2>2. (a \o ends)[Len(a) + 1] = ends[1]
    BY <1>2, <1>5, <1>7, <2>1
  <2> QED BY <1>2, <1>3, <1>4, <2>2
<1>12. ASSUME Len(args) > 1
       PROVE  /\ Len(InMemory) >= Len(a) + Len(b)
              /\ \A k \in 1 .. Len(b) : InMemory[Len(a) + k] = b[k]
  <2>1. PICK more \in T : joined = (a \o b) \o more
    BY <1>3, <1>12
  <2> DEFINE both == a \o b
  <2>2. /\ both \in T /\ Len(both) = Len(a) + Len(b)
        /\ \A k \in 1 .. Len(b) : both[Len(a) + k] = b[k]
    BY <1>5, <1>6, <1>7, <1>12
  <2>3. joined = both \o more
    BY <2>1
  <2> HIDE DEF both
  <2>4. /\ Len(joined) = Len(both) + Len(more) /\ Len(more) \in Nat
        /\ \A k \in 1 .. Len(both) : joined[k] = both[k]
    BY <1>7, <2>2, <2>3
  <2>5. /\ Len(InMemory) = Len(joined) + 2
        /\ \A k \in 1 .. Len(joined) : InMemory[k] = joined[k]
    <3>1. /\ Len(joined \o ends) = Len(joined) + Len(ends)
          /\ \A k \in 1 .. Len(joined) : (joined \o ends)[k] = joined[k]
      BY <1>2, <1>7, <1>9
    <3> QED BY ONLY <1>2, <1>4, <3>1
  <2>6. \A k \in 1 .. Len(b) : Len(a) + k \in 1 .. Len(both) /\ Len(a) + k \in 1 .. Len(joined)
    BY <1>5, <1>6, <1>12, <2>2, <2>4
  <2>7. Len(InMemory) >= Len(a) + Len(b)
    BY <1>5, <1>6, <1>12, <2>2, <2>4, <2>5
  <2> QED BY ONLY <2>2, <2>4, <2>5, <2>6, <2>7
<1>13. Len(InMemory) >= Len(a) + 2
  BY <1>5, <1>9
<1> QED BY <1>9, <1>10, <1>11, <1>12, <1>13 DEF T, a, b

\* str_to_uns makes of the memory behind argv[1] the number that Asked reads, and
\* print_string prints the characters of argv[1].
LEMMA AskedRead ==
  ASSUME args \in Arguments
  PROVE  /\ Asked \in UInt
         /\ args # <<>> => str_to_uns(InMemory) = Asked /\ print_string(InMemory) \in Seq(Int)
<1> DEFINE one == <<NUL>>
           L == Len(args[1])
<1>1. one \in Seq(Int) /\ Len(one) = 1 /\ one[1] = NUL
  BY DEF NUL
<1>2. \A text \in Seq(Int) : ValueOfText(text) = NumberOf(text) /\ NumberOf(text) \in UInt
  BY NumberIsValue, NumberOfText
<1>3. CASE args = <<>>
  <2>1. InMemory = <<NUL, NUL>>
    <3>1. FlattenSeq(args) = <<>>
      BY <1>3 DEF FlattenSeq
    <3>2. <<NUL, NUL>> \in Seq(Int)
      BY DEF NUL
    <3>3. <<>> \o <<NUL, NUL>> = <<NUL, NUL>>
      BY ONLY <3>2, ConcatEmptySeq
    <3> QED BY <3>1, <3>3 DEF InMemory
  <2>2. Head(InMemory) = NUL /\ ~(Len(args) > 1)
    BY <1>3, <2>1
  <2>3. Asked = ValueOfText(one)
    BY <2>2 DEF Asked
  <2> HIDE DEF one
  <2> QED BY <1>1, <1>2, <1>3, <2>3
<1>4. CASE args # <<>>
  <2>1. /\ Len(args) \in Nat \ {0}
        /\ \A k \in 1 .. Len(args) :
             /\ args[k] \in Seq(Int) /\ Len(args[k]) \in Nat \ {0}
             /\ Front(args[k]) \in Seq(Int) /\ Len(Front(args[k])) = Len(args[k]) - 1
             /\ \A c \in 1 .. Len(args[k]) - 1 : Front(args[k])[c] = args[k][c]
             /\ \A c \in 1 .. Len(args[k]) : args[k][c] = NUL <=> c = Len(args[k])
    BY <1>4, ArgumentText
  <2>2. 1 \in 1 .. Len(args)
    BY <2>1
  <2>3. /\ L \in Nat \ {0} /\ Front(args[1]) \in Seq(Int) /\ Len(Front(args[1])) = L - 1
        /\ \A c \in 1 .. L - 1 : Front(args[1])[c] = args[1][c]
        /\ \A c \in 1 .. L : args[1][c] = NUL <=> c = L
    BY <2>1, <2>2
  <2>4. /\ InMemory \in Seq(Int) /\ Len(InMemory) >= L + 2
        /\ \A k \in 1 .. L : InMemory[k] = args[1][k]
        /\ Len(args) = 1 => InMemory[L + 1] = NUL
        /\ Len(args) > 1 =>
             /\ Len(InMemory) >= L + Len(args[2])
             /\ \A k \in 1 .. Len(args[2]) : InMemory[L + k] = args[2][k]
    BY <1>4, FirstInMemory
  <2>5. Len(InMemory) \in Nat /\ DOMAIN InMemory = 1 .. Len(InMemory)
    BY <2>4, LenProperties
  <2>6. Head(InMemory) = InMemory[1]
    BY <2>4
  <2>7. str_to_uns(InMemory) = NumberOf(CharsTaken(InMemory))
    BY DEF str_to_uns, NumberOf
  <2> HIDE DEF L
  <2>8. InMemory[1] = NUL <=> L = 1
    <3>1. 1 \in 1 .. L /\ L \in 1 .. L
      BY <2>3
    <3> QED BY <2>3, <2>4, <3>1
  <2>9. print_string(InMemory) \in Seq(Int)
    <3>1. L <= Len(InMemory) /\ L \in 1 .. L /\ \A k \in 1 .. L - 1 : k \in 1 .. L /\ k # L
      BY <2>3, <2>4, <2>5
    <3>2. InMemory[L] = NUL /\ \A k \in 1 .. L - 1 : k >= 1 => InMemory[k] # NUL
      BY <2>3, <2>4, <3>1
    <3>3. 1 \in Nat \ {0} /\ 1 <= L /\ L \in Nat
      BY <2>3
    <3>4. Min({k \in DOMAIN InMemory : k >= 1 /\ InMemory[k] = NUL}) = L
      BY <2>4, <3>1, <3>2, <3>3, FirstNul
    <3>5. {k \in DOMAIN InMemory : k >= 1 /\ InMemory[k] = NUL}
             = {k \in DOMAIN InMemory : InMemory[k] = NUL}
      BY <2>5
    <3>6. print_string(InMemory) = SubSeq(InMemory, 1, L - 1)
      BY <3>4, <3>5 DEF print_string
    <3>7. L - 1 \in 0 .. Len(InMemory)
      BY <2>3, <2>4, <2>5
    <3> QED BY <2>4, <3>6, <3>7, Beginning
  <2>10. CASE L > 1
    <3>1. /\ L \in Nat /\ L >= 2 /\ L <= Len(InMemory) /\ L \in 1 .. L
          /\ \A k \in 2 .. L - 1 : k \in 1 .. L /\ k # L
      BY <2>3, <2>4, <2>5, <2>10
    <3>2. InMemory[L] = NUL /\ \A k \in 2 .. L - 1 : InMemory[k] # NUL
      BY <2>3, <2>4, <3>1
    <3>3. CharsTaken(InMemory) = SubSeq(InMemory, 1, L - 1)
      BY <2>4, <3>1, <3>2, TakenUpTo
    <3>4. L - 1 \in 0 .. Len(InMemory)
      BY <3>1, <2>5
    <3>5. /\ SubSeq(InMemory, 1, L - 1) \in Seq(Int) /\ Len(SubSeq(InMemory, 1, L - 1)) = L - 1
          /\ \A k \in 1 .. L - 1 : SubSeq(InMemory, 1, L - 1)[k] = InMemory[k]
      BY <2>4, <3>4, Beginning
    <3>6. \A k \in 1 .. L - 1 : k \in 1 .. L
      BY <2>3
    <3>7. \A k \in 1 .. L - 1 : SubSeq(InMemory, 1, L - 1)[k] = Front(args[1])[k]
      BY <2>3, <2>4, <3>5, <3>6
    <3>8. SubSeq(InMemory, 1, L - 1) = Front(args[1])
      BY <2>3, <3>5, <3>7, SeqEqual
    <3>9. ~(Head(InMemory) = NUL)
      BY <2>6, <2>8, <2>10
    <3>10. Asked = ValueOfText(Front(args[1]))
      BY <3>9 DEF Asked
    <3> QED BY <1>2, <2>3, <2>7, <2>9, <3>3, <3>8, <3>10
  <2>11. CASE L = 1 /\ Len(args) = 1
    <3>1. CharsTaken(InMemory) = SubSeq(InMemory, 1, 1)
      <4>1. 2 \in Nat /\ 2 >= 2 /\ 2 <= Len(InMemory) /\ 2 - 1 = 1 /\ L + 1 = 2
            /\ \A k \in 2 .. 2 - 1 : InMemory[k] # NUL
        BY <2>4, <2>5, <2>11
      <4>2. InMemory[2] = NUL
        BY <2>4, <2>11, <4>1
      <4> QED BY <2>4, <4>1, <4>2, TakenUpTo
    <3>2. SubSeq(InMemory, 1, 1) = one
      <4>1. 1 \in 0 .. Len(InMemory) /\ \A k \in 1 .. 1 : k = 1
        BY <2>4, <2>5, <2>11
      <4>2. /\ SubSeq(InMemory, 1, 1) \in Seq(Int) /\ Len(SubSeq(InMemory, 1, 1)) = 1
            /\ \A k \in 1 .. 1 : SubSeq(InMemory, 1, 1)[k] = InMemory[k]
        BY <2>4, <4>1, Beginning
      <4>3. \A k \in 1 .. 1 : SubSeq(InMemory, 1, 1)[k] = one[k]
        BY <1>1, <2>8, <2>11, <4>1, <4>2
      <4> HIDE DEF one
      <4> QED BY <1>1, <4>2, <4>3, SeqEqual
    <3>3. Head(InMemory) = NUL /\ ~(Len(args) > 1)
      BY <2>6, <2>8, <2>11
    <3>4. Asked = ValueOfText(one)
      BY <3>3 DEF Asked
    <3> HIDE DEF one
    <3> QED BY <1>1, <1>2, <2>7, <2>9, <3>1, <3>2, <3>4
  <2>12. CASE L = 1 /\ Len(args) > 1
    <3> DEFINE b == args[2]
               m == Len(b)
    <3>1. 2 \in 1 .. Len(args)
      BY <2>1, <2>12
    <3>2. /\ m \in Nat \ {0} /\ Front(b) \in Seq(Int) /\ Len(Front(b)) = m - 1
          /\ \A c \in 1 .. m - 1 : Front(b)[c] = b[c]
          /\ \A c \in 1 .. m : b[c] = NUL <=> c = m
      BY <2>1, <3>1
    <3>3. Len(InMemory) >= 1 + m /\ \A k \in 1 .. m : InMemory[1 + k] = b[k]
      BY <2>4, <2>12
    <3> DEFINE read == one \o Front(b)
    <3>4. Asked = ValueOfText(read)
      BY <2>6, <2>8, <2>12 DEF Asked
    <3> HIDE DEF m, b
    <3>5. /\ m + 1 \in Nat /\ m + 1 >= 2 /\ m + 1 <= Len(InMemory) /\ m \in 1 .. m
          /\ (m + 1) - 1 = m /\ m \in 0 .. Len(InMemory) /\ 1 + m = m + 1
          /\ \A k \in 2 .. (m + 1) - 1 : k - 1 \in 1 .. m /\ k - 1 # m /\ 1 + (k - 1) = k
      BY <2>5, <3>2, <3>3
    <3>6. InMemory[m + 1] = NUL
      BY <3>2, <3>3, <3>5
    <3>7. \A k \in 2 .. (m + 1) - 1 : InMemory[k] # NUL
      <4>1. \A k \in 2 .. (m + 1) - 1 : InMemory[1 + (k - 1)] = b[k - 1] /\ b[k - 1] # NUL
        BY <3>2, <3>3, <3>5
      <4> QED BY <3>5, <4>1
    <3>8. CharsTaken(InMemory) = SubSeq(InMemory, 1, m)
      BY <2>4, <3>5, <3>6, <3>7, TakenUpTo
    <3>9. /\ SubSeq(InMemory, 1, m) \in Seq(Int) /\ Len(SubSeq(InMemory, 1, m)) = m
          /\ \A k \in 1 .. m : SubSeq(InMemory, 1, m)[k] = InMemory[k]
      BY <2>4, <3>5, Beginning
    <3> HIDE DEF one
    <3>10. /\ read \in Seq(Int) /\ Len(read) = 1 + (m - 1)
           /\ \A k \in 1 .. 1 + (m - 1) : read[k] = IF k <= 1 THEN one[k] ELSE Front(b)[k - 1]
      <4> DEFINE f == Front(b)
      <4>1. f \in Seq(Int) /\ Len(f) = m - 1 /\ read = one \o f
        BY <3>2
      <4> HIDE DEF read, f
      <4>2. /\ one \o f \in Seq(Int) /\ Len(one \o f) = Len(one) + Len(f)
            /\ \A k \in 1 .. Len(one) + Len(f) :
                 (one \o f)[k] = IF k <= Len(one) THEN one[k] ELSE f[k - Len(one)]
        BY ONLY <1>1, <4>1, ConcatProperties
      <4> QED BY ONLY <1>1, <4>1, <4>2 DEF f
    <3> HIDE DEF read
    <3>11. ASSUME NEW k \in 1 .. m PROVE InMemory[k] = read[k]
      <4>1. k \in 1 .. 1 + (m - 1)
        BY <3>2
      <4>2. read[k] = IF k <= 1 THEN one[k] ELSE Front(b)[k - 1]
        BY <3>10, <4>1
      <4>3. CASE k = 1
        BY <1>1, <2>8, <2>12, <4>2, <4>3
      <4>4. CASE k # 1
        <5>1. k - 1 \in 1 .. m - 1 /\ k - 1 \in 1 .. m /\ 1 + (k - 1) = k /\ ~(k <= 1)
          BY <3>2, <4>4
        <5> QED BY <3>2, <3>3, <4>2, <5>1
      <4> QED BY <4>3, <4>4
    <3>12. SubSeq(InMemory, 1, m) = read
      <4>1. \A k \in 1 .. m : SubSeq(InMemory, 1, m)[k] = read[k]
        BY <3>9, <3>11
      <4>2. Len(read) = m
        BY <3>2, <3>10
      <4> QED BY <3>9, <3>10, <4>1, <4>2, SeqEqual
    <3> QED BY <1>2, <2>7, <2>9, <3>4, <3>8, <3>10, <3>12
  <2>13. L > 1 \/ (L = 1 /\ Len(args) = 1) \/ (L = 1 /\ Len(args) > 1)
    <3>1. L \in Nat \ {0} /\ Len(args) \in Nat \ {0}
      BY <2>1, <2>3
    <3>2. \A x, y \in Nat \ {0} : x > 1 \/ (x = 1 /\ y = 1) \/ (x = 1 /\ y > 1)
      OBVIOUS
    <3> QED BY ONLY <3>1, <3>2
  <2> QED BY <2>10, <2>11, <2>12, <2>13
<1> QED BY <1>3, <1>4

-----------------------------------------------------------------------------
(***************************************************************************)
(* What fib computes, and the calls it makes.                              *)
(***************************************************************************)

\* What a call makes of the results of the calls it makes.
FibonacciStep(f, n) == IF n < 2 THEN n ELSE (f[n - 1] + f[n - 2]) % UIntValues

\* The recursion defines a number for every argument.
LEMMA FibonacciDefined ==
  \A n \in Nat : Fibonacci[n] = FibonacciStep(Fibonacci, n) /\ Fibonacci[n] \in UInt
<1> DEFINE T == UInt
           G == [n \in Nat |-> [f \in [Nat -> T] |-> FibonacciStep(f, n)]]
<1>1. ASSUME NEW n \in Nat, NEW f, \A m \in Nat : m < n => f[m] \in T
      PROVE  FibonacciStep(f, n) \in T
  <2>1. CASE n < 2
    BY <2>1, ConversionsAssumption DEF FibonacciStep, UInt
  <2>2. CASE ~(n < 2)
    <3>1. n - 1 \in Nat /\ n - 2 \in Nat /\ n - 1 < n /\ n - 2 < n
      BY <2>2
    <3>2. f[n - 1] \in Int /\ f[n - 2] \in Int
      BY <1>1, <3>1 DEF UInt
    <3>3. f[n - 1] + f[n - 2] \in Int
      BY <3>2
    <3>4. FibonacciStep(f, n) = (f[n - 1] + f[n - 2]) % UIntValues
      BY <2>2 DEF FibonacciStep
    <3> QED BY <3>3, <3>4, Wraps
  <2> QED BY <2>1, <2>2
<1>2. ASSUME NEW n \in Nat, NEW f, NEW g, \A m \in Nat : m < n => f[m] = g[m]
      PROVE  FibonacciStep(f, n) = FibonacciStep(g, n)
  <2>1. CASE n < 2
    BY <2>1 DEF FibonacciStep
  <2>2. CASE ~(n < 2)
    <3>1. n - 1 \in Nat /\ n - 2 \in Nat /\ n - 1 < n /\ n - 2 < n
      BY <2>2
    <3>2. f[n - 1] = g[n - 1] /\ f[n - 2] = g[n - 2]
      BY <1>2, <3>1
    <3> QED BY <3>2 DEF FibonacciStep
  <2> QED BY <2>1, <2>2
<1>3. \A n \in Nat : \A f, g \in [Nat -> T] :
        /\ G[n][f] = FibonacciStep(f, n)
        /\ G[n][f] \in T
        /\ (\A m \in Nat : m < n => f[m] = g[m]) => G[n][f] = G[n][g]
  <2> TAKE n \in Nat
  <2> TAKE f, g \in [Nat -> T]
  <2>1. G[n][f] = FibonacciStep(f, n) /\ G[n][g] = FibonacciStep(g, n)
    OBVIOUS
  <2>2. \A m \in Nat : m < n => f[m] \in T
    OBVIOUS
  <2> HIDE DEF G, T
  <2>3. FibonacciStep(f, n) \in T
    BY <1>1, <2>2
  <2>4. (\A m \in Nat : m < n => f[m] = g[m]) => FibonacciStep(f, n) = FibonacciStep(g, n)
    BY <1>2
  <2> QED BY <2>1, <2>3, <2>4
<1>4. T # {}
  <2>1. 0 \in T
    BY ConversionsAssumption DEF UInt
  <2> QED BY <2>1
<1> HIDE DEF T
<1>5. PICK f \in [Nat -> T] : \A n \in Nat : f[n] = FibonacciStep(f, n)
  <2> HIDE DEF G
  <2> DEFINE D == Nat
  <2>1. D \in SUBSET Nat /\ LooksBelow(D, T, G)
    BY <1>3 DEF LooksBelow
  <2> HIDE DEF D
  <2>2. \E f \in [D -> T] : \A n \in D : f[n] = G[n][f]
    BY ONLY <1>4, <2>1, RecursionExists
  <2> QED BY <1>3, <2>2 DEF D
<1>6. f = [n \in Nat |-> FibonacciStep(f, n)]
  BY <1>5
<1>7. \E g : g = [n \in Nat |-> IF n < 2 THEN n ELSE (g[n - 1] + g[n - 2]) % UIntValues]
  BY <1>6 DEF FibonacciStep
<1>8. Fibonacci = [n \in Nat |-> FibonacciStep(Fibonacci, n)]
  BY <1>7 DEF Fibonacci, FibonacciStep
<1>9. \A n \in Nat : Fibonacci[n] = FibonacciStep(Fibonacci, n)
  BY <1>8
<1> DEFINE Typed == {n \in Nat : Fibonacci[n] \in T}
<1>10. Nat \subseteq Typed
  <2>1. ASSUME NEW n \in Nat, \A m \in Nat : m < n => m \in Typed PROVE n \in Typed
    <3>1. \A m \in Nat : m < n => Fibonacci[m] \in T
      BY <2>1
    <3>2. FibonacciStep(Fibonacci, n) \in T
      BY <1>1, <3>1
    <3> QED BY <1>9, <3>2
  <2> HIDE DEF Typed
  <2> QED BY <2>1, StrongInduction
<1> QED BY <1>9, <1>10 DEF T

\* What fib prints before it computes.
Greeting == <<"fib(">> \o print_string(InMemory) \o <<") = ">>

\* What fib prints of a number is what stands between the greeting and the line's end.
LEMMA AnswerStands ==
  ASSUME args \in Arguments, args # <<>>, NEW val \in UInt,
         out = Greeting \o Printed(val) \o <<"\n">>
  PROVE  SubSeq(out, Len(print_string(InMemory)) + 3, Len(out) - 1) = Printed(val)
<1> DEFINE T == Int \cup {"fib(", ") = ", "\n"}
           w == print_string(InMemory)
           v == Printed(val)
           open == <<"fib(">>
           close == <<") = ">>
           end == <<"\n">>
<1>1. open \in Seq(T) /\ close \in Seq(T) /\ end \in Seq(T) /\ Len(open) = 1 /\ Len(close) = 1
      /\ Len(end) = 1
  <2>1. "fib(" \in T /\ ") = " \in T /\ "\n" \in T
    OBVIOUS
  <2>2. \A x \in T : <<x>> \in Seq(T) /\ Len(<<x>>) = 1
    OBVIOUS
  <2> QED BY <2>1, <2>2
<1>2. w \in Seq(T) /\ v \in Seq(T) /\ Len(v) > 0
  <2>1. w \in Seq(Int)
    BY AskedRead
  <2>2. v \in Seq(Int) /\ Len(v) > 0
    BY PrintedReads
  <2>3. Int \subseteq T
    OBVIOUS
  <2> HIDE DEF T, w, v
  <2> QED BY <2>1, <2>2, <2>3, SeqMonotonic
<1> DEFINE g == (open \o w) \o close
<1>3. out = (g \o v) \o end
  BY DEF Greeting
<1> HIDE DEF T, w, v, open, close, end
<1>4. \A s, t \in Seq(T) : /\ s \o t \in Seq(T) /\ Len(s \o t) = Len(s) + Len(t)
                           /\ Len(s) \in Nat /\ Len(t) \in Nat
  BY ConcatProperties, LenProperties
<1>5. g \in Seq(T) /\ Len(g) = Len(w) + 2 /\ Len(w) \in Nat
  <2>1. open \o w \in Seq(T) /\ Len(open \o w) = 1 + Len(w) /\ Len(w) \in Nat
    BY <1>1, <1>2, <1>4
  <2> QED BY <1>1, <1>4, <2>1
<1> HIDE DEF g
<1>6. g \o v \in Seq(T) /\ Len(g \o v) = Len(g) + Len(v) /\ Len(v) \in Nat
  BY <1>2, <1>4, <1>5
<1>7. Len(out) = Len(g) + Len(v) + 1
  <2>1. Len((g \o v) \o end) = Len(g \o v) + Len(end)
    BY <1>1, <1>4, <1>6
  <2> QED BY <1>1, <1>3, <1>5, <1>6, <2>1
<1> DEFINE from == Len(w) + 3
           upto == Len(out) - 1
<1>8. /\ from = Len(g) + 1 /\ upto = Len(g) + Len(v)
      /\ from \in Len(g) + 1 .. Len(g) + Len(v) /\ upto \in Len(g) + 1 .. Len(g) + Len(v)
      /\ from \in 1 .. Len(g \o v) /\ upto \in 1 .. Len(g \o v)
      /\ from - Len(g) = 1 /\ upto - Len(g) = Len(v)
  BY <1>2, <1>5, <1>6, <1>7
<1> HIDE DEF from, upto
<1>9. SubSeq(out, from, upto) = SubSeq(g \o v, from, upto)
  <2> DEFINE r == g \o v
  <2>1. out = r \o end /\ r \in Seq(T) /\ from \in 1 .. Len(r) /\ upto \in 1 .. Len(r)
    BY <1>3, <1>6, <1>8
  <2> HIDE DEF r
  <2>2. SubSeq(out, from, upto) = SubSeq(r, from, upto)
    BY ONLY <1>1, <2>1, SubSeqOfConcat1
  <2> QED BY <2>2 DEF r
<1>10. SubSeq(g \o v, from, upto) = SubSeq(v, from - Len(g), upto - Len(g))
  BY <1>2, <1>5, <1>8, SubSeqOfConcat2
<1>11. SubSeq(v, 1, Len(v)) = v
  BY <1>2, SubSeqFull
<1>12. SubSeq(out, from, upto) = v
  BY <1>8, <1>9, <1>10, <1>11
<1> QED BY <1>12 DEF from, upto, w, v

\* The argument of the call that a frame waits for.
Pending(frame) == IF frame.first = NoResult THEN frame.arg - 1 ELSE frame.arg - 2

Frames == [arg : UInt, first : UInt \cup {NoResult}]

FibTypeOK ==
  /\ args \in Arguments
  /\ phase \in {"start", "call", "return", "stopped"}
  /\ stack \in Seq(Frames) /\ result \in UInt
  /\ phase \in {"call", "return"} => args # <<>>

\* Each frame below another one waits for it, and its argument is the larger one.
Calls ==
  /\ stack # <<>> => stack[1].arg = Asked
  /\ \A k \in 1 .. Len(stack) - 1 : stack[k].arg >= 2 /\ stack[k + 1].arg = Pending(stack[k])
  /\ \A k \in 1 .. Len(stack) : stack[k].arg + k <= Asked + 1

\* What a frame keeps is the number before its own one.
Kept ==
  \A k \in 1 .. Len(stack) :
    stack[k].first # NoResult => stack[k].arg >= 2 /\ stack[k].first = Fibonacci[stack[k].arg - 1]

\* What the last call returned is what the frame on top waits for, or the answer.
Results ==
  /\ phase = "call" => stack # <<>> /\ stack[Len(stack)].first = NoResult
  /\ phase \in {"start", "stopped"} => stack = <<>>
  /\ phase = "return" =>
       IF stack = <<>> THEN result = Fibonacci[Asked]
       ELSE /\ stack[Len(stack)].arg >= 2
            /\ result = Fibonacci[Pending(stack[Len(stack)])]

Output ==
  /\ phase \in {"call", "return"} => out = Greeting
  /\ phase = "stopped" /\ args # <<>> => out = Greeting \o Printed(Fibonacci[Asked]) \o <<"\n">>

FibInv == FibTypeOK /\ Calls /\ Kept /\ Results /\ Output

\* The frames of the stack, and the one on top of it.
LEMMA StackRead ==
  ASSUME FibTypeOK
  PROVE  /\ Len(stack) \in Nat /\ DOMAIN stack = 1 .. Len(stack)
         /\ stack # <<>> <=> Len(stack) > 0
         /\ \A k \in 1 .. Len(stack) :
              /\ stack[k] \in Frames /\ stack[k].arg \in Nat /\ stack[k].arg \in UInt
              /\ stack[k].first \in UInt \cup {NoResult}
         /\ Top = stack[Len(stack)]
         /\ Asked \in Nat /\ Asked \in UInt
<1>1. stack \in Seq(Frames)
  BY DEF FibTypeOK
<1>2. Len(stack) \in Nat /\ DOMAIN stack = 1 .. Len(stack)
  BY <1>1, LenProperties
<1>3. stack # <<>> <=> Len(stack) > 0
  BY <1>1, <1>2, EmptySeq
<1>4. \A k \in 1 .. Len(stack) : stack[k] \in Frames
  BY <1>1, ElementOfSeq
<1>5. UInt \subseteq Nat
  BY ConversionsAssumption DEF UInt
<1>6. \A frame \in Frames : /\ frame.arg \in Nat /\ frame.arg \in UInt
                            /\ frame.first \in UInt \cup {NoResult}
  BY <1>5 DEF Frames
<1>7. Asked \in UInt
  BY AskedRead DEF FibTypeOK
<1> QED BY <1>2, <1>3, <1>4, <1>5, <1>6, <1>7 DEF Top, Last

\* The memory, the number asked for and the greeting depend on the arguments alone.
LEMMA ArgumentsStay ==
  ASSUME args' = args
  PROVE  InMemory' = InMemory /\ Asked' = Asked /\ Greeting' = Greeting
<1>1. InMemory' = InMemory
  BY DEF InMemory
<1> QED BY <1>1 DEF Asked, Greeting

\* A call that returns what it should keeps the invariant.
LEMMA Returned ==
  ASSUME FibInv, phase \in {"call", "return"}, stack # <<>>,
         args' = args, out' = out, phase' = "return", stack' = Front(stack),
         result' = Fibonacci[Top.arg]
  PROVE  FibInv'
<1> DEFINE n == Len(stack)
<1>1. /\ n \in Nat /\ n > 0 /\ Top = stack[n] /\ Top.arg \in Nat
      /\ \A k \in 1 .. n : stack[k].arg \in Nat
  <2>1. n \in 1 .. n
    BY StackRead DEF FibInv
  <2> QED BY <2>1, StackRead DEF FibInv
<1>2. /\ stack' \in Seq(Frames) /\ Len(stack') = n - 1
      /\ \A k \in 1 .. n - 1 : stack'[k] = stack[k]
  <2>1. n - 1 \in 0 .. Len(stack) /\ stack \in Seq(Frames)
    BY <1>1 DEF FibInv, FibTypeOK
  <2> QED BY <2>1, Beginning DEF Front
<1> HIDE DEF n
<1>3. InMemory' = InMemory /\ Asked' = Asked /\ Greeting' = Greeting
  BY ArgumentsStay
<1>4. FibTypeOK'
  <2>1. result' \in UInt
    BY <1>1, FibonacciDefined
  <2> QED BY <1>2, <2>1 DEF FibInv, FibTypeOK
<1>5. stack' # <<>> <=> n > 1
  BY <1>1, <1>2, <1>4, EmptySeq
<1>6. Calls'
  <2>1. \A k \in 1 .. n - 1 : k \in 1 .. n
    BY <1>1
  <2>2. \A k \in 1 .. (n - 1) - 1 : k \in 1 .. n - 1 /\ k + 1 \in 1 .. n - 1
    BY <1>1
  <2>3. n > 1 => 1 \in 1 .. n - 1
    BY <1>1
  <2>4. stack' # <<>> => stack'[1].arg = Asked'
    BY <1>1, <1>2, <1>3, <1>5, <2>3 DEF FibInv, Calls, n
  <2>5. \A k \in 1 .. Len(stack') - 1 :
          stack'[k].arg >= 2 /\ stack'[k + 1].arg = Pending(stack'[k])
    BY <1>2, <2>2 DEF FibInv, Calls, n
  <2>6. \A k \in 1 .. Len(stack') : stack'[k].arg + k <= Asked' + 1
    BY <1>2, <1>3, <2>1 DEF FibInv, Calls, n
  <2> QED BY <2>4, <2>5, <2>6 DEF Calls, Pending
<1>7. Kept'
  <2>1. \A k \in 1 .. n - 1 : k \in 1 .. n
    BY <1>1
  <2> QED BY <1>2, <2>1 DEF FibInv, Kept, n
<1>8. Results'
  <2>1. CASE n = 1
    <3>1. stack' = <<>> /\ stack[1].arg = Asked
      BY <1>1, <1>5, <2>1 DEF FibInv, Calls
    <3> QED BY <1>1, <1>3, <2>1, <3>1 DEF Results
  <2>2. CASE n > 1
    <3>1. n - 1 \in 1 .. Len(stack) - 1 /\ (n - 1) + 1 = n /\ n - 1 \in 1 .. n - 1
      BY <1>1, <2>2 DEF n
    <3>2. stack[n - 1].arg >= 2 /\ stack[n].arg = Pending(stack[n - 1])
      BY <3>1 DEF FibInv, Calls
    <3>3. stack'[Len(stack')] = stack[n - 1]
      BY <1>2, <3>1
    <3> QED BY <1>1, <1>5, <2>2, <3>2, <3>3 DEF Results, Pending
  <2> QED BY <1>1, <2>1, <2>2
<1>9. Output'
  BY <1>3 DEF FibInv, Output
<1> QED BY <1>4, <1>6, <1>7, <1>8, <1>9 DEF FibInv

\* A call of what the frame on top waits for keeps the invariant.
LEMMA Called ==
  ASSUME FibInv, phase \in {"call", "return"}, stack # <<>>, Top.arg >= 2,
         args' = args, out' = out, phase' = "call", result' = result,
         NEW below \in Seq(Frames), Len(below) = Len(stack),
         \A k \in 1 .. Len(stack) - 1 : below[k] = stack[k],
         NEW top \in Frames, below[Len(stack)] = top, top.arg = Top.arg,
         top.first # NoResult => top.first = Fibonacci[top.arg - 1],
         stack' = Append(below, Frame(Pending(top)))
  PROVE  FibInv'
<1> DEFINE n == Len(stack)
           new == Frame(Pending(top))
<1>1. /\ n \in Nat /\ n > 0 /\ n \in 1 .. n /\ Top = stack[n] /\ Top.arg \in Nat
      /\ Top.arg \in UInt
      /\ \A k \in 1 .. n : stack[k].arg \in Nat
      /\ Asked \in Nat
  <2>1. n \in 1 .. n
    BY StackRead DEF FibInv
  <2> QED BY <2>1, StackRead DEF FibInv
<1>2. /\ Pending(top) \in UInt /\ Pending(top) \in Nat
      /\ Pending(top) = top.arg - 1 \/ Pending(top) = top.arg - 2
  <2>1. \A a \in UInt : a >= 2 => a - 1 \in UInt /\ a - 2 \in UInt /\ a - 1 \in Nat /\ a - 2 \in Nat
    BY ConversionsAssumption DEF UInt
  <2>2. Pending(top) = top.arg - 1 \/ Pending(top) = top.arg - 2
    BY DEF Pending
  <2> QED BY <1>1, <2>1, <2>2
<1>3. new \in Frames /\ new.arg = Pending(top) /\ new.first = NoResult
  BY <1>2 DEF Frames, Frame
<1>4. stack' = Append(below, new)
  OBVIOUS
<1> HIDE DEF n, new
<1>5. /\ stack' \in Seq(Frames) /\ stack' # <<>> /\ Len(stack') = n + 1
      /\ \A k \in 1 .. n : stack'[k] = below[k]
      /\ stack'[n + 1] = new
  <2>1. Len(below) = n
    BY DEF n
  <2> QED BY ONLY below \in Seq(Frames), <1>3, <1>4, <2>1, AppendProperties
<1>6. InMemory' = InMemory /\ Asked' = Asked /\ Greeting' = Greeting
  BY ArgumentsStay
<1>7. /\ \A k \in 1 .. n - 1 : stack'[k] = stack[k]
      /\ stack'[n] = top
  <2>1. \A k \in 1 .. n - 1 : k \in 1 .. n /\ below[k] = stack[k]
    BY <1>1 DEF n
  <2>2. below[n] = top
    BY DEF n
  <2> QED BY <1>1, <1>5, <2>1, <2>2
<1>8. \A k \in 1 .. n : stack'[k].arg = stack[k].arg
  <2>1. \A k \in 1 .. n : k \in 1 .. n - 1 \/ k = n
    BY <1>1
  <2> QED BY <1>1, <1>7, <2>1
<1>9. FibTypeOK'
  BY <1>5 DEF FibInv, FibTypeOK
<1>10. Calls'
  <2>1. stack'[1].arg = Asked'
    <3>1. 1 \in 1 .. n
      BY <1>1
    <3> QED BY <1>6, <1>8, <3>1 DEF FibInv, Calls
  <2>2. ASSUME NEW k \in 1 .. n
        PROVE  stack'[k].arg >= 2 /\ stack'[k + 1].arg = Pending(stack'[k])
    <3>1. CASE k = n
      BY <1>1, <1>3, <1>5, <1>7, <3>1
    <3>2. CASE k # n
      <4>1. k \in 1 .. n - 1 /\ k + 1 \in 1 .. n /\ k \in 1 .. Len(stack) - 1
        BY <1>1, <3>2 DEF n
      <4>2. stack[k].arg >= 2 /\ stack[k + 1].arg = Pending(stack[k])
        BY <4>1 DEF FibInv, Calls
      <4> QED BY <1>7, <1>8, <4>1, <4>2
    <3> QED BY <3>1, <3>2
  <2>3. ASSUME NEW k \in 1 .. n + 1 PROVE stack'[k].arg + k <= Asked' + 1
    <3>1. \A c \in 1 .. n : stack[c].arg + c <= Asked + 1
      BY DEF FibInv, Calls, n
    <3>2. CASE k = n + 1
      <4>1. Top.arg + n <= Asked + 1
        BY <1>1, <3>1
      <4>2. stack'[k].arg = Pending(top)
        BY <1>3, <1>5, <3>2
      <4>3. Pending(top) <= Top.arg - 1
        BY <1>1, <1>2
      <4>4. Pending(top) + (n + 1) <= Asked + 1
        BY <1>1, <1>2, <4>1, <4>3
      <4> QED BY <1>6, <3>2, <4>2, <4>4
    <3>3. CASE k # n + 1
      <4>1. k \in 1 .. n
        BY <1>1, <3>3
      <4> QED BY <1>6, <1>8, <3>1, <4>1
    <3> QED BY <3>2, <3>3
  <2>4. (n + 1) - 1 = n
    BY <1>1
  <2> QED BY <1>5, <2>1, <2>2, <2>3, <2>4 DEF Calls, Pending
<1>11. Kept'
  <2> SUFFICES ASSUME NEW k \in 1 .. n + 1, stack'[k].first # NoResult
               PROVE  /\ stack'[k].arg >= 2
                      /\ stack'[k].first = Fibonacci[stack'[k].arg - 1]
    BY <1>5 DEF Kept
  <2>1. CASE k = n + 1
    BY <1>3, <1>5, <2>1
  <2>2. CASE k = n
    BY <1>1, <1>7, <2>2
  <2>3. CASE k # n /\ k # n + 1
    <3>1. k \in 1 .. n - 1 /\ k \in 1 .. Len(stack)
      BY <1>1, <2>3 DEF n
    <3> QED BY <1>7, <3>1 DEF FibInv, Kept
  <2> QED BY <2>1, <2>2, <2>3
<1>12. Results'
  BY <1>3, <1>5 DEF Results
<1>13. Output'
  BY <1>6 DEF FibInv, Output
<1> QED BY <1>9, <1>10, <1>11, <1>12, <1>13 DEF FibInv

\* The first step calls fib with the number that the argument holds.
LEMMA StartHolds == FibInv /\ Start => FibInv'
<1> SUFFICES ASSUME FibInv, Start PROVE FibInv'
  OBVIOUS
<1> DEFINE new == Frame(Asked)
<1>1. /\ args \in Arguments /\ args # <<>> /\ args' = args /\ phase' = "call"
      /\ result' = result /\ out' = Greeting
      /\ stack' = <<Frame(str_to_uns(InMemory))>>
  BY DEF FibInv, FibTypeOK, Start, Greeting
<1>2. Asked \in UInt /\ Asked \in Int /\ stack' = <<new>>
  BY <1>1, AskedRead DEF UInt
<1>3. new \in Frames /\ new.arg = Asked /\ new.first = NoResult
  BY <1>2 DEF Frames, Frame
<1> HIDE DEF new
<1>4. /\ stack' \in Seq(Frames) /\ stack' # <<>> /\ Len(stack') = 1 /\ stack'[1] = new
      /\ \A k \in 1 .. 1 : k = 1
  BY <1>2, <1>3
<1>5. InMemory' = InMemory /\ Asked' = Asked /\ Greeting' = Greeting
  BY <1>1, ArgumentsStay
<1>6. FibTypeOK'
  BY <1>1, <1>4 DEF FibInv, FibTypeOK
<1>7. Calls'
  BY <1>2, <1>3, <1>4, <1>5 DEF Calls
<1>8. Kept'
  BY <1>3, <1>4 DEF Kept
<1>9. Results'
  BY <1>1, <1>3, <1>4 DEF Results
<1>10. Output'
  BY <1>1, <1>5 DEF Output
<1> QED BY <1>6, <1>7, <1>8, <1>9, <1>10 DEF FibInv

\* A call with a number below two returns it.
LEMMA BaseHolds == FibInv /\ Base => FibInv'
<1> SUFFICES ASSUME FibInv, Base PROVE FibInv'
  OBVIOUS
<1>1. /\ phase = "call" /\ Top.arg < 2 /\ result' = Top.arg /\ stack' = Front(stack)
      /\ phase' = "return" /\ args' = args /\ out' = out
  BY DEF Base, Return
<1>2. stack # <<>>
  BY <1>1 DEF FibInv, Results
<1>3. Top.arg \in Nat
  BY <1>2, StackRead DEF FibInv
<1>4. Fibonacci[Top.arg] = Top.arg
  BY <1>1, <1>3, FibonacciDefined DEF FibonacciStep
<1> QED BY <1>1, <1>2, <1>4, Returned

\* The second result is added to the first one, which the frame kept.
LEMMA AddHolds == FibInv /\ Add => FibInv'
<1> SUFFICES ASSUME FibInv, Add PROVE FibInv'
  OBVIOUS
<1>1. /\ phase = "return" /\ stack # <<>> /\ Top.first # NoResult
      /\ result' = (Top.first + result) % UIntValues /\ stack' = Front(stack)
      /\ phase' = "return" /\ args' = args /\ out' = out
  BY DEF Add, Return
<1>2. Top = stack[Len(stack)] /\ Len(stack) \in 1 .. Len(stack) /\ Top.arg \in Nat
  BY <1>1, StackRead DEF FibInv
<1>3. Top.arg >= 2 /\ result = Fibonacci[Top.arg - 2]
  BY <1>1, <1>2 DEF FibInv, Results, Pending
<1>4. Top.first = Fibonacci[Top.arg - 1]
  BY <1>1, <1>2 DEF FibInv, Kept
<1>5. Fibonacci[Top.arg] = (Fibonacci[Top.arg - 1] + Fibonacci[Top.arg - 2]) % UIntValues
  BY <1>2, <1>3, FibonacciDefined DEF FibonacciStep
<1> QED BY <1>1, <1>3, <1>4, <1>5, Returned

\* The first call is of the number before.
LEMMA CallFirstHolds == FibInv /\ CallFirst => FibInv'
<1> SUFFICES ASSUME FibInv, CallFirst PROVE FibInv'
  OBVIOUS
<1>1. /\ phase = "call" /\ Top.arg >= 2 /\ stack' = Append(stack, Frame(Top.arg - 1))
      /\ phase' = "call" /\ args' = args /\ out' = out /\ result' = result
  BY DEF FibInv, CallFirst
<1>2. stack # <<>>
  BY <1>1 DEF FibInv, Results
<1>3. /\ Top = stack[Len(stack)] /\ Top \in Frames /\ Top.first = NoResult
      /\ stack \in Seq(Frames)
  BY <1>1, <1>2, StackRead DEF FibInv, FibTypeOK, Results
<1>4. Pending(Top) = Top.arg - 1
  BY <1>3 DEF Pending
<1> QED BY <1>1, <1>2, <1>3, <1>4, Called

\* The second call is of the number before that one, and the frame keeps the result.
LEMMA CallSecondHolds == FibInv /\ CallSecond => FibInv'
<1> SUFFICES ASSUME FibInv, CallSecond PROVE FibInv'
  OBVIOUS
<1> DEFINE n == Len(stack)
           top == [Top EXCEPT !.first = result]
           front == Front(stack)
           below == Append(front, top)
           new == Frame(Top.arg - 2)
<1>1. /\ phase = "return" /\ stack # <<>> /\ Top.first = NoResult
      /\ stack' = below \o <<new>>
      /\ phase' = "call" /\ args' = args /\ out' = out /\ result' = result
  BY DEF CallSecond
<1>2. /\ n \in Nat /\ n > 0 /\ n \in 1 .. n /\ Top = stack[n] /\ Top \in Frames
      /\ Top.arg \in Nat /\ Top.arg \in UInt
  <2>1. n \in 1 .. n /\ n \in Nat /\ n > 0
    BY <1>1, StackRead DEF FibInv
  <2> QED BY <2>1, StackRead DEF FibInv
<1>3. Top.arg >= 2 /\ result = Fibonacci[Top.arg - 1] /\ result \in UInt /\ result # NoResult
  <2>1. Top.arg >= 2 /\ result = Fibonacci[Pending(Top)] /\ result \in UInt
    BY <1>1, <1>2 DEF FibInv, FibTypeOK, Results
  <2>2. result # NoResult
    BY <2>1 DEF UInt, NoResult
  <2> QED BY <1>1, <2>1, <2>2 DEF Pending
<1>4. top \in Frames /\ top.arg = Top.arg /\ top.first = result
  BY <1>2, <1>3 DEF Frames
<1>5. Pending(top) = Top.arg - 2
  BY <1>3, <1>4 DEF Pending
<1>6. /\ front \in Seq(Frames) /\ Len(front) = n - 1
      /\ \A k \in 1 .. n - 1 : front[k] = stack[k]
  <2>1. n - 1 \in 0 .. Len(stack) /\ stack \in Seq(Frames)
    BY <1>2 DEF FibInv, FibTypeOK
  <2> QED BY <2>1, Beginning DEF Front
<1>7. below = Append(front, top)
  OBVIOUS
<1>8. stack' = below \o <<Frame(Pending(top))>>
  BY <1>1, <1>5
<1> HIDE DEF top, below, front, n
<1>9. /\ below \in Seq(Frames) /\ Len(below) = n /\ below[n] = top
      /\ \A k \in 1 .. n - 1 : below[k] = stack[k]
  <2>1. /\ below \in Seq(Frames) /\ Len(below) = (n - 1) + 1
        /\ \A k \in 1 .. n - 1 : below[k] = front[k]
        /\ below[(n - 1) + 1] = top
    BY ONLY <1>4, <1>6, <1>7, AppendProperties
  <2>2. (n - 1) + 1 = n
    BY <1>2
  <2> QED BY <1>6, <2>1, <2>2
<1>10. stack' = Append(below, Frame(Pending(top)))
  <2>1. Frame(Pending(top)) \in Frames
    <3>1. Pending(top) \in UInt
      BY <1>2, <1>3, <1>5, ConversionsAssumption DEF UInt
    <3> QED BY <3>1 DEF Frame, Frames
  <2> QED BY <1>8, <1>9, <2>1, AppendIsConcat
<1>11. top.first # NoResult => top.first = Fibonacci[top.arg - 1]
  BY <1>3, <1>4
<1>12. phase \in {"call", "return"}
  BY <1>1
<1> HIDE DEF new
<1> QED BY <1>1, <1>3, <1>4, <1>9, <1>10, <1>11, <1>12, Called DEF n

\* At the end the result is printed, or else the message of an argument missing.
LEMMA EndsHold == FibInv /\ (Missing \/ PrintResult) => FibInv'
<1> SUFFICES ASSUME FibInv, Missing \/ PrintResult PROVE FibInv'
  OBVIOUS
<1>1. /\ args' = args /\ stack' = stack /\ result' = result /\ phase' = "stopped"
      /\ stack = <<>>
  BY DEF FibInv, Results, Missing, PrintResult
<1>2. InMemory' = InMemory /\ Asked' = Asked /\ Greeting' = Greeting
  BY <1>1, ArgumentsStay
<1>3. FibTypeOK' /\ Calls' /\ Kept' /\ Results'
  BY <1>1, <1>2 DEF FibInv, FibTypeOK, Calls, Kept, Results, Pending
<1>4. CASE Missing
  BY <1>1, <1>3, <1>4 DEF FibInv, Output, Missing
<1>5. CASE PrintResult
  <2>1. out = Greeting /\ result = Fibonacci[Asked]
        /\ out' = out \o print_string(uns_to_str(result).buffer) \o <<"\n">>
    BY <1>5 DEF FibInv, Output, Results, PrintResult
  <2>2. Printed(Fibonacci[Asked])' = Printed(Fibonacci[Asked])
    BY <1>2 DEF Printed
  <2>3. out' = Greeting \o Printed(Fibonacci[Asked]) \o <<"\n">>
    BY <2>1 DEF Printed
  <2>4. Output'
    BY <1>1, <1>2, <2>2, <2>3 DEF Output
  <2> QED BY <1>3, <2>4 DEF FibInv
<1> QED BY <1>4, <1>5

\* The stack is empty at the start.
LEMMA FibInitHolds == FibInit => FibInv
<1> SUFFICES ASSUME FibInit PROVE FibInv
  OBVIOUS
<1>1. args \in Arguments /\ phase = "start" /\ stack = <<>> /\ result = 0
  BY DEF FibInit
<1>2. 0 \in UInt
  BY ConversionsAssumption DEF UInt
<1>3. stack \in Seq(Frames) /\ Len(stack) = 0
  BY <1>1
<1> QED BY <1>1, <1>2, <1>3 DEF FibInv, FibTypeOK, Calls, Kept, Results, Output

\* Every step of fib keeps the invariant, and so does a step of the other program.
LEMMA FibNextHolds == FibInv /\ (FibNext \/ UNCHANGED fibVars) => FibInv'
<1> SUFFICES ASSUME FibInv, FibNext \/ UNCHANGED fibVars PROVE FibInv'
  OBVIOUS
<1>1. CASE FibNext
  BY <1>1, StartHolds, BaseHolds, AddHolds, CallFirstHolds, CallSecondHolds, EndsHold
     DEF FibNext
<1>2. CASE UNCHANGED fibVars
  <2>1. args' = args /\ phase' = phase /\ stack' = stack /\ result' = result /\ out' = out
    BY <1>2 DEF fibVars
  <2>2. InMemory' = InMemory /\ Asked' = Asked /\ Greeting' = Greeting
    BY <2>1, ArgumentsStay
  <2>3. FibTypeOK' /\ Calls' /\ Kept' /\ Results'
    BY <2>1, <2>2 DEF FibInv, FibTypeOK, Calls, Kept, Results, Pending
  <2>4. Output'
    BY <2>1, <2>2 DEF FibInv, Output, Printed
  <2> QED BY <2>3, <2>4 DEF FibInv
<1> QED BY <1>1, <1>2

\* The invariant is one of every run of the simulator.
LEMMA FibHolds == Spec => []FibInv
<1>1. Init => FibInv
  BY FibInitHolds DEF Init
<1>2. FibInv /\ [Next]_benchmarkVars => FibInv'
  BY FibNextHolds DEF Next, benchmarkVars
<1> QED BY <1>1, <1>2, PTL DEF Spec

\* fib.c:5: the stack never holds more calls than the number asked for.
THEOREM StackFollowsArgument == Spec => []DepthFollowsArgument
<1>1. FibInv => DepthFollowsArgument
  <2> SUFFICES ASSUME FibInv PROVE DepthFollowsArgument
    OBVIOUS
  <2> DEFINE n == Len(stack)
  <2>1. n \in Nat /\ Asked \in Nat /\ \A k \in 1 .. n : stack[k].arg \in Nat
    BY StackRead DEF FibInv
  <2>2. CASE n <= 1
    BY <2>1, <2>2 DEF DepthFollowsArgument
  <2>3. CASE n > 1
    <3>1. n - 1 \in 1 .. n - 1 /\ n - 1 \in 1 .. n
      BY <2>1, <2>3
    <3>2. stack[n - 1].arg >= 2 /\ stack[n - 1].arg + (n - 1) <= Asked + 1
      BY <3>1 DEF FibInv, Calls
    <3>3. stack[n - 1].arg \in Nat
      BY <2>1, <3>1
    <3> HIDE DEF n
    <3>4. n <= Asked /\ ~(Asked < 2)
      BY <2>1, <2>3, <3>2, <3>3
    <3> QED BY <3>4 DEF DepthFollowsArgument, n
  <2> HIDE DEF n
  <2> QED BY <2>1, <2>2, <2>3
<1> QED BY <1>1, FibHolds, PTL

\* main of fib.c: what is printed behind the equals sign is digits, with no zero in front,
\* that read as the Fibonacci number of what the argument reads as.
THEOREM FibonacciPrinted == Spec => []PrintsFibonacci
<1>1. FibInv => PrintsFibonacci
  <2> SUFFICES ASSUME FibInv, phase = "stopped", args # <<>> PROVE PrintsFibonacci
    BY DEF PrintsFibonacci
  <2> DEFINE val == Fibonacci[Asked]
             text == Printed(val)
             answer == SubSeq(out, Len(print_string(InMemory)) + 3, Len(out) - 1)
  <2>1. val \in UInt
    BY StackRead, FibonacciDefined DEF FibInv
  <2>2. out = Greeting \o Printed(val) \o <<"\n">> /\ args \in Arguments
    BY DEF FibInv, FibTypeOK, Output
  <2>3. answer = text
    <3> HIDE DEF val
    <3> QED BY <2>1, <2>2, AnswerStands
  <2>4. /\ text \in Seq(DigitChars) /\ text \in Seq(Int) /\ Len(text) > 0
        /\ Len(text) > 1 => text[1] # ZeroChar
        /\ NumberOf(text) = val
    <3> HIDE DEF val
    <3> QED BY <2>1, PrintedReads
  <2> HIDE DEF text, val, answer
  <2>5. ValueOfText(text) = val
    BY <2>4, NumberIsValue
  <2>6. \A k \in DOMAIN text : text[k] - ZeroChar \in 0 .. 9
    <3>1. \A k \in DOMAIN text : text[k] \in DigitChars
      BY <2>4, LenProperties, ElementOfSeq
    <3> QED BY <3>1 DEF DigitChars, ZeroChar
  <2>7. Len(text) > 1 => Head(text) # ZeroChar
    BY <2>4
  <2> QED BY <2>3, <2>5, <2>6, <2>7 DEF PrintsFibonacci, answer, val
<1> QED BY <1>1, FibHolds, PTL
=============================================================================
