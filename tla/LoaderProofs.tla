---------------------------- MODULE LoaderProofs -----------------------------
(***************************************************************************)
(* The loader for every command line, file and memory: only whole programs *)
(* are run or listed, the listing is that of the text, and the memory      *)
(* keeps to pages of bytes.                                                *)
(***************************************************************************)
EXTENDS Loader, PartsProofs, SequenceTheorems

-----------------------------------------------------------------------------
\* The bytes of a number are a word, and lane 0 of a byte is the byte.
LEMMA LanesAreWord ==
  /\ \A v \in Nat : LanesOf(v) \in Word
  /\ \A v \in 0 .. 255 : LanesOf(v)[0] = v
<1>1. \A l \in Lane : 256^l \in Nat \ {0}
  <2> TAKE l \in Lane
  <2>1. l = 0 \/ l = 1 \/ l = 2 \/ l = 3
    BY DEF Lane
  <2>2. 256^l = <<1, 256, 65536, 16777216>>[l + 1]
    BY LoaderPowers
  <2> QED BY <2>1, <2>2
<1>2. ASSUME NEW v \in Nat PROVE LanesOf(v) \in Word
  <2> SUFFICES ASSUME NEW l \in Lane PROVE (v \div 256^l) % 256 \in Byte
    BY DEF LanesOf, Word
  <2> DEFINE m == 256^l
  <2>1. m \in Nat \ {0}
    BY <1>1
  <2> HIDE DEF m
  <2>2. v \div m \in Int
    BY <2>1
  <2>3. (v \div m) % 256 \in 0 .. 255
    BY <2>2
  <2> QED BY <2>3, LoaderAssumption DEF m
<1>3. ASSUME NEW v \in 0 .. 255 PROVE LanesOf(v)[0] = v
  <2>1. LanesOf(v)[0] = (v \div 256^0) % 256
    BY DEF LanesOf, Lane
  <2>2. (v \div 1) % 256 = v
    OBVIOUS
  <2>3. 256^0 = 1
    BY LoaderPowers DEF Lane
  <2> QED BY <2>1, <2>2, <2>3
<1> QED BY <1>2, <1>3

\* Every number is the address of a word and of a lane of it.
LEMMA WrappedParts ==
  ASSUME NEW addr \in Nat
  PROVE  PageNumber(addr) \in 0 .. NPages - 1 /\ WordIndex(addr) \in PageIndex
         /\ addr % 4 \in Lane
<1> DEFINE k == addr \div (4 * PageWords)
           w == addr \div 4
<1>1. 4 * PageWords \in Nat \ {0} /\ PageWords \in Nat \ {0} /\ NPages \in Nat \ {0}
  BY MemoryAssumption
<1>2. k \in Int /\ w \in Int
  BY <1>1
<1> HIDE DEF k, w
<1>3. k % NPages \in 0 .. NPages - 1 /\ w % PageWords \in 0 .. PageWords - 1
  BY <1>1, <1>2
<1> QED BY <1>3 DEF PageNumber, WordIndex, PageIndex, Lane, k, w

\* A word or a byte leaves a page table, wherever it is put.
LEMMA PutKeepsPages ==
  ASSUME NEW m \in PageTable, NEW addr \in Nat, NEW v \in Nat
  PROVE  PutWord(m, addr, v) \in PageTable /\ PutByte(m, addr, v) \in PageTable
<1> DEFINE p == PageNumber(addr)
           w == WordIndex(addr)
           page == get_page(m, addr)[p]
<1>1. p \in 0 .. NPages - 1 /\ w \in PageIndex /\ addr % 4 \in Lane
  BY WrappedParts
<1>2. ZeroPage \in Page
  BY MemoryAssumption DEF ZeroPage, ZeroWord, Page, Word
<1>3. page \in Page
  BY <1>1, <1>2 DEF get_page, PageTable
<1> HIDE DEF page
<1>4. ASSUME NEW word \in Word PROVE SetWordAt(m, addr, word) \in PageTable
  <2>1. [page EXCEPT ![w] = word] \in Page
    BY <1>1, <1>3 DEF Page
  <2> QED BY <1>1, <2>1 DEF SetWordAt, PageTable, page
<1>5. WordAt(m, addr) \in Word
  BY <1>1, <1>3 DEF WordAt, Page, page
<1>6. LanesOf(v) \in Word
  BY LanesAreWord
<1>7. [WordAt(m, addr) EXCEPT ![addr % 4] = LanesOf(v)[0]] \in Word
  BY <1>1, <1>5, <1>6 DEF Word, Lane
<1> QED BY <1>4, <1>6, <1>7 DEF PutWord, PutByte, memory_wr_w, memory_wr_b

\* A byte at an address replaces the byte there and no other.
LEMMA PutByteStores ==
  ASSUME NEW m \in PageTable, NEW addr \in Addr, NEW v \in Byte
  PROVE  \A x \in Addr : ByteAt(PutByte(m, addr, v), x) = IF x = addr THEN v ELSE ByteAt(m, x)
<1>1. addr \in Nat /\ \A x \in Addr : x \in Nat
  BY MemoryAssumption DEF Addr
<1>2. LanesOf(v) \in Word /\ LanesOf(v)[0] = v
  <2>1. v \in 0 .. 255
    BY LoaderAssumption
  <2>2. v \in Nat
    BY ONLY <2>1
  <2> QED BY <2>1, <2>2, LanesAreWord
<1>3. StoresBytes(PutByte(m, addr, v), m, addr, 1, LanesOf(v))
  BY <1>2, WriteByteStores DEF PutByte
<1>4. \A x \in Addr : x \in addr .. addr + 1 - 1 <=> x = addr
  BY <1>1
<1>5. addr - addr = 0
  BY <1>1
<1> QED BY <1>2, <1>3, <1>4, <1>5 DEF StoresBytes

\* The bytes at the positions S of bytes, put one after the other in any order.
PutAt(m, addr, bytes, S) == FoldSet(LAMBDA k, t : PutByte(t, addr + k - 1, bytes[k]), m, S)

\* r is m with those bytes from addr on, unless they go past the last address.
Stored(r, m, addr, bytes, S) ==
  /\ r \in PageTable
  /\ (\A k \in S : addr + k - 1 \in Addr) =>
       \A x \in Addr : ByteAt(r, x) = IF x - addr + 1 \in S
                                      THEN bytes[x - addr + 1] ELSE ByteAt(m, x)

\* In any order each byte comes to its address, and no other address is written.
LEMMA PutSome ==
  ASSUME NEW m \in PageTable, NEW addr \in Nat, NEW bytes \in Seq(0 .. 255),
         NEW S \in SUBSET DOMAIN bytes
  PROVE  Stored(PutAt(m, addr, bytes, S), m, addr, bytes, S)
<1> DEFINE r == PutAt(m, addr, bytes, S)
           put(t, k) == PutByte(t, addr + k - 1, bytes[k])
           body(iter) == [s \in SUBSET S |->
                            IF s = {} THEN m ELSE put(iter[s \ {Taken(s)}], Taken(s))]
           ch == [s \in SUBSET S |-> Taken(s)]
           G == [k \in S |-> [t \in PageTable |-> put(t, k)]]
<1>1. IsFiniteSet(S)
  <2>1. IsFiniteSet(1 .. Len(bytes)) /\ DOMAIN bytes = 1 .. Len(bytes)
    BY FS_Interval
  <2> QED BY <2>1, FS_Subset
<1>2. \A k \in S : addr + k - 1 \in Nat /\ k \in Int /\ bytes[k] \in 0 .. 255
  OBVIOUS
<1>3. \A k \in S, t \in PageTable : put(t, k) \in PageTable
  <2> TAKE k \in S, t \in PageTable
  <2>1. addr + k - 1 \in Nat /\ bytes[k] \in 0 .. 255
    BY <1>2
  <2> DEFINE v == bytes[k]
  <2>2. v \in 0 .. 255
    BY <2>1
  <2> HIDE DEF v
  <2>3. v \in Nat
    BY <2>2
  <2> QED BY <2>1, <2>3, PutKeepsPages DEF v
<1>4. \A s \in SUBSET S : s # {} => Taken(s) \in s /\ ch[s] = Taken(s)
  BY DEF Taken
<1>5. \A k \in S, t \in PageTable : G[k][t] = put(t, k)
  OBVIOUS
<1> HIDE DEF put, ch, G
<1>6. \E iter : iter = body(iter)
  <2>1. Chooses(S, ch) /\ Keeps(S, PageTable, G)
    BY <1>3, <1>4, <1>5 DEF Chooses, Keeps
  <2>2. PICK iter : Folds(S, ch, m, PageTable, G, iter)
    BY <1>1, <2>1, FoldsExist
  <2>3. \A s \in SUBSET S : s # {} =>
          G[ch[s]][iter[s \ {ch[s]}]] = put(iter[s \ {Taken(s)}], Taken(s))
    BY <1>4, <1>5, <2>2 DEF Folds
  <2>4. iter = body(iter)
    BY <2>2, <2>3 DEF Folds
  <2> QED BY <2>4
<1>7. \E iter : iter = body(iter) /\ r = iter[S]
  BY <1>6 DEF PutAt, FoldSet, MapThenFoldSet, put, Taken
<1>8. PICK iter : iter = body(iter) /\ r = iter[S]
  BY <1>7
<1> HIDE DEF r
<1> DEFINE T == {s \in SUBSET S : Stored(iter[s], m, addr, bytes, s)}
<1>9. ASSUME NEW s \in SUBSET S, \A k \in s : s \ {k} \in T PROVE s \in T
  <2>1. CASE s = {}
    <3>1. iter[s] = m
      BY <1>8, <2>1
    <3> QED BY <2>1, <3>1 DEF Stored
  <2>2. CASE s # {}
    <3> DEFINE k == Taken(s)
               rest == s \ {k}
               t == iter[rest]
               a == addr + k - 1
               v == bytes[k]
    <3>1. k \in s /\ k \in S /\ Stored(t, m, addr, bytes, rest)
      BY <1>4, <1>9, <2>2
    <3>2. iter[s] = PutByte(t, a, v)
      BY <1>8, <2>2 DEF put
    <3>3. t \in PageTable /\ a \in Nat /\ k \in Int /\ v \in 0 .. 255
      BY <1>2, <3>1 DEF Stored
    <3>4. iter[s] \in PageTable
      BY <1>3, <1>8, <2>2, <3>1, <3>3
    <3>5. ASSUME \A j \in s : addr + j - 1 \in Addr, NEW x \in Addr
          PROVE  ByteAt(iter[s], x) = IF x - addr + 1 \in s
                                      THEN bytes[x - addr + 1] ELSE ByteAt(m, x)
      <4>1. a \in Addr /\ x \in Int
        BY <3>1, <3>5, MemoryAssumption DEF Addr
      <4>2. ByteAt(t, x) = IF x - addr + 1 \in rest
                           THEN bytes[x - addr + 1] ELSE ByteAt(m, x)
        BY <3>1, <3>5 DEF Stored
      <4>3. x = a <=> x - addr + 1 = k
        BY <3>3, <4>1
      <4> HIDE DEF t, a, v
      <4>4. \A y \in Addr : ByteAt(PutByte(t, a, v), y) = IF y = a THEN v ELSE ByteAt(t, y)
        <5>1. t \in PageTable /\ a \in Addr /\ v \in Byte
          BY <3>3, <4>1, LoaderAssumption
        <5> QED BY ONLY <5>1, PutByteStores
      <4>5. ByteAt(iter[s], x) = IF x = a THEN v ELSE ByteAt(t, x)
        BY <3>2, <4>4
      <4> HIDE DEF k
      <4> QED BY <3>1, <4>2, <4>3, <4>5 DEF v
    <3> HIDE DEF k, rest, t, a, v
    <3> QED BY <3>4, <3>5 DEF Stored
  <2> QED BY <2>1, <2>2
<1>10. S \in T
  <2> HIDE DEF T
  <2>1. SUBSET S \subseteq T
    BY <1>1, <1>9, FiniteInduction
  <2> QED BY <2>1
<1> QED BY <1>8, <1>10 DEF r

\* PutBytes puts consecutive bytes at consecutive addresses, and no other byte; where
\* they go past the last address it still leaves pages.
LEMMA PutBytesStores ==
  ASSUME NEW m \in PageTable, NEW addr \in Nat, NEW bytes \in Seq(0 .. 255)
  PROVE  Stored(PutBytes(m, addr, bytes), m, addr, bytes, DOMAIN bytes)
<1> DEFINE r == PutBytes(m, addr, bytes)
           In(page) == {k \in DOMAIN bytes : PageNumber(addr + k - 1) = page}
           part(page) == PutAt(m, addr, bytes, In(page))
<1>1. r = [page \in DOMAIN m |-> part(page)[page]]
  BY DEF PutBytes, PutAt
<1>2. \A page : Stored(part(page), m, addr, bytes, In(page))
  <2> TAKE page
  <2> DEFINE S == In(page)
  <2>1. S \in SUBSET DOMAIN bytes
    OBVIOUS
  <2> HIDE DEF S
  <2>2. Stored(PutAt(m, addr, bytes, S), m, addr, bytes, S)
    BY <2>1, PutSome
  <2> QED BY <2>2 DEF S
<1> HIDE DEF part, r
<1>3. r \in PageTable
  BY <1>1, <1>2 DEF PageTable, Stored
<1>4. ASSUME \A k \in DOMAIN bytes : addr + k - 1 \in Addr, NEW x \in Addr
      PROVE  ByteAt(r, x) = IF x - addr + 1 \in DOMAIN bytes
                            THEN bytes[x - addr + 1] ELSE ByteAt(m, x)
  <2> DEFINE page == PageNumber(x)
  <2>1. page \in 0 .. NPages - 1 /\ page \in DOMAIN m /\ x \in Int
    BY AddressParts, MemoryAssumption DEF PageTable, Addr
  <2>2. ByteAt(r, x) = ByteAt(part(page), x)
    BY <1>1, <2>1 DEF ByteAt
  <2>3. x - addr + 1 \in In(page) <=> x - addr + 1 \in DOMAIN bytes
    <3>1. addr + (x - addr + 1) - 1 = x
      BY <2>1
    <3> QED BY <3>1
  <2>4. \A k \in In(page) : addr + k - 1 \in Addr
    BY <1>4
  <2> HIDE DEF In, page
  <2>5. ByteAt(part(page), x) = IF x - addr + 1 \in In(page)
                                THEN bytes[x - addr + 1] ELSE ByteAt(m, x)
    BY <1>2, <2>4 DEF Stored
  <2> QED BY <2>2, <2>3, <2>5
<1> QED BY <1>3, <1>4 DEF r, Stored

-----------------------------------------------------------------------------
Names == DOMAIN Chars

\* The characters of a name and the NUL after them are bytes.
LEMMA TextOfName ==
  ASSUME NEW name \in Names
  PROVE  /\ Chars[name] \in Seq(0 .. 255) /\ Len(Chars[name]) \in Nat
         /\ Append(Chars[name], 0) \in Seq(0 .. 255)
<1>1. Chars[name] \in Seq(1 .. 255)
  BY LoaderAssumption DEF Names
<1>2. Chars[name] \in Seq(0 .. 255) /\ Len(Chars[name]) \in Nat
  <2>1. 1 .. 255 \subseteq 0 .. 255
    OBVIOUS
  <2> QED BY <1>1, <2>1, SeqMonotonic, LenProperties
<1>3. 0 \in 0 .. 255
  OBVIOUS
<1> QED BY <1>2, <1>3, AppendProperties

\* The arguments of the program are names, those from the separator on.
LEMMA ArgumentsAreNames ==
  ASSUME NEW names \in CommandLines
  PROVE  Position(names) \in 1 .. Len(names) /\ ProgramArgs(names) \in Seq(Names)
<1>1. names \in Seq(Names) /\ Len(names) \in Nat \ {0}
  <2>1. names \in Seq(DOMAIN Chars) /\ Len(names) > 0
    BY LoaderAssumption
  <2> QED BY <2>1 DEF Names
<1>2. Position(names) \in 1 .. Len(names)
  <2> DEFINE S == Separators(names)
  <2>1. S \in SUBSET Nat /\ S \subseteq 1 .. Len(names) - 1
    BY <1>1 DEF Separators
  <2>2. CASE S = {}
    BY <1>1, <2>2 DEF Position
  <2>3. CASE S # {}
    <3> HIDE DEF S
    <3>1. \E x \in S : \A y \in S : x =< y
      BY <2>1, <2>3, LeastElement
    <3>2. Min(S) \in S
      BY <3>1 DEF Min
    <3>3. Position(names) = Min(S)
      BY <2>3 DEF Position, S
    <3> DEFINE x == Min(S)
    <3> HIDE DEF x
    <3>4. x \in 1 .. Len(names) - 1
      BY <2>1, <3>2 DEF x
    <3>5. x \in 1 .. Len(names)
      BY ONLY <1>1, <3>4
    <3> QED BY <3>3, <3>5 DEF x
  <2> QED BY <2>2, <2>3
<1>3. ProgramArgs(names) \in Seq(Names)
  <2> DEFINE p == Position(names) + 1
             n == Len(names)
  <2>1. p \in Int /\ n \in Int /\ \A k \in p .. n : k \in 1 .. Len(names)
    BY <1>1, <1>2
  <2>2. \A k \in p .. n : names[k] \in Names
    BY <1>1, <2>1, ElementOfSeq
  <2> HIDE DEF p, n
  <2>3. SubSeq(names, p, n) \in Seq(Names)
    BY <2>1, <2>2, SubSeqProperties
  <2> QED BY <2>3 DEF ProgramArgs, p, n
<1> QED BY <1>2, <1>3

\* The length of the texts of the first arguments, each with its NUL.
TextTurn(args) ==
  [k \in 1 .. Len(args) |-> [t \in Nat |-> t + Len(Chars[args[k]]) + 1]]

\* A sum of lengths is the last of the partial sums.
LEMMA TextLength ==
  ASSUME NEW args \in Seq(Names)
  PROVE  \E len : /\ Runs(Len(args), Nat, 0, TextTurn(args), len)
                  /\ FoldLeft(LAMBDA sum, name : sum + Len(Chars[name]) + 1, 0, args)
                       = len[Len(args)]
<1> DEFINE n == Len(args)
           r == FoldLeft(LAMBDA sum, name : sum + Len(Chars[name]) + 1, 0, args)
           op(t, k) == t + Len(Chars[args[k]]) + 1
           body(iter) == [s \in SUBSET DOMAIN args |->
                            IF s = {} THEN 0 ELSE op(iter[s \ {Max(s)}], Max(s))]
           G == TextTurn(args)
<1>1. n \in Nat /\ DOMAIN args = 1 .. n
  BY LenProperties
<1>2. \A k \in 1 .. n, t \in Nat : G[k][t] = op(t, k) /\ op(t, k) \in Nat
  <2> TAKE k \in 1 .. n, t \in Nat
  <2>1. G[k][t] = op(t, k)
    BY DEF TextTurn
  <2>2. Len(Chars[args[k]]) \in Nat
    BY ElementOfSeq, TextOfName
  <2> QED BY <2>1, <2>2
<1> DEFINE T == Nat
<1> HIDE DEF n, G, op
<1>3. 0 \in T /\ Keeps(1 .. n, T, G)
  BY <1>2 DEF Keeps
<1> HIDE DEF T
<1>4. \A s \in SUBSET (1 .. n) : s # {} => Max(s) \in s /\ LastOf(n)[s] = Max(s)
  BY <1>1, GreatestElement DEF LastOf
<1>5. \E iter : iter = body(iter)
  <2>1. PICK iter : Folds(1 .. n, LastOf(n), 0, T, G, iter)
    BY <1>1, <1>3, LeftFoldsExist
  <2>2. \A s \in SUBSET (1 .. n) : s # {} =>
          G[LastOf(n)[s]][iter[s \ {LastOf(n)[s]}]] = op(iter[s \ {Max(s)}], Max(s))
    BY <1>2, <1>4, <2>1 DEF Folds, T
  <2>3. iter = body(iter)
    BY <1>1, <2>1, <2>2 DEF Folds
  <2> QED BY <2>3
<1>6. \E iter : iter = body(iter) /\ r = iter[DOMAIN args]
  BY <1>5 DEF FoldLeft, MapThenFoldSet, op
<1> HIDE DEF r
<1>7. PICK iter : iter = body(iter) /\ r = iter[1 .. n]
  BY <1>1, <1>6
<1>8. TakesLast(n, T, 0, G, iter)
  <2>1. iter[{}] = 0
    BY <1>7
  <2>2. ASSUME NEW s \in SUBSET (1 .. n), s # {}, iter[s \ {Max(s)}] \in T
        PROVE  iter[s] = G[Max(s)][iter[s \ {Max(s)}]]
    <3>1. iter[s] = op(iter[s \ {Max(s)}], Max(s)) /\ Max(s) \in 1 .. n
      BY <1>1, <1>4, <1>7, <2>2
    <3> QED BY <1>2, <2>2, <3>1 DEF T
  <2> QED BY <2>1, <2>2 DEF TakesLast
<1>9. PICK len : Runs(n, T, 0, G, len) /\ len[n] = iter[1 .. n]
  BY <1>1, <1>3, <1>8, LeftFoldRuns
<1> QED BY <1>7, <1>9 DEF n, G, r, T

\* The strings lie one after the other behind the table.
LEMMA StringAddresses ==
  ASSUME NEW args \in Seq(Names)
  PROVE  \E len : /\ Runs(Len(args), Nat, 0, TextTurn(args), len)
                  /\ \A k \in 1 .. Len(args) + 1 :
                       StringAddress(args, k) = ArgBase + 4 + 4 * Len(args) + len[k - 1]
<1> DEFINE n == Len(args)
<1>1. n \in Nat
  BY LenProperties
<1>2. PICK len : Runs(n, Nat, 0, TextTurn(args), len)
  BY TextLength
<1>3. ASSUME NEW k \in 1 .. n + 1
      PROVE  StringAddress(args, k) = ArgBase + 4 + 4 * n + len[k - 1]
  <2> DEFINE sub == SubSeq(args, 1, k - 1)
             m == k - 1
             sum == FoldLeft(LAMBDA t, name : t + Len(Chars[name]) + 1, 0, sub)
  <2>1. m \in Nat /\ m \in 0 .. n /\ 1 \in Int /\ m \in Int /\ \A j \in 1 .. m : j \in 1 .. n
    BY <1>1
  <2>2. \A j \in 1 .. m : args[j] \in Names
    BY <2>1, ElementOfSeq
  <2>3. sub \in Seq(Names) /\ Len(sub) = m /\ \A j \in 1 .. m : sub[j] = args[j]
    <3> HIDE DEF m
    <3>1. /\ SubSeq(args, 1, m) \in Seq(Names)
          /\ Len(SubSeq(args, 1, m)) = IF 1 <= m THEN m - 1 + 1 ELSE 0
          /\ \A j \in 1 .. m - 1 + 1 : SubSeq(args, 1, m)[j] = args[1 + j - 1]
      BY <2>1, <2>2, SubSeqProperties
    <3>2. m - 1 + 1 = m /\ (IF 1 <= m THEN m ELSE 0) = m /\ \A j \in 1 .. m : 1 + j - 1 = j
      BY <2>1
    <3> QED BY <3>1, <3>2 DEF m
  <2> HIDE DEF sub
  <2>4. PICK part : Runs(m, Nat, 0, TextTurn(sub), part) /\ sum = part[m]
    BY <2>3, TextLength
  <2> HIDE DEF sum
  <2> DEFINE Same == {j \in 0 .. m : part[j] = len[j]}
  <2>5. 0 \in Same
    BY <1>2, <2>1, <2>4 DEF Runs
  <2>6. ASSUME NEW j \in 0 .. m - 1, j \in Same PROVE j + 1 \in Same
    <3> HIDE DEF m, n
    <3>1. j + 1 \in 1 .. m /\ j + 1 \in 0 .. m /\ j + 1 \in 1 .. n /\ (j + 1) - 1 = j
          /\ j \in 0 .. m /\ j \in 0 .. n
      BY <1>1, <2>1
    <3>2. part[j + 1] = TextTurn(sub)[j + 1][part[j]] /\ part[j] \in Nat
      BY <2>4, <3>1 DEF Runs
    <3>3. len[j + 1] = TextTurn(args)[j + 1][len[j]]
      BY <1>2, <3>1 DEF Runs
    <3>4. TextTurn(sub)[j + 1][part[j]] = part[j] + Len(Chars[sub[j + 1]]) + 1
      BY <2>3, <3>1, <3>2 DEF TextTurn
    <3>5. TextTurn(args)[j + 1][part[j]] = part[j] + Len(Chars[args[j + 1]]) + 1
      BY <3>1, <3>2 DEF TextTurn, n
    <3> QED BY <2>3, <2>6, <3>1, <3>2, <3>3, <3>4, <3>5
  <2>7. 0 .. m \subseteq Same
    <3>1. \A j \in 0 .. m - 1 : j \in Same => j + 1 \in Same
      BY <2>6
    <3> HIDE DEF Same, m
    <3> QED BY <2>1, <2>5, <3>1, BoundedInduction
  <2>8. sum = len[m]
    BY <2>1, <2>4, <2>7
  <2> QED BY <2>8 DEF StringAddress, sum, sub
<1> QED BY <1>2, <1>3

\* An argument is put into a memory of pages.
LEMMA ArgumentKeepsPages ==
  ASSUME NEW args \in Seq(Names), NEW k \in 1 .. Len(args), NEW m \in PageTable
  PROVE  /\ StringAddress(args, k) \in Nat /\ ArgBase + 4 * k \in Nat
         /\ PassArgument(args, m, k) \in PageTable
<1> DEFINE a == StringAddress(args, k)
           bytes == Append(Chars[args[k]], 0)
           t == PutWord(m, ArgBase + 4 * k, a)
<1>1. a \in Nat /\ ArgBase + 4 * k \in Nat
  <2>1. PICK len : /\ Runs(Len(args), Nat, 0, TextTurn(args), len)
                   /\ \A j \in 1 .. Len(args) + 1 :
                        StringAddress(args, j) = ArgBase + 4 + 4 * Len(args) + len[j - 1]
    BY StringAddresses
  <2>2. Len(args) \in Nat /\ k - 1 \in 0 .. Len(args) /\ k \in 1 .. Len(args) + 1
    BY LenProperties
  <2>3. len[k - 1] \in Nat
    BY <2>1, <2>2 DEF Runs
  <2>4. ArgBase \in Nat
    BY LoaderAssumption, MemoryAssumption DEF Addr
  <2> QED BY <2>1, <2>2, <2>3, <2>4
<1>2. bytes \in Seq(0 .. 255)
  BY ElementOfSeq, TextOfName
<1> HIDE DEF a, bytes
<1>3. t \in PageTable
  BY <1>1, PutKeepsPages
<1> HIDE DEF t
<1>4. Stored(PutBytes(t, a, bytes), t, a, bytes, DOMAIN bytes)
  BY <1>1, <1>2, <1>3, PutBytesStores
<1>5. PassArgument(args, m, k) = PutBytes(t, a, bytes)
  BY DEF PassArgument, t, a, bytes
<1> QED BY <1>1, <1>4, <1>5 DEF Stored, a

\* The loop over the arguments, a turn for each.
ArgumentTurn(args) ==
  [k \in 1 .. Len(args) |-> [t \in PageTable |-> PassArgument(args, t, k)]]

Passed(args, m) ==
  FoldLeft(LAMBDA t, k : PassArgument(args, t, k), PutWord(m, ArgBase, Len(args)),
           [k \in DOMAIN args |-> k])

\* The memory after the loop is that after its last turn.
LEMMA ArgumentsPassed ==
  ASSUME NEW args \in Seq(Names), NEW m \in PageTable
  PROVE  \E run : /\ Runs(Len(args), PageTable, PutWord(m, ArgBase, Len(args)),
                          ArgumentTurn(args), run)
                  /\ Passed(args, m) = run[Len(args)]
<1> DEFINE n == Len(args)
           base == PutWord(m, ArgBase, n)
           seq == [k \in DOMAIN args |-> k]
           r == Passed(args, m)
           op(t, k) == PassArgument(args, t, k)
           body(iter) == [s \in SUBSET DOMAIN seq |->
                            IF s = {} THEN base ELSE op(iter[s \ {Max(s)}], seq[Max(s)])]
           G == ArgumentTurn(args)
<1>1. n \in Nat /\ DOMAIN args = 1 .. n /\ DOMAIN seq = 1 .. n /\ \A k \in 1 .. n : seq[k] = k
  BY LenProperties
<1>2. \A k \in 1 .. n, t \in PageTable : G[k][t] = op(t, k) /\ op(t, k) \in PageTable
  BY ArgumentKeepsPages DEF ArgumentTurn
<1>3. base \in PageTable
  <2>1. ArgBase \in Nat
    BY LoaderAssumption, MemoryAssumption DEF Addr
  <2> QED BY <1>1, <2>1, PutKeepsPages
<1>4. r = FoldLeft(LAMBDA t, k : PassArgument(args, t, k), base, seq)
  BY DEF Passed
<1> HIDE DEF n, G, op, base, r, seq
<1>5. Keeps(1 .. n, PageTable, G)
  BY <1>2 DEF Keeps
<1>6. \A s \in SUBSET (1 .. n) : s # {} =>
        Max(s) \in s /\ LastOf(n)[s] = Max(s) /\ seq[Max(s)] = Max(s)
  <2>1. \A s \in SUBSET (1 .. n) : s # {} => Max(s) \in s
    BY <1>1, GreatestElement
  <2> QED BY <1>1, <2>1 DEF LastOf
<1>7. \E iter : iter = body(iter)
  <2>1. PICK iter : Folds(1 .. n, LastOf(n), base, PageTable, G, iter)
    BY <1>1, <1>3, <1>5, LeftFoldsExist
  <2>2. \A s \in SUBSET (1 .. n) : s # {} =>
          G[LastOf(n)[s]][iter[s \ {LastOf(n)[s]}]] = op(iter[s \ {Max(s)}], seq[Max(s)])
    BY <1>2, <1>6, <2>1 DEF Folds
  <2>3. iter = body(iter)
    BY <1>1, <2>1, <2>2 DEF Folds
  <2> QED BY <2>3
<1>8. PICK iter : iter = body(iter) /\ r = iter[1 .. n]
  <2>1. \E iter : iter = body(iter) /\ r = iter[DOMAIN seq]
    BY <1>4, <1>7 DEF FoldLeft, MapThenFoldSet, op
  <2> QED BY <1>1, <2>1
<1>9. TakesLast(n, PageTable, base, G, iter)
  <2>1. iter[{}] = base
    BY <1>8
  <2>2. ASSUME NEW s \in SUBSET (1 .. n), s # {}, iter[s \ {Max(s)}] \in PageTable
        PROVE  iter[s] = G[Max(s)][iter[s \ {Max(s)}]]
    <3> DEFINE k == Max(s)
    <3>1. k \in 1 .. n /\ seq[k] = k
      BY <1>6, <2>2
    <3>2. iter[s] = op(iter[s \ {k}], seq[k])
      BY <1>1, <1>8, <2>2
    <3> HIDE DEF k
    <3>3. iter[s] = op(iter[s \ {k}], k)
      BY <3>1, <3>2
    <3>4. iter[s] = G[k][iter[s \ {k}]]
      BY <1>2, <2>2, <3>1, <3>3 DEF k
    <3> QED BY <3>4 DEF k
  <2> QED BY <2>1, <2>2 DEF TakesLast
<1>10. PICK run : Runs(n, PageTable, base, G, run) /\ run[n] = iter[1 .. n]
  BY <1>1, <1>3, <1>5, <1>9, LeftFoldRuns
<1> QED BY <1>8, <1>10 DEF n, G, r, base

\* What the listing reads are addresses, and reading them allocates pages.
LEMMA LinesKeepPages ==
  ASSUME NEW lines \in Seq(Nat), NEW m \in PageTable
  PROVE  FoldLeft(get_page, m, lines) \in PageTable
<1> DEFINE n == Len(lines)
           r == FoldLeft(get_page, m, lines)
           op(t, k) == get_page(t, lines[k])
           body(iter) == [s \in SUBSET DOMAIN lines |->
                            IF s = {} THEN m ELSE op(iter[s \ {Max(s)}], Max(s))]
           G == [k \in 1 .. n |-> [t \in PageTable |-> op(t, k)]]
<1>1. n \in Nat /\ DOMAIN lines = 1 .. n
  BY LenProperties
<1>2. \A k \in 1 .. n, t \in PageTable : G[k][t] = op(t, k) /\ op(t, k) \in PageTable
  <2> TAKE k \in 1 .. n, t \in PageTable
  <2> DEFINE a == lines[k]
  <2>1. a \in Nat
    BY ElementOfSeq
  <2> HIDE DEF a
  <2>2. PageNumber(a) \in 0 .. NPages - 1
    BY <2>1, WrappedParts
  <2>3. ZeroPage \in Page
    BY MemoryAssumption DEF ZeroPage, ZeroWord, Page, Word
  <2>4. get_page(t, a) \in PageTable
    BY <2>2, <2>3 DEF get_page, PageTable
  <2> QED BY <2>4 DEF a
<1> HIDE DEF n, G, op
<1>5. Keeps(1 .. n, PageTable, G)
  BY <1>2 DEF Keeps
<1>6. \A s \in SUBSET (1 .. n) : s # {} => Max(s) \in s /\ LastOf(n)[s] = Max(s)
  BY <1>1, GreatestElement DEF LastOf
<1>7. \E iter : iter = body(iter)
  <2>1. PICK iter : Folds(1 .. n, LastOf(n), m, PageTable, G, iter)
    BY <1>1, <1>5, LeftFoldsExist
  <2>2. \A s \in SUBSET (1 .. n) : s # {} =>
          G[LastOf(n)[s]][iter[s \ {LastOf(n)[s]}]] = op(iter[s \ {Max(s)}], Max(s))
    BY <1>2, <1>6, <2>1 DEF Folds
  <2>3. iter = body(iter)
    BY <1>1, <2>1, <2>2 DEF Folds
  <2> QED BY <2>3
<1>8. PICK iter : iter = body(iter) /\ r = iter[1 .. n]
  <2>1. \E iter : iter = body(iter) /\ r = iter[DOMAIN lines]
    BY <1>7 DEF FoldLeft, MapThenFoldSet, op
  <2> HIDE DEF r
  <2> QED BY <1>1, <2>1
<1> HIDE DEF r
<1>9. TakesLast(n, PageTable, m, G, iter)
  <2>1. iter[{}] = m
    BY <1>8
  <2>2. ASSUME NEW s \in SUBSET (1 .. n), s # {}, iter[s \ {Max(s)}] \in PageTable
        PROVE  iter[s] = G[Max(s)][iter[s \ {Max(s)}]]
    <3>1. iter[s] = op(iter[s \ {Max(s)}], Max(s)) /\ Max(s) \in 1 .. n
      BY <1>1, <1>6, <1>8, <2>2
    <3> QED BY <1>2, <2>2, <3>1
  <2> QED BY <2>1, <2>2 DEF TakesLast
<1>10. PICK run : Runs(n, PageTable, m, G, run) /\ run[n] = iter[1 .. n]
  BY <1>1, <1>5, <1>9, LeftFoldRuns
<1>11. n \in 0 .. n
  BY <1>1
<1> QED BY <1>8, <1>10, <1>11 DEF Runs, r

-----------------------------------------------------------------------------
(***************************************************************************)
(* The phases.  A program header is handled in order, whole or not at all, *)
(* and nothing comes after the segments before the last one is.            *)
(***************************************************************************)

\* The executable segments among the first k program headers.
Executable(k) ==
  {j \in 1 .. k : file.phdrs[j].p_type = PT_LOAD /\ PF_X \in file.phdrs[j].p_flags}

\* The program headers up to i are read, their segments whole, and the last that is
\* executable is the text.
HeadersHandled ==
  /\ file # NoFile /\ file.header /\ i <= Len(file.phdrs)
  /\ \A k \in 1 .. i : file.phdrs[k].p_type = PT_LOAD => Whole(file.phdrs[k])
  /\ \A k \in Executable(i) : (\A j \in Executable(i) : j <= k) =>
       LET phdr == file.phdrs[k]
       IN  /\ info.text_start = phdr.p_vaddr + SizeOfEhdr + file.ehdr.e_phnum * SizeOfPhdr
           /\ info.text_end = phdr.p_vaddr + phdr.p_filesz

AllHandled == HeadersHandled /\ i = file.ehdr.e_phnum

IInv ==
  /\ TypeOK /\ argv \in CommandLines /\ file \in Files
  /\ phase \in {"arguments", "options", "open"} => i = 0
  /\ phase = "segments" => HeadersHandled
  /\ phase \in {"symbols", "list", "simulate", "report"} => AllHandled
  /\ phase \in {"simulate", "report"} => ~Option(3, "-d")
  /\ phase = "ended" /\ code = "exit 0" /\ Option(3, "-d") =>
       /\ AllHandled
       /\ listing = Lines
       /\ Lines # <<>> => Aligned(info.text_start, 4)

\* What a file is made of.
LEMMA FileParts ==
  ASSUME NEW f \in Files, f # NoFile
  PROVE  /\ f.ehdr.e_phnum \in Nat /\ f.ehdr.e_entry \in Nat
         /\ Len(f.phdrs) \in Nat /\ Len(f.phdrs) <= f.ehdr.e_phnum
         /\ f.phdrs \in Seq(Elf32_Phdr)
         /\ \A k \in 1 .. Len(f.phdrs) :
              /\ f.phdrs[k].p_vaddr \in Nat /\ f.phdrs[k].p_filesz \in Nat
              /\ f.phdrs[k].data \in Seq(0 .. 255)
<1>1. f \in ElfFile /\ Len(f.phdrs) <= f.ehdr.e_phnum
  BY LoaderAssumption
<1>2. f.ehdr \in Elf32_Ehdr /\ f.phdrs \in Seq(Elf32_Phdr)
  BY <1>1 DEF ElfFile
<1>3. f.ehdr.e_phnum \in Nat /\ f.ehdr.e_entry \in Nat
  BY <1>2 DEF Elf32_Ehdr
<1>4. \A k \in 1 .. Len(f.phdrs) : f.phdrs[k] \in Elf32_Phdr
  BY <1>2, ElementOfSeq
<1>5. ASSUME NEW k \in 1 .. Len(f.phdrs)
      PROVE  /\ f.phdrs[k].p_vaddr \in Nat /\ f.phdrs[k].p_filesz \in Nat
             /\ f.phdrs[k].data \in Seq(0 .. 255)
  <2> DEFINE phdr == f.phdrs[k]
  <2>1. phdr \in Elf32_Phdr
    BY <1>4
  <2> HIDE DEF phdr
  <2>2. phdr.p_vaddr \in Nat /\ phdr.p_filesz \in Nat /\ phdr.data \in Seq(0 .. 255)
    BY <2>1 DEF Elf32_Phdr
  <2> QED BY <2>2 DEF phdr
<1> QED BY <1>1, <1>2, <1>3, <1>5, LenProperties

\* A run begins with no memory and no header handled.
LEMMA InitHolds == Init => IInv
<1> SUFFICES ASSUME Init PROVE IInv
  OBVIOUS
<1>1. argv \in Seq(Names) /\ Len(argv) \in Nat /\ Len(argv) > 0
  <2>1. argv \in Seq(DOMAIN Chars) /\ Len(argv) > 0
    BY LoaderAssumption DEF Init
  <2> QED BY <2>1, LenProperties DEF Names
<1>2. mem \in PageTable
  BY FreshMemory DEF Init
<1>3. info \in program_info
  BY DEF Init, program_info
<1>4. file # NoFile => 0 <= file.ehdr.e_phnum
  <2>1. file # NoFile => file.ehdr.e_phnum \in Nat
    BY FileParts DEF Init
  <2> QED BY <2>1
<1>5. listing \in Seq(Nat)
  BY DEF Init
<1>6. argc \in 1 .. Len(argv)
  BY <1>1 DEF Init
<1>7. TypeOK
  BY <1>2, <1>3, <1>4, <1>5, <1>6 DEF Init, TypeOK
<1> QED BY <1>7 DEF Init, IInv

\* The arguments are put into pages.
LEMMA PassArgumentsHolds == IInv /\ PassArguments => IInv'
<1> SUFFICES ASSUME IInv, PassArguments PROVE IInv'
  OBVIOUS
<1> DEFINE args == ProgramArgs(argv)
<1>1. mem' \in PageTable
  <2>1. args \in Seq(Names) /\ mem \in PageTable
    BY ArgumentsAreNames DEF IInv, TypeOK
  <2>2. mem' = IF args = <<>> THEN mem ELSE Passed(args, mem)
    BY DEF PassArguments, Passed
  <2> HIDE DEF args
  <2>3. Len(args) \in 0 .. Len(args)
    BY <2>1, LenProperties
  <2>4. Passed(args, mem) \in PageTable
    BY <2>1, <2>3, ArgumentsPassed DEF Runs
  <2> QED BY <2>1, <2>2, <2>4
<1>2. argc' \in 1 .. Len(argv)
  BY ArgumentsAreNames DEF IInv, PassArguments
<1>3. TypeOK'
  BY <1>1, <1>2 DEF IInv, TypeOK, PassArguments
<1> QED BY <1>3 DEF IInv, PassArguments

\* A run that ends otherwise than with exit(0) has nothing more to keep.
LEMMA FailureHolds ==
  ASSUME IInv, TypeOK', phase' = "ended", code' # "exit 0", UNCHANGED <<argv, file>>
  PROVE  IInv'
BY DEF IInv

\* The next header, when it is not loadable or its segment is whole.
LEMMA HeaderHandled ==
  ASSUME IInv, HeadersHandled, i < Len(file.phdrs), UNCHANGED file, i' = i + 1,
         LET phdr == file.phdrs[i + 1]
         IN  /\ phdr.p_type = PT_LOAD => Whole(phdr)
             /\ info' = IF phdr.p_type = PT_LOAD /\ PF_X \in phdr.p_flags
                        THEN TextOf(phdr) ELSE info
  PROVE  HeadersHandled'
<1> DEFINE phdr == file.phdrs[i + 1]
           n == Len(file.phdrs)
           executable == phdr.p_type = PT_LOAD /\ PF_X \in phdr.p_flags
<1>1. i \in Nat /\ n \in Nat /\ i < n
  BY FileParts DEF IInv, TypeOK, HeadersHandled
<1>2. i + 1 <= n /\ i + 1 \in 1 .. i + 1
      /\ \A k \in 1 .. i + 1 : k \in 1 .. i \/ k = i + 1
  BY <1>1
<1>3. \A k \in 1 .. i + 1 : file.phdrs[k].p_type = PT_LOAD => Whole(file.phdrs[k])
  BY <1>2 DEF HeadersHandled
<1>4. \A k \in Executable(i + 1) : k \in Executable(i) \/ (k = i + 1 /\ executable)
  BY <1>2 DEF Executable
<1>5. \A k \in Executable(i) : k \in Executable(i + 1) /\ k <= i
  BY <1>1 DEF Executable
<1>6. ASSUME NEW k \in Executable(i + 1), \A j \in Executable(i + 1) : j <= k
      PROVE  /\ info'.text_start = file.phdrs[k].p_vaddr + SizeOfEhdr
                                    + file.ehdr.e_phnum * SizeOfPhdr
             /\ info'.text_end = file.phdrs[k].p_vaddr + file.phdrs[k].p_filesz
  <2>1. CASE executable
    <3>1. i + 1 \in Executable(i + 1)
      BY <1>2, <2>1 DEF Executable
    <3>2. k = i + 1
      <4>1. k \in 1 .. i + 1 /\ i + 1 <= k
        BY <1>6, <3>1 DEF Executable
      <4> QED BY <1>1, <4>1
    <3>3. info' = TextOf(phdr)
      BY <2>1
    <3>4. info \in program_info
      BY DEF IInv, TypeOK
    <3> HIDE DEF phdr
    <3>5. /\ info'.text_start = phdr.p_vaddr + SizeOfEhdr + file.ehdr.e_phnum * SizeOfPhdr
          /\ info'.text_end = phdr.p_vaddr + phdr.p_filesz
      BY <3>3, <3>4 DEF TextOf, program_info
    <3> QED BY <3>2, <3>5 DEF phdr
  <2>2. CASE ~executable
    <3>1. k \in Executable(i) /\ \A j \in Executable(i) : j <= k
      BY <1>4, <1>5, <1>6, <2>2
    <3> QED BY <2>2, <3>1 DEF HeadersHandled
  <2> QED BY <2>1, <2>2
<1>7. file # NoFile /\ file.header
  BY DEF HeadersHandled
<1>8. Executable(i + 1) = Executable(i)'
  BY DEF Executable
<1>9. \A k \in 1 .. i' : file'.phdrs[k].p_type = PT_LOAD => Whole(file'.phdrs[k])
  BY <1>3 DEF Whole
<1> QED BY <1>2, <1>6, <1>7, <1>8, <1>9 DEF HeadersHandled

\* Where the text of a segment lies are numbers.
LEMMA TextIsInfo ==
  ASSUME IInv, HeadersHandled, NEW k \in 1 .. Len(file.phdrs)
  PROVE  TextOf(file.phdrs[k]) \in program_info
<1> DEFINE phdr == file.phdrs[k]
           n == file.ehdr.e_phnum
<1>1. phdr.p_vaddr \in Nat /\ phdr.p_filesz \in Nat /\ n \in Nat
  BY FileParts DEF IInv, HeadersHandled
<1>2. SizeOfEhdr \in Nat /\ SizeOfPhdr \in Nat
  BY DEF SizeOfEhdr, SizeOfPhdr, Half, Word32
<1>3. info \in program_info
  BY DEF IInv, TypeOK
<1>4. TextOf(phdr) = [info EXCEPT !.text_start = phdr.p_vaddr + SizeOfEhdr + n * SizeOfPhdr,
                                  !.text_end = phdr.p_vaddr + phdr.p_filesz]
  BY DEF TextOf
<1> HIDE DEF phdr, n
<1>5. phdr.p_vaddr + SizeOfEhdr + n * SizeOfPhdr \in Nat
      /\ phdr.p_vaddr + phdr.p_filesz \in Nat
  BY <1>1, <1>2
<1> QED BY <1>3, <1>4, <1>5 DEF program_info, phdr

\* A segment is placed in pages, and one that is not all there ends the run.
LEMMA LoadSegmentHolds == IInv /\ LoadSegment => IInv'
<1> SUFFICES ASSUME IInv, LoadSegment PROVE IInv'
  OBVIOUS
<1> DEFINE phdr == file.phdrs[i + 1]
<1>1. /\ phase = "segments" /\ i < file.ehdr.e_phnum /\ i < Len(file.phdrs)
      /\ phdr.p_type = PT_LOAD
      /\ info' = IF PF_X \in phdr.p_flags THEN TextOf(phdr) ELSE info
      /\ UNCHANGED <<argv, file, argc, log, prof, listing>>
      /\ \/ Whole(phdr) /\ mem' = Placed(phdr) /\ i' = i + 1 /\ UNCHANGED <<phase, code>>
         \/ LoadFails /\ UNCHANGED <<mem, i>>
  BY DEF LoadSegment
<1>2. HeadersHandled
  BY <1>1 DEF IInv
<1>3. i \in Nat /\ i + 1 \in 1 .. Len(file.phdrs) /\ i + 1 <= file.ehdr.e_phnum /\ file # NoFile
  <2>1. i \in Nat /\ file # NoFile /\ file \in Files
    BY <1>2 DEF IInv, TypeOK, HeadersHandled
  <2>2. Len(file.phdrs) \in Nat /\ file.ehdr.e_phnum \in Nat
    BY <2>1, FileParts
  <2> QED BY <1>1, <2>1, <2>2
<1>4. info' \in program_info
  <2>1. TextOf(phdr) \in program_info
    BY <1>2, <1>3, TextIsInfo
  <2> QED BY <1>1, <2>1 DEF IInv, TypeOK
<1>5. CASE Whole(phdr) /\ mem' = Placed(phdr) /\ i' = i + 1 /\ UNCHANGED <<phase, code>>
  <2>1. mem' \in PageTable
    <3> DEFINE a == phdr.p_vaddr
               bytes == phdr.data
    <3>1. a \in Nat /\ bytes \in Seq(0 .. 255) /\ mem \in PageTable
      BY <1>3, FileParts DEF IInv, TypeOK
    <3>2. mem' = PutBytes(mem, a, bytes)
      BY <1>5 DEF Placed
    <3> HIDE DEF a, bytes
    <3> QED BY <3>1, <3>2, PutBytesStores DEF Stored
  <2>2. TypeOK'
    <3>1. TypeOK
      BY DEF IInv
    <3>2. i' \in Nat /\ i' <= file'.ehdr.e_phnum
      BY <1>1, <1>3, <1>5
    <3> QED BY ONLY <1>1, <1>4, <1>5, <2>1, <3>1, <3>2 DEF TypeOK
  <2>3. HeadersHandled'
    BY <1>1, <1>2, <1>5, HeaderHandled
  <2>4. phase' = "segments" /\ argv' \in CommandLines /\ file' \in Files
    BY <1>1, <1>5 DEF IInv
  <2> QED BY ONLY <2>2, <2>3, <2>4 DEF IInv
<1>6. CASE LoadFails /\ UNCHANGED <<mem, i>>
  <2>1. phase' = "ended" /\ code' \in {"exit -1", "crashed"}
    BY <1>6 DEF LoadFails, End
  <2>2. TypeOK'
    BY <1>1, <1>4, <1>6, <2>1 DEF IInv, TypeOK
  <2>3. code' # "exit 0"
    BY <2>1
  <2> QED BY <1>1, <2>1, <2>2, <2>3, FailureHolds
<1> QED BY <1>1, <1>5, <1>6

\* A header that is not loadable is passed over.
LEMMA SkipSegmentHolds == IInv /\ SkipSegment => IInv'
<1> SUFFICES ASSUME IInv, SkipSegment PROVE IInv'
  OBVIOUS
<1>1. HeadersHandled
  BY DEF IInv, SkipSegment
<1>2. i \in Nat /\ i + 1 <= file.ehdr.e_phnum
  <2>1. i \in Nat /\ file # NoFile /\ file \in Files
    BY <1>1 DEF IInv, TypeOK, HeadersHandled
  <2>2. file.ehdr.e_phnum \in Nat
    BY <2>1, FileParts
  <2> QED BY <2>1, <2>2 DEF SkipSegment
<1>3. HeadersHandled'
  BY <1>1, HeaderHandled DEF SkipSegment
<1>4. TypeOK'
  <2>1. TypeOK
    BY DEF IInv
  <2>2. i' \in Nat /\ i' <= file'.ehdr.e_phnum
    BY <1>2 DEF SkipSegment
  <2> QED BY <2>1, <2>2 DEF TypeOK, SkipSegment
<1>5. phase' = "segments" /\ argv' \in CommandLines /\ file' \in Files
  BY DEF IInv, SkipSegment
<1> QED BY ONLY <1>3, <1>4, <1>5 DEF IInv

\* read_elf is done when it has handled as many headers as the file counts.
LEMMA LoadedHolds == IInv /\ Loaded => IInv'
<1> SUFFICES ASSUME IInv, Loaded PROVE IInv'
  OBVIOUS
<1>1. HeadersHandled
  BY DEF IInv, Loaded
<1>2. i = file.ehdr.e_phnum
  <2>1. i \in Nat /\ file # NoFile /\ file \in Files /\ i <= Len(file.phdrs)
    BY <1>1 DEF IInv, TypeOK, HeadersHandled
  <2>2. file.ehdr.e_phnum \in Nat /\ Len(file.phdrs) \in Nat
        /\ Len(file.phdrs) <= file.ehdr.e_phnum
    BY <2>1, FileParts
  <2> QED BY <2>1, <2>2 DEF Loaded
<1>3. AllHandled'
  BY <1>1, <1>2 DEF AllHandled, HeadersHandled, Executable, Loaded, Whole
<1>4. TypeOK'
  BY DEF IInv, TypeOK, Loaded
<1> QED BY <1>3, <1>4 DEF IInv, Loaded

\* The lines of a listing are addresses.
LEMMA LinesAreAddresses == info \in program_info => Lines \in Seq(Nat)
<1> SUFFICES ASSUME info \in program_info PROVE Lines \in Seq(Nat)
  OBVIOUS
<1> DEFINE first == info.text_start
           n == (info.text_end - info.text_start + 3) \div 4
           m == IF n < 0 THEN 0 ELSE n
<1>1. first \in Nat /\ n \in Int /\ m \in Nat
  BY DEF program_info
<1>2. Lines = [k \in 1 .. n |-> first + 4 * (k - 1)]
  BY DEF Lines
<1> HIDE DEF first, n
<1>3. 1 .. n = 1 .. m
  BY <1>1
<1>4. \A k \in 1 .. m : first + 4 * (k - 1) \in Nat
  BY <1>1
<1> HIDE DEF m
<1>5. [k \in 1 .. n |-> first + 4 * (k - 1)] \in [1 .. m -> Nat]
  BY <1>3, <1>4
<1>6. \A seq \in [1 .. m -> Nat] : seq \in Seq(Nat)
  BY <1>1, SeqDef
<1> QED BY <1>2, <1>5, <1>6

\* The listing: all of the text, or nothing of one that is not aligned.
LEMMA ListHolds == IInv /\ List => IInv'
<1> SUFFICES ASSUME IInv, List PROVE IInv'
  OBVIOUS
<1>1. TypeOK /\ AllHandled /\ Lines \in Seq(Nat) /\ mem \in PageTable
  BY LinesAreAddresses DEF IInv, TypeOK, List
<1>2. UNCHANGED <<argv, file, argc, log, prof, i, info>> /\ phase' = "ended"
  BY DEF List, End
<1>3. CASE Lines # <<>> /\ ~Aligned(info.text_start, 4)
  <2>1. code' = "exit -1" /\ UNCHANGED <<mem, listing>>
    BY <1>3 DEF List, End
  <2>2. TypeOK'
    BY <1>1, <1>2, <2>1 DEF TypeOK
  <2>3. code' # "exit 0"
    BY <2>1
  <2> QED BY <1>2, <2>2, <2>3, FailureHolds
<1>4. CASE ~(Lines # <<>> /\ ~Aligned(info.text_start, 4))
  <2>1. /\ code' = "exit 0" /\ listing' = Lines
        /\ mem' = FoldLeft(get_page, mem, Lines)
    BY <1>4 DEF List, End
  <2>2. mem' \in PageTable /\ listing' \in Seq(Nat)
    BY <1>1, <2>1, LinesKeepPages
  <2>3. TypeOK'
    BY <1>1, <1>2, <2>1, <2>2 DEF TypeOK
  <2>4. AllHandled'
    BY <1>1, <1>2 DEF AllHandled, HeadersHandled, Executable, Whole
  <2>5. listing' = Lines' /\ (Lines' # <<>> => Aligned(info'.text_start, 4))
    BY <1>2, <1>4, <2>1 DEF Lines
  <2>6. phase' = "ended" /\ argv' \in CommandLines /\ file' \in Files
    BY <1>2 DEF IInv
  <2> QED BY ONLY <2>3, <2>4, <2>5, <2>6 DEF IInv
<1> QED BY <1>3, <1>4

\* The steps before the segments.
LEMMA OptionsHold == IInv /\ (Usage \/ Options \/ OpenFile) => IInv'
<1> SUFFICES ASSUME IInv, Usage \/ Options \/ OpenFile PROVE IInv'
  OBVIOUS
<1>1. TypeOK /\ argv \in CommandLines /\ file \in Files
  BY DEF IInv
<1>2. CASE Usage
  <2>1. TypeOK' /\ phase' = "ended" /\ code' # "exit 0" /\ UNCHANGED <<argv, file>>
    BY <1>1, <1>2 DEF TypeOK, Usage, Terminate, End
  <2> QED BY <2>1, FailureHolds
<1>3. CASE Options
  <2>1. {log', prof'} \subseteq BOOLEAN /\ phase = "options"
        /\ UNCHANGED <<argv, file, argc, mem, i, info, listing>>
    BY <1>3 DEF Options
  <2>2. CASE phase' = "open" /\ UNCHANGED code
    <3>1. TypeOK'
      BY <1>1, <2>1, <2>2 DEF TypeOK
    <3> QED BY <1>1, <2>1, <2>2, <3>1 DEF IInv
  <2>3. CASE Terminate
    <3>1. TypeOK' /\ phase' = "ended" /\ code' # "exit 0" /\ UNCHANGED <<argv, file>>
      BY <1>1, <2>1, <2>3 DEF TypeOK, Terminate, End
    <3> QED BY <3>1, FailureHolds
  <2> QED BY <1>3, <2>2, <2>3 DEF Options
<1>4. CASE OpenFile
  <2>1. phase = "open" /\ UNCHANGED <<argv, file, argc, mem, log, prof, i, listing>>
    BY <1>4 DEF OpenFile
  <2>2. CASE LoadFails /\ UNCHANGED info
    <3>1. TypeOK' /\ phase' = "ended" /\ code' # "exit 0" /\ UNCHANGED <<argv, file>>
      BY <1>1, <2>1, <2>2 DEF TypeOK, LoadFails, End
    <3> QED BY <3>1, FailureHolds
  <2>3. CASE /\ Recognised /\ phase' = "segments" /\ UNCHANGED code
             /\ info' = [text_start |-> 0, text_end |-> 0, start |-> file.ehdr.e_entry]
    <3>1. file # NoFile /\ file.header /\ i = 0
      BY <2>1, <2>3 DEF Recognised, IInv
    <3>2. file.ehdr.e_entry \in Nat /\ Len(file.phdrs) \in Nat
      BY <1>1, <3>1, FileParts
    <3>3. info' \in program_info
      BY <2>3, <3>2 DEF program_info
    <3>4. TypeOK'
      BY <1>1, <2>1, <2>3, <3>3 DEF TypeOK
    <3>5. HeadersHandled'
      <4>1. 1 .. i' = {} /\ Executable(i)' = {}
        BY <2>1, <3>1 DEF Executable
      <4>2. file' # NoFile /\ file'.header /\ i' <= Len(file'.phdrs)
        BY <2>1, <3>1, <3>2
      <4> QED BY <4>1, <4>2 DEF HeadersHandled
    <3>6. phase' = "segments" /\ argv' \in CommandLines /\ file' \in Files
      BY <1>1, <2>1, <2>3
    <3> QED BY ONLY <3>4, <3>5, <3>6 DEF IInv
  <2> QED BY <1>4, <2>2, <2>3 DEF OpenFile
<1> QED BY <1>2, <1>3, <1>4

\* The steps that only end the run or take it to its next phase.
LEMMA EndingsHold ==
  IInv /\ (NoHostMemory \/ MissingHeader \/ ReadSymbols \/ Simulate \/ Report) => IInv'
<1> SUFFICES ASSUME IInv, NoHostMemory \/ MissingHeader \/ ReadSymbols \/ Simulate \/ Report
             PROVE  IInv'
  OBVIOUS
<1>1. TypeOK /\ argv \in CommandLines /\ file \in Files
  BY DEF IInv
<1>2. CASE NoHostMemory
  <2>1. TypeOK' /\ phase' = "ended" /\ code' # "exit 0" /\ UNCHANGED <<argv, file>>
    BY <1>1, <1>2 DEF TypeOK, NoHostMemory, End
  <2> QED BY <2>1, FailureHolds
<1>3. CASE MissingHeader
  <2>1. TypeOK' /\ phase' = "ended" /\ code' # "exit 0" /\ UNCHANGED <<argv, file>>
    BY <1>1, <1>3 DEF TypeOK, MissingHeader, LoadFails, End
  <2> QED BY <2>1, FailureHolds
<1>4. CASE ReadSymbols
  <2>1. AllHandled' /\ UNCHANGED <<argv, file, argc, mem, log, prof, i, info, listing>>
    BY <1>4 DEF IInv, ReadSymbols, AllHandled, HeadersHandled, Executable, Whole
  <2>2. CASE phase' = (IF Option(3, "-d") THEN "list" ELSE "simulate") /\ UNCHANGED code
    <3>1. TypeOK'
      BY <1>1, <1>4, <2>1, <2>2 DEF TypeOK, ReadSymbols
    <3>2. phase' \in {"list", "simulate"} /\ argv' \in CommandLines /\ file' \in Files
      BY <1>1, <2>1, <2>2
    <3>3. phase' = "simulate" => ~Option(3, "-d")'
      BY <2>1, <2>2 DEF Option, Argv
    <3> QED BY ONLY <2>1, <3>1, <3>2, <3>3 DEF IInv
  <2>3. CASE End("exit -1")
    <3>1. TypeOK' /\ phase' = "ended" /\ code' # "exit 0" /\ UNCHANGED <<argv, file>>
      BY <1>1, <2>1, <2>3 DEF TypeOK, End
    <3> QED BY <3>1, FailureHolds
  <2> QED BY <1>4, <2>2, <2>3 DEF ReadSymbols
<1>5. CASE Simulate
  <2>1. UNCHANGED <<argv, file, argc, mem, log, prof, i, info, listing>>
    BY <1>5 DEF Simulate
  <2>2. CASE phase' = "report" /\ UNCHANGED code
    <3>1. TypeOK'
      BY <1>1, <1>5, <2>1, <2>2 DEF TypeOK, Simulate
    <3>2. AllHandled'
      BY <1>5, <2>1 DEF IInv, Simulate, AllHandled, HeadersHandled, Executable, Whole
    <3>3. phase' = "report" /\ argv' \in CommandLines /\ file' \in Files
      BY <1>1, <2>1, <2>2
    <3>4. ~Option(3, "-d")'
      BY <1>5, <2>1 DEF IInv, Simulate, Option, Argv
    <3> QED BY ONLY <3>1, <3>2, <3>3, <3>4 DEF IInv
  <2>3. CASE End("in simulate")
    <3>1. TypeOK' /\ phase' = "ended" /\ code' # "exit 0" /\ UNCHANGED <<argv, file>>
      BY <1>1, <2>1, <2>3 DEF TypeOK, End
    <3> QED BY <3>1, FailureHolds
  <2> QED BY <1>5, <2>2, <2>3 DEF Simulate
<1>6. CASE Report
  <2>1. phase' = "ended" /\ code' \in {"exit 0", "exit -1"} /\ log' = FALSE
        /\ UNCHANGED <<argv, file, argc, mem, prof, i, info, listing>>
    BY <1>6 DEF Report, Terminate, End
  <2>2. TypeOK'
    BY <1>1, <2>1 DEF TypeOK
  <2>3. ~Option(3, "-d")'
    BY <1>6, <2>1 DEF IInv, Report, Option, Argv
  <2>4. phase' = "ended" /\ argv' \in CommandLines /\ file' \in Files
    BY <1>1, <2>1
  <2> QED BY ONLY <2>2, <2>3, <2>4 DEF IInv
<1> QED BY <1>2, <1>3, <1>4, <1>5, <1>6

\* Every step of a run keeps the invariant.
LEMMA NextHolds == IInv /\ [Next]_vars => IInv'
<1> SUFFICES ASSUME IInv, [Next]_vars PROVE IInv'
  OBVIOUS
<1>1. CASE Next
  BY <1>1, PassArgumentsHolds, OptionsHold, EndingsHold, LoadSegmentHolds, SkipSegmentHolds,
     LoadedHolds, ListHolds DEF Next
<1>2. CASE UNCHANGED vars
  BY <1>2 DEF vars, IInv, TypeOK, AllHandled, HeadersHandled, Executable, Whole, Lines,
              Option, Argv
<1> QED BY <1>1, <1>2

\* It holds throughout a run.
LEMMA InvariantHolds == Spec => []IInv
<1> QED BY InitHolds, NextHolds, PTL DEF Spec

\* A run of the loader keeps to its phases, options and codes, whatever the file.
THEOREM TypeCorrect == Spec => []TypeOK
<1>1. IInv => TypeOK
  BY DEF IInv
<1> QED BY <1>1, InvariantHolds, PTL

\* read_elf.c:79: a program that is run or listed is loaded whole.
THEOREM WholeProgramsRun == Spec => []RunsOnlyWholePrograms
<1>1. IInv => RunsOnlyWholePrograms
  <2> SUFFICES ASSUME IInv, phase \in {"symbols", "simulate", "list", "report"}
               PROVE  /\ file.header /\ Len(file.phdrs) >= file.ehdr.e_phnum
                      /\ \A k \in 1 .. file.ehdr.e_phnum :
                           file.phdrs[k].p_type = PT_LOAD =>
                             Len(file.phdrs[k].data) = file.phdrs[k].p_filesz
    BY DEF RunsOnlyWholePrograms
  <2>1. HeadersHandled /\ i = file.ehdr.e_phnum
    BY DEF IInv, AllHandled
  <2>2. Len(file.phdrs) \in Nat /\ file.ehdr.e_phnum \in Nat
    BY <2>1, FileParts DEF IInv, HeadersHandled
  <2> QED BY <2>1, <2>2 DEF HeadersHandled, Whole
<1> QED BY <1>1, InvariantHolds, PTL

\* The words from first up to end.
WordsOf(first, end) == [k \in 1 .. (end - first + 3) \div 4 |-> first + 4 * (k - 1)]

\* They are all the words there, each once.
LEMMA ListedWords ==
  ASSUME NEW first \in Nat, NEW end \in Nat, WordsOf(first, end) # <<>> => first % 4 = 0
  PROVE  /\ ToSet(WordsOf(first, end)) = {addr \in first .. end - 1 : addr % 4 = 0}
         /\ IsInjective(WordsOf(first, end))
<1> DEFINE e == end - first + 3
           n == e \div 4
           lines == WordsOf(first, end)
<1>1. n \in Int /\ 4 * n <= e /\ e < 4 * n + 4
  <2>1. e \in Int
    OBVIOUS
  <2> HIDE DEF e
  <2> QED BY <2>1
<1>2. DOMAIN lines = 1 .. n /\ \A k \in 1 .. n : lines[k] = first + 4 * (k - 1)
  BY DEF WordsOf
<1> HIDE DEF n, lines
<1>3. CASE n <= 0
  <2>1. 1 .. n = {} /\ first .. end - 1 = {}
    BY <1>1, <1>3
  <2> HIDE DEF e
  <2> QED BY <1>2, <2>1 DEF ToSet, IsInjective, lines
<1>4. CASE n > 0
  <2>1. 1 \in DOMAIN lines
    BY <1>1, <1>2, <1>4
  <2>2. lines # <<>>
    BY <2>1
  <2>3. first % 4 = 0
    BY <2>2 DEF lines
  <2>4. ASSUME NEW k \in 1 .. n
        PROVE  lines[k] \in first .. end - 1 /\ lines[k] % 4 = 0
    <3>1. lines[k] = first + 4 * (k - 1) /\ k \in Int /\ 1 <= k /\ k <= n
      BY <1>1, <1>2
    <3>2. 4 * k <= end - first + 3
      BY <1>1, <3>1
    <3>3. (first + 4 * (k - 1)) % 4 = 0
      BY <2>3, <3>1
    <3> QED BY <3>1, <3>2, <3>3
  <2>5. ASSUME NEW addr \in first .. end - 1, addr % 4 = 0
        PROVE  \E k \in 1 .. n : lines[k] = addr
    <3> DEFINE d == addr - first
               k == d \div 4 + 1
    <3>1. d \in Nat /\ d <= end - first - 1 /\ d % 4 = 0 /\ addr = first + d
      BY <2>3, <2>5
    <3> HIDE DEF d
    <3>2. k \in Nat /\ 4 * (k - 1) = d /\ 1 <= k
      BY <3>1
    <3> HIDE DEF k
    <3>3. k <= n
      BY <1>1, <3>1, <3>2
    <3>4. k \in 1 .. n
      BY <1>1, <3>2, <3>3
    <3>5. lines[k] = addr
      BY <1>2, <3>1, <3>2, <3>4
    <3> QED BY <3>4, <3>5
  <2>6. ASSUME NEW j \in 1 .. n, NEW k \in 1 .. n, lines[j] = lines[k] PROVE j = k
    BY <1>1, <1>2, <2>6
  <2> DEFINE words == {addr \in first .. end - 1 : addr % 4 = 0}
  <2>7. \A addr : addr \in words <=> addr \in first .. end - 1 /\ addr % 4 = 0
    OBVIOUS
  <2> HIDE DEF words
  <2>8. {lines[k] : k \in 1 .. n} = words
    BY <2>4, <2>5, <2>7
  <2> QED BY <1>2, <2>6, <2>8 DEF ToSet, IsInjective, lines, words
<1> QED BY <1>1, <1>3, <1>4

\* main.c:18: what -d lists is the text segment, each word of it once.
THEOREM TextIsListed == Spec => []ListsText
<1>1. IInv => ListsText
  <2> DEFINE last == Max(ExecutableSegments)
             phdr == file.phdrs[last]
             first == phdr.p_vaddr + (SizeOfEhdr + file.ehdr.e_phnum * SizeOfPhdr)
             end == phdr.p_vaddr + phdr.p_filesz
             top == phdr.p_vaddr + phdr.p_filesz - 1
  <2> DEFINE Listed == /\ ToSet(listing) = {addr \in first .. top : addr % 4 = 0}
                       /\ IsInjective(listing)
  <2>0. (phase = "ended" /\ code = "exit 0" /\ Option(3, "-d") /\ ExecutableSegments # {}
           => Listed) => ListsText
    BY DEF ListsText
  <2> HIDE DEF Listed
  <2> SUFFICES ASSUME IInv, AllHandled, listing = Lines, ExecutableSegments # {},
                      Lines # <<>> => Aligned(info.text_start, 4)
               PROVE  Listed
    BY <2>0 DEF IInv
  <2>1. HeadersHandled /\ i = file.ehdr.e_phnum
    BY DEF AllHandled
  <2>2. /\ Len(file.phdrs) \in Nat /\ file.ehdr.e_phnum \in Nat
        /\ i = Len(file.phdrs) /\ DOMAIN file.phdrs = 1 .. i
    <3>1. /\ Len(file.phdrs) \in Nat /\ file.ehdr.e_phnum \in Nat
          /\ Len(file.phdrs) <= file.ehdr.e_phnum /\ file.phdrs \in Seq(Elf32_Phdr)
      BY <2>1, FileParts DEF IInv, HeadersHandled
    <3>2. DOMAIN file.phdrs = 1 .. Len(file.phdrs)
      BY <3>1, LenProperties
    <3>3. i <= Len(file.phdrs)
      BY <2>1 DEF HeadersHandled
    <3>4. i = Len(file.phdrs)
      BY ONLY <2>1, <3>1, <3>3
    <3> QED BY <3>1, <3>2, <3>4
  <2>3. ExecutableSegments = Executable(i) /\ ExecutableSegments \in SUBSET (1 .. i)
    BY <2>2 DEF Executable, ExecutableSegments
  <2>4. last \in ExecutableSegments /\ \A k \in ExecutableSegments : k <= last
    BY <2>2, <2>3, GreatestElement
  <2>5. phdr.p_vaddr \in Nat /\ phdr.p_filesz \in Nat
    <3>1. last \in 1 .. Len(file.phdrs)
      BY <2>2, <2>3, <2>4
    <3>2. file \in Files /\ file # NoFile
      BY <2>1 DEF IInv, HeadersHandled
    <3> HIDE DEF last
    <3> QED BY <3>1, <3>2, FileParts
  <2>6. top = end - 1
    BY <2>5
  <2>7. info.text_start = phdr.p_vaddr + SizeOfEhdr + file.ehdr.e_phnum * SizeOfPhdr
        /\ info.text_end = end
    BY <2>1, <2>3, <2>4 DEF HeadersHandled
  <2>8. info.text_start = first /\ first \in Nat /\ end \in Nat
    <3> DEFINE v == phdr.p_vaddr
               n == file.ehdr.e_phnum
    <3>1. v \in Nat /\ n \in Nat /\ end \in Nat
      BY <2>2, <2>5
    <3>2. SizeOfEhdr = 52 /\ SizeOfPhdr = 32
      BY DEF SizeOfEhdr, SizeOfPhdr, Half, Word32
    <3>3. info.text_start = v + SizeOfEhdr + n * SizeOfPhdr
          /\ first = v + (SizeOfEhdr + n * SizeOfPhdr)
      BY <2>7
    <3> HIDE DEF v, n, first, end
    <3> QED BY <3>1, <3>2, <3>3
  <2>9. Lines = WordsOf(first, end) /\ (WordsOf(first, end) # <<>> => first % 4 = 0)
    BY <2>7, <2>8 DEF Lines, Aligned, WordsOf
  <2> HIDE DEF first, end, top
  <2>10. /\ ToSet(WordsOf(first, end)) = {addr \in first .. end - 1 : addr % 4 = 0}
        /\ IsInjective(WordsOf(first, end))
    BY <2>8, <2>9, ListedWords
  <2> QED BY <2>6, <2>9, <2>10 DEF Listed
<1> QED BY <1>1, InvariantHolds, PTL

-----------------------------------------------------------------------------
(***************************************************************************)
(* The memory that is handed over.  First the arguments as a sequence of   *)
(* bytes: their number, the table of their addresses, their texts.         *)
(***************************************************************************)

Octet == 0 .. 255

\* A number as four bytes, the least significant first.
Little(v) == [k \in 1 .. 4 |-> (v \div 256^(k - 1)) % 256]

\* The four bytes of a number are the lanes of the word that memory holds of it.
LEMMA LittleIsLanes ==
  ASSUME NEW v \in Nat
  PROVE  /\ Little(v) \in Seq(Octet) /\ Len(Little(v)) = 4
         /\ \A k \in 1 .. 4 : Little(v)[k] = LanesOf(v)[k - 1]
<1>1. \A k \in 1 .. 4 : k - 1 \in Lane /\ Little(v)[k] = LanesOf(v)[k - 1]
  BY DEF Little, LanesOf, Lane
<1>2. \A l \in Lane : LanesOf(v)[l] \in Octet
  BY LanesAreWord, LoaderAssumption DEF Word, Octet
<1>3. Little(v) \in [1 .. 4 -> Octet]
  BY <1>1, <1>2 DEF Little
<1>4. Little(v) \in Seq(Octet)
  BY <1>3, SeqDef
<1>5. Len(Little(v)) = 4
  BY <1>4, LenProperties DEF Little
<1> QED BY <1>1, <1>4, <1>5

\* The texts one after the other, each with its NUL.
TextsTurn(args) ==
  [k \in 1 .. Len(args) |-> [t \in Seq(Octet) |-> t \o Chars[args[k]] \o <<0>>]]

Texts(args) == FoldLeft(LAMBDA text, name : text \o Chars[name] \o <<0>>, <<>>, args)

\* The texts are the last value of a run that joins one name after the other.
LEMMA TextsJoined ==
  ASSUME NEW args \in Seq(Names)
  PROVE  \E run : Runs(Len(args), Seq(Octet), <<>>, TextsTurn(args), run)
                  /\ Texts(args) = run[Len(args)]
<1> DEFINE n == Len(args)
           T == Seq(Octet)
           r == Texts(args)
           op(t, k) == t \o Chars[args[k]] \o <<0>>
           body(iter) == [s \in SUBSET DOMAIN args |->
                            IF s = {} THEN <<>> ELSE op(iter[s \ {Max(s)}], Max(s))]
           G == TextsTurn(args)
<1>1. n \in Nat /\ DOMAIN args = 1 .. n
  BY LenProperties
<1>2. \A k \in 1 .. n, t \in T : G[k][t] = op(t, k) /\ op(t, k) \in T
  <2> TAKE k \in 1 .. n, t \in T
  <2>1. G[k][t] = op(t, k)
    BY DEF TextsTurn
  <2>2. Chars[args[k]] \in Seq(Octet)
    BY ElementOfSeq, TextOfName DEF Octet
  <2>3. 0 \in Octet
    BY DEF Octet
  <2>4. <<0>> \in Seq(Octet)
    BY <2>3
  <2> QED BY <2>1, <2>2, <2>4, ConcatProperties
<1>3. <<>> \in T
  OBVIOUS
<1> HIDE DEF n, G, op, r, T
<1>4. Keeps(1 .. n, T, G)
  BY <1>2 DEF Keeps
<1>5. \A s \in SUBSET (1 .. n) : s # {} => Max(s) \in s /\ LastOf(n)[s] = Max(s)
  BY <1>1, GreatestElement DEF LastOf
<1>6. \E iter : iter = body(iter)
  <2>1. PICK iter : Folds(1 .. n, LastOf(n), <<>>, T, G, iter)
    BY <1>1, <1>3, <1>4, LeftFoldsExist
  <2>2. \A s \in SUBSET (1 .. n) : s # {} =>
          G[LastOf(n)[s]][iter[s \ {LastOf(n)[s]}]] = op(iter[s \ {Max(s)}], Max(s))
    BY <1>2, <1>5, <2>1 DEF Folds
  <2>3. iter = body(iter)
    BY <1>1, <2>1, <2>2 DEF Folds
  <2> QED BY <2>3
<1>7. PICK iter : iter = body(iter) /\ r = iter[1 .. n]
  <2>1. \E iter : iter = body(iter) /\ r = iter[DOMAIN args]
    BY <1>6 DEF Texts, FoldLeft, MapThenFoldSet, op, r
  <2> QED BY <1>1, <2>1
<1>8. TakesLast(n, T, <<>>, G, iter)
  <2>1. iter[{}] = <<>>
    BY <1>7
  <2>2. ASSUME NEW s \in SUBSET (1 .. n), s # {}, iter[s \ {Max(s)}] \in T
        PROVE  iter[s] = G[Max(s)][iter[s \ {Max(s)}]]
    <3>1. iter[s] = op(iter[s \ {Max(s)}], Max(s)) /\ Max(s) \in 1 .. n
      BY <1>1, <1>5, <1>7, <2>2
    <3> QED BY <1>2, <2>2, <3>1
  <2> QED BY <2>1, <2>2 DEF TakesLast
<1>9. PICK run : Runs(n, T, <<>>, G, run) /\ run[n] = iter[1 .. n]
  BY <1>1, <1>3, <1>4, <1>8, LeftFoldRuns
<1> QED BY <1>7, <1>9 DEF n, G, r, T

\* The table of the addresses of the texts.
TableTurn(args) ==
  [k \in 1 .. Len(args) |-> [t \in Seq(Octet) |-> t \o Little(StringAddress(args, k))]]

Table(args) ==
  FoldLeftDomain(LAMBDA words, k : words \o Little(StringAddress(args, k)), <<>>, args)

\* The table is the last value of a run that joins one address after the other.
LEMMA TableJoined ==
  ASSUME NEW args \in Seq(Names)
  PROVE  \E run : Runs(Len(args), Seq(Octet), <<>>, TableTurn(args), run)
                  /\ Table(args) = run[Len(args)]
<1> DEFINE n == Len(args)
           T == Seq(Octet)
           seq == [k \in DOMAIN args |-> k]
           r == Table(args)
           op(t, k) == t \o Little(StringAddress(args, k))
           body(iter) == [s \in SUBSET DOMAIN seq |->
                            IF s = {} THEN <<>> ELSE op(iter[s \ {Max(s)}], seq[Max(s)])]
           G == TableTurn(args)
<1>1. n \in Nat /\ DOMAIN args = 1 .. n /\ DOMAIN seq = 1 .. n /\ \A k \in 1 .. n : seq[k] = k
  BY LenProperties
<1>2. \A k \in 1 .. n, t \in T : G[k][t] = op(t, k) /\ op(t, k) \in T
  <2> TAKE k \in 1 .. n, t \in T
  <2>1. G[k][t] = op(t, k)
    BY DEF TableTurn
  <2>2. StringAddress(args, k) \in Nat
    BY FreshMemory, ArgumentKeepsPages
  <2>3. Little(StringAddress(args, k)) \in Seq(Octet)
    BY <2>2, LittleIsLanes
  <2> QED BY <2>1, <2>3, ConcatProperties
<1>3. <<>> \in T
  OBVIOUS
<1>4. r = FoldLeft(LAMBDA words, k : words \o Little(StringAddress(args, k)), <<>>, seq)
  BY DEF Table, FoldLeftDomain
<1> HIDE DEF n, G, op, r, T, seq
<1>5. Keeps(1 .. n, T, G)
  BY <1>2 DEF Keeps
<1>6. \A s \in SUBSET (1 .. n) : s # {} =>
        Max(s) \in s /\ LastOf(n)[s] = Max(s) /\ seq[Max(s)] = Max(s)
  <2>1. \A s \in SUBSET (1 .. n) : s # {} => Max(s) \in s
    BY <1>1, GreatestElement
  <2> QED BY <1>1, <2>1 DEF LastOf
<1>7. \E iter : iter = body(iter)
  <2>1. PICK iter : Folds(1 .. n, LastOf(n), <<>>, T, G, iter)
    BY <1>1, <1>3, <1>5, LeftFoldsExist
  <2>2. \A s \in SUBSET (1 .. n) : s # {} =>
          G[LastOf(n)[s]][iter[s \ {LastOf(n)[s]}]] = op(iter[s \ {Max(s)}], seq[Max(s)])
    BY <1>2, <1>6, <2>1 DEF Folds
  <2>3. iter = body(iter)
    BY <1>1, <2>1, <2>2 DEF Folds
  <2> QED BY <2>3
<1>8. PICK iter : iter = body(iter) /\ r = iter[1 .. n]
  <2>1. \E iter : iter = body(iter) /\ r = iter[DOMAIN seq]
    BY <1>4, <1>7 DEF FoldLeft, MapThenFoldSet, op
  <2> QED BY <1>1, <2>1
<1>9. TakesLast(n, T, <<>>, G, iter)
  <2>1. iter[{}] = <<>>
    BY <1>8
  <2>2. ASSUME NEW s \in SUBSET (1 .. n), s # {}, iter[s \ {Max(s)}] \in T
        PROVE  iter[s] = G[Max(s)][iter[s \ {Max(s)}]]
    <3> DEFINE k == Max(s)
    <3>1. k \in 1 .. n /\ seq[k] = k
      BY <1>6, <2>2
    <3>2. iter[s] = op(iter[s \ {k}], seq[k])
      BY <1>1, <1>8, <2>2
    <3> HIDE DEF k
    <3>3. iter[s] = op(iter[s \ {k}], k)
      BY <3>1, <3>2
    <3>4. iter[s] = G[k][iter[s \ {k}]]
      BY <1>2, <2>2, <3>1, <3>3 DEF k
    <3> QED BY <3>4 DEF k
  <2> QED BY <2>1, <2>2 DEF TakesLast
<1>10. PICK run : Runs(n, T, <<>>, G, run) /\ run[n] = iter[1 .. n]
  BY <1>1, <1>3, <1>5, <1>9, LeftFoldRuns
<1> QED BY <1>8, <1>10 DEF n, G, r, T

\* The text of an argument, with its NUL.
Ended(name) == Append(Chars[name], 0)

\* len has the lengths of the first texts, and the texts begin where they do.
Placing(args, len) ==
  /\ Runs(Len(args), Nat, 0, TextTurn(args), len)
  /\ \A k \in 1 .. Len(args) + 1 :
       StringAddress(args, k) = ArgBase + 4 + 4 * Len(args) + len[k - 1]

\* One text is put after the other.
LEMMA LengthsGrow ==
  ASSUME NEW args \in Seq(Names), NEW len, Placing(args, len)
  PROVE  /\ len[0] = 0
         /\ \A k \in 1 .. Len(args) :
              /\ len[k - 1] \in Nat /\ Len(Chars[args[k]]) \in Nat
              /\ len[k] = len[k - 1] + Len(Chars[args[k]]) + 1
         /\ \A k \in 0 .. Len(args) : len[k] \in Nat /\ \A j \in 0 .. k : len[j] <= len[k]
<1> DEFINE n == Len(args)
<1>1. n \in Nat
  BY LenProperties
<1>2. len[0] = 0 /\ \A k \in 0 .. n : len[k] \in Nat
  BY DEF Placing, Runs
<1>3. ASSUME NEW k \in 1 .. n
      PROVE  /\ len[k - 1] \in Nat /\ Len(Chars[args[k]]) \in Nat
             /\ len[k] = len[k - 1] + Len(Chars[args[k]]) + 1
  <2>1. k - 1 \in 0 .. n /\ args[k] \in Names
    BY <1>1, ElementOfSeq
  <2>2. len[k - 1] \in Nat /\ Len(Chars[args[k]]) \in Nat
    BY <1>2, <2>1, TextOfName
  <2>3. len[k] = TextTurn(args)[k][len[k - 1]]
    BY DEF Placing, Runs
  <2> QED BY <2>2, <2>3 DEF TextTurn
<1> HIDE DEF n
<1>4. \A k \in 0 .. n : \A j \in 0 .. k : len[j] <= len[k]
  <2> DEFINE Top == {j \in 0 .. n : \A k \in 0 .. j : len[k] <= len[j]}
  <2>1. 0 \in Top
    BY <1>1, <1>2
  <2>2. ASSUME NEW j \in 0 .. n - 1, j \in Top PROVE j + 1 \in Top
    <3>1. j + 1 \in 1 .. n /\ j + 1 \in 0 .. n /\ (j + 1) - 1 = j /\ j \in Nat
      BY <1>1
    <3>2. len[j] \in Nat /\ len[j + 1] \in Nat /\ len[j] <= len[j + 1]
      BY <1>2, <1>3, <3>1
    <3>3. ASSUME NEW k \in 0 .. j + 1 PROVE len[k] <= len[j + 1]
      <4>1. k \in 0 .. j \/ k = j + 1
        BY <3>1
      <4>2. k \in 0 .. n
        BY <1>1, <3>1
      <4>3. k \in 0 .. j => len[k] <= len[j]
        BY <2>2
      <4> QED BY <1>2, <3>2, <4>1, <4>2, <4>3
    <3> QED BY <3>1, <3>3
  <2>3. \A j \in 0 .. n - 1 : j \in Top => j + 1 \in Top
    BY <2>2
  <2>4. 0 .. n \subseteq Top
    <3> HIDE DEF Top
    <3> QED BY <1>1, <2>1, <2>3, BoundedInduction
  <2> QED BY <2>4
<1> QED BY <1>2, <1>3, <1>4 DEF n

\* The texts have those lengths, and each is the ones before it and its own.
LEMMA TextsContent ==
  ASSUME NEW args \in Seq(Names), NEW len, Placing(args, len),
         NEW run, Runs(Len(args), Seq(Octet), <<>>, TextsTurn(args), run)
  PROVE  /\ \A k \in 0 .. Len(args) : run[k] \in Seq(Octet) /\ Len(run[k]) = len[k]
         /\ \A k \in 1 .. Len(args), j \in Nat :
              j \in 1 .. len[k] =>
                run[k][j] = IF j <= len[k - 1] THEN run[k - 1][j]
                            ELSE Ended(args[k])[j - len[k - 1]]
<1> DEFINE n == Len(args)
<1>1. n \in Nat
  BY LenProperties
<1>2. len[0] = 0 /\ \A k \in 1 .. n :
        /\ len[k - 1] \in Nat /\ Len(Chars[args[k]]) \in Nat
        /\ len[k] = len[k - 1] + Len(Chars[args[k]]) + 1
  BY LengthsGrow
<1>3. ASSUME NEW k \in 1 .. n, Len(run[k - 1]) = len[k - 1]
      PROVE  /\ Len(run[k]) = len[k]
             /\ \A j \in Nat : j \in 1 .. len[k] =>
                  run[k][j] = IF j <= len[k - 1] THEN run[k - 1][j]
                              ELSE Ended(args[k])[j - len[k - 1]]
  <2> DEFINE old == run[k - 1]
             text == Chars[args[k]]
             joined == old \o text
  <2>1. old \in Seq(Octet) /\ text \in Seq(Octet)
    <3>1. k - 1 \in 0 .. n /\ args[k] \in Names
      BY <1>1, ElementOfSeq
    <3> QED BY <3>1, TextOfName DEF Runs, Octet
  <2>2. run[k] = joined \o <<0>>
    <3>1. run[k] = TextsTurn(args)[k][old]
      BY DEF Runs
    <3> QED BY <2>1, <3>1 DEF TextsTurn
  <2> HIDE DEF old, text, joined
  <2>3. /\ joined \in Seq(Octet) /\ Len(joined) = Len(old) + Len(text)
        /\ \A j \in 1 .. Len(old) + Len(text) :
             joined[j] = IF j <= Len(old) THEN old[j] ELSE text[j - Len(old)]
    BY <2>1, ConcatProperties DEF joined
  <2>4. 0 \in Octet /\ <<0>> \in Seq(Octet) /\ Len(<<0>>) = 1 /\ <<0>>[1] = 0
    <3>1. 0 \in Octet
      BY DEF Octet
    <3> QED BY <3>1
  <2>5. /\ Len(joined \o <<0>>) = Len(joined) + 1
        /\ \A j \in 1 .. Len(joined) + 1 :
             (joined \o <<0>>)[j] = IF j <= Len(joined) THEN joined[j]
                                   ELSE <<0>>[j - Len(joined)]
    BY <2>3, <2>4, ConcatProperties
  <2>6. /\ \A j \in 1 .. Len(text) : Append(text, 0)[j] = text[j]
        /\ Append(text, 0)[Len(text) + 1] = 0
    BY <2>1, <2>4, AppendProperties
  <2>7. Len(old) = len[k - 1] /\ Len(old) \in Nat /\ Len(text) \in Nat
        /\ len[k] = Len(old) + Len(text) + 1
    BY <1>2, <1>3 DEF old, text
  <2>8. Len(run[k]) = len[k]
    BY <2>2, <2>3, <2>5, <2>7
  <2>9. ASSUME NEW j \in Nat, j \in 1 .. len[k]
        PROVE  run[k][j] = IF j <= Len(old) THEN old[j] ELSE Append(text, 0)[j - Len(old)]
    <3>1. j \in 1 .. Len(joined) + 1 /\ 1 <= j
      BY <2>3, <2>7, <2>9
    <3>2. run[k][j] = IF j <= Len(joined) THEN joined[j] ELSE <<0>>[j - Len(joined)]
      BY <2>2, <2>5, <3>1
    <3>3. CASE j <= Len(old)
      <4>1. j \in 1 .. Len(old) + Len(text) /\ j <= Len(joined)
        BY <2>3, <2>7, <3>1, <3>3
      <4> QED BY <2>3, <3>2, <3>3, <4>1
    <3>4. CASE ~(j <= Len(old)) /\ j <= Len(joined)
      <4>1. j \in 1 .. Len(old) + Len(text) /\ j - Len(old) \in 1 .. Len(text)
        BY <2>3, <2>7, <3>1, <3>4
      <4> QED BY <2>3, <2>6, <3>2, <3>4, <4>1
    <3>5. CASE ~(j <= Len(joined))
      <4>1. j - Len(joined) = 1 /\ j - Len(old) = Len(text) + 1 /\ ~(j <= Len(old))
        BY <2>3, <2>7, <3>1, <3>5
      <4> QED BY <2>4, <2>6, <3>2, <3>5, <4>1
    <3> QED BY <2>3, <2>7, <3>3, <3>4, <3>5
  <2> QED BY <2>7, <2>8, <2>9 DEF old, text, Ended
<1>4. \A k \in 0 .. n : Len(run[k]) = len[k]
  <2> DEFINE T == {k \in 0 .. n : Len(run[k]) = len[k]}
  <2>1. 0 \in T
    BY <1>1, <1>2 DEF Runs
  <2>2. ASSUME NEW k \in 0 .. n - 1, k \in T PROVE k + 1 \in T
    <3>1. k + 1 \in 1 .. n /\ k + 1 \in 0 .. n /\ (k + 1) - 1 = k
      BY <1>1
    <3>2. Len(run[k + 1]) = len[k + 1]
      BY <1>3, <2>2, <3>1
    <3> QED BY <3>1, <3>2
  <2>3. \A k \in 0 .. n - 1 : k \in T => k + 1 \in T
    BY <2>2
  <2>4. 0 .. n \subseteq T
    <3> HIDE DEF T
    <3> QED BY <1>1, <2>1, <2>3, BoundedInduction
  <2> QED BY <2>4
<1>5. \A k \in 0 .. n : run[k] \in Seq(Octet)
  BY DEF Runs
<1>6. \A k \in 1 .. n : k - 1 \in 0 .. n
  BY <1>1
<1> QED BY <1>3, <1>4, <1>5, <1>6

\* The table has a word for each argument, its address.
LEMMA TableContent ==
  ASSUME NEW args \in Seq(Names),
         NEW run, Runs(Len(args), Seq(Octet), <<>>, TableTurn(args), run)
  PROVE  /\ \A k \in 0 .. Len(args) : run[k] \in Seq(Octet) /\ Len(run[k]) = 4 * k
         /\ \A k \in 1 .. Len(args), j \in Nat :
              j \in 1 .. 4 * k =>
                run[k][j] = IF j <= 4 * (k - 1) THEN run[k - 1][j]
                            ELSE LanesOf(StringAddress(args, k))[j - 4 * (k - 1) - 1]
<1> DEFINE n == Len(args)
<1>1. n \in Nat
  BY LenProperties
<1>2. ASSUME NEW k \in 1 .. n, Len(run[k - 1]) = 4 * (k - 1)
      PROVE  /\ Len(run[k]) = 4 * k
             /\ \A j \in Nat : j \in 1 .. 4 * k =>
                  run[k][j] = IF j <= 4 * (k - 1) THEN run[k - 1][j]
                              ELSE LanesOf(StringAddress(args, k))[j - 4 * (k - 1) - 1]
  <2> DEFINE old == run[k - 1]
             v == StringAddress(args, k)
             word == Little(v)
             d == 4 * (k - 1)
  <2>1. old \in Seq(Octet) /\ v \in Nat /\ d \in Nat
    <3>1. k - 1 \in 0 .. n /\ k - 1 \in Nat
      BY <1>1
    <3>2. old \in Seq(Octet)
      BY <3>1 DEF Runs
    <3>3. memory_create \in PageTable
      BY FreshMemory
    <3>4. v \in Nat
      BY <3>3, ArgumentKeepsPages
    <3> QED BY <3>1, <3>2, <3>4
  <2>2. run[k] = old \o word
    <3>1. run[k] = TableTurn(args)[k][old]
      BY DEF Runs
    <3> QED BY <2>1, <3>1 DEF TableTurn
  <2> HIDE DEF old, v
  <2>3. word \in Seq(Octet) /\ Len(word) = 4 /\ \A l \in 1 .. 4 : word[l] = LanesOf(v)[l - 1]
    BY <2>1, LittleIsLanes
  <2> HIDE DEF word
  <2>4. /\ Len(old \o word) = Len(old) + Len(word)
        /\ \A j \in 1 .. Len(old) + Len(word) :
             (old \o word)[j] = IF j <= Len(old) THEN old[j] ELSE word[j - Len(old)]
    BY <2>1, <2>3, ConcatProperties
  <2>5. Len(old) = d /\ 4 * k = d + 4
    BY <1>1, <1>2 DEF old
  <2> HIDE DEF d
  <2>6. Len(run[k]) = 4 * k
    BY <2>2, <2>3, <2>4, <2>5
  <2>7. ASSUME NEW j \in Nat, j \in 1 .. 4 * k
        PROVE  run[k][j] = IF j <= d THEN old[j] ELSE LanesOf(v)[j - d - 1]
    <3>1. j \in 1 .. d + 4
      BY <2>5, <2>7
    <3>2. run[k][j] = IF j <= d THEN old[j] ELSE word[j - d]
      BY <2>2, <2>3, <2>4, <2>5, <3>1
    <3>3. ~(j <= d) => j - d \in 1 .. 4
      BY <2>1, <3>1
    <3> QED BY <2>3, <3>2, <3>3
  <2> QED BY <2>6, <2>7 DEF old, v, d
<1>3. \A k \in 0 .. n : Len(run[k]) = 4 * k
  <2> DEFINE T == {k \in 0 .. n : Len(run[k]) = 4 * k}
  <2>1. 0 \in T
    BY <1>1 DEF Runs
  <2>2. ASSUME NEW k \in 0 .. n - 1, k \in T PROVE k + 1 \in T
    <3>1. k + 1 \in 1 .. n /\ k + 1 \in 0 .. n /\ (k + 1) - 1 = k
      BY <1>1
    <3>2. Len(run[k + 1]) = 4 * (k + 1)
      BY <1>2, <2>2, <3>1
    <3> QED BY <3>1, <3>2
  <2>3. \A k \in 0 .. n - 1 : k \in T => k + 1 \in T
    BY <2>2
  <2>4. 0 .. n \subseteq T
    <3> HIDE DEF T
    <3> QED BY <1>1, <2>1, <2>3, BoundedInduction
  <2> QED BY <2>4
<1>4. \A k \in 0 .. n : run[k] \in Seq(Octet)
  BY DEF Runs
<1>5. \A k \in 1 .. n : k - 1 \in 0 .. n
  BY <1>1
<1> QED BY <1>2, <1>3, <1>4, <1>5

\* A word at an aligned address replaces its four bytes and no other.
LEMMA PutWordStores ==
  ASSUME NEW m \in PageTable, NEW addr \in Addr, addr % 4 = 0, NEW v \in Nat
  PROVE  /\ PutWord(m, addr, v) \in PageTable
         /\ \A x \in Addr : ByteAt(PutWord(m, addr, v), x) =
                            IF x \in addr .. addr + 3 THEN LanesOf(v)[x - addr] ELSE ByteAt(m, x)
<1>1. addr \in Nat /\ Aligned(addr, 4) /\ LanesOf(v) \in Word
  BY MemoryAssumption, LanesAreWord DEF Addr, Aligned
<1>2. StoresBytes(PutWord(m, addr, v), m, addr, 4, LanesOf(v))
  BY <1>1, WriteWordStores DEF PutWord
<1>3. addr + 4 - 1 = addr + 3
  BY <1>1
<1> QED BY <1>2, <1>3 DEF StoresBytes

\* A turn of the loop: an entry of the table and the text that it names.
LEMMA ArgumentStores ==
  ASSUME NEW args \in Seq(Names), NEW k \in 1 .. Len(args), NEW m \in PageTable,
         StringAddress(args, k) + Len(Chars[args[k]]) \in Addr,
         ArgBase + 4 * k <= StringAddress(args, k)
  PROVE  LET a == StringAddress(args, k)
             text == Ended(args[k])
             entry == ArgBase + 4 * k
         IN  \A x \in Addr :
               ByteAt(PassArgument(args, m, k), x) =
                 IF x - a + 1 \in 1 .. Len(Chars[args[k]]) + 1 THEN text[x - a + 1]
                 ELSE IF x \in entry .. entry + 3 THEN LanesOf(a)[x - entry] ELSE ByteAt(m, x)
<1> DEFINE a == StringAddress(args, k)
           n == Len(Chars[args[k]])
           text == Ended(args[k])
           entry == ArgBase + 4 * k
           t == PutWord(m, entry, a)
           r == PutBytes(t, a, text)
<1>1. a \in Nat /\ entry \in Nat /\ args[k] \in Names /\ r = PassArgument(args, m, k)
  BY ArgumentKeepsPages, ElementOfSeq DEF PassArgument, Ended
<1>2. text \in Seq(0 .. 255) /\ n \in Nat /\ DOMAIN text = 1 .. n + 1
  <2>1. Chars[args[k]] \in Seq(0 .. 255) /\ n \in Nat /\ text \in Seq(0 .. 255)
    BY <1>1, TextOfName DEF Ended
  <2>2. 0 \in 0 .. 255
    OBVIOUS
  <2>3. Len(text) = n + 1
    BY <2>1, <2>2, AppendProperties DEF Ended
  <2> QED BY <2>1, <2>3, LenProperties
<1> HIDE DEF a, n, text
<1>3. entry \in Addr /\ entry % 4 = 0 /\ \A j \in 1 .. n + 1 : a + j - 1 \in Addr
  <2> DEFINE top == 4 * PageWords * NPages - 1
  <2>1. Addr = 0 .. top /\ top \in Int /\ a + n \in Addr /\ entry <= a
    BY MemoryAssumption DEF Addr, a, n
  <2> HIDE DEF top
  <2>2. entry % 4 = 0
    BY LoaderAssumption, <2>1
  <2> HIDE DEF entry
  <2>3. entry \in Addr /\ \A j \in 1 .. n + 1 : a + j - 1 \in Addr
    BY <1>1, <1>2, <2>1
  <2> QED BY <2>2, <2>3
<1> HIDE DEF entry
<1>4. t \in PageTable
      /\ \A x \in Addr : ByteAt(t, x) =
           IF x \in entry .. entry + 3 THEN LanesOf(a)[x - entry] ELSE ByteAt(m, x)
  BY <1>1, <1>3, PutWordStores
<1> HIDE DEF t
<1>5. Stored(r, t, a, text, DOMAIN text)
  BY <1>1, <1>2, <1>4, PutBytesStores
<1>6. \A x \in Addr : ByteAt(r, x) = IF x - a + 1 \in 1 .. n + 1
                                    THEN text[x - a + 1] ELSE ByteAt(t, x)
  BY <1>2, <1>3, <1>5 DEF Stored
<1> HIDE DEF r
<1> QED BY <1>1, <1>4, <1>6 DEF a, n, text, entry

\* The byte at a distance p from ArgBase after k turns of the loop.
HeldByte(args, tab, txt, len, k, p) ==
  LET n == Len(args)
  IN  IF p \in 0 .. 3 THEN LanesOf(n)[p]
      ELSE IF p - 3 \in 1 .. 4 * k THEN tab[k][p - 3]
      ELSE IF p - 3 - 4 * n \in 1 .. len[k] THEN txt[k][p - 3 - 4 * n] ELSE 0

\* A turn extends the table and the texts, which do not overlap.
LEMMA TurnHolds ==
  ASSUME NEW args \in Seq(Names), NEW len, Placing(args, len),
         NEW tab, Runs(Len(args), Seq(Octet), <<>>, TableTurn(args), tab),
         NEW txt, Runs(Len(args), Seq(Octet), <<>>, TextsTurn(args), txt),
         StringAddress(args, Len(args) + 1) <= 4 * PageWords * NPages,
         NEW k \in 1 .. Len(args), NEW m \in PageTable,
         \A x \in Addr : ByteAt(m, x) = HeldByte(args, tab, txt, len, k - 1, x - ArgBase)
  PROVE  \A x \in Addr : ByteAt(PassArgument(args, m, k), x)
                           = HeldByte(args, tab, txt, len, k, x - ArgBase)
<1> DEFINE n == Len(args)
           a == StringAddress(args, k)
           c == Len(Chars[args[k]])
           text == Ended(args[k])
           l == len[k - 1]
           r == PassArgument(args, m, k)
           top == 4 * PageWords * NPages
<1>1. /\ n \in Nat /\ l \in Nat /\ c \in Nat /\ ArgBase \in Nat /\ top \in Nat
      /\ Addr = 0 .. top - 1
      /\ len[k] = l + c + 1 /\ len[k] <= len[n] /\ len[n] \in Nat
  <2>1. n \in Nat /\ top \in Nat /\ Addr = 0 .. top - 1 /\ ArgBase \in Nat
    BY LenProperties, MemoryAssumption, LoaderAssumption DEF Addr
  <2>2. k \in 0 .. n /\ n \in 0 .. n
    BY <2>1
  <2>3. l \in Nat /\ c \in Nat /\ len[k] = l + c + 1
    BY LengthsGrow
  <2>4. len[k] <= len[n] /\ len[n] \in Nat
    BY <2>2, LengthsGrow
  <2> QED BY <2>1, <2>3, <2>4
<1>2. a = ArgBase + 4 + 4 * n + l /\ ArgBase + 4 + 4 * n + len[n] <= top
  <2>1. k \in 1 .. n + 1 /\ n + 1 \in 1 .. n + 1 /\ (n + 1) - 1 = n
    BY <1>1
  <2>2. \A j \in 1 .. n + 1 : StringAddress(args, j) = ArgBase + 4 + 4 * n + len[j - 1]
    BY DEF Placing
  <2>3. StringAddress(args, n + 1) = ArgBase + 4 + 4 * n + len[n]
    BY <2>1, <2>2
  <2> QED BY <2>1, <2>2, <2>3
<1> HIDE DEF n, a, c, l, top
<1>3. a + c \in Addr /\ ArgBase + 4 * k <= a /\ k \in 1 .. n
  <2>1. k \in 1 .. n
    BY DEF n
  <2> QED BY <1>1, <1>2, <2>1
<1>4. ASSUME NEW x \in Addr
      PROVE  ByteAt(r, x) =
               IF x - a + 1 \in 1 .. c + 1 THEN text[x - a + 1]
               ELSE IF x \in ArgBase + 4 * k .. ArgBase + 4 * k + 3
               THEN LanesOf(a)[x - (ArgBase + 4 * k)] ELSE ByteAt(m, x)
  BY <1>3, ArgumentStores DEF a, c, n
<1>5. \A j \in Nat : j \in 1 .. len[k] =>
        txt[k][j] = IF j <= l THEN txt[k - 1][j] ELSE text[j - l]
  BY TextsContent DEF l
<1>6. \A j \in Nat : j \in 1 .. 4 * k =>
        tab[k][j] = IF j <= 4 * (k - 1) THEN tab[k - 1][j] ELSE LanesOf(a)[j - 4 * (k - 1) - 1]
  BY TableContent DEF a
<1> HIDE DEF r, text
<1> SUFFICES ASSUME NEW x \in Addr
             PROVE  ByteAt(r, x) = HeldByte(args, tab, txt, len, k, x - ArgBase)
  BY DEF r
<1> DEFINE p == x - ArgBase
           q == p - 3 - 4 * n
<1>7. x \in Int /\ p \in Int /\ q \in Int /\ x - a + 1 = q - l
  BY <1>1, <1>2
<1>8. /\ x \in ArgBase + 4 * k .. ArgBase + 4 * k + 3 <=> p - 4 * k \in 0 .. 3
      /\ x - (ArgBase + 4 * k) = p - 4 * k
  BY <1>1, <1>3
<1>9. /\ HeldByte(args, tab, txt, len, k, p) =
           IF p \in 0 .. 3 THEN LanesOf(n)[p]
           ELSE IF p - 3 \in 1 .. 4 * k THEN tab[k][p - 3]
           ELSE IF q \in 1 .. len[k] THEN txt[k][q] ELSE 0
      /\ ByteAt(m, x) =
           IF p \in 0 .. 3 THEN LanesOf(n)[p]
           ELSE IF p - 3 \in 1 .. 4 * (k - 1) THEN tab[k - 1][p - 3]
           ELSE IF q \in 1 .. l THEN txt[k - 1][q] ELSE 0
  BY DEF HeldByte, n, l
<1>10. q = p - 3 - 4 * n
  OBVIOUS
<1> HIDE DEF p, q
<1>11. CASE q - l \in 1 .. c + 1
  <2>1. ByteAt(r, x) = text[q - l]
    BY <1>4, <1>7, <1>11
  <2>2. q \in Nat /\ q \in 1 .. len[k] /\ ~(q <= l)
    BY <1>1, <1>7, <1>11
  <2>3. p \notin 0 .. 3 /\ p - 3 \notin 1 .. 4 * k
    BY <1>1, <1>3, <1>7, <1>10, <2>2
  <2>4. txt[k][q] = text[q - l]
    BY <1>5, <2>2
  <2> QED BY <1>9, <2>1, <2>2, <2>3, <2>4 DEF p
<1>12. CASE q - l \notin 1 .. c + 1 /\ p - 4 * k \in 0 .. 3
  <2>1. ByteAt(r, x) = LanesOf(a)[p - 4 * k]
    BY <1>4, <1>7, <1>8, <1>12
  <2>2. /\ p - 3 \in Nat /\ p - 3 \in 1 .. 4 * k /\ ~(p - 3 <= 4 * (k - 1)) /\ p \notin 0 .. 3
        /\ (p - 3) - 4 * (k - 1) - 1 = p - 4 * k
    BY <1>1, <1>3, <1>7, <1>12
  <2>3. tab[k][p - 3] = LanesOf(a)[p - 4 * k]
    BY <1>6, <2>2
  <2> QED BY <1>9, <2>1, <2>2, <2>3 DEF p
<1>13. CASE q - l \notin 1 .. c + 1 /\ p - 4 * k \notin 0 .. 3
  <2>1. ByteAt(r, x) = ByteAt(m, x)
    BY <1>4, <1>7, <1>8, <1>13
  <2>2. p - 3 \in 1 .. 4 * k <=> p - 3 \in 1 .. 4 * (k - 1)
    BY <1>1, <1>3, <1>7, <1>13
  <2>3. q \in 1 .. len[k] <=> q \in 1 .. l
    BY <1>1, <1>7, <1>13
  <2>4. p - 3 \in 1 .. 4 * (k - 1) => tab[k][p - 3] = tab[k - 1][p - 3]
    <3>1. p - 3 \in 1 .. 4 * (k - 1) => p - 3 \in Nat /\ p - 3 <= 4 * (k - 1)
      BY <1>1, <1>3, <1>7
    <3> QED BY <1>6, <2>2, <3>1
  <2>5. q \in 1 .. l => txt[k][q] = txt[k - 1][q]
    <3>1. q \in 1 .. l => q \in Nat /\ q <= l
      BY <1>1, <1>7
    <3> QED BY <1>5, <2>3, <3>1
  <2> QED BY <1>9, <2>1, <2>2, <2>3, <2>4, <2>5 DEF p
<1> QED BY <1>11, <1>12, <1>13

\* After the loop over the arguments the memory has all of the table and the texts.
LEMMA ArgumentsHeld ==
  ASSUME NEW args \in Seq(Names), NEW len, Placing(args, len),
         NEW tab, Runs(Len(args), Seq(Octet), <<>>, TableTurn(args), tab),
         NEW txt, Runs(Len(args), Seq(Octet), <<>>, TextsTurn(args), txt),
         StringAddress(args, Len(args) + 1) <= 4 * PageWords * NPages
  PROVE  /\ Passed(args, memory_create) \in PageTable
         /\ \A x \in Addr : ByteAt(Passed(args, memory_create), x)
                              = HeldByte(args, tab, txt, len, Len(args), x - ArgBase)
<1> DEFINE n == Len(args)
           base == PutWord(memory_create, ArgBase, n)
           Held(m, k) == \A x \in Addr :
                           ByteAt(m, x) = HeldByte(args, tab, txt, len, k, x - ArgBase)
<1>1. n \in Nat /\ n \in 0 .. n /\ 0 \in 0 .. n
  BY LenProperties
<1>2. PICK run : /\ Runs(n, PageTable, base, ArgumentTurn(args), run)
                 /\ Passed(args, memory_create) = run[n]
  BY FreshMemory, ArgumentsPassed
<1>3. \A k \in 0 .. n : run[k] \in PageTable
  BY <1>2 DEF Runs
<1>4. Held(run[0], 0)
  <2>1. ArgBase \in Addr /\ ArgBase \in Nat /\ ArgBase % 4 = 0 /\ \A x \in Addr : x \in Int
    BY LoaderAssumption, MemoryAssumption DEF Addr
  <2>2. \A x \in Addr : ByteAt(base, x) =
          IF x \in ArgBase .. ArgBase + 3 THEN LanesOf(n)[x - ArgBase] ELSE 0
    <3>1. \A x \in Addr : ByteAt(memory_create, x) = 0
      BY FreshMemory, LoaderAssumption
    <3>2. memory_create \in PageTable
      BY FreshMemory
    <3>3. \A x \in Addr : ByteAt(base, x) =
            IF x \in ArgBase .. ArgBase + 3 THEN LanesOf(n)[x - ArgBase]
            ELSE ByteAt(memory_create, x)
      BY <1>1, <2>1, <3>2, PutWordStores
    <3> QED BY <3>1, <3>3
  <2>3. run[0] = base
    BY <1>2 DEF Runs
  <2>4. len[0] = 0
    BY LengthsGrow
  <2> HIDE DEF base
  <2> SUFFICES ASSUME NEW x \in Addr
               PROVE  ByteAt(base, x) = HeldByte(args, tab, txt, len, 0, x - ArgBase)
    BY <2>3
  <2> DEFINE p == x - ArgBase
  <2>5. p \in Int /\ (x \in ArgBase .. ArgBase + 3 <=> p \in 0 .. 3)
    BY <2>1
  <2>6. ByteAt(base, x) = IF p \in 0 .. 3 THEN LanesOf(n)[p] ELSE 0
    BY <2>2, <2>5
  <2> HIDE DEF p
  <2>7. p - 3 \notin 1 .. 4 * 0 /\ p - 3 - 4 * n \notin 1 .. len[0]
    BY <1>1, <2>4, <2>5
  <2>8. ByteAt(base, x) = HeldByte(args, tab, txt, len, 0, p)
    BY <2>6, <2>7 DEF HeldByte
  <2> QED BY <2>8 DEF p
<1> HIDE DEF base
<1>5. ASSUME NEW k \in 0 .. n - 1, Held(run[k], k) PROVE Held(run[k + 1], k + 1)
  <2>1. k + 1 \in 1 .. n /\ k \in 0 .. n /\ (k + 1) - 1 = k
    BY <1>1
  <2>2. run[k + 1] = PassArgument(args, run[k], k + 1)
    <3>1. run[k + 1] = ArgumentTurn(args)[k + 1][run[k]]
      BY <1>2, <2>1 DEF Runs
    <3> QED BY <1>3, <2>1, <3>1 DEF ArgumentTurn
  <2> DEFINE h == k + 1
             m == run[k]
  <2>3. h \in 1 .. Len(args) /\ m \in PageTable
        /\ \A x \in Addr : ByteAt(m, x) = HeldByte(args, tab, txt, len, h - 1, x - ArgBase)
    BY <1>3, <1>5, <2>1
  <2> HIDE DEF h, m
  <2>4. \A x \in Addr : ByteAt(PassArgument(args, m, h), x)
                          = HeldByte(args, tab, txt, len, h, x - ArgBase)
    BY <2>3, TurnHolds
  <2> QED BY <2>2, <2>4 DEF h, m
<1>6. Held(run[n], n)
  <2> DEFINE T == {k \in 0 .. n : Held(run[k], k)}
  <2> HIDE DEF Held
  <2>1. 0 \in T
    BY <1>1, <1>4
  <2>2. \A k \in 0 .. n - 1 : k \in T => k + 1 \in T
    <3> TAKE k \in 0 .. n - 1
    <3>1. k + 1 \in 0 .. n
      BY <1>1
    <3> QED BY <1>5, <3>1
  <2>3. 0 .. n \subseteq T
    <3> HIDE DEF T
    <3> QED BY <1>1, <2>1, <2>2, BoundedInduction
  <2> QED BY <1>1, <2>3
<1> QED BY <1>1, <1>2, <1>3, <1>6

\* The arguments as bytes: their number, the table, the texts.
BytesOf(args) == IF args = <<>> THEN <<>> ELSE Little(Len(args)) \o Table(args) \o Texts(args)

\* They are the bytes that the loop over the arguments leaves.
LEMMA BytesAreHeld ==
  ASSUME NEW args \in Seq(Names), args # <<>>, NEW len, Placing(args, len),
         NEW tab, Runs(Len(args), Seq(Octet), <<>>, TableTurn(args), tab),
         Table(args) = tab[Len(args)],
         NEW txt, Runs(Len(args), Seq(Octet), <<>>, TextsTurn(args), txt),
         Texts(args) = txt[Len(args)]
  PROVE  /\ Len(BytesOf(args)) = 4 + 4 * Len(args) + len[Len(args)]
         /\ \A p \in Int : HeldByte(args, tab, txt, len, Len(args), p) =
                             IF p + 1 \in DOMAIN BytesOf(args) THEN BytesOf(args)[p + 1] ELSE 0
<1> DEFINE n == Len(args)
           number == Little(n)
           table == tab[n]
           texts == txt[n]
           front == number \o table
           bytes == front \o texts
<1>1. n \in Nat /\ n \in 0 .. n
  BY LenProperties
<1>2. /\ number \in Seq(Octet) /\ Len(number) = 4
      /\ \A k \in 1 .. 4 : number[k] = LanesOf(n)[k - 1]
  BY <1>1, LittleIsLanes
<1>3. table \in Seq(Octet) /\ Len(table) = 4 * n
  BY <1>1, TableContent
<1>4. texts \in Seq(Octet) /\ Len(texts) = len[n] /\ len[n] \in Nat
  BY <1>1, TextsContent, LengthsGrow
<1>5. BytesOf(args) = bytes
  BY DEF BytesOf
<1>6. \A p : HeldByte(args, tab, txt, len, n, p) =
               IF p \in 0 .. 3 THEN LanesOf(n)[p]
               ELSE IF p - 3 \in 1 .. 4 * n THEN table[p - 3]
               ELSE IF p - 3 - 4 * n \in 1 .. len[n] THEN texts[p - 3 - 4 * n] ELSE 0
  BY DEF HeldByte
<1> HIDE DEF n, number, table, texts
<1>7. /\ front \in Seq(Octet) /\ Len(front) = 4 + 4 * n
      /\ \A j \in 1 .. 4 + 4 * n : front[j] = IF j <= 4 THEN number[j] ELSE table[j - 4]
  <2>1. /\ front \in Seq(Octet) /\ Len(front) = Len(number) + Len(table)
        /\ \A j \in 1 .. Len(number) + Len(table) :
             front[j] = IF j <= Len(number) THEN number[j] ELSE table[j - Len(number)]
    BY <1>2, <1>3, ConcatProperties
  <2> QED BY <1>1, <1>2, <1>3, <2>1
<1> HIDE DEF front
<1>8. /\ bytes \in Seq(Octet) /\ Len(bytes) = Len(front) + Len(texts)
      /\ \A j \in 1 .. Len(front) + Len(texts) :
           bytes[j] = IF j <= Len(front) THEN front[j] ELSE texts[j - Len(front)]
  BY <1>4, <1>7, ConcatProperties
<1> HIDE DEF bytes
<1>9. Len(bytes) = 4 + 4 * n + len[n] /\ DOMAIN bytes = 1 .. 4 + 4 * n + len[n]
  <2>1. Len(bytes) = 4 + 4 * n + len[n]
    BY <1>4, <1>7, <1>8
  <2>2. DOMAIN bytes = 1 .. Len(bytes)
    BY <1>8, LenProperties
  <2> QED BY <2>1, <2>2
<1>10. ASSUME NEW p \in Int
       PROVE  HeldByte(args, tab, txt, len, n, p) =
                IF p + 1 \in DOMAIN bytes THEN bytes[p + 1] ELSE 0
  <2> DEFINE j == p + 1
             d == 4 + 4 * n
  <2>1. /\ d \in Nat /\ j \in Int /\ p = j - 1 /\ p - 3 = j - 4 /\ p - 3 - 4 * n = j - d
        /\ Len(front) = d /\ DOMAIN bytes = 1 .. d + len[n] /\ 4 * n = d - 4 /\ 4 <= d
        /\ (p \in 0 .. 3 <=> j \in 1 .. 4)
    BY <1>1, <1>7, <1>9
  <2>2. \A h \in 1 .. d : front[h] = IF h <= 4 THEN number[h] ELSE table[h - 4]
    BY <1>7
  <2> HIDE DEF j, d
  <2>3. CASE j \in 1 .. 4
    <3>1. j \in 1 .. d /\ j \in 1 .. Len(front) + Len(texts) /\ j <= Len(front) /\ j <= 4
      BY <1>4, <2>1, <2>3
    <3>2. bytes[j] = LanesOf(n)[p] /\ j \in DOMAIN bytes
      BY <1>2, <1>4, <1>8, <2>1, <2>2, <2>3, <3>1
    <3> QED BY <1>6, <2>1, <2>3, <3>2 DEF j
  <2>4. CASE j \notin 1 .. 4 /\ j - 4 \in 1 .. d - 4
    <3>1. j \in 1 .. d /\ j \in 1 .. Len(front) + Len(texts) /\ j <= Len(front) /\ ~(j <= 4)
      BY <1>4, <2>1, <2>4
    <3>2. bytes[j] = table[j - 4] /\ j \in DOMAIN bytes
      BY <1>4, <1>8, <2>1, <2>2, <3>1
    <3> QED BY <1>6, <2>1, <2>4, <3>2 DEF j
  <2>5. CASE j \notin 1 .. 4 /\ j - 4 \notin 1 .. d - 4 /\ j - d \in 1 .. len[n]
    <3>1. j \in 1 .. Len(front) + Len(texts) /\ ~(j <= Len(front))
      BY <1>4, <2>1, <2>5
    <3>2. bytes[j] = texts[j - d] /\ j \in DOMAIN bytes
      BY <1>4, <1>8, <2>1, <3>1
    <3> QED BY <1>6, <2>1, <2>5, <3>2 DEF j
  <2>6. CASE j \notin 1 .. 4 /\ j - 4 \notin 1 .. d - 4 /\ j - d \notin 1 .. len[n]
    <3>1. j \notin DOMAIN bytes
      BY <1>4, <2>1, <2>6
    <3> QED BY <1>6, <2>1, <2>6, <3>1 DEF j
  <2> QED BY <2>3, <2>4, <2>5, <2>6
<1> QED BY <1>5, <1>9, <1>10 DEF n

\* What the arguments leave at an address.
ArgumentByte(args, x) ==
  IF x - ArgBase + 1 \in DOMAIN BytesOf(args) THEN BytesOf(args)[x - ArgBase + 1] ELSE 0

\* pass_args_to_program leaves their bytes, and zero everywhere else.
LEMMA ArgumentsInMemory ==
  ASSUME NEW names \in CommandLines
  PROVE  LET args == ProgramArgs(names)
             m == IF args = <<>> THEN memory_create ELSE Passed(args, memory_create)
         IN  \A x \in Addr : ByteAt(m, x) = ArgumentByte(args, x)
<1> DEFINE args == ProgramArgs(names)
<1>1. args \in Seq(Names) /\ StringAddress(args, Len(args) + 1) <= 4 * PageWords * NPages
  BY ArgumentsAreNames, AddressesFit
<1> HIDE DEF args
<1>2. CASE args = <<>>
  <2>1. DOMAIN BytesOf(args) = {}
    BY <1>2 DEF BytesOf
  <2>2. \A x \in Addr : ByteAt(memory_create, x) = 0
    BY FreshMemory, LoaderAssumption
  <2>3. \A x : ArgumentByte(args, x) = 0
    BY <2>1 DEF ArgumentByte
  <2> QED BY <1>2, <2>2, <2>3 DEF args
<1>3. CASE args # <<>>
  <2>1. PICK len : Placing(args, len)
    BY <1>1, StringAddresses DEF Placing
  <2>2. PICK tab : /\ Runs(Len(args), Seq(Octet), <<>>, TableTurn(args), tab)
                   /\ Table(args) = tab[Len(args)]
    BY <1>1, TableJoined
  <2>3. PICK txt : /\ Runs(Len(args), Seq(Octet), <<>>, TextsTurn(args), txt)
                   /\ Texts(args) = txt[Len(args)]
    BY <1>1, TextsJoined
  <2>4. \A x \in Addr : ByteAt(Passed(args, memory_create), x)
                          = HeldByte(args, tab, txt, len, Len(args), x - ArgBase)
    BY <1>1, <2>1, <2>2, <2>3, ArgumentsHeld
  <2>5. \A p \in Int : HeldByte(args, tab, txt, len, Len(args), p) =
                         IF p + 1 \in DOMAIN BytesOf(args) THEN BytesOf(args)[p + 1] ELSE 0
    BY <1>1, <1>3, <2>1, <2>2, <2>3, BytesAreHeld
  <2>6. \A x \in Addr : x - ArgBase \in Int
    BY LoaderAssumption, MemoryAssumption DEF Addr
  <2>7. \A x \in Addr : ByteAt(Passed(args, memory_create), x) = ArgumentByte(args, x)
    BY <2>4, <2>5, <2>6 DEF ArgumentByte
  <2> QED BY <1>3, <2>7 DEF args
<1> QED BY <1>2, <1>3

-----------------------------------------------------------------------------
(***************************************************************************)
(* The memory from phase to phase: that of the arguments, and over it that *)
(* of the segments handled so far.                                         *)
(***************************************************************************)

\* The loadable segments among the first k that cover an address.
CoveringUpTo(f, k, x) ==
  {j \in 1 .. k : /\ f.phdrs[j].p_type = PT_LOAD
                  /\ x - f.phdrs[j].p_vaddr \in 0 .. f.phdrs[j].p_filesz - 1}

\* The byte of the last of them, over that of the arguments.
HandedByte(f, args, k, x) ==
  LET phdr == f.phdrs[Max(CoveringUpTo(f, k, x))]
  IN  IF CoveringUpTo(f, k, x) # {} THEN phdr.data[x - phdr.p_vaddr + 1]
      ELSE ArgumentByte(args, x)

Handed(m, f, args, k) == \A x \in Addr : ByteAt(m, x) = HandedByte(f, args, k, x)

MemoryInv ==
  /\ phase = "arguments" => mem = memory_create
  /\ phase \in {"options", "open", "segments", "symbols", "list", "simulate"} =>
       Handed(mem, file, ProgramArgs(argv), i)

\* A segment that is not loadable covers nothing; one that is covers its addresses,
\* whatever was there.
LEMMA CoveringGrows ==
  ASSUME NEW f, NEW k \in Nat, NEW x, NEW args
  PROVE  LET phdr == f.phdrs[k + 1]
             covers == phdr.p_type = PT_LOAD
                       /\ x - phdr.p_vaddr \in 0 .. phdr.p_filesz - 1
         IN  HandedByte(f, args, k + 1, x) =
               IF covers THEN phdr.data[x - phdr.p_vaddr + 1] ELSE HandedByte(f, args, k, x)
<1> DEFINE phdr == f.phdrs[k + 1]
           covers == phdr.p_type = PT_LOAD /\ x - phdr.p_vaddr \in 0 .. phdr.p_filesz - 1
           old == CoveringUpTo(f, k, x)
           new == CoveringUpTo(f, k + 1, x)
<1>1. \A j : j \in 1 .. k + 1 <=> j \in 1 .. k \/ j = k + 1
  OBVIOUS
<1>2. CASE covers
  <2>1. new \in SUBSET (1 .. k + 1) /\ k + 1 \in new /\ k + 1 \in Nat
    BY <1>1, <1>2 DEF CoveringUpTo
  <2> HIDE DEF new
  <2>2. Max(new) \in new /\ k + 1 <= Max(new)
    BY <2>1, GreatestElement
  <2>3. Max(new) = k + 1
    <3> DEFINE g == Max(new)
    <3> HIDE DEF g
    <3>1. g \in 1 .. k + 1 /\ k + 1 <= g
      BY <2>1, <2>2 DEF g
    <3>2. g = k + 1
      BY <3>1
    <3> QED BY <3>2 DEF g
  <2>4. HandedByte(f, args, k + 1, x) = phdr.data[x - phdr.p_vaddr + 1]
    BY <2>1, <2>3 DEF HandedByte, new
  <2> QED BY <1>2, <2>4
<1>3. CASE ~covers
  <2>1. new = old
    BY <1>1, <1>3 DEF CoveringUpTo
  <2>2. HandedByte(f, args, k + 1, x) = HandedByte(f, args, k, x)
    BY <2>1 DEF HandedByte
  <2> QED BY <1>3, <2>2
<1> QED BY <1>2, <1>3

\* A segment that is all there is placed over what is in memory.
LEMMA PlacedIsHanded ==
  ASSUME IInv, MemoryInv, LoadSegment, Whole(file.phdrs[i + 1]),
         mem' = Placed(file.phdrs[i + 1])
  PROVE  Handed(mem', file, ProgramArgs(argv), i + 1)
<1> DEFINE phdr == file.phdrs[i + 1]
           a == phdr.p_vaddr
           bytes == phdr.data
           size == phdr.p_filesz
           top == 4 * PageWords * NPages
<1>1. /\ i \in Nat /\ i + 1 \in 1 .. Len(file.phdrs)
      /\ file \in Files \ {NoFile} /\ file.phdrs \in Seq(Elf32_Phdr)
  <2>1. i \in Nat /\ file # NoFile /\ file \in Files
    BY DEF IInv, TypeOK, HeadersHandled, LoadSegment
  <2>2. Len(file.phdrs) \in Nat /\ file.phdrs \in Seq(Elf32_Phdr)
    BY <2>1, FileParts
  <2> QED BY <2>1, <2>2 DEF LoadSegment
<1>2. /\ a \in Nat /\ bytes \in Seq(0 .. 255) /\ size \in Nat /\ top \in Nat
      /\ Addr = 0 .. top - 1 /\ phdr.p_type = PT_LOAD
      /\ a + size <= top /\ DOMAIN bytes = 1 .. size
  <2>1. a \in Nat /\ bytes \in Seq(0 .. 255) /\ size \in Nat
    BY <1>1, FileParts
  <2>2. a + size <= top
    <3>1. i + 1 \in DOMAIN file.phdrs
      BY <1>1, LenProperties
    <3> QED BY <1>1, <3>1, AddressesFit
  <2>3. Len(bytes) = size
    BY DEF Whole
  <2>4. DOMAIN bytes = 1 .. size
    BY <2>1, <2>3, LenProperties
  <2>5. top \in Nat /\ Addr = 0 .. top - 1
    BY MemoryAssumption DEF Addr
  <2> QED BY <2>1, <2>2, <2>4, <2>5 DEF LoadSegment
<1>3. Stored(mem', mem, a, bytes, DOMAIN bytes)
  <2>1. mem \in PageTable
    BY DEF IInv, TypeOK
  <2> QED BY <1>2, <2>1, PutBytesStores DEF Placed
<1>4. \A x \in Addr : ByteAt(mem, x) = HandedByte(file, ProgramArgs(argv), i, x)
  BY DEF MemoryInv, Handed, LoadSegment
<1>5. \A x \in Addr : HandedByte(file, ProgramArgs(argv), i + 1, x) =
                        IF x - a \in 0 .. size - 1 THEN bytes[x - a + 1]
                        ELSE HandedByte(file, ProgramArgs(argv), i, x)
  <2> TAKE x \in Addr
  <2> DEFINE args == ProgramArgs(argv)
  <2>1. HandedByte(file, args, i + 1, x) =
          IF phdr.p_type = PT_LOAD /\ x - phdr.p_vaddr \in 0 .. phdr.p_filesz - 1
          THEN phdr.data[x - phdr.p_vaddr + 1] ELSE HandedByte(file, args, i, x)
    BY <1>1, CoveringGrows
  <2> QED BY <1>2, <2>1
<1> HIDE DEF phdr, a, bytes, size, top
<1>6. \A k \in DOMAIN bytes : a + k - 1 \in Addr
  BY <1>2
<1>7. \A x \in Addr : ByteAt(mem', x) = IF x - a + 1 \in DOMAIN bytes THEN bytes[x - a + 1]
                                       ELSE ByteAt(mem, x)
  BY <1>3, <1>6 DEF Stored
<1>8. \A x \in Addr : x - a + 1 \in DOMAIN bytes <=> x - a \in 0 .. size - 1
  BY <1>2
<1> QED BY <1>4, <1>5, <1>7, <1>8 DEF Handed

\* Every step keeps the memory that the file and the arguments describe.
LEMMA MemoryNextHolds == IInv /\ MemoryInv /\ [Next]_vars => MemoryInv'
<1> SUFFICES ASSUME IInv, MemoryInv, [Next]_vars PROVE MemoryInv'
  OBVIOUS
<1> DEFINE Kept == {"options", "open", "segments", "symbols", "list", "simulate"}
<1>1. ASSUME UNCHANGED <<argv, file, mem, i>>, phase' = phase \/ phase' = "ended"
                                              \/ (phase \in Kept /\ phase' # "arguments")
      PROVE  MemoryInv'
  BY <1>1 DEF MemoryInv
<1>2. CASE PassArguments
  <2>1. phase = "arguments" /\ phase' = "options" /\ UNCHANGED <<argv, file, i>>
        /\ mem = memory_create /\ i = 0
    BY <1>2 DEF PassArguments, MemoryInv, IInv
  <2>2. mem' = IF ProgramArgs(argv) = <<>> THEN memory_create
               ELSE Passed(ProgramArgs(argv), memory_create)
    BY <1>2, <2>1 DEF PassArguments, Passed
  <2>3. argv \in CommandLines
    BY DEF IInv
  <2>4. \A x \in Addr : ByteAt(mem', x) = ArgumentByte(ProgramArgs(argv), x)
    BY <2>2, <2>3, ArgumentsInMemory
  <2>5. \A x : CoveringUpTo(file, 0, x) = {}
    BY DEF CoveringUpTo
  <2>6. Handed(mem', file, ProgramArgs(argv), 0)
    BY <2>4, <2>5 DEF Handed, HandedByte
  <2> QED BY <2>1, <2>6 DEF MemoryInv
<1>3. CASE SkipSegment
  <2>1. phase = "segments" /\ phase' = phase /\ UNCHANGED <<argv, file, mem>> /\ i' = i + 1
        /\ file.phdrs[i + 1].p_type # PT_LOAD
    BY <1>3 DEF SkipSegment
  <2>2. i \in Nat
    BY DEF IInv, TypeOK
  <2>3. \A x : HandedByte(file, ProgramArgs(argv), i + 1, x)
                 = HandedByte(file, ProgramArgs(argv), i, x)
    BY <2>1, <2>2, CoveringGrows
  <2>4. Handed(mem, file, ProgramArgs(argv), i + 1)
    BY <2>1, <2>3 DEF MemoryInv, Handed
  <2> QED BY <2>1, <2>4 DEF MemoryInv
<1>4. CASE LoadSegment
  <2>1. phase = "segments" /\ UNCHANGED <<argv, file>>
        /\ \/ /\ Whole(file.phdrs[i + 1]) /\ mem' = Placed(file.phdrs[i + 1])
              /\ i' = i + 1 /\ UNCHANGED phase
           \/ LoadFails /\ UNCHANGED <<mem, i>>
    BY <1>4 DEF LoadSegment
  <2>2. CASE /\ Whole(file.phdrs[i + 1]) /\ mem' = Placed(file.phdrs[i + 1])
             /\ i' = i + 1 /\ UNCHANGED phase
    <3>1. Handed(mem', file, ProgramArgs(argv), i + 1)
      BY <1>4, <2>2, PlacedIsHanded
    <3> QED BY <2>1, <2>2, <3>1 DEF MemoryInv
  <2>3. CASE LoadFails /\ UNCHANGED <<mem, i>>
    BY <1>1, <2>1, <2>3 DEF LoadFails, End
  <2> QED BY <2>1, <2>2, <2>3
<1>5. CASE List
  <2>1. phase' = "ended"
    BY <1>5 DEF List, End
  <2> QED BY <2>1 DEF MemoryInv
<1>6. CASE NoHostMemory \/ Usage \/ MissingHeader \/ Report
  <2>1. phase' = "ended"
    BY <1>6 DEF NoHostMemory, Usage, MissingHeader, Report, Terminate, LoadFails, End
  <2> QED BY <2>1 DEF MemoryInv
<1>7. CASE Options
  <2>1. UNCHANGED <<argv, file, mem, i>> /\ phase = "options" /\ phase' \in {"ended", "open"}
    BY <1>7 DEF Options, Terminate, End
  <2> QED BY <1>1, <2>1
<1>8. CASE OpenFile
  <2>1. UNCHANGED <<argv, file, mem, i>> /\ phase = "open" /\ phase' \in {"ended", "segments"}
    BY <1>8 DEF OpenFile, LoadFails, End
  <2> QED BY <1>1, <2>1
<1>9. CASE Loaded
  <2>1. UNCHANGED <<argv, file, mem, i>> /\ phase = "segments" /\ phase' = "symbols"
    BY <1>9 DEF Loaded
  <2> QED BY <1>1, <2>1
<1>10. CASE ReadSymbols
  <2>1. UNCHANGED <<argv, file, mem, i>> /\ phase = "symbols"
        /\ phase' \in {"ended", "list", "simulate"}
    BY <1>10 DEF ReadSymbols, End
  <2> QED BY <1>1, <2>1
<1>11. CASE Simulate
  <2>1. UNCHANGED <<argv, file, mem, i>> /\ phase = "simulate" /\ phase' \in {"ended", "report"}
    BY <1>11 DEF Simulate, End
  <2> QED BY <1>1, <2>1
<1>12. CASE UNCHANGED vars
  BY <1>1, <1>12 DEF vars
<1> QED BY <1>2, <1>3, <1>4, <1>5, <1>6, <1>7, <1>8, <1>9, <1>10, <1>11, <1>12 DEF Next

\* The program gets the memory that its file describes, whatever the file, its
\* segments and the arguments, as long as they end within the addresses.
THEOREM FileHandedOver == Spec => []HandsOverTheFile
<1>1. Init => MemoryInv
  BY DEF Init, MemoryInv
<1>2. IInv /\ MemoryInv => HandsOverTheFile
  <2> SUFFICES ASSUME IInv, MemoryInv, phase \in {"simulate", "list"}, NEW x \in Addr
               PROVE  ByteAt(mem, x) =
                        IF Covering(x) # {}
                        THEN LET phdr == file.phdrs[Max(Covering(x))]
                             IN  phdr.data[x - phdr.p_vaddr + 1]
                        ELSE IF x - ArgBase + 1 \in DOMAIN ArgumentBytes
                        THEN ArgumentBytes[x - ArgBase + 1] ELSE 0
    BY DEF HandsOverTheFile
  <2>1. HeadersHandled /\ i = file.ehdr.e_phnum
    BY DEF IInv, AllHandled
  <2>2. DOMAIN file.phdrs = 1 .. i
    <3>1. file \in Files /\ file # NoFile /\ i <= Len(file.phdrs)
      BY <2>1 DEF IInv, HeadersHandled
    <3>2. /\ Len(file.phdrs) \in Nat /\ file.ehdr.e_phnum \in Nat
          /\ Len(file.phdrs) <= file.ehdr.e_phnum /\ file.phdrs \in Seq(Elf32_Phdr)
      BY <3>1, FileParts
    <3>3. i = Len(file.phdrs)
      BY <2>1, <3>1, <3>2
    <3> QED BY <3>2, <3>3, LenProperties
  <2>3. Covering(x) = CoveringUpTo(file, i, x)
    BY <2>2 DEF Covering, CoveringUpTo
  <2>4. ArgumentBytes = BytesOf(ProgramArgs(argv))
    BY DEF ArgumentBytes, BytesOf, Little, Table, Texts
  <2>5. ByteAt(mem, x) = HandedByte(file, ProgramArgs(argv), i, x)
    BY DEF MemoryInv, Handed
  <2> QED BY <2>3, <2>4, <2>5 DEF HandedByte, ArgumentByte
<1> QED BY <1>1, <1>2, InvariantHolds, MemoryNextHolds, PTL DEF Spec

-----------------------------------------------------------------------------
(***************************************************************************)
(* What the guest reads of the arguments.                                  *)
(***************************************************************************)

\* The entries of the table stay, and so do the texts.
LEMMA EntriesStay ==
  ASSUME NEW args \in Seq(Names),
         NEW tab, Runs(Len(args), Seq(Octet), <<>>, TableTurn(args), tab),
         NEW k \in 1 .. Len(args), NEW l \in Lane
  PROVE  tab[Len(args)][4 * (k - 1) + l + 1] = LanesOf(StringAddress(args, k))[l]
<1> DEFINE n == Len(args)
           at == 4 * (k - 1) + l + 1
           lane == LanesOf(StringAddress(args, k))[l]
           T == {h \in 0 .. n : h >= k => tab[h][at] = lane}
<1>1. n \in Nat /\ k \in 1 .. n /\ l \in Nat /\ l <= 3
  BY LenProperties DEF Lane
<1>2. at \in Nat /\ at = 4 * k - 3 + l /\ at \in 1 .. 4 * k /\ ~(at <= 4 * (k - 1))
      /\ at - 4 * (k - 1) - 1 = l
  BY <1>1
<1>3. \A h \in 1 .. n : at \in 1 .. 4 * h =>
        tab[h][at] = IF at <= 4 * (h - 1) THEN tab[h - 1][at]
                     ELSE LanesOf(StringAddress(args, h))[at - 4 * (h - 1) - 1]
  BY <1>2, TableContent
<1> HIDE DEF n, at, lane
<1>4. 0 \in T
  BY <1>1
<1>5. ASSUME NEW h \in 0 .. n - 1, h \in T PROVE h + 1 \in T
  <2>1. h + 1 \in 1 .. n /\ h + 1 \in 0 .. n /\ (h + 1) - 1 = h
    BY <1>1
  <2>2. CASE h >= k
    <3>1. at \in 1 .. 4 * (h + 1) /\ at <= 4 * h
      BY <1>1, <1>2, <2>2
    <3>2. tab[h + 1][at] = tab[h][at]
      BY <1>3, <2>1, <3>1
    <3> QED BY <1>5, <2>1, <2>2, <3>2
  <2>3. CASE h + 1 = k
    <3>1. tab[k][at] = lane
      BY <1>1, <1>2, <1>3 DEF lane
    <3> QED BY <2>1, <2>3, <3>1
  <2>4. CASE ~(h + 1 >= k)
    BY <2>1, <2>4
  <2> QED BY <1>1, <2>2, <2>3, <2>4
<1>6. 0 .. n \subseteq T
  <2>1. \A h \in 0 .. n - 1 : h \in T => h + 1 \in T
    BY <1>5
  <2> HIDE DEF T
  <2> QED BY <1>1, <1>4, <2>1, BoundedInduction
<1>7. tab[n][at] = lane
  <2>1. n \in T /\ n >= k
    BY <1>1, <1>6
  <2> QED BY <2>1
<1> QED BY <1>7 DEF n, at, lane

\* The texts stay.
LEMMA TextsStay ==
  ASSUME NEW args \in Seq(Names), NEW len, Placing(args, len),
         NEW txt, Runs(Len(args), Seq(Octet), <<>>, TextsTurn(args), txt),
         NEW k \in 1 .. Len(args), NEW j \in 0 .. Len(Chars[args[k]])
  PROVE  txt[Len(args)][len[k - 1] + j + 1] = Ended(args[k])[j + 1]
<1> DEFINE n == Len(args)
           c == Len(Chars[args[k]])
           at == len[k - 1] + j + 1
           byte == Ended(args[k])[j + 1]
           T == {h \in 0 .. n : h >= k => txt[h][at] = byte}
<1>1. n \in Nat /\ k \in 1 .. n /\ j \in Nat /\ c \in Nat /\ j <= c /\ len[k - 1] \in Nat
      /\ len[k] = len[k - 1] + c + 1
  <2>1. n \in Nat
    BY LenProperties
  <2>2. c \in Nat /\ len[k - 1] \in Nat /\ len[k] = len[k - 1] + c + 1
    BY LengthsGrow
  <2> QED BY <2>1, <2>2
<1>2. /\ at \in Nat /\ at \in 1 .. len[k] /\ ~(at <= len[k - 1]) /\ at - len[k - 1] = j + 1
      /\ at <= len[k]
  <2> HIDE DEF n, c, byte
  <2> QED BY <1>1
<1>3. \A h \in 1 .. n : at \in 1 .. len[h] =>
        txt[h][at] = IF at <= len[h - 1] THEN txt[h - 1][at]
                     ELSE Ended(args[h])[at - len[h - 1]]
  <2>1. \A h \in 1 .. n, x \in Nat : x \in 1 .. len[h] =>
          txt[h][x] = IF x <= len[h - 1] THEN txt[h - 1][x]
                      ELSE Ended(args[h])[x - len[h - 1]]
    BY TextsContent
  <2> HIDE DEF n, c, at, byte
  <2> QED BY <1>2, <2>1
<1>4. \A h \in 0 .. n : len[h] \in Nat /\ \A g \in 0 .. h : len[g] <= len[h]
  BY LengthsGrow
<1> HIDE DEF n, c, at, byte
<1>5. 0 \in T
  BY <1>1
<1>6. ASSUME NEW h \in 0 .. n - 1, h \in T PROVE h + 1 \in T
  <2>1. h + 1 \in 1 .. n /\ h + 1 \in 0 .. n /\ (h + 1) - 1 = h /\ h \in 0 .. n
    BY <1>1
  <2>2. CASE h >= k
    <3>1. k \in 0 .. h /\ h \in 0 .. h + 1 /\ k \in 0 .. n
      BY <1>1, <2>2
    <3>2. /\ len[k] <= len[h] /\ len[h] <= len[h + 1]
          /\ len[k] \in Nat /\ len[h] \in Nat /\ len[h + 1] \in Nat
      BY <1>4, <2>1, <3>1
    <3>3. at \in 1 .. len[h + 1] /\ at <= len[h]
      BY <1>2, <3>2
    <3>4. txt[h + 1][at] = txt[h][at]
      BY <1>3, <2>1, <3>3
    <3> QED BY <1>6, <2>1, <2>2, <3>4
  <2>3. CASE h + 1 = k
    <3>1. txt[k][at] = byte
      BY <1>1, <1>2, <1>3 DEF byte
    <3> QED BY <2>1, <2>3, <3>1
  <2>4. CASE ~(h + 1 >= k)
    BY <2>1, <2>4
  <2> QED BY <1>1, <2>2, <2>3, <2>4
<1>7. 0 .. n \subseteq T
  <2>1. \A h \in 0 .. n - 1 : h \in T => h + 1 \in T
    BY <1>6
  <2> HIDE DEF T
  <2> QED BY <1>1, <1>5, <2>1, BoundedInduction
<1>8. txt[n][at] = byte
  <2>1. n \in T /\ n >= k
    BY <1>1, <1>7
  <2> QED BY <2>1
<1> QED BY <1>8 DEF n, at, byte

\* The number of values of a word: 2^32.
WordValues == 4294967296

\* The bytes of a word make up its number again.
LEMMA LanesMakeWord ==
  ASSUME NEW v \in Nat, v < WordValues
  PROVE  LanesOf(v)[0] + 256 * LanesOf(v)[1] + 65536 * LanesOf(v)[2]
           + 16777216 * LanesOf(v)[3] = v
<1>1. /\ LanesOf(v)[0] = (v \div 1) % 256 /\ LanesOf(v)[1] = (v \div 256) % 256
      /\ LanesOf(v)[2] = (v \div 65536) % 256 /\ LanesOf(v)[3] = (v \div 16777216) % 256
  BY LoaderPowers, SMT DEF LanesOf, Lane
<1> DEFINE a == v \div 256
           b == v \div 65536
           c == v \div 16777216
<1>2. /\ a \in Nat /\ b \in Nat /\ c \in Nat /\ (v \div 1) % 256 = v - 256 * a
      /\ b = a \div 256 /\ c = b \div 256 /\ c < 256
  BY SMT DEF WordValues
<1> HIDE DEF a, b, c
<1>3. a % 256 = a - 256 * b /\ b % 256 = b - 256 * c /\ c % 256 = c
  BY <1>2
<1> QED BY <1>1, <1>2, <1>3, SMT DEF a, b, c

\* Where the arguments lie, and what is there: their number, for each the address of
\* its text, and the text with its NUL.
LEMMA ArgumentsLaid ==
  ASSUME NEW args \in Seq(Names), args # <<>>,
         StringAddress(args, Len(args) + 1) <= 4 * PageWords * NPages
  PROVE  /\ \A l \in Lane : ArgumentByte(args, ArgBase + l) = LanesOf(Len(args))[l]
         /\ \A k \in 1 .. Len(args), l \in Lane :
              ArgumentByte(args, ArgBase + 4 * k + l) = LanesOf(StringAddress(args, k))[l]
         /\ \A k \in 1 .. Len(args) : \A j \in 0 .. Len(Chars[args[k]]) :
              /\ StringAddress(args, k) + j < ArgBase + Len(BytesOf(args))
              /\ ArgumentByte(args, StringAddress(args, k) + j) = Ended(args[k])[j + 1]
         /\ \A k \in 1 .. Len(args) :
              StringAddress(args, k) \in Nat /\ ArgBase + 4 * Len(args) + 4 <= StringAddress(args, k)
         /\ Len(BytesOf(args)) \in Nat /\ ArgBase + Len(BytesOf(args)) <= 4 * PageWords * NPages
<1> DEFINE n == Len(args)
           top == 4 * PageWords * NPages
           size == Len(BytesOf(args))
<1>1. PICK len : Placing(args, len)
  BY StringAddresses DEF Placing
<1>2. PICK tab : /\ Runs(Len(args), Seq(Octet), <<>>, TableTurn(args), tab)
                 /\ Table(args) = tab[Len(args)]
  BY TableJoined
<1>3. PICK txt : /\ Runs(Len(args), Seq(Octet), <<>>, TextsTurn(args), txt)
                 /\ Texts(args) = txt[Len(args)]
  BY TextsJoined
<1>4. n \in Nat /\ ArgBase \in Nat /\ top \in Nat
  BY LenProperties, LoaderAssumption, MemoryAssumption DEF Addr
<1>5. len[n] \in Nat /\ \A k \in 1 .. n :
        /\ StringAddress(args, k) = ArgBase + 4 + 4 * n + len[k - 1] /\ len[k - 1] \in Nat
        /\ Len(Chars[args[k]]) \in Nat /\ len[k] \in Nat /\ len[k] <= len[n]
        /\ len[k] = len[k - 1] + Len(Chars[args[k]]) + 1
  <2>1. n \in 0 .. n /\ \A k \in 1 .. n : k \in 1 .. n + 1 /\ k \in 0 .. n
    BY <1>4
  <2>2. \A k \in 1 .. n : StringAddress(args, k) = ArgBase + 4 + 4 * n + len[k - 1]
    BY <1>1, <2>1 DEF Placing
  <2>3. \A k \in 0 .. n : len[k] \in Nat /\ \A j \in 0 .. k : len[j] <= len[k]
    BY <1>1, LengthsGrow
  <2>4. \A k \in 1 .. n :
          /\ len[k - 1] \in Nat /\ Len(Chars[args[k]]) \in Nat
          /\ len[k] = len[k - 1] + Len(Chars[args[k]]) + 1
    BY <1>1, LengthsGrow
  <2> QED BY <2>1, <2>2, <2>3, <2>4
<1>held. /\ size = 4 + 4 * n + len[n]
      /\ \A p \in Int : HeldByte(args, tab, txt, len, n, p) =
                         IF p + 1 \in DOMAIN BytesOf(args) THEN BytesOf(args)[p + 1] ELSE 0
  BY <1>1, <1>2, <1>3, BytesAreHeld, Zenon
<1>6. size = 4 + 4 * n + len[n] /\ ArgBase + size <= top
  <2>1. size = 4 + 4 * n + len[n]
    BY <1>held
  <2>2. n + 1 \in 1 .. n + 1 /\ (n + 1) - 1 = n
    BY <1>4
  <2>3. StringAddress(args, n + 1) = ArgBase + 4 + 4 * n + len[n]
    BY <1>1, <2>2 DEF Placing
  <2>4. StringAddress(args, n + 1) <= top
    OBVIOUS
  <2> HIDE DEF n, top, size
  <2> QED BY <1>4, <1>5, <2>1, <2>3, <2>4
<1>7. ASSUME NEW p \in Int
      PROVE  ArgumentByte(args, ArgBase + p) =
               IF p \in 0 .. 3 THEN LanesOf(n)[p]
               ELSE IF p - 3 \in 1 .. 4 * n THEN tab[n][p - 3]
               ELSE IF p - 3 - 4 * n \in 1 .. len[n] THEN txt[n][p - 3 - 4 * n] ELSE 0
  <2> DEFINE x == ArgBase + p
             j == x - ArgBase + 1
  <2>1. HeldByte(args, tab, txt, len, n, p) =
          IF p + 1 \in DOMAIN BytesOf(args) THEN BytesOf(args)[p + 1] ELSE 0
    BY <1>held
  <2>2. j = p + 1
    BY <1>4
  <2>3. ArgumentByte(args, x) = IF j \in DOMAIN BytesOf(args) THEN BytesOf(args)[j] ELSE 0
    BY DEF ArgumentByte
  <2> HIDE DEF j, x
  <2>4. ArgumentByte(args, x) = HeldByte(args, tab, txt, len, n, p)
    BY <2>1, <2>2, <2>3
  <2> QED BY <2>4 DEF HeldByte, x
<1>8. \A l \in Lane : ArgumentByte(args, ArgBase + l) = LanesOf(n)[l]
  BY <1>7 DEF Lane
<1>9. ASSUME NEW k \in 1 .. n, NEW l \in Lane
      PROVE  ArgumentByte(args, ArgBase + 4 * k + l) = LanesOf(StringAddress(args, k))[l]
  <2> DEFINE p == 4 * k + l
  <2>1. /\ p \in Int /\ p \notin 0 .. 3 /\ p - 3 \in 1 .. 4 * n
        /\ p - 3 = 4 * (k - 1) + l + 1 /\ ArgBase + 4 * k + l = ArgBase + p
    BY <1>4 DEF Lane
  <2> HIDE DEF p
  <2>2. ArgumentByte(args, ArgBase + p) = tab[n][p - 3]
    BY <1>7, <2>1
  <2>3. tab[n][4 * (k - 1) + l + 1] = LanesOf(StringAddress(args, k))[l]
    BY <1>2, EntriesStay
  <2> QED BY <2>1, <2>2, <2>3
<1>10. ASSUME NEW k \in 1 .. n, NEW j \in 0 .. Len(Chars[args[k]])
       PROVE  /\ StringAddress(args, k) + j < ArgBase + size
              /\ ArgumentByte(args, StringAddress(args, k) + j) = Ended(args[k])[j + 1]
  <2> DEFINE a == StringAddress(args, k)
             c == Len(Chars[args[k]])
             l == len[k - 1]
             p == 4 + 4 * n + l + j
             q == l + j + 1
  <2>0. txt[Len(args)][len[k - 1] + j + 1] = Ended(args[k])[j + 1]
    BY <1>1, <1>3, TextsStay
  <2>1. /\ a = ArgBase + 4 + 4 * n + l /\ l \in Nat /\ c \in Nat /\ len[k] = l + c + 1
        /\ len[k] \in Nat /\ len[k] <= len[n] /\ j \in 0 .. c
    BY <1>5
  <2>2. p = 4 + 4 * n + l + j /\ q = l + j + 1
    OBVIOUS
  <2> HIDE DEF a, c, l, p, q, n, size
  <2>3. /\ p \in Int /\ p \notin 0 .. 3 /\ p - 3 \notin 1 .. 4 * n
        /\ p - 3 - 4 * n = q /\ q \in 1 .. len[n] /\ a + j = ArgBase + p /\ p < size
    <3>1. len[n] \in Nat /\ n \in Nat /\ ArgBase \in Nat /\ size = 4 + 4 * n + len[n]
      BY <1>4, <1>5, <1>6 DEF n, size
    <3> QED BY ONLY <2>1, <2>2, <3>1
  <2>4. ArgumentByte(args, ArgBase + p) = txt[n][q]
    BY <1>7, <2>3
  <2>5. txt[n][q] = Ended(args[k])[j + 1]
    BY <2>0 DEF n, q, l
  <2>6. a + j < ArgBase + size
    BY <1>4, <1>5, <1>6, <2>3
  <2> QED BY <2>3, <2>4, <2>5, <2>6 DEF a
<1>11. \A k \in 1 .. n : StringAddress(args, k) \in Nat
                        /\ ArgBase + 4 * n + 4 <= StringAddress(args, k)
  BY <1>4, <1>5
<1>12. size \in Nat
  BY <1>4, <1>5, <1>6
<1> QED BY <1>6, <1>8, <1>9, <1>10, <1>11, <1>12

\* A word of the memory is the number that was put there.
LEMMA WordRead ==
  ASSUME NEW x \in Nat, NEW v \in Nat, v < WordValues,
         \A l \in Lane : ByteAt(mem, x + l) = LanesOf(v)[l]
  PROVE  WordAtAddress(x) = v
<1>1. /\ ByteAt(mem, x) = LanesOf(v)[0] /\ ByteAt(mem, x + 1) = LanesOf(v)[1]
      /\ ByteAt(mem, x + 2) = LanesOf(v)[2] /\ ByteAt(mem, x + 3) = LanesOf(v)[3]
  <2>1. x + 0 = x /\ {0, 1, 2, 3} \subseteq Lane
    BY DEF Lane
  <2> QED BY <2>1
<1>2. LanesOf(v)[0] + 256 * LanesOf(v)[1] + 65536 * LanesOf(v)[2]
        + 16777216 * LanesOf(v)[3] = v
  BY LanesMakeWord, SMT
<1> QED BY <1>1, <1>2, SMT DEF WordAtAddress

\* A text of the memory ends at its first NUL.
LEMMA TextRead ==
  ASSUME NEW name \in Names, NEW a \in Nat,
         \A j \in 0 .. Len(Chars[name]) :
           a + j \in Addr /\ ByteAt(mem, a + j) = Ended(name)[j + 1]
  PROVE  TextAt(a) = Chars[name]
<1> DEFINE text == Chars[name]
           c == Len(text)
           top == 4 * PageWords * NPages - 1
           ends == {k \in 0 .. top - a : ByteAt(mem, a + k) = 0} \cup {top + 1 - a}
<1>1. /\ text \in Seq(1 .. 255) /\ text \in Seq(0 .. 255) /\ c \in Nat
      /\ DOMAIN text = 1 .. c /\ text = [k \in 1 .. c |-> text[k]]
  <2>1. text \in Seq(1 .. 255) /\ text \in Seq(0 .. 255) /\ c \in Nat
    BY LoaderAssumption, TextOfName DEF Names
  <2> HIDE DEF text
  <2> QED BY <2>1, LenProperties
<1>2. \A j \in 0 .. c : ByteAt(mem, a + j) = IF j < c THEN text[j + 1] ELSE 0
  <2>1. 0 \in 0 .. 255
    OBVIOUS
  <2>2. /\ \A j \in 1 .. c : Ended(name)[j] = text[j]
        /\ Ended(name)[c + 1] = 0
    BY <1>1, <2>1, AppendProperties DEF Ended
  <2>3. \A j \in 0 .. c : ByteAt(mem, a + j) = Ended(name)[j + 1]
    OBVIOUS
  <2> HIDE DEF c
  <2>4. \A j \in 0 .. c : (j < c => j + 1 \in 1 .. c) /\ (~(j < c) => j = c)
    BY <1>1
  <2> QED BY <2>2, <2>3, <2>4
<1>3. top \in Int /\ Addr = 0 .. top /\ c \in 0 .. c
  BY <1>1, MemoryAssumption DEF Addr
<1>4. \A j \in 0 .. c : a + j \in Addr
  OBVIOUS
<1>5. \A k \in 1 .. c : text[k] # 0
  <2> TAKE k \in 1 .. c
  <2> DEFINE byte == text[k]
  <2>1. byte \in 1 .. 255
    BY <1>1, ElementOfSeq
  <2> HIDE DEF byte
  <2>2. byte # 0
    BY <2>1
  <2> QED BY <2>2 DEF byte
<1>6. TextAt(a) = [k \in 1 .. Min(ends) |-> ByteAt(mem, a + k - 1)]
  <2>1. 4 * PageWords * NPages - 1 - a = top - a /\ 4 * PageWords * NPages - a = top + 1 - a
    BY MemoryAssumption
  <2> QED BY <2>1 DEF TextAt
<1> HIDE DEF c, top, text
<1>7. c \in ends
  <2>1. c \in 0 .. top - a
    BY <1>1, <1>3, <1>4
  <2>2. ByteAt(mem, a + c) = 0
    <3>1. c \in 0 .. c /\ ~(c < c)
      BY <1>1
    <3> QED BY <1>2, <3>1
  <2> QED BY <2>1, <2>2
<1>8. \A k \in ends : k \in Nat /\ c <= k
  <2> TAKE k \in ends
  <2>0. CASE k = top + 1 - a
    <3>1. c <= top - a /\ top - a \in Int /\ top + 1 - a = (top - a) + 1
      BY <1>1, <1>3, <1>4
    <3> HIDE DEF ends
    <3> QED BY <1>1, <2>0, <3>1
  <2> SUFFICES ASSUME k # top + 1 - a PROVE k \in Nat /\ c <= k
    BY <2>0
  <2>1. k \in Nat /\ ByteAt(mem, a + k) = 0
    BY <1>3
  <2> HIDE DEF ends
  <2>2. CASE k < c
    <3>1. k \in 0 .. c /\ k + 1 \in 1 .. c
      BY <1>1, <2>1, <2>2
    <3> QED BY <1>2, <1>5, <2>1, <2>2, <3>1
  <2> QED BY <1>1, <2>1, <2>2
<1> HIDE DEF ends
<1>9. Min(ends) = c
  <2>1. Min(ends) \in ends /\ \A k \in ends : Min(ends) <= k
    BY <1>7, <1>8 DEF Min
  <2>2. Min(ends) <= c /\ c <= Min(ends) /\ Min(ends) \in Nat
    BY <1>7, <1>8, <2>1
  <2> DEFINE m == Min(ends)
  <2> HIDE DEF m
  <2>3. m = c
    BY <1>1, <2>2 DEF m
  <2> QED BY <2>3 DEF m
<1>10. \A k \in 1 .. c : ByteAt(mem, a + k - 1) = text[k]
  <2> TAKE k \in 1 .. c
  <2> DEFINE j == k - 1
  <2>1. j \in 0 .. c /\ j < c /\ j + 1 = k /\ a + k - 1 = a + j
    BY <1>1
  <2> HIDE DEF j
  <2> QED BY <1>2, <2>1
<1>11. TextAt(a) = text
  BY <1>1, <1>6, <1>9, <1>10
<1> QED BY <1>11 DEF text

\* The guest's main gets the arguments after the separator, unless a segment lies over
\* them: what pass_args_to_program writes is what args_to_main of lib.c reads.
THEOREM ArgumentsArrive == Spec => []ArgumentsReachGuest
<1>1. IInv /\ HandsOverTheFile => ArgumentsReachGuest
  <2> DEFINE args == ProgramArgs(argv)
             n == Len(args)
             top == 4 * PageWords * NPages
             size == Len(BytesOf(args))
  <2>0. ArgumentBytes = BytesOf(args)
    BY DEF ArgumentBytes, BytesOf, Little, Table, Texts
  <2> SUFFICES ASSUME IInv, HandsOverTheFile, phase = "simulate",
                      \A x \in ArgBase .. ArgBase + 3 + size : Covering(x) = {}
               PROVE  /\ WordAtAddress(ArgBase) = n
                      /\ \A k \in DOMAIN args :
                           TextAt(WordAtAddress(ArgBase + 4 + 4 * (k - 1))) = Chars[args[k]]
    BY <2>0 DEF ArgumentsReachGuest, args_to_main
  <2>1. args \in Seq(Names) /\ StringAddress(args, n + 1) <= top
        /\ n \in Nat /\ DOMAIN args = 1 .. n
    <3>1. args \in Seq(Names) /\ StringAddress(args, n + 1) <= top
      BY ArgumentsAreNames, AddressesFit DEF IInv
    <3> QED BY <3>1, LenProperties
  <2>2. \A x \in Addr : x \in ArgBase .. ArgBase + 3 + size =>
          ByteAt(mem, x) = ArgumentByte(args, x)
    BY <2>0 DEF HandsOverTheFile, ArgumentByte
  <2>3. /\ ArgBase \in Nat /\ top \in Nat /\ Addr = 0 .. top - 1 /\ top <= WordValues
        /\ WordValues \in Nat /\ ArgBase + 4 <= top
    <3>1. PageWords * NPages \in Nat /\ PageWords * NPages <= 1073741824
          /\ top = 4 * (PageWords * NPages)
      BY MemoryAssumption, AddressesAreWords, SMT
    <3>2. Addr = 0 .. top - 1 /\ ArgBase \in Addr /\ ArgBase % 4 = 0
      BY LoaderAssumption DEF Addr
    <3> DEFINE words == PageWords * NPages
    <3> HIDE DEF top, words
    <3>3. words \in Nat /\ words <= 1073741824 /\ top = 4 * words
      BY <3>1, SMT DEF words
    <3>4. top <= WordValues /\ WordValues \in Nat
      BY <3>3, SMT DEF WordValues
    <3>5. top \in Nat /\ ArgBase \in Nat /\ ArgBase + 4 <= top
      BY <3>2, <3>3, SMT
    <3> QED BY <3>2, <3>4, <3>5
  <2> HIDE DEF args, top
  <2>4. CASE args = <<>>
    <3>1. size = 0 /\ n = 0 /\ DOMAIN BytesOf(args) = {}
      BY <2>4 DEF BytesOf
    <3>2. \A l \in Lane : ArgBase + l \in Addr /\ ArgBase + l \in ArgBase .. ArgBase + 3 + size
      BY <2>3, <3>1 DEF Lane
    <3>3. \A l \in Lane : ByteAt(mem, ArgBase + l) = 0
      BY <2>2, <3>1, <3>2 DEF ArgumentByte
    <3>4. /\ ByteAt(mem, ArgBase) = 0 /\ ByteAt(mem, ArgBase + 1) = 0
          /\ ByteAt(mem, ArgBase + 2) = 0 /\ ByteAt(mem, ArgBase + 3) = 0
      <4>1. ArgBase + 0 = ArgBase /\ {0, 1, 2, 3} \subseteq Lane
        BY <2>3 DEF Lane
      <4> QED BY <3>3, <4>1
    <3>5. WordAtAddress(ArgBase) = 0
      BY <3>4, SMT DEF WordAtAddress
    <3>6. DOMAIN args = {}
      BY <2>4
    <3> QED BY <3>1, <3>5, <3>6
  <2>5. CASE args # <<>>
    <3>1. /\ \A l \in Lane : ArgumentByte(args, ArgBase + l) = LanesOf(n)[l]
          /\ \A k \in 1 .. n, l \in Lane :
               ArgumentByte(args, ArgBase + 4 * k + l) = LanesOf(StringAddress(args, k))[l]
          /\ \A k \in 1 .. n : \A j \in 0 .. Len(Chars[args[k]]) :
               /\ StringAddress(args, k) + j < ArgBase + size
               /\ ArgumentByte(args, StringAddress(args, k) + j) = Ended(args[k])[j + 1]
          /\ \A k \in 1 .. n :
               StringAddress(args, k) \in Nat /\ ArgBase + 4 * n + 4 <= StringAddress(args, k)
          /\ size \in Nat /\ ArgBase + size <= top
      BY <2>1, <2>5, ArgumentsLaid DEF top
    <3> HIDE DEF n, size
    <3>2. \A x \in Int : x >= ArgBase /\ x < ArgBase + size =>
            x \in Addr /\ ByteAt(mem, x) = ArgumentByte(args, x)
      <4> TAKE x \in Int
      <4>1. x >= ArgBase /\ x < ArgBase + size =>
              x \in Addr /\ x \in ArgBase .. ArgBase + 3 + size
        BY <2>3, <3>1
      <4> QED BY <2>2, <4>1
    <3>3. n # 0
      <4>1. n = 0 => args = <<>>
        BY <2>1, EmptySeq DEF n
      <4> QED BY <2>5, <4>1
    <3>4. \A k \in 1 .. n :
            /\ args[k] \in Names /\ Len(Chars[args[k]]) \in Nat
            /\ StringAddress(args, k) < ArgBase + size
      <4> TAKE k \in 1 .. n
      <4>1. args[k] \in Names
        BY <2>1, ElementOfSeq DEF n
      <4>2. Len(Chars[args[k]]) \in Nat
        BY <4>1, TextOfName
      <4>3. 0 \in 0 .. Len(Chars[args[k]]) /\ StringAddress(args, k) \in Nat
        BY <3>1, <4>2
      <4>4. StringAddress(args, k) + 0 < ArgBase + size
        BY <3>1, <4>3
      <4> QED BY <4>1, <4>2, <4>3, <4>4
    <3>5. n < WordValues /\ ArgBase + 4 * n + 4 < ArgBase + size
      <4>1. 1 \in 1 .. n
        BY <2>1, <3>3
      <4>2. /\ StringAddress(args, 1) \in Nat /\ StringAddress(args, 1) < ArgBase + size
            /\ ArgBase + 4 * n + 4 <= StringAddress(args, 1)
        BY <3>1, <3>4, <4>1
      <4> QED BY <2>1, <2>3, <3>1, <4>2
    <3>6. WordAtAddress(ArgBase) = n
      <4>1. \A l \in Lane : ByteAt(mem, ArgBase + l) = LanesOf(n)[l]
        <5> TAKE l \in Lane
        <5>1. ArgBase + l \in Int /\ ArgBase + l >= ArgBase /\ ArgBase + l < ArgBase + size
          BY <2>1, <2>3, <3>1, <3>5 DEF Lane
        <5> QED BY <3>1, <3>2, <5>1
      <4> QED BY <2>1, <2>3, <3>5, <4>1, WordRead
    <3>7. ASSUME NEW k \in 1 .. n
          PROVE  TextAt(WordAtAddress(ArgBase + 4 + 4 * (k - 1))) = Chars[args[k]]
      <4> DEFINE a == StringAddress(args, k)
                 entry == ArgBase + 4 * k
      <4>1. a \in Nat /\ a < WordValues /\ entry \in Nat
            /\ ArgBase + 4 * n + 4 <= a /\ a < ArgBase + size
        BY <2>1, <2>3, <3>1, <3>4
      <4>2. \A l \in Lane : ByteAt(mem, entry + l) = LanesOf(a)[l]
        <5> TAKE l \in Lane
        <5>1. ArgBase + 4 * k + l \in Int /\ ArgBase + 4 * k + l >= ArgBase
              /\ ArgBase + 4 * k + l < ArgBase + size
          <6>1. ArgBase \in Nat /\ n \in Nat /\ size \in Nat
            BY <2>1, <2>3, <3>1
          <6>2. k \in Nat /\ k <= n /\ l \in Nat /\ l < 4
            BY <6>1 DEF Lane
          <6>3. ArgBase + 4 * n + 4 < ArgBase + size
            BY <3>5
          <6> QED BY <6>1, <6>2, <6>3
        <5>2. ByteAt(mem, ArgBase + 4 * k + l) = ArgumentByte(args, ArgBase + 4 * k + l)
          BY <3>2, <5>1
        <5> QED BY <3>1, <5>2
      <4>3. entry = ArgBase + 4 + 4 * (k - 1)
        BY <2>1, <2>3
      <4> HIDE DEF a, entry
      <4>4. WordAtAddress(entry) = a
        BY <4>1, <4>2, WordRead
      <4>5. \A j \in 0 .. Len(Chars[args[k]]) :
              a + j \in Addr /\ ByteAt(mem, a + j) = Ended(args[k])[j + 1]
        <5> TAKE j \in 0 .. Len(Chars[args[k]])
        <5>1. a + j < ArgBase + size /\ ArgumentByte(args, a + j) = Ended(args[k])[j + 1]
          BY <3>1 DEF a
        <5>2. a + j \in Int /\ a + j >= ArgBase
          BY <2>1, <2>3, <3>4, <4>1
        <5> QED BY <3>2, <5>1, <5>2
      <4>6. TextAt(a) = Chars[args[k]]
        BY <3>4, <4>1, <4>5, TextRead
      <4> QED BY <4>3, <4>4, <4>6
    <3> QED BY <2>1, <3>6, <3>7 DEF n
  <2> QED BY <2>4, <2>5
<1> QED BY <1>1, InvariantHolds, FileHandedOver, PTL
=============================================================================
