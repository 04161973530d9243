-------------------------- MODULE HyperFilesProofs --------------------------
(***************************************************************************)
(* Theorems about Ledger and HyperFiles, for any files, block size, pieces,*)
(* readers and number of restarts: the ledger lists whole files and each of*)
(* them once, a question about a file is answered from a ledger that was   *)
(* read, and a reader gets all the bytes of a file in order.               *)
(***************************************************************************)
EXTENDS HyperFiles, Integers, FiniteSetTheorems, SequenceTheorems, WellFoundedInduction, TLAPS

-----------------------------------------------------------------------------
(* Numbers *)

\* There is no infinite descent: this is how what holds of the first entry of
\* a sequence, and of the next one with each, is proved of all of them.
LEMMA NoDescent ==
  ASSUME NEW T \in SUBSET Nat, \A i \in T : \E j \in T : j < i
  PROVE  T = {}
<1>1. ASSUME T # {}
      PROVE  FALSE
  <2>1. PICK n \in T : \A m \in T : ~(<<m, n>> \in OpToRel(<, Nat))
    BY <1>1, NatLessThanWellFounded, WFMin
  <2>2. \A m \in T : ~(m < n)
    BY <2>1 DEF OpToRel
  <2> QED
    BY <2>2
<1> QED
  BY <1>1

LEMMA Times ==
  ASSUME NEW B \in Nat \ {0}, NEW i \in Int
  PROVE  /\ i * B \in Int
         /\ (i + 1) * B = i * B + B
         /\ (i - 1) * B = i * B - B
OBVIOUS

LEMMA TimesGrows ==
  ASSUME NEW B \in Nat \ {0}, NEW i \in Int, NEW j \in Int, i < j
  PROVE  i * B + B <= j * B
<1>1. (j - i - 1) * B >= 0
  OBVIOUS
<1>2. (j - i - 1) * B = j * B - i * B - B
  OBVIOUS
<1> QED
  BY <1>1, <1>2, Times

LEMMA TimesMonotone ==
  ASSUME NEW B \in Nat \ {0}, NEW i \in Int, NEW j \in Int, i <= j
  PROVE  i * B <= j * B
<1>1. CASE i = j
  BY <1>1, Times
<1>2. CASE i < j
  BY <1>2, Times, TimesGrows
<1> QED
  BY <1>1, <1>2

LEMMA DivMod ==
  ASSUME NEW B \in Nat \ {0}, NEW n \in Nat
  PROVE  /\ n \div B \in Nat /\ n % B \in 0..(B - 1)
         /\ n = (n \div B) * B + (n % B)
OBVIOUS

\* How often B goes into a number is settled by the multiples around it.
LEMMA Between ==
  ASSUME NEW B \in Nat \ {0}, NEW i \in Int, NEW j \in Int, NEW n \in Int,
         i * B <= n, n < i * B + B, j * B <= n, n < j * B + B
  PROVE  i = j
<1>1. ~(i < j)
  BY TimesGrows, Times
<1>2. ~(j < i)
  BY TimesGrows, Times
<1> QED
  BY <1>1, <1>2

LEMMA MinOf ==
  ASSUME NEW a \in Int, NEW b \in Int
  PROVE  Min({a, b}) = IF a <= b THEN a ELSE b
BY DEF Min

-----------------------------------------------------------------------------
(* Sequences *)

LEMMA TailOf ==
  ASSUME NEW S, NEW q \in Seq(S), q # <<>>
  PROVE  /\ Len(q) \in Nat \ {0} /\ DOMAIN q = 1..Len(q)
         /\ Head(q) = q[1] /\ q[1] \in S /\ 1 \in DOMAIN q
         /\ Tail(q) \in Seq(S) /\ Len(Tail(q)) = Len(q) - 1
         /\ DOMAIN Tail(q) = 1..(Len(q) - 1)
         /\ \A i \in DOMAIN Tail(q) : i \in Nat /\ i + 1 \in DOMAIN q /\ Tail(q)[i] = q[i + 1]
         /\ \A i \in DOMAIN q : i # 1 => i - 1 \in DOMAIN Tail(q) /\ Tail(q)[i - 1] = q[i]
<1>1. Len(q) \in Nat \ {0} /\ DOMAIN q = 1..Len(q) /\ q \in [1..Len(q) -> S]
  BY LenProperties, EmptySeq
<1>2. /\ Tail(q) \in Seq(S) /\ Len(Tail(q)) = Len(q) - 1
      /\ \A i \in 1..Len(Tail(q)) : Tail(q)[i] = q[i + 1]
  BY HeadTailProperties
<1>3. DOMAIN Tail(q) = 1..(Len(q) - 1)
  BY <1>2, LenProperties
<1>4. Head(q) = q[1]
  OBVIOUS
<1> QED
  BY <1>1, <1>2, <1>3, <1>4

LEMMA AppendOf ==
  ASSUME NEW S, NEW q \in Seq(S), NEW x \in S
  PROVE  /\ Append(q, x) \in Seq(S) /\ Len(Append(q, x)) = Len(q) + 1
         /\ Len(q) \in Nat /\ DOMAIN q = 1..Len(q)
         /\ DOMAIN Append(q, x) = 1..(Len(q) + 1) /\ Append(q, x)[Len(q) + 1] = x
         /\ \A i \in DOMAIN q : i \in DOMAIN Append(q, x) /\ Append(q, x)[i] = q[i]
         /\ \A i \in DOMAIN Append(q, x) : i \in DOMAIN q \/ i = Len(q) + 1
<1>1. Len(q) \in Nat /\ DOMAIN q = 1..Len(q)
  BY LenProperties
<1>2. /\ Append(q, x) \in Seq(S) /\ Len(Append(q, x)) = Len(q) + 1
      /\ \A i \in 1..Len(q) : Append(q, x)[i] = q[i]
      /\ Append(q, x)[Len(q) + 1] = x
  BY AppendProperties
<1>3. DOMAIN Append(q, x) = 1..(Len(q) + 1)
  BY <1>2, LenProperties
<1> QED
  BY <1>1, <1>2, <1>3

LEMMA ConcatOf ==
  ASSUME NEW S, NEW q \in Seq(S), NEW r \in Seq(S)
  PROVE  /\ q \o r \in Seq(S) /\ Len(q \o r) = Len(q) + Len(r)
         /\ Len(q) \in Nat /\ DOMAIN q = 1..Len(q) /\ Len(r) \in Nat /\ DOMAIN r = 1..Len(r)
         /\ DOMAIN (q \o r) = 1..(Len(q) + Len(r))
         /\ \A i \in DOMAIN q : i \in DOMAIN (q \o r) /\ (q \o r)[i] = q[i]
         /\ \A j \in DOMAIN r : Len(q) + j \in DOMAIN (q \o r) /\ (q \o r)[Len(q) + j] = r[j]
         /\ \A i \in DOMAIN (q \o r) :
              \/ i \in DOMAIN q /\ (q \o r)[i] = q[i]
              \/ i - Len(q) \in DOMAIN r /\ (q \o r)[i] = r[i - Len(q)]
<1>1. /\ Len(q) \in Nat /\ DOMAIN q = 1..Len(q) /\ Len(r) \in Nat /\ DOMAIN r = 1..Len(r)
  BY LenProperties
<1>2. /\ q \o r \in Seq(S) /\ Len(q \o r) = Len(q) + Len(r)
      /\ \A i \in 1..Len(q) + Len(r) : (q \o r)[i] = IF i <= Len(q) THEN q[i] ELSE r[i - Len(q)]
  BY ConcatProperties
<1>3. DOMAIN (q \o r) = 1..(Len(q) + Len(r))
  BY <1>2, LenProperties
<1> QED
  BY <1>1, <1>2, <1>3

\* The first i entries of s.
First(s, i) == [k \in 1..i |-> s[k]]

LEMMA FirstOf ==
  ASSUME NEW S, NEW s \in Seq(S)
  PROVE  /\ First(s, 0) = <<>> /\ First(s, Len(s)) = s
         /\ \A i \in 1..Len(s) : Append(First(s, i - 1), s[i]) = First(s, i)
         /\ \A i \in 0..Len(s) : First(s, i) \in Seq(S)
<1>1. Len(s) \in Nat /\ DOMAIN s = 1..Len(s) /\ s \in [1..Len(s) -> S]
  BY LenProperties
<1>2. \A i \in 0..Len(s) : First(s, i) \in Seq(S) /\ Len(First(s, i)) = i
  BY <1>1 DEF First
<1>3. First(s, 0) = <<>>
  BY DEF First
<1>4. First(s, Len(s)) = s
  BY <1>1 DEF First
<1>5. ASSUME NEW i \in 1..Len(s)
      PROVE  Append(First(s, i - 1), s[i]) = First(s, i)
  <2>1. i - 1 \in 0..Len(s) /\ i \in 0..Len(s) /\ s[i] \in S
    BY <1>1
  <2>2. First(s, i - 1) \in Seq(S) /\ Len(First(s, i - 1)) = i - 1
    BY <1>2, <2>1
  <2>3. First(s, i) \in Seq(S) /\ Len(First(s, i)) = i
    BY <1>2, <2>1
  <2> DEFINE a == Append(First(s, i - 1), s[i])
  <2>4. /\ a \in Seq(S) /\ Len(a) = i
        /\ \A k \in 1..(i - 1) : a[k] = First(s, i - 1)[k]
        /\ a[i] = s[i]
    <3>1. (i - 1) + 1 = i
      OBVIOUS
    <3> QED
      BY <2>1, <2>2, <3>1, AppendProperties
  <2>5. \A k \in 1..i : a[k] = First(s, i)[k]
    <3> TAKE k \in 1..i
    <3>1. First(s, i)[k] = s[k]
      BY DEF First
    <3>2. CASE k = i
      BY <2>4, <3>1, <3>2
    <3>3. CASE k # i
      <4>1. k \in 1..(i - 1)
        BY <3>3
      <4>2. First(s, i - 1)[k] = s[k]
        BY <4>1 DEF First
      <4> QED
        BY <2>4, <3>1, <4>1, <4>2
    <3> QED
      BY <3>2, <3>3
  <2> HIDE DEF a
  <2>6. a = First(s, i)
    BY <2>3, <2>4, <2>5, SeqEqual
  <2> QED
    BY <2>6 DEF a
<1> QED
  BY <1>2, <1>3, <1>4, <1>5

-----------------------------------------------------------------------------
(* What AddBlocks makes of blocks that are new *)

\* No two entries have the same id.
Distinct(s) == \A i, j \in DOMAIN s : s[i].id = s[j].id => i = j

IdsOf(s) == {s[i].id : i \in DOMAIN s}

\* The map with the first i blocks.
With(map, blocks, i) ==
  [f \in Files |->
     IF \E k \in 1..i : blocks[k].id = f
     THEN blocks[CHOOSE k \in 1..i : blocks[k].id = f].bytes ELSE map[f]]

LEMMA WithStep ==
  ASSUME NEW map \in [Files -> 0..NoFile], NEW blocks \in Seq(Block), Distinct(blocks),
         NEW i \in 1..Len(blocks)
  PROVE  /\ With(map, blocks, i - 1)[blocks[i].id] = map[blocks[i].id]
         /\ With(map, blocks, i) =
              [With(map, blocks, i - 1) EXCEPT ![blocks[i].id] = blocks[i].bytes]
<1> DEFINE b == blocks[i]
           m == With(map, blocks, i - 1)
           n == With(map, blocks, i)
<1>1. /\ Len(blocks) \in Nat /\ DOMAIN blocks = 1..Len(blocks)
      /\ \A k \in 1..Len(blocks) : blocks[k] \in Block
  BY LenProperties
<1>2. b.id \in Files
  BY <1>1 DEF Block
<1>3. \A k \in 1..Len(blocks) : blocks[k].id = b.id => k = i
  BY <1>1 DEF Distinct
<1>4. m[b.id] = map[b.id]
  BY <1>2, <1>3 DEF With
<1>5. n[b.id] = b.bytes
  <2>1. \A k \in 1..i : blocks[k].id = b.id <=> k = i
    BY <1>3
  <2>2. (CHOOSE k \in 1..i : blocks[k].id = b.id) = i
    BY <2>1
  <2> QED
    BY <1>2, <2>1, <2>2 DEF With
<1>6. ASSUME NEW f \in Files, f # b.id
      PROVE  n[f] = m[f]
  <2>1. 1..(i - 1) = (1..i) \ {i}
    OBVIOUS
  <2>2. \A k \in 1..i : blocks[k].id = f <=> k \in 1..(i - 1) /\ blocks[k].id = f
    BY <1>6, <2>1
  <2>3. CASE \E k \in 1..(i - 1) : blocks[k].id = f
    <3>1. PICK k \in 1..(i - 1) : blocks[k].id = f
      BY <2>3
    <3>2. k \in 1..Len(blocks)
      OBVIOUS
    <3>3. \A l \in 1..Len(blocks) : blocks[l].id = f <=> l = k
      BY <1>1, <3>1, <3>2 DEF Distinct
    <3>4. /\ (CHOOSE l \in 1..i : blocks[l].id = f) = k
          /\ (CHOOSE l \in 1..(i - 1) : blocks[l].id = f) = k
      BY <3>1, <3>3
    <3>5. \E l \in 1..i : blocks[l].id = f
      BY <2>3, <2>1
    <3> QED
      BY <2>3, <3>4, <3>5 DEF With
  <2>4. CASE ~\E k \in 1..(i - 1) : blocks[k].id = f
    BY <2>2, <2>4 DEF With
  <2> QED
    BY <2>3, <2>4
<1>7. n = [m EXCEPT ![b.id] = b.bytes]
  <2>1. DOMAIN n = Files /\ DOMAIN m = Files
    BY DEF With
  <2>2. n = [f \in Files |-> n[f]]
    BY DEF With
  <2> HIDE DEF n, m
  <2> QED
    BY <1>5, <1>6, <2>1, <2>2
<1> QED
  BY <1>4, <1>7

LEMMA WithOf ==
  ASSUME NEW map \in [Files -> 0..NoFile], NEW blocks \in Seq(Block), Distinct(blocks)
  PROVE  LET m == With(map, blocks, Len(blocks)) IN
         /\ m \in [Files -> 0..NoFile]
         /\ \A i \in DOMAIN blocks : m[blocks[i].id] = blocks[i].bytes
         /\ \A f \in Files : f \notin IdsOf(blocks) => m[f] = map[f]
<1> DEFINE m == With(map, blocks, Len(blocks))
<1>1. /\ Len(blocks) \in Nat /\ DOMAIN blocks = 1..Len(blocks)
      /\ \A k \in 1..Len(blocks) : blocks[k] \in Block
  BY LenProperties
<1>2. \A i \in DOMAIN blocks : blocks[i].id \in Files /\ blocks[i].bytes \in 0..NoFile
  BY <1>1, LedgerConstants DEF Block, NoFile
<1>3. ASSUME NEW i \in DOMAIN blocks
      PROVE  m[blocks[i].id] = blocks[i].bytes
  <2>1. \A k \in 1..Len(blocks) : blocks[k].id = blocks[i].id <=> k = i
    BY <1>1, <1>3 DEF Distinct
  <2>2. (CHOOSE k \in 1..Len(blocks) : blocks[k].id = blocks[i].id) = i
    BY <1>1, <2>1
  <2> QED
    BY <1>1, <1>2, <2>1, <2>2 DEF With
<1>4. \A f \in Files : f \notin IdsOf(blocks) => m[f] = map[f]
  BY <1>1 DEF With, IdsOf
<1>5. m \in [Files -> 0..NoFile]
  <2>1. ASSUME NEW f \in Files
        PROVE  m[f] \in 0..NoFile
    <3>1. CASE f \in IdsOf(blocks)
      BY <1>2, <1>3, <3>1 DEF IdsOf
    <3>2. CASE f \notin IdsOf(blocks)
      BY <1>4, <3>2
    <3> QED
      BY <3>1, <3>2
  <2>2. m = [f \in Files |-> m[f]]
    BY DEF With
  <2> HIDE DEF m
  <2> QED
    BY <2>1, <2>2
<1> QED
  BY <1>3, <1>4, <1>5

\* The recursive function in AddBlocks is the only one of its kind.
IsSum(a, n, none, blocks) ==
  a = [i \in 0..n |-> IF i = 0 THEN none ELSE AddBlock(a[i - 1], blocks[i])]

LEMMA SumSteps ==
  ASSUME NEW n \in Nat, NEW none, NEW blocks, NEW a, IsSum(a, n, none, blocks)
  PROVE  /\ a = [i \in 0..n |-> a[i]] /\ a[0] = none
         /\ \A i \in 1..n : a[i] = AddBlock(a[i - 1], blocks[i])
BY DEF IsSum

LEMMA OneSum ==
  ASSUME NEW n \in Nat, NEW none, NEW blocks, NEW a, NEW c,
         IsSum(a, n, none, blocks), IsSum(c, n, none, blocks)
  PROVE  a = c
<1>1. /\ a[0] = none /\ \A i \in 1..n : a[i] = AddBlock(a[i - 1], blocks[i])
      /\ c[0] = none /\ \A i \in 1..n : c[i] = AddBlock(c[i - 1], blocks[i])
  BY SumSteps
<1> DEFINE T == {i \in 0..n : a[i] # c[i]}
<1>2. ASSUME NEW i \in T
      PROVE  i - 1 \in T /\ i - 1 < i
  <2>1. i \in 1..n
    BY <1>1
  <2>2. a[i] = AddBlock(a[i - 1], blocks[i]) /\ c[i] = AddBlock(c[i - 1], blocks[i])
    BY <1>1, <2>1
  <2>3. a[i - 1] # c[i - 1]
    BY <2>2
  <2> QED
    BY <2>1, <2>3
<1>3. \A i \in 0..n : a[i] = c[i]
  <2>1. T \in SUBSET Nat
    OBVIOUS
  <2> HIDE DEF T
  <2>2. T = {}
    BY <1>2, <2>1, NoDescent
  <2> QED
    BY <2>2 DEF T
<1>4. a = [i \in 0..n |-> a[i]] /\ c = [i \in 0..n |-> c[i]]
  BY SumSteps
<1> QED
  BY <1>3, <1>4

\* Distinct blocks that the map does not have are all dirty.
LEMMA AddBlocksOf ==
  ASSUME NEW map \in [Files -> 0..NoFile], NEW blocks \in Seq(Block), Distinct(blocks),
         \A i \in DOMAIN blocks : map[blocks[i].id] # blocks[i].bytes
  PROVE  AddBlocks(map, blocks) = [map |-> With(map, blocks, Len(blocks)), dirty |-> blocks]
<1> DEFINE n == Len(blocks)
           none == [map |-> map, dirty |-> <<>>]
           Sum(i) == [map |-> With(map, blocks, i), dirty |-> First(blocks, i)]
           sum == [i \in 0..n |-> Sum(i)]
<1>1. n \in Nat /\ DOMAIN blocks = 1..n
  BY LenProperties
<1>2. Sum(0) = none
  <2>1. 1..0 = {}
    OBVIOUS
  <2>2. With(map, blocks, 0) = map
    BY <2>1 DEF With
  <2> QED
    BY <2>2, FirstOf
<1>3. ASSUME NEW i \in 1..n
      PROVE  AddBlock(Sum(i - 1), blocks[i]) = Sum(i)
  <2> DEFINE m == With(map, blocks, i - 1)
             d == First(blocks, i - 1)
  <2>1. m[blocks[i].id] # blocks[i].bytes
    BY <1>1, WithStep
  <2>2. /\ Append(d, blocks[i]) = First(blocks, i)
        /\ With(map, blocks, i) = [m EXCEPT ![blocks[i].id] = blocks[i].bytes]
    <3>1. Append(d, blocks[i]) = First(blocks, i)
      BY FirstOf
    <3>2. With(map, blocks, i) = [m EXCEPT ![blocks[i].id] = blocks[i].bytes]
      BY WithStep
    <3> QED
      BY <3>1, <3>2
  <2> HIDE DEF m, d
  <2>3. Sum(i - 1) = [map |-> m, dirty |-> d]
    BY DEF m, d
  <2>4. AddBlock([map |-> m, dirty |-> d], blocks[i]) =
          [map |-> [m EXCEPT ![blocks[i].id] = blocks[i].bytes], dirty |-> Append(d, blocks[i])]
    BY <2>1 DEF AddBlock
  <2> QED
    BY <2>2, <2>3, <2>4
<1> HIDE DEF n, none, Sum
<1>4. IsSum(sum, n, none, blocks)
  <2>1. ASSUME NEW i \in 0..n
        PROVE  Sum(i) = IF i = 0 THEN none ELSE AddBlock(sum[i - 1], blocks[i])
    <3>1. CASE i = 0
      BY <1>2, <3>1
    <3>2. CASE i # 0
      <4>1. i \in 1..n /\ i - 1 \in 0..n
        BY <1>1, <3>2
      <4> QED
        BY <1>3, <3>2, <4>1
    <3> QED
      BY <3>1, <3>2
  <2> QED
    BY <2>1 DEF IsSum
<1> HIDE DEF sum
<1>5. \A a : IsSum(a, n, none, blocks) => a = sum
  BY <1>1, <1>4, OneSum
<1>6. AddBlocks(map, blocks) = sum[n]
  <2>1. AddBlocks(map, blocks) = (CHOOSE a : IsSum(a, n, none, blocks))[n]
    BY DEF AddBlocks, IsSum, n, none
  <2>2. (CHOOSE a : IsSum(a, n, none, blocks)) = sum
    BY <1>4, <1>5
  <2> QED
    BY <2>1, <2>2
<1>7. sum[n] = [map |-> With(map, blocks, n), dirty |-> blocks]
  BY <1>1, FirstOf DEF Sum, sum, n
<1> QED
  BY <1>6, <1>7 DEF n

-----------------------------------------------------------------------------
(* Files, cut into blocks *)

FileBlock == [type : {"data", "header"}, bytes : Seq(Nat), size : Nat, blocks : Nat]

\* The i-th block of a file of z bytes; the first n entries of s are all of them.
Upto(i, z) == IF z <= i * BlockSize THEN z ELSE i * BlockSize
ChunkOf(i, z) == Data((i - 1) * BlockSize + 1, Upto(i, z))

IsCut(s, n, z) ==
  /\ (n - 1) * BlockSize < z /\ z <= n * BlockSize
  /\ \A i \in 1..n : s[i] = ChunkOf(i, z)

\* One block too many is counted if the last one is full.
Bonus(z) == IF z % BlockSize = 0 THEN 1 ELSE 0

LEMMA BlockSizeIs == BlockSize \in Nat \ {0}
BY FileConstants

LEMMA DataIs ==
  ASSUME NEW first \in Nat, NEW last \in Nat, first <= last + 1
  PROVE  /\ Data(first, last) \in FileBlock /\ Data(first, last).type = "data"
         /\ Data(first, last).bytes = [i \in 1..(last + 1 - first) |-> first + i - 1]
<1>1. [i \in 1..(last + 1 - first) |-> first + i - 1] \in Seq(Nat)
  <2> DEFINE n == last + 1 - first
  <2>1. n \in Nat /\ \A i \in 1..n : first + i - 1 \in Nat
    OBVIOUS
  <2> HIDE DEF n
  <2>2. [i \in 1..n |-> first + i - 1] \in [1..n -> Nat]
    BY <2>1
  <2>3. [i \in 1..n |-> first + i - 1] \in Seq(Nat)
    BY <2>1, <2>2
  <2> QED
    BY <2>3 DEF n
<1> QED
  BY <1>1 DEF Data, FileBlock

LEMMA ChunkIs ==
  ASSUME NEW z \in Nat, NEW i \in Nat \ {0}, (i - 1) * BlockSize <= z
  PROVE  /\ ChunkOf(i, z) \in FileBlock /\ ChunkOf(i, z).type = "data"
         /\ ChunkOf(i, z).bytes =
              [j \in 1..(Upto(i, z) - (i - 1) * BlockSize) |-> (i - 1) * BlockSize + j]
         /\ Upto(i, z) \in Nat /\ (i - 1) * BlockSize \in Nat /\ (i - 1) * BlockSize <= Upto(i, z)
<1> DEFINE p == (i - 1) * BlockSize
           q == Upto(i, z)
<1>1. p \in Nat /\ q \in Nat /\ p <= q
  <2>1. (i - 1) * BlockSize \in Nat /\ i * BlockSize = (i - 1) * BlockSize + BlockSize
    BY BlockSizeIs, Times
  <2> QED
    BY <2>1, BlockSizeIs DEF Upto
<1> HIDE DEF p, q
<1>2. p + 1 \in Nat /\ p + 1 <= q + 1 /\ q + 1 - (p + 1) = q - p /\ \A j \in Int : p + 1 + j - 1 = p + j
  BY <1>1
<1>3. /\ Data(p + 1, q) \in FileBlock /\ Data(p + 1, q).type = "data"
      /\ Data(p + 1, q).bytes = [j \in 1..(q + 1 - (p + 1)) |-> p + 1 + j - 1]
  BY <1>1, <1>2, DataIs
<1>4. [j \in 1..(q + 1 - (p + 1)) |-> p + 1 + j - 1] = [j \in 1..(q - p) |-> p + j]
  BY <1>1, <1>2
<1>5. Data(p + 1, q) = ChunkOf(i, z)
  BY DEF p, q, ChunkOf
<1>6. /\ ChunkOf(i, z) \in FileBlock /\ ChunkOf(i, z).type = "data"
      /\ ChunkOf(i, z).bytes = [j \in 1..(q - p) |-> p + j]
  BY <1>3, <1>4, <1>5
<1> QED
  BY <1>1, <1>6 DEF p, q

\* The numbers up to p, and those after it.
CountTo(p) == [j \in 1..p |-> j]

LEMMA CountOn ==
  ASSUME NEW p \in Nat, NEW q \in Nat, p <= q
  PROVE  CountTo(p) \o [j \in 1..(q - p) |-> p + j] = CountTo(q)
<1> DEFINE a == CountTo(p)
           b == [j \in 1..(q - p) |-> p + j]
<1>1. a \in Seq(Nat) /\ Len(a) = p /\ \A j \in 1..p : a[j] = j
  BY DEF CountTo
<1>2. b \in Seq(Nat) /\ Len(b) = q - p /\ \A j \in 1..(q - p) : b[j] = p + j
  OBVIOUS
<1>3. CountTo(q) \in Seq(Nat) /\ Len(CountTo(q)) = q /\ \A j \in 1..q : CountTo(q)[j] = j
  BY DEF CountTo
<1> HIDE DEF a, b
<1>4. /\ a \o b \in Seq(Nat) /\ Len(a \o b) = Len(a) + Len(b)
      /\ \A i \in 1..Len(a) + Len(b) : (a \o b)[i] = IF i <= Len(a) THEN a[i] ELSE b[i - Len(a)]
  BY <1>1, <1>2, ConcatProperties
<1>5. Len(a \o b) = q /\ \A i \in 1..q : (a \o b)[i] = i
  BY <1>1, <1>2, <1>4
<1>6. a \o b = CountTo(q)
  BY <1>3, <1>4, <1>5, SeqEqual
<1> QED
  BY <1>6 DEF a, b

\* The recursive function in FlattenSeq is the only one of its kind.
IsFlat(a, n, seqs) == a = [i \in 1..n |-> IF i = 1 THEN seqs[i] ELSE a[i - 1] \o seqs[i]]

LEMMA FlatSteps ==
  ASSUME NEW n \in Nat, n # 0, NEW seqs, NEW a, IsFlat(a, n, seqs)
  PROVE  /\ a = [i \in 1..n |-> a[i]] /\ a[1] = seqs[1]
         /\ \A i \in 2..n : a[i] = a[i - 1] \o seqs[i]
<1>1. a = [i \in 1..n |-> a[i]] /\ \A i \in 1..n : a[i] = IF i = 1 THEN seqs[i] ELSE a[i - 1] \o seqs[i]
  BY Zenon DEF IsFlat
<1>2. 1 \in 1..n /\ \A i \in 2..n : i \in 1..n /\ i # 1
  OBVIOUS
<1>3. a[1] = seqs[1]
  BY <1>1, <1>2
<1>4. ASSUME NEW i \in 2..n
      PROVE  a[i] = a[i - 1] \o seqs[i]
  <2>1. i \in 1..n /\ i # 1
    BY <1>2
  <2> QED
    BY <1>1, <2>1
<1> QED
  BY <1>1, <1>3, <1>4

LEMMA OneFlat ==
  ASSUME NEW n \in Nat, n # 0, NEW seqs, NEW a, NEW c, IsFlat(a, n, seqs), IsFlat(c, n, seqs)
  PROVE  a = c
<1>1. /\ a = [i \in 1..n |-> a[i]] /\ a[1] = seqs[1]
      /\ \A i \in 2..n : a[i] = a[i - 1] \o seqs[i]
  BY FlatSteps
<1>2. /\ c = [i \in 1..n |-> c[i]] /\ c[1] = seqs[1]
      /\ \A i \in 2..n : c[i] = c[i - 1] \o seqs[i]
  BY FlatSteps
<1> DEFINE T == {i \in 1..n : a[i] # c[i]}
<1>3. ASSUME NEW i \in T
      PROVE  i - 1 \in T /\ i - 1 < i
  <2>1. i \in 2..n
    BY <1>1, <1>2
  <2>2. a[i] = a[i - 1] \o seqs[i] /\ c[i] = c[i - 1] \o seqs[i]
    BY <1>1, <1>2, <2>1
  <2>3. a[i - 1] # c[i - 1]
    BY <2>2
  <2> QED
    BY <2>1, <2>3
<1>4. \A i \in 1..n : a[i] = c[i]
  <2>1. T \in SUBSET Nat
    OBVIOUS
  <2> HIDE DEF T
  <2>2. T = {}
    BY <1>3, <2>1, NoDescent
  <2> QED
    BY <2>2 DEF T
<1> QED
  BY <1>1, <1>2, <1>4

LEMMA FlattenIs ==
  ASSUME NEW n \in Nat \ {0}, NEW seqs, Len(seqs) = n, NEW a, IsFlat(a, n, seqs)
  PROVE  FlattenSeq(seqs) = a[n]
<1>1. \A c : IsFlat(c, n, seqs) => c = a
  BY OneFlat
<1>2. (CHOOSE c : IsFlat(c, n, seqs)) = a
  BY <1>1
<1>3. FlattenSeq(seqs) = (CHOOSE c : IsFlat(c, n, seqs))[n]
  BY DEF FlattenSeq, IsFlat
<1> QED
  BY <1>2, <1>3

\* The blocks of a file hold its bytes in order.
LEMMA CutHoldsBytes ==
  ASSUME NEW z \in Nat, NEW s \in Seq(FileBlock), IsCut(s, Len(s), z)
  PROVE  FlattenSeq([i \in DOMAIN s |-> s[i].bytes]) = [i \in 1..z |-> i]
<1> DEFINE n == Len(s)
           seqs == [i \in DOMAIN s |-> s[i].bytes]
           flat == [i \in 1..n |-> CountTo(Upto(i, z))]
<1>0. n \in Nat /\ DOMAIN s = 1..n
  BY LenProperties
<1>1. /\ (n - 1) * BlockSize < z /\ z <= n * BlockSize
      /\ \A i \in 1..n : s[i] = ChunkOf(i, z)
  BY <1>0 DEF IsCut
<1>2. CASE n = 0
  <2>1. z = 0
    BY <1>1, <1>2, BlockSizeIs
  <2>2. seqs = <<>>
    BY <1>0, <1>2
  <2>3. FlattenSeq(seqs) = seqs
    BY <2>2 DEF FlattenSeq
  <2> QED
    BY <2>1, <2>2, <2>3
<1>3. CASE n # 0
  <2>0. n \in Nat \ {0} /\ Len(seqs) = n
    <3>1. seqs = [i \in 1..n |-> s[i].bytes]
      BY <1>0
    <3> HIDE DEF n
    <3> QED
      BY <1>0, <1>3, <3>1
  <2>00. /\ (n - 1) * BlockSize < z /\ z <= n * BlockSize
         /\ \A i \in 1..n : i \in DOMAIN s /\ seqs[i] = ChunkOf(i, z).bytes
    BY <1>0, <1>1
  <2> HIDE DEF n, seqs
  <2>1. ASSUME NEW i \in 1..n
        PROVE  /\ (i - 1) * BlockSize <= z
               /\ i # n => Upto(i, z) = i * BlockSize
    <3>1. (i - 1) * BlockSize \in Int /\ (n - 1) * BlockSize \in Int /\ i * BlockSize \in Int
      BY <2>0, BlockSizeIs, Times
    <3>2. i - 1 \in Int /\ n - 1 \in Int /\ i \in Int /\ i - 1 <= n - 1 /\ (i # n => i <= n - 1)
      BY <2>0
    <3>3. (i - 1) * BlockSize <= (n - 1) * BlockSize
      BY <3>2, BlockSizeIs, TimesMonotone
    <3>4. i # n => i * BlockSize <= (n - 1) * BlockSize
      BY <3>2, BlockSizeIs, TimesMonotone
    <3> QED
      BY <2>00, <3>1, <3>3, <3>4 DEF Upto
  <2>2. ASSUME NEW i \in 1..n
        PROVE  /\ seqs[i] = [j \in 1..(Upto(i, z) - (i - 1) * BlockSize) |-> (i - 1) * BlockSize + j]
               /\ Upto(i, z) \in Nat /\ (i - 1) * BlockSize \in Nat /\ (i - 1) * BlockSize <= Upto(i, z)
    <3>1. i \in Nat \ {0}
      BY <2>0
    <3>2. seqs[i] = ChunkOf(i, z).bytes
      BY <2>00
    <3> QED
      BY <2>1, <3>1, <3>2, ChunkIs
  <2>3. flat[1] = seqs[1]
    <3>1. 1 \in 1..n /\ (1 - 1) * BlockSize = 0
      BY <2>0, BlockSizeIs
    <3>2. seqs[1] = [j \in 1..(Upto(1, z) - 0) |-> 0 + j] /\ Upto(1, z) \in Nat
      BY <2>2, <3>1
    <3>3. seqs[1] = CountTo(Upto(1, z))
      BY <3>2 DEF CountTo
    <3> QED
      BY <3>1, <3>3
  <2>4. ASSUME NEW i \in 2..n
        PROVE  flat[i] = flat[i - 1] \o seqs[i]
    <3>1. i \in 1..n /\ i - 1 \in 1..n /\ i - 1 # n
      BY <2>0
    <3>2. Upto(i - 1, z) = (i - 1) * BlockSize
      BY <2>1, <3>1
    <3>3. CountTo((i - 1) * BlockSize) \o seqs[i] = CountTo(Upto(i, z))
      <4> DEFINE p == (i - 1) * BlockSize
                 q == Upto(i, z)
      <4>1. seqs[i] = [j \in 1..(q - p) |-> p + j] /\ p \in Nat /\ q \in Nat /\ p <= q
        BY <2>2, <3>1
      <4> HIDE DEF p, q
      <4>2. CountTo(p) \o [j \in 1..(q - p) |-> p + j] = CountTo(q)
        BY <4>1, CountOn
      <4> QED
        BY <4>1, <4>2 DEF p, q
    <3> QED
      BY <3>1, <3>2, <3>3
  <2>5. IsFlat(flat, n, seqs)
    <3>1. ASSUME NEW i \in 1..n
          PROVE  flat[i] = IF i = 1 THEN seqs[i] ELSE flat[i - 1] \o seqs[i]
      <4>1. i # 1 => i \in 2..n
        BY <2>0
      <4> HIDE DEF flat
      <4> QED
        BY <2>3, <2>4, <4>1
    <3>2. flat = [i \in 1..n |-> flat[i]]
      OBVIOUS
    <3> HIDE DEF flat
    <3> QED
      BY <3>1, <3>2 DEF IsFlat
  <2>6. FlattenSeq(seqs) = flat[n]
    <3> HIDE DEF flat, n
    <3> QED
      BY <2>0, <2>5, FlattenIs
  <2>7. flat[n] = CountTo(z)
    BY <2>0, <2>00 DEF Upto
  <2> QED
    BY <2>6, <2>7 DEF seqs, CountTo
<1> QED
  BY <1>2, <1>3

-----------------------------------------------------------------------------
(* The invariant *)

Phases == {"none", "piping", "flushed", "written", "done", "aborted"}

Uploads == [phase : Phases, given : Nat, pending : Nat, processed : Nat, count : Nat,
            queue : Seq(FileBlock)]

AnyFile == Files \cup {CHOOSE f \in Files : TRUE}

Requests == [phase : {"none", "header", "stream", "done", "failed"}, file : AnyFile,
             size : Nat, blocks : Nat, body : Seq(FileBlock)]

\* s is the feed of a file of z bytes that was written completely.
IsWhole(s, z) ==
  /\ z \in 0..MaxSize /\ s # <<>>
  /\ IsCut(s, Len(s) - 1, z)
  /\ s[Len(s)] = HeaderBlock(z, Len(s) - 1 + Bonus(z))

Unfinished(s) == \A i \in DOMAIN s : s[i].type = "data"

\* The blocks in the feed and then those in the queue hold the first p bytes.
InFlight(s, q, p) ==
  /\ (Len(s) + Len(q) - 1) * BlockSize < p /\ p <= (Len(s) + Len(q)) * BlockSize
  /\ \A i \in DOMAIN s : s[i] = ChunkOf(i, p)
  /\ \A j \in DOMAIN q : q[j] = ChunkOf(Len(s) + j, p)

\* The upload u of a file of z bytes whose feed is s.  As long as the source
\* goes on, all the blocks are full.
FileOk(u, s, z) ==
  /\ z = NoFile => u.phase = "none" /\ s = <<>>
  /\ u.phase \in {"written", "done"} => u.queue = <<>>
  /\ u.phase = "none" => u = NoUpload /\ (Unfinished(s) \/ IsWhole(s, z))
  /\ u.phase \in {"written", "done"} => IsWhole(s, z) /\ u.processed = z
  /\ u.phase \in {"piping", "flushed", "aborted"} => Unfinished(s) /\ Unfinished(u.queue)
  /\ u.phase = "piping" =>
       /\ u.given = u.processed + u.pending /\ u.pending < BlockSize
       /\ u.count = Len(s) + Len(u.queue) /\ u.processed = u.count * BlockSize
       /\ InFlight(s, u.queue, u.processed)
  /\ u.phase = "flushed" =>
       /\ u.processed = z /\ u.count = Len(s) + Len(u.queue) + Bonus(z)
       /\ InFlight(s, u.queue, z)

\* A request for a file of z bytes whose feed is s, of which v blocks are seen.
RequestOk(q, s, z, v) ==
  /\ q.phase = "stream" =>
       IsWhole(s, z) /\ v = Len(s) /\ q.size = z /\ q.blocks = Len(s) - 1 + Bonus(z)
  /\ q.phase = "done" =>
       /\ z \in 0..MaxSize /\ q.size = z /\ q.blocks = Len(q.body) + Bonus(z)
       /\ IsCut(q.body, Len(q.body), z)

FilesInv ==
  /\ upload \in [Files -> Uploads] /\ feed \in [Files -> Seq(FileBlock)]
  /\ size \in [Files -> 0..NoFile] /\ seen \in [Files -> Nat]
  /\ \A f \in Files : FileOk(upload[f], feed[f], size[f]) /\ seen[f] <= Len(feed[f])

RequestsInv ==
  /\ reader \in [Readers -> Requests]
  /\ \A r \in Readers : LET f == reader[r].file IN
       reader[r].phase # "none" => f \in Files /\ RequestOk(reader[r], feed[f], size[f], seen[f])

\* The blocks that are yet to reach the disk.
Late == IF ready THEN appending ELSE replay

Has(s, f, n) == \E i \in DOMAIN s : s[i].id = f /\ s[i].bytes = n

\* A file is listed once, and what is known is what is listed.
Lists(d, late, known, read) ==
  /\ Distinct(d) /\ Distinct(late) /\ IdsOf(d) \cap IdsOf(late) = {}
  /\ \A f \in Files, n \in 0..MaxSize :
       known[f] = n <=> (read /\ Has(d, f, n)) \/ Has(late, f, n)

\* A block is of a whole file that nobody writes any more.
BlockOk(b, u, s, z) == b.bytes = z /\ IsWhole(s, z) /\ u.phase \in {"none", "done"}

BlocksAre(b, u, s, z) == \A i \in DOMAIN b : LET f == b[i].id IN BlockOk(b[i], u[f], s[f], z[f])
BlocksOk(b) == BlocksAre(b, upload, feed, size)

LedgerInv ==
  /\ disk \in Seq(Block) /\ appending \in Seq(Block) /\ replay \in Seq(Block)
  /\ ready \in BOOLEAN /\ files \in [Files -> 0..NoFile]
  /\ IF ready THEN replay = <<>> ELSE appending = <<>>
  /\ Lists(disk, Late, files, ready)

ListedInv == BlocksOk(disk) /\ BlocksOk(Late)

Entry == [id : Nat, query : [type : {"Crypto", "Sign", "Metadata", "Materialize"},
                             id : AnyFile, known : BOOLEAN]]
ReplyMsg == [id : Nat, payload : Answer]

\* A query that waits is the one whose callback is kept, and a file that was
\* on the disk is still there.
Kept(e, c, d) ==
  /\ e.id \in DOMAIN c /\ c[e.id] = e.query
  /\ e.query.type = "Metadata" => e.query.id \in Files
  /\ e.query.known => e.query.id \in IdsOf(d)

\* An answer that is on its way.
Told(m, c) ==
  /\ m.id \in DOMAIN c
  /\ c[m.id].type = "Metadata" /\ c[m.id].known => m.payload.type = "File"

SetIds(S) == {e.id : e \in S}

\* Every number is at one place at most.
OnePlace(b, s, r, t) ==
  /\ Distinct(b) /\ Distinct(r) /\ Distinct(t) /\ \A p, q \in s : p.id = q.id => p = q
  /\ IdsOf(b) \cap IdsOf(r) = {} /\ IdsOf(b) \cap IdsOf(t) = {} /\ IdsOf(r) \cap IdsOf(t) = {}
  /\ SetIds(s) \cap (IdsOf(b) \cup IdsOf(r) \cup IdsOf(t)) = {}

QueriesOk(b, s, r, t, c, d) ==
  /\ b \in Seq(Entry) /\ r \in Seq(Entry) /\ t \in Seq(ReplyMsg) /\ s \in SUBSET Entry
  /\ OnePlace(b, s, r, t)
  /\ \A e \in ToSet(b) : Kept(e, c, d)
  /\ \A e \in ToSet(r) : Kept(e, c, d) /\ e.query.type = "Metadata"
  /\ \A e \in s : Kept(e, c, d) /\ e.query.type = "Sign"
  /\ \A m \in ToSet(t) : Told(m, c)

QueryInv ==
  /\ nextId \in Nat /\ DOMAIN cb \in SUBSET {i \in Nat : i < nextId}
  /\ QueriesOk(toBackend, signing, readyQ, toFrontend, cb, disk)

Inv == FilesInv /\ RequestsInv /\ LedgerInv /\ ListedInv /\ QueryInv

-----------------------------------------------------------------------------
(* Cutting *)

LEMMA CeilOf ==
  ASSUME NEW B \in Nat \ {0}, NEW m \in Nat
  PROVE  /\ (m + B - 1) \div B \in Nat
         /\ ((m + B - 1) \div B - 1) * B < m /\ m <= ((m + B - 1) \div B) * B
<1> DEFINE k == (m + B - 1) \div B
<1>1. m + B - 1 \in Nat
  OBVIOUS
<1>2. k \in Nat /\ (m + B - 1) % B \in 0..(B - 1) /\ m + B - 1 = k * B + ((m + B - 1) % B)
  BY <1>1, DivMod
<1> HIDE DEF k
<1>3. k * B \in Int /\ (k - 1) * B = k * B - B
  BY <1>2, Times
<1>4. (k - 1) * B < m /\ m <= k * B
  BY <1>2, <1>3
<1> QED
  BY <1>2, <1>4 DEF k

LEMMA TimesAdds ==
  ASSUME NEW B \in Nat \ {0}, NEW i \in Int, NEW j \in Int
  PROVE  (i + j) * B = i * B + j * B
OBVIOUS

\* A block that comes after n full ones.
LEMMA ChunkAfter ==
  ASSUME NEW n \in Nat, NEW m \in Nat, NEW i \in Nat \ {0}, NEW h, h = n * BlockSize + 1
  PROVE  Data(h + (i - 1) * BlockSize, h - 1 + Min({m, i * BlockSize}))
           = ChunkOf(n + i, n * BlockSize + m)
<1>1. /\ n * BlockSize \in Int /\ i * BlockSize \in Int /\ (i - 1) * BlockSize \in Int
      /\ (n + i) * BlockSize = n * BlockSize + i * BlockSize
      /\ (n + i - 1) * BlockSize = n * BlockSize + (i - 1) * BlockSize
  <2>1. n + i - 1 = n + (i - 1)
    OBVIOUS
  <2> QED
    BY <2>1, BlockSizeIs, Times, TimesAdds
<1>2. Min({m, i * BlockSize}) = IF m <= i * BlockSize THEN m ELSE i * BlockSize
  BY <1>1, MinOf
<1>3. Upto(n + i, n * BlockSize + m) = h - 1 + Min({m, i * BlockSize})
  BY <1>1, <1>2 DEF Upto
<1>4. (n + i - 1) * BlockSize + 1 = h + (i - 1) * BlockSize
  BY <1>1
<1> QED
  BY <1>3, <1>4 DEF ChunkOf

\* The blocks before stay what they are when the file goes on.
LEMMA ChunkKeeps ==
  ASSUME NEW n \in Nat, NEW m \in Nat, NEW i \in 1..n
  PROVE  ChunkOf(i, n * BlockSize + m) = ChunkOf(i, n * BlockSize)
<1>1. n * BlockSize \in Int /\ i * BlockSize \in Int /\ i * BlockSize <= n * BlockSize
  BY BlockSizeIs, Times, TimesMonotone
<1>2. Upto(i, n * BlockSize + m) = Upto(i, n * BlockSize)
  BY <1>1 DEF Upto
<1> QED
  BY <1>2 DEF ChunkOf

\* pushChunks for m bytes that come after n full blocks.
LEMMA ChunksAre ==
  ASSUME NEW n \in Nat, NEW m \in Nat
  PROVE  LET c == Chunks(n * BlockSize + 1, m) IN
         /\ c \in Seq(FileBlock)
         /\ (Len(c) - 1) * BlockSize < m /\ m <= Len(c) * BlockSize
         /\ \A j \in DOMAIN c : c[j] = ChunkOf(n + j, n * BlockSize + m)
<1> DEFINE k == (m + BlockSize - 1) \div BlockSize
           h == n * BlockSize + 1
           Chunk(i) == Data(h + (i - 1) * BlockSize, h - 1 + Min({m, i * BlockSize}))
           c == [i \in 1..k |-> Chunk(i)]
<1>1. k \in Nat /\ (k - 1) * BlockSize < m /\ m <= k * BlockSize
  BY BlockSizeIs, CeilOf
<1> HIDE DEF h
<1>2. Chunks(h, m) = c
  BY DEF Chunks
<1> HIDE DEF k
<1>3. ASSUME NEW i \in 1..k
      PROVE  Chunk(i) = ChunkOf(n + i, n * BlockSize + m) /\ Chunk(i) \in FileBlock
  <2>1. i \in Nat \ {0}
    BY <1>1
  <2>2. Chunk(i) = ChunkOf(n + i, n * BlockSize + m)
    BY <2>1, ChunkAfter DEF h
  <2>3. (n + i - 1) * BlockSize <= n * BlockSize + m
    <3>1. i - 1 \in Int /\ k - 1 \in Int /\ i - 1 <= k - 1 /\ n + i - 1 = n + (i - 1)
      BY <1>1
    <3>2. (i - 1) * BlockSize <= (k - 1) * BlockSize
      BY <3>1, BlockSizeIs, TimesMonotone
    <3>3. (n + i - 1) * BlockSize = n * BlockSize + (i - 1) * BlockSize
      BY <3>1, BlockSizeIs, TimesAdds
    <3>4. /\ n * BlockSize \in Int /\ (i - 1) * BlockSize \in Int /\ (k - 1) * BlockSize \in Int
      BY <3>1, BlockSizeIs, Times
    <3> QED
      BY <1>1, <3>2, <3>3, <3>4
  <2>4. n + i \in Nat \ {0} /\ n * BlockSize + m \in Nat
    BY <2>1, BlockSizeIs
  <2>5. ChunkOf(n + i, n * BlockSize + m) \in FileBlock
    <3> DEFINE l == n + i
               z == n * BlockSize + m
    <3>1. l \in Nat \ {0} /\ z \in Nat /\ (l - 1) * BlockSize <= z
      BY <2>3, <2>4
    <3> HIDE DEF l, z
    <3>2. ChunkOf(l, z) \in FileBlock
      BY <3>1, ChunkIs
    <3> QED
      BY <3>2 DEF l, z
  <2> HIDE DEF Chunk
  <2> QED
    BY <2>2, <2>5
<1> HIDE DEF Chunk
<1>4. c \in Seq(FileBlock) /\ Len(c) = k /\ DOMAIN c = 1..k /\ \A j \in 1..k : c[j] = Chunk(j)
  <2>1. c \in [1..k -> FileBlock]
    BY <1>3
  <2> QED
    BY <1>1, <2>1
<1> HIDE DEF c
<1>5. \A j \in DOMAIN c : c[j] = ChunkOf(n + j, n * BlockSize + m)
  BY <1>3, <1>4
<1>6. (Len(c) - 1) * BlockSize < m /\ m <= Len(c) * BlockSize
  BY <1>1, <1>4
<1> QED
  BY <1>2, <1>4, <1>5, <1>6 DEF h

\* n full blocks in the feed and the queue, and then those of m bytes.
LEMMA InFlightGrows ==
  ASSUME NEW s \in Seq(FileBlock), NEW q \in Seq(FileBlock), NEW c \in Seq(FileBlock),
         NEW n \in Nat, NEW m \in Nat, n = Len(s) + Len(q), InFlight(s, q, n * BlockSize),
         (Len(c) - 1) * BlockSize < m, m <= Len(c) * BlockSize,
         \A j \in DOMAIN c : c[j] = ChunkOf(n + j, n * BlockSize + m)
  PROVE  InFlight(s, q \o c, n * BlockSize + m)
<1> DEFINE p == n * BlockSize
<1>1. /\ Len(s) \in Nat /\ DOMAIN s = 1..Len(s) /\ Len(q) \in Nat /\ DOMAIN q = 1..Len(q)
      /\ Len(c) \in Nat /\ DOMAIN c = 1..Len(c)
  BY LenProperties
<1>2. Len(q \o c) = Len(q) + Len(c) /\ Len(s) + Len(q \o c) = n + Len(c)
  BY <1>1, ConcatOf
<1>3. (n + Len(c) - 1) * BlockSize < p + m /\ p + m <= (n + Len(c)) * BlockSize
  <2>1. n + Len(c) - 1 = n + (Len(c) - 1) /\ Len(c) - 1 \in Int /\ Len(c) \in Int
    BY <1>1
  <2>2. /\ (n + Len(c) - 1) * BlockSize = p + (Len(c) - 1) * BlockSize
        /\ (n + Len(c)) * BlockSize = p + Len(c) * BlockSize
        /\ p \in Int /\ (Len(c) - 1) * BlockSize \in Int /\ Len(c) * BlockSize \in Int
    BY <2>1, BlockSizeIs, Times, TimesAdds
  <2> QED
    BY <2>2
<1>4. ASSUME NEW i \in DOMAIN s
      PROVE  s[i] = ChunkOf(i, p + m)
  <2>1. i \in 1..n
    BY <1>1
  <2> QED
    BY <2>1, ChunkKeeps DEF InFlight
<1>5. ASSUME NEW j \in DOMAIN (q \o c)
      PROVE  (q \o c)[j] = ChunkOf(Len(s) + j, p + m)
  <2>1. CASE j \in DOMAIN q /\ (q \o c)[j] = q[j]
    <3>1. Len(s) + j \in 1..n
      BY <1>1, <2>1
    <3> QED
      BY <2>1, <3>1, ChunkKeeps DEF InFlight
  <2>2. CASE j - Len(q) \in DOMAIN c /\ (q \o c)[j] = c[j - Len(q)]
    <3>1. n + (j - Len(q)) = Len(s) + j
      BY <1>1, <2>2
    <3> QED
      BY <2>2, <3>1
  <2> QED
    BY <2>1, <2>2, ConcatOf
<1> HIDE DEF p
<1>6. InFlight(s, q \o c, p + m)
  BY <1>2, <1>3, <1>4, <1>5 DEF InFlight
<1> QED
  BY <1>6 DEF p

-----------------------------------------------------------------------------
(* What each step of an upload makes of FileOk *)

LEMMA PostOk ==
  ASSUME NEW u \in Uploads, NEW s \in Seq(FileBlock), FileOk(u, s, NoFile), NEW n \in 0..MaxSize
  PROVE  LET v == [u EXCEPT !.phase = "piping"] IN
         v \in Uploads /\ FileOk(v, s, n) /\ s = <<>>
<1> DEFINE v == [u EXCEPT !.phase = "piping"]
<1>1. u.phase = "none" /\ u = NoUpload /\ s = <<>>
  BY DEF FileOk
<1>2. v = [phase |-> "piping", given |-> 0, pending |-> 0, processed |-> 0, count |-> 0, queue |-> <<>>]
  BY <1>1 DEF NoUpload
<1>3. v \in Uploads
  BY <1>2 DEF Uploads, Phases
<1>4. n # NoFile
  BY LedgerConstants DEF NoFile
<1>5. Len(<<>>) = 0 /\ 0 * BlockSize = 0 /\ (0 - 1) * BlockSize < 0 /\ 0 < BlockSize
  BY BlockSizeIs
<1>6. InFlight(<<>>, <<>>, 0)
  BY <1>5 DEF InFlight
<1>7. Unfinished(<<>>)
  BY DEF Unfinished
<1> HIDE DEF v
<1>8. /\ v.phase = "piping" /\ v.given = 0 /\ v.pending = 0 /\ v.processed = 0 /\ v.count = 0
      /\ v.queue = <<>>
  BY <1>2
<1>9. FileOk(v, s, n)
  BY <1>1, <1>4, <1>5, <1>6, <1>7, <1>8 DEF FileOk
<1> QED
  BY <1>1, <1>3, <1>9 DEF v

\* The blocks in flight are data.
LEMMA InFlightIsData ==
  ASSUME NEW s \in Seq(FileBlock), NEW q \in Seq(FileBlock), NEW p \in Nat, InFlight(s, q, p)
  PROVE  Unfinished(s) /\ Unfinished(q)
<1>1. /\ Len(s) \in Nat /\ DOMAIN s = 1..Len(s) /\ Len(q) \in Nat /\ DOMAIN q = 1..Len(q)
  BY LenProperties
<1>2. \A i : ChunkOf(i, p).type = "data"
  BY DEF ChunkOf, Data
<1> QED
  BY <1>1, <1>2 DEF InFlight, Unfinished

LEMMA StaysNat ==
  \A a, b, m, l \in Nat : a + m \in Nat /\ b + (IF m = 0 THEN 1 ELSE l) \in Nat
OBVIOUS

\* What pushing m bytes as l chunks makes v of the upload u, whose n blocks were full.
IsPushed(v, u, s, n, m, l) ==
  /\ v \in Uploads /\ v.phase = u.phase /\ v.given = u.given /\ v.pending = u.pending
  /\ v = [u EXCEPT !.processed = v.processed, !.count = v.count, !.queue = v.queue]
  /\ v.processed = n * BlockSize + m
  /\ v.count = u.count + (IF m = 0 THEN 1 ELSE l)
  /\ Len(s) + Len(v.queue) = n + l
  /\ (l - 1) * BlockSize < m /\ m <= l * BlockSize /\ l \in Nat
  /\ InFlight(s, v.queue, v.processed)

LEMMA PushedOf ==
  ASSUME NEW u \in Uploads, NEW s \in Seq(FileBlock), NEW n \in Nat, NEW m \in Nat, NEW h,
         h = n * BlockSize + 1,
         n = Len(s) + Len(u.queue), u.processed = n * BlockSize, InFlight(s, u.queue, u.processed)
  PROVE  IsPushed(Pushed(u, h, m), u, s, n, m, Len(Chunks(h, m)))
<1> DEFINE c == Chunks(h, m)
           v == Pushed(u, h, m)
<1>0. /\ u.queue \in Seq(FileBlock) /\ u.count \in Nat /\ u.processed \in Nat
  BY DEF Uploads
<1>1. /\ c \in Seq(FileBlock) /\ Len(c) \in Nat
      /\ (Len(c) - 1) * BlockSize < m /\ m <= Len(c) * BlockSize
      /\ \A j \in DOMAIN c : c[j] = ChunkOf(n + j, n * BlockSize + m)
  BY ChunksAre, LenProperties
<1>2. v = [u EXCEPT !.processed = @ + m, !.count = @ + (IF m = 0 THEN 1 ELSE Len(c)),
                    !.queue = @ \o c]
  BY DEF Pushed
<1> HIDE DEF c, v
<1>3. /\ u.queue \o c \in Seq(FileBlock) /\ Len(u.queue \o c) = Len(u.queue) + Len(c)
  BY <1>0, <1>1, ConcatOf
<1>4. /\ u.processed + m \in Nat /\ u.count + (IF m = 0 THEN 1 ELSE Len(c)) \in Nat
  BY <1>0, <1>1, StaysNat
<1>5. /\ v \in Uploads /\ v.phase = u.phase /\ v.given = u.given /\ v.pending = u.pending
      /\ v.processed = u.processed + m /\ v.count = u.count + (IF m = 0 THEN 1 ELSE Len(c))
      /\ v.queue = u.queue \o c
      /\ v = [u EXCEPT !.processed = v.processed, !.count = v.count, !.queue = v.queue]
  BY <1>2, <1>3, <1>4 DEF Uploads
<1>6. Len(s) + Len(v.queue) = n + Len(c)
  <2>1. Len(s) \in Nat /\ Len(u.queue) \in Nat
    BY <1>0, LenProperties
  <2> QED
    BY <1>1, <1>3, <1>5, <2>1
<1>7. InFlight(s, u.queue \o c, n * BlockSize + m)
  <2> DEFINE q == u.queue
  <2>1. q \in Seq(FileBlock) /\ n = Len(s) + Len(q) /\ InFlight(s, q, n * BlockSize)
    BY <1>0
  <2> HIDE DEF q
  <2>2. InFlight(s, q \o c, n * BlockSize + m)
    BY <1>1, <2>1, InFlightGrows
  <2> QED
    BY <2>2 DEF q
<1> QED
  BY <1>1, <1>5, <1>6, <1>7 DEF c, v, IsPushed

\* The full blocks of n bytes.
LEMMA FullBlocks ==
  ASSUME NEW B \in Nat \ {0}, NEW n \in Nat, B <= n
  PROVE  /\ n - (n % B) \in Nat \ {0} /\ n % B \in Nat /\ n % B < B
         /\ \A l \in Nat : (l - 1) * B < n - (n % B) /\ n - (n % B) <= l * B => n - (n % B) = l * B
<1> DEFINE d == n \div B
           r == n % B
<1>1. d \in Nat /\ r \in 0..(B - 1) /\ n = d * B + r
  BY DivMod
<1> HIDE DEF d, r
<1>2. n - r \in Nat \ {0} /\ r \in Nat /\ r < B /\ n - r = d * B
  <2>1. d * B \in Int
    BY <1>1, Times
  <2> QED
    BY <1>1, <2>1
<1>3. ASSUME NEW l \in Nat, (l - 1) * B < n - r, n - r <= l * B
      PROVE  n - r = l * B
  <2> DEFINE x == l * B
  <2>1. x \in Int /\ (l - 1) * B = x - B /\ d \in Int /\ l \in Int
    BY <1>1, Times
  <2>2. d * B <= x /\ x < d * B + B /\ l * B <= x /\ x < l * B + B
    BY <1>2, <1>3, <2>1
  <2> HIDE DEF x
  <2>3. l = d
    BY <2>1, <2>2, Between
  <2> QED
    BY <1>2, <2>3
<1> QED
  BY <1>2, <1>3 DEF r

LEMMA TransformOk ==
  ASSUME NEW u \in Uploads, NEW s \in Seq(FileBlock), NEW z \in 0..MaxSize, FileOk(u, s, z),
         u.phase = "piping", NEW k \in Nat
  PROVE  LET n == u.pending + k
             kept == [u EXCEPT !.given = @ + k, !.pending = Rest(n)]
             h == kept.given - n + 1
             v == IF n < BlockSize THEN kept ELSE Pushed(kept, h, n - (n % BlockSize))
         IN v \in Uploads /\ FileOk(v, s, z)
<1> DEFINE n == u.pending + k
           kept == [u EXCEPT !.given = @ + k, !.pending = Rest(n)]
           h == kept.given - n + 1
           cnt == u.count
<1>1. /\ u.given = u.processed + u.pending /\ u.pending < BlockSize
      /\ cnt = Len(s) + Len(u.queue) /\ u.processed = cnt * BlockSize
      /\ InFlight(s, u.queue, u.processed)
      /\ Unfinished(s) /\ Unfinished(u.queue)
  BY DEF FileOk
<1>2. /\ u.given \in Nat /\ u.pending \in Nat /\ u.processed \in Nat /\ cnt \in Nat
      /\ u.queue \in Seq(FileBlock) /\ n \in Nat
  BY DEF Uploads
<1>3. z # NoFile
  BY LedgerConstants DEF NoFile
<1>4. Rest(n) \in Nat /\ Rest(n) < BlockSize
  <2>1. CASE n < BlockSize
    BY <1>2, <2>1 DEF Rest
  <2>2. CASE ~(n < BlockSize)
    <3>1. BlockSize <= n
      BY <1>2, <2>2, BlockSizeIs
    <3>2. n % BlockSize \in Nat /\ n % BlockSize < BlockSize
      BY <1>2, <3>1, BlockSizeIs, FullBlocks
    <3> QED
      BY <2>2, <3>2 DEF Rest
  <2> QED
    BY <2>1, <2>2
<1>5. /\ kept \in Uploads /\ kept.phase = "piping" /\ kept.given = u.given + k
      /\ kept.pending = Rest(n) /\ kept.processed = u.processed /\ kept.count = cnt
      /\ kept.queue = u.queue
  <2> DEFINE g == u.given + k
             r == Rest(n)
  <2>1. g \in Nat /\ r \in Nat /\ kept = [u EXCEPT !.given = g, !.pending = r]
    BY <1>2, <1>4, StaysNat
  <2> HIDE DEF g, r, kept, n
  <2>2. /\ kept \in Uploads /\ kept.phase = u.phase /\ kept.given = g
        /\ kept.pending = r /\ kept.processed = u.processed /\ kept.count = u.count
        /\ kept.queue = u.queue
    BY <2>1 DEF Uploads
  <2> QED
    BY <2>2 DEF g, r
<1>6. h = cnt * BlockSize + 1 /\ kept.given = cnt * BlockSize + n
  <2> HIDE DEF kept
  <2>1. cnt * BlockSize \in Int
    BY <1>2, BlockSizeIs, Times
  <2> DEFINE x == cnt * BlockSize
             g == kept.given
             p == u.pending
  <2>2. g = (x + p) + k /\ x \in Int /\ p \in Nat
    BY <1>1, <1>2, <1>5, <2>1
  <2> HIDE DEF x, g, p, cnt
  <2>3. g - (p + k) + 1 = x + 1 /\ g = x + (p + k)
    BY <2>2
  <2> QED
    BY <2>3 DEF x, g, p, h, n
<1> HIDE DEF n, kept, h, cnt
<1>7. CASE n < BlockSize
  <2>1. kept.given = kept.processed + kept.pending
    BY <1>1, <1>2, <1>5, <1>6, <1>7 DEF Rest
  <2>2. FileOk(kept, s, z)
    BY <1>1, <1>3, <1>4, <1>5, <2>1 DEF FileOk
  <2> QED
    BY <1>5, <1>7, <2>2 DEF n, kept, h
<1>8. CASE ~(n < BlockSize)
  <2> DEFINE m == n - (n % BlockSize)
             v == Pushed(kept, h, m)
             l == Len(Chunks(h, m))
  <2>0. BlockSize <= n
    BY <1>2, <1>8, BlockSizeIs
  <2>1. /\ m \in Nat /\ m # 0 /\ n % BlockSize \in Nat
        /\ \A j \in Nat : (j - 1) * BlockSize < m /\ m <= j * BlockSize => m = j * BlockSize
    BY <1>2, <2>0, BlockSizeIs, FullBlocks
  <2>2. n = m + Rest(n)
    BY <1>2, <1>8, <2>1 DEF Rest
  <2> HIDE DEF m
  <2>3. /\ kept.processed = cnt * BlockSize /\ cnt = Len(s) + Len(kept.queue)
        /\ InFlight(s, kept.queue, kept.processed)
    BY <1>1, <1>5
  <2>4. /\ v \in Uploads /\ v.phase = kept.phase /\ v.given = kept.given /\ v.pending = kept.pending
        /\ v.processed = cnt * BlockSize + m
        /\ v.count = kept.count + (IF m = 0 THEN 1 ELSE l)
        /\ Len(s) + Len(v.queue) = cnt + l
        /\ (l - 1) * BlockSize < m /\ m <= l * BlockSize /\ l \in Nat
        /\ InFlight(s, v.queue, v.processed)
    <3>1. m \in Nat /\ h = cnt * BlockSize + 1 /\ kept \in Uploads /\ cnt \in Nat
      BY <1>2, <1>5, <1>6, <2>1
    <3>2. IsPushed(v, kept, s, cnt, m, l)
      BY <2>3, <3>1, PushedOf
    <3> HIDE DEF v, l
    <3> QED
      BY <3>2 DEF IsPushed
  <2> HIDE DEF l, v
  <2>5. m = l * BlockSize
    BY <2>1, <2>4
  <2>6. v.count = Len(s) + Len(v.queue) /\ v.processed = v.count * BlockSize
    <3>1. v.count = cnt + l
      BY <1>5, <2>1, <2>4
    <3>2. (cnt + l) * BlockSize = cnt * BlockSize + l * BlockSize
      BY <1>2, <2>4, BlockSizeIs, TimesAdds
    <3> QED
      BY <2>4, <2>5, <3>1, <3>2
  <2>7. v.given = v.processed + v.pending
    <3>1. cnt * BlockSize \in Int
      BY <1>2, BlockSizeIs, Times
    <3> QED
      BY <1>4, <1>5, <1>6, <2>1, <2>2, <2>4, <3>1
  <2>8. Unfinished(v.queue)
    <3>1. v.queue \in Seq(FileBlock) /\ v.processed \in Nat
      BY <2>4 DEF Uploads
    <3> QED
      BY <2>4, <3>1, InFlightIsData
  <2>9. FileOk(v, s, z)
    BY <1>1, <1>3, <1>4, <1>5, <2>4, <2>6, <2>7, <2>8 DEF FileOk
  <2> QED
    BY <1>8, <2>4, <2>9 DEF v, m, n, kept, h
<1> QED
  BY <1>7, <1>8


\* What is over when less than a block was pending.
LEMMA LastChunk ==
  ASSUME NEW n \in Nat, NEW m \in Nat, m < BlockSize, NEW l \in Nat,
         (l - 1) * BlockSize < m, m <= l * BlockSize
  PROVE  (IF m = 0 THEN 1 ELSE l) = l + Bonus(n * BlockSize + m)
<1> DEFINE z == n * BlockSize + m
           x == n * BlockSize
           y == l * BlockSize
<1>1. x \in Nat /\ y \in Int /\ (l - 1) * BlockSize = y - BlockSize
  BY BlockSizeIs, Times
<1>2. 0 * BlockSize = 0 /\ 1 * BlockSize = BlockSize
  BY BlockSizeIs
<1>3. z % BlockSize = m
  <2> DEFINE d == z \div BlockSize
             r == z % BlockSize
  <2>1. z \in Nat
    BY <1>1
  <2> HIDE DEF z
  <2>2. d \in Nat /\ r \in 0..(BlockSize - 1) /\ z = d * BlockSize + r
    BY <2>1, BlockSizeIs, DivMod
  <2> HIDE DEF d, r
  <2>3. d * BlockSize \in Int
    BY <2>2, BlockSizeIs, Times
  <2>4. d * BlockSize <= z /\ z < d * BlockSize + BlockSize
    BY <2>2, <2>3, BlockSizeIs
  <2>5. n * BlockSize <= z /\ z < n * BlockSize + BlockSize
    BY <1>1, BlockSizeIs DEF z
  <2>6. d = n
    BY <2>1, <2>2, <2>4, <2>5, BlockSizeIs, Between
  <2>7. r = m
    BY <1>1, <2>2, <2>6 DEF z
  <2> QED
    BY <2>7 DEF r
<1>4. Bonus(z) = IF m = 0 THEN 1 ELSE 0
  BY <1>3 DEF Bonus
<1>5. CASE m = 0
  <2>1. l * BlockSize < 0 * BlockSize + BlockSize /\ 0 * BlockSize <= l * BlockSize
    <3> HIDE DEF x, y
    <3>1. y \in Int /\ y - BlockSize < 0 /\ 0 <= y
      <4>1. (l - 1) * BlockSize < 0 /\ 0 <= l * BlockSize
        BY <1>5
      <4> QED
        BY <1>1, <4>1 DEF y
    <3>2. y < 0 + BlockSize /\ 0 <= y
      BY <3>1, BlockSizeIs
    <3> QED
      BY <1>2, <3>2 DEF y
  <2>2. 0 * BlockSize <= l * BlockSize /\ l * BlockSize \in Int
    BY <1>1, <2>1
  <2> DEFINE w == l * BlockSize
  <2>3. l * BlockSize <= w /\ w < l * BlockSize + BlockSize /\ w \in Int
    BY <2>2, BlockSizeIs
  <2>4. 0 * BlockSize <= w /\ w < 0 * BlockSize + BlockSize
    BY <2>1
  <2> HIDE DEF w
  <2>5. l = 0
    BY <2>3, <2>4, BlockSizeIs, Between
  <2> QED
    BY <1>4, <1>5, <2>5
<1>6. CASE m # 0
  <2>1. l # 0
    BY <1>2, <1>6
  <2>2. ~(1 < l)
    <3> SUFFICES ASSUME 1 < l PROVE FALSE
      OBVIOUS
    <3>1. 1 * BlockSize + BlockSize <= l * BlockSize
      BY BlockSizeIs, TimesGrows
    <3> QED
      BY <1>1, <1>2, <3>1, BlockSizeIs
  <2>3. l = 1
    BY <2>1, <2>2
  <2> QED
    BY <1>4, <1>6, <2>3
<1> QED
  BY <1>5, <1>6

LEMMA FlushOk ==
  ASSUME NEW u \in Uploads, NEW s \in Seq(FileBlock), NEW z \in 0..MaxSize, FileOk(u, s, z),
         u.phase = "piping", u.given = z
  PROVE  LET v == [Pushed(u, u.given - u.pending + 1, u.pending)
                     EXCEPT !.pending = 0, !.phase = "flushed"]
         IN v \in Uploads /\ FileOk(v, s, z)
<1> DEFINE h == u.given - u.pending + 1
           p == Pushed(u, h, u.pending)
           v == [p EXCEPT !.pending = 0, !.phase = "flushed"]
           l == Len(Chunks(h, u.pending))
           cnt == u.count
           m == u.pending
<1>1. /\ u.given = u.processed + m /\ m < BlockSize
      /\ cnt = Len(s) + Len(u.queue) /\ u.processed = cnt * BlockSize
      /\ InFlight(s, u.queue, u.processed)
      /\ Unfinished(s) /\ Unfinished(u.queue)
  BY DEF FileOk
<1>2. /\ u.given \in Nat /\ m \in Nat /\ u.processed \in Nat /\ cnt \in Nat
      /\ u.queue \in Seq(FileBlock)
  BY DEF Uploads
<1>3. z # NoFile
  BY LedgerConstants DEF NoFile
<1>4. h = cnt * BlockSize + 1 /\ z = cnt * BlockSize + m
  <2> DEFINE x == cnt * BlockSize
             g == u.given
  <2>1. g = x + m /\ x \in Nat /\ g = z
    BY <1>1, <1>2
  <2> HIDE DEF x, g, m, cnt
  <2>2. g - m + 1 = x + 1 /\ z = x + m
    BY <1>2, <2>1
  <2> QED
    BY <2>2 DEF x, g, m
<1> HIDE DEF h, cnt, m
<1>5. IsPushed(p, u, s, cnt, m, l)
  <2>1. Pushed(u, h, m) = p /\ Len(Chunks(h, m)) = l
    BY DEF m
  <2> QED
    BY <1>1, <1>2, <1>4, <2>1, PushedOf
<1> HIDE DEF p, l
<1>6. /\ p \in Uploads /\ p.processed = z /\ p.count = cnt + (IF m = 0 THEN 1 ELSE l)
      /\ Len(s) + Len(p.queue) = cnt + l
      /\ (l - 1) * BlockSize < m /\ m <= l * BlockSize /\ l \in Nat
      /\ InFlight(s, p.queue, z)
  BY <1>4, <1>5 DEF IsPushed, cnt
<1>7. /\ v \in Uploads /\ v.phase = "flushed" /\ v.processed = p.processed /\ v.count = p.count
      /\ v.queue = p.queue
  BY <1>6 DEF Uploads, Phases
<1>8. (IF m = 0 THEN 1 ELSE l) = l + Bonus(z)
  BY <1>1, <1>2, <1>4, <1>6, LastChunk
<1>9. p.count = Len(s) + Len(p.queue) + Bonus(z)
  <2>1. Bonus(z) \in Nat
    BY DEF Bonus
  <2> QED
    BY <1>2, <1>6, <1>8, <2>1
<1> HIDE DEF v
<1>10. Unfinished(v.queue)
  <2>1. z \in Nat /\ v.queue \in Seq(FileBlock)
    BY <1>7, LedgerConstants DEF Uploads
  <2> QED
    BY <1>6, <1>7, <2>1, InFlightIsData
<1>11. FileOk(v, s, z)
  BY <1>1, <1>3, <1>6, <1>7, <1>9, <1>10 DEF FileOk
<1> QED
  BY <1>7, <1>11 DEF v, p, h

LEMMA AbortOk ==
  ASSUME NEW u \in Uploads, NEW s \in Seq(FileBlock), NEW z \in 0..NoFile, FileOk(u, s, z),
         u.phase = "piping"
  PROVE  LET v == [u EXCEPT !.phase = "aborted"] IN v \in Uploads /\ FileOk(v, s, z)
<1> DEFINE v == [u EXCEPT !.phase = "aborted"]
<1>1. /\ v \in Uploads /\ v.phase = "aborted" /\ v.queue = u.queue
  BY DEF Uploads, Phases
<1> HIDE DEF v
<1>2. FileOk(v, s, z)
  BY <1>1 DEF FileOk
<1> QED
  BY <1>1, <1>2 DEF v

\* A process that starts again writes nothing, and knows nothing of what it wrote.
LEMMA RestartOk ==
  ASSUME NEW u \in Uploads, NEW s \in Seq(FileBlock), NEW z \in 0..NoFile, FileOk(u, s, z)
  PROVE  NoUpload \in Uploads /\ FileOk(NoUpload, s, z)
<1>1. NoUpload \in Uploads
  BY DEF NoUpload, Uploads, Phases
<1>2. NoUpload.phase = "none"
  BY DEF NoUpload
<1>3. u.phase \in Phases
  BY DEF Uploads
<1>4. Unfinished(s) \/ IsWhole(s, z)
  BY <1>3 DEF FileOk, Phases
<1>5. FileOk(NoUpload, s, z)
  BY <1>2, <1>4 DEF FileOk
<1> QED
  BY <1>1, <1>5

LEMMA WrittenOk ==
  ASSUME NEW u \in Uploads, NEW s \in Seq(FileBlock), NEW z \in 0..NoFile, FileOk(u, s, z),
         u.phase = "written"
  PROVE  LET v == [u EXCEPT !.phase = "done"] IN
         v \in Uploads /\ FileOk(v, s, z) /\ IsWhole(s, z) /\ u.processed = z
<1> DEFINE v == [u EXCEPT !.phase = "done"]
<1>1. /\ v \in Uploads /\ v.phase = "done" /\ v.queue = u.queue /\ v.processed = u.processed
  BY DEF Uploads, Phases
<1> HIDE DEF v
<1>2. FileOk(v, s, z)
  BY <1>1 DEF FileOk
<1> QED
  BY <1>1, <1>2 DEF v, FileOk

LEMMA InFlightMoves ==
  ASSUME NEW s \in Seq(FileBlock), NEW q \in Seq(FileBlock), NEW p \in Nat, q # <<>>,
         InFlight(s, q, p)
  PROVE  InFlight(Append(s, Head(q)), Tail(q), p)
<1> DEFINE t == Append(s, Head(q))
           r == Tail(q)
           n == Len(s) + Len(q)
<1>1. /\ Len(q) \in Nat \ {0} /\ Head(q) = q[1] /\ q[1] \in FileBlock /\ 1 \in DOMAIN q
      /\ r \in Seq(FileBlock) /\ Len(r) = Len(q) - 1
      /\ \A i \in DOMAIN r : i \in Nat /\ i + 1 \in DOMAIN q /\ r[i] = q[i + 1]
  BY TailOf
<1>2. /\ Len(t) = Len(s) + 1 /\ Len(s) \in Nat
      /\ t[Len(s) + 1] = Head(q) /\ \A i \in DOMAIN s : t[i] = s[i]
      /\ \A i \in DOMAIN t : i \in DOMAIN s \/ i = Len(s) + 1
  BY <1>1, AppendOf
<1> HIDE DEF t, r
<1>3. Len(t) + Len(r) = n
  BY <1>1, <1>2
<1>4. \A i \in DOMAIN s : s[i] = ChunkOf(i, p)
  BY DEF InFlight
<1>5. \A j \in DOMAIN q : q[j] = ChunkOf(Len(s) + j, p)
  BY DEF InFlight
<1>6. \A i \in DOMAIN t : t[i] = ChunkOf(i, p)
  BY <1>1, <1>2, <1>4, <1>5
<1>7. ASSUME NEW j \in DOMAIN r
      PROVE  r[j] = ChunkOf(Len(t) + j, p)
  <2>1. Len(s) + (j + 1) = Len(t) + j
    BY <1>1, <1>2
  <2> QED
    BY <1>1, <1>5, <2>1
<1>8. (n - 1) * BlockSize < p /\ p <= n * BlockSize
  BY DEF InFlight
<1> HIDE DEF n
<1>9. (Len(t) + Len(r) - 1) * BlockSize < p /\ p <= (Len(t) + Len(r)) * BlockSize
  BY <1>3, <1>8
<1>10. InFlight(t, r, p)
  BY <1>6, <1>7, <1>9 DEF InFlight
<1> QED
  BY <1>10 DEF t, r

LEMMA UnfinishedMoves ==
  ASSUME NEW s \in Seq(FileBlock), NEW q \in Seq(FileBlock), q # <<>>,
         Unfinished(s), Unfinished(q)
  PROVE  Unfinished(Append(s, Head(q))) /\ Unfinished(Tail(q))
<1>1. /\ Head(q) = q[1] /\ q[1] \in FileBlock /\ 1 \in DOMAIN q
      /\ \A i \in DOMAIN Tail(q) : i + 1 \in DOMAIN q /\ Tail(q)[i] = q[i + 1]
  BY TailOf
<1> DEFINE t == Append(s, Head(q))
<1>2. /\ t[Len(s) + 1] = Head(q) /\ \A i \in DOMAIN s : t[i] = s[i]
      /\ \A i \in DOMAIN t : i \in DOMAIN s \/ i = Len(s) + 1
  BY <1>1, AppendOf
<1> HIDE DEF t
<1>3. Unfinished(t) /\ Unfinished(Tail(q))
  BY <1>1, <1>2 DEF Unfinished
<1> QED
  BY <1>3 DEF t

\* The header is the last block of a whole feed, and all the others are data.
LEMMA WholeIs ==
  ASSUME NEW s \in Seq(FileBlock), NEW z, IsWhole(s, z)
  PROVE  /\ z \in 0..MaxSize /\ Len(s) \in Nat \ {0} /\ DOMAIN s = 1..Len(s)
         /\ s[Len(s)] = HeaderBlock(z, Len(s) - 1 + Bonus(z)) /\ s[Len(s)].type = "header"
         /\ \A i \in DOMAIN s : i # Len(s) => s[i].type = "data"
         /\ ~Unfinished(s)
<1>1. z \in 0..MaxSize /\ Len(s) \in Nat \ {0} /\ DOMAIN s = 1..Len(s)
  BY LenProperties, EmptySeq DEF IsWhole
<1>2. s[Len(s)] = HeaderBlock(z, Len(s) - 1 + Bonus(z)) /\ s[Len(s)].type = "header"
  BY DEF IsWhole, HeaderBlock
<1>3. \A i \in 1..(Len(s) - 1) : s[i] = ChunkOf(i, z)
  BY DEF IsWhole, IsCut
<1>4. \A i \in DOMAIN s : i # Len(s) => s[i].type = "data"
  <2> TAKE i \in DOMAIN s
  <2> HAVE i # Len(s)
  <2>1. i \in 1..(Len(s) - 1)
    BY <1>1
  <2>2. ChunkOf(i, z).type = "data"
    BY DEF ChunkOf, Data
  <2> QED
    BY <1>3, <2>1, <2>2
<1>5. ~Unfinished(s)
  BY <1>1, <1>2 DEF Unfinished
<1> QED
  BY <1>1, <1>2, <1>4, <1>5

LEMMA AppendChunkOk ==
  ASSUME NEW u \in Uploads, NEW s \in Seq(FileBlock), NEW z \in 0..NoFile, FileOk(u, s, z),
         u.queue # <<>>
  PROVE  LET v == [u EXCEPT !.queue = Tail(@)]
             t == Append(s, Head(u.queue))
         IN /\ v \in Uploads /\ t \in Seq(FileBlock) /\ Len(t) = Len(s) + 1
            /\ FileOk(v, t, z) /\ ~IsWhole(s, z) /\ z # NoFile
<1> DEFINE v == [u EXCEPT !.queue = Tail(@)]
           t == Append(s, Head(u.queue))
           q == u.queue
<1>1. q \in Seq(FileBlock) /\ u.phase \in Phases
  BY DEF Uploads
<1>2. /\ Tail(q) \in Seq(FileBlock) /\ Head(q) \in FileBlock
      /\ Len(Tail(q)) = Len(q) - 1 /\ Len(q) \in Nat \ {0}
  BY <1>1, TailOf
<1>3. t \in Seq(FileBlock) /\ Len(t) = Len(s) + 1 /\ Len(s) \in Nat
  BY <1>2, AppendOf
<1>4. /\ v \in Uploads /\ v.phase = u.phase /\ v.given = u.given /\ v.pending = u.pending
      /\ v.processed = u.processed /\ v.count = u.count /\ v.queue = Tail(q)
  BY <1>2 DEF Uploads
<1> HIDE DEF v, t
<1>5. u.phase \in {"piping", "flushed", "aborted"}
  <2>1. NoUpload.queue = <<>>
    BY DEF NoUpload
  <2> QED
    BY <1>1, <2>1 DEF FileOk, Phases
<1>6. z # NoFile /\ Unfinished(s) /\ Unfinished(q)
  BY <1>5 DEF FileOk
<1>7. z \in Nat /\ u.processed \in Nat
  BY LedgerConstants DEF NoFile, Uploads
<1>8. Unfinished(t) /\ Unfinished(Tail(q))
  BY <1>1, <1>6, UnfinishedMoves DEF t
<1>9. \A p \in Nat : InFlight(s, q, p) => InFlight(t, Tail(q), p)
  BY <1>1, InFlightMoves DEF t
<1>10. Len(t) + Len(v.queue) = Len(s) + Len(q)
  <2> DEFINE a == Len(s)
             b == Len(q)
             c == Len(t)
             d == Len(v.queue)
  <2>1. a \in Nat /\ b \in Nat /\ c = a + 1 /\ d = b - 1
    BY <1>2, <1>3, <1>4
  <2> HIDE DEF a, b, c, d
  <2>2. c + d = a + b
    BY <2>1
  <2> QED
    BY <2>2 DEF a, b, c, d
<1>11. FileOk(v, t, z)
  <2>1. u.phase = "piping" =>
       /\ u.given = u.processed + u.pending /\ u.pending < BlockSize
       /\ u.count = Len(s) + Len(q) /\ u.processed = u.count * BlockSize
       /\ InFlight(s, q, u.processed)
    BY DEF FileOk
  <2>2. u.phase = "flushed" =>
       /\ u.processed = z /\ u.count = Len(s) + Len(q) + Bonus(z)
       /\ InFlight(s, q, z)
    BY DEF FileOk
  <2> QED
    BY <1>4, <1>5, <1>6, <1>7, <1>8, <1>9, <1>10, <2>1, <2>2 DEF FileOk
<1>12. ~IsWhole(s, z)
  BY <1>6, WholeIs
<1> QED
  BY <1>3, <1>4, <1>6, <1>11, <1>12 DEF v, t

LEMMA AppendHeaderOk ==
  ASSUME NEW u \in Uploads, NEW s \in Seq(FileBlock), NEW z \in 0..NoFile, FileOk(u, s, z),
         HasFinished(u)
  PROVE  LET v == [u EXCEPT !.phase = "written"]
             t == Append(s, HeaderBlock(u.processed, u.count))
         IN /\ v \in Uploads /\ t \in Seq(FileBlock) /\ Len(t) = Len(s) + 1
            /\ FileOk(v, t, z) /\ ~IsWhole(s, z) /\ z # NoFile
<1> DEFINE v == [u EXCEPT !.phase = "written"]
           x == HeaderBlock(u.processed, u.count)
           t == Append(s, x)
<1>1. u.phase = "flushed" /\ u.queue = <<>>
  BY DEF HasFinished
<1>2. /\ z # NoFile /\ Unfinished(s) /\ u.processed = z /\ u.count = Len(s) + Len(u.queue) + Bonus(z)
      /\ InFlight(s, u.queue, z)
  BY <1>1 DEF FileOk
<1>3. z \in 0..MaxSize
  BY <1>2, LedgerConstants DEF NoFile
<1>4. x \in FileBlock
  BY DEF HeaderBlock, FileBlock, Uploads
<1>5. /\ t \in Seq(FileBlock) /\ Len(t) = Len(s) + 1 /\ Len(s) \in Nat /\ DOMAIN s = 1..Len(s)
      /\ DOMAIN t = 1..(Len(s) + 1) /\ t[Len(s) + 1] = x
      /\ \A i \in DOMAIN s : t[i] = s[i]
  BY <1>4, AppendOf
<1>6. /\ v \in Uploads /\ v.phase = "written" /\ v.processed = z /\ v.queue = <<>>
  BY <1>1, <1>2 DEF Uploads, Phases
<1>7. x = HeaderBlock(z, Len(s) + Bonus(z))
  <2>1. Len(<<>>) = 0 /\ Bonus(z) \in Nat
    BY DEF Bonus
  <2>2. Len(s) + Len(u.queue) + Bonus(z) = Len(s) + Bonus(z)
    BY <1>1, <1>5, <2>1
  <2> QED
    BY <1>2, <2>2
<1> HIDE DEF v, t, x
<1>8. IsWhole(t, z)
  <2>1. Len(t) - 1 = Len(s) /\ t # <<>>
    BY <1>5
  <2>2. /\ (Len(s) + 0 - 1) * BlockSize < z /\ z <= (Len(s) + 0) * BlockSize
        /\ \A i \in DOMAIN s : s[i] = ChunkOf(i, z)
    <3>1. Len(u.queue) = 0
      BY <1>1
    <3> QED
      BY <1>2, <3>1 DEF InFlight
  <2>3. Len(s) + 0 - 1 = Len(s) - 1 /\ Len(s) + 0 = Len(s)
    BY <1>5
  <2>4. (Len(s) - 1) * BlockSize < z /\ z <= Len(s) * BlockSize
    BY <2>2, <2>3
  <2>5. \A i \in 1..Len(s) : t[i] = ChunkOf(i, z)
    BY <1>5, <2>2
  <2>6. IsCut(t, Len(s), z)
    BY <2>4, <2>5 DEF IsCut
  <2>7. t[Len(t)] = HeaderBlock(z, Len(s) + Bonus(z))
    BY <1>5, <1>7
  <2> DEFINE k == Len(t) - 1
  <2>8. k = Len(s)
    BY <2>1
  <2>9. IsCut(t, k, z) /\ t[Len(t)] = HeaderBlock(z, k + Bonus(z))
    BY <2>6, <2>7, <2>8
  <2> QED
    BY <1>3, <2>1, <2>9 DEF IsWhole
<1>9. FileOk(v, t, z)
  BY <1>2, <1>6, <1>8 DEF FileOk
<1>10. ~IsWhole(s, z)
  BY <1>2, WholeIs
<1> QED
  BY <1>2, <1>5, <1>6, <1>9, <1>10 DEF v, t, x

-----------------------------------------------------------------------------
(* FilesInv is preserved, and what is whole stays as it is *)

\* The size of a file is settled by its POST, and nothing comes after a header.
SteadyFile(u, u2, s, s2, z, z2, v, v2) ==
  /\ z # NoFile => z2 = z
  /\ IsWhole(s, z) =>
       /\ s2 = s
       /\ v = Len(s) => v2 = v
       /\ u.phase \in {"none", "done"} => u2.phase \in {"none", "done"}

Steady ==
  \A f \in Files : SteadyFile(upload[f], upload'[f], feed[f], feed'[f], size[f], size'[f],
                              seen[f], seen'[f])

OneFile(f, u, s, z, v) ==
  /\ upload' = [upload EXCEPT ![f] = u] /\ feed' = [feed EXCEPT ![f] = s]
  /\ size' = [size EXCEPT ![f] = z] /\ seen' = [seen EXCEPT ![f] = v]

LEMMA OneFileChanges ==
  ASSUME FilesInv, NEW f \in Files, NEW u \in Uploads, NEW s \in Seq(FileBlock),
         NEW z \in 0..NoFile, NEW v \in Nat, v <= Len(s), FileOk(u, s, z),
         SteadyFile(upload[f], u, feed[f], s, size[f], z, seen[f], v), OneFile(f, u, s, z, v)
  PROVE  FilesInv' /\ Steady
<1>1. /\ upload \in [Files -> Uploads] /\ feed \in [Files -> Seq(FileBlock)]
      /\ size \in [Files -> 0..NoFile] /\ seen \in [Files -> Nat]
      /\ \A g \in Files : FileOk(upload[g], feed[g], size[g]) /\ seen[g] <= Len(feed[g])
  BY DEF FilesInv
<1>2. /\ upload' \in [Files -> Uploads] /\ upload'[f] = u /\ \A g \in Files : g # f => upload'[g] = upload[g]
      /\ feed' \in [Files -> Seq(FileBlock)] /\ feed'[f] = s /\ \A g \in Files : g # f => feed'[g] = feed[g]
  BY <1>1 DEF OneFile
<1>3. /\ size' \in [Files -> 0..NoFile] /\ size'[f] = z /\ \A g \in Files : g # f => size'[g] = size[g]
      /\ seen' \in [Files -> Nat] /\ seen'[f] = v /\ \A g \in Files : g # f => seen'[g] = seen[g]
  BY <1>1 DEF OneFile
<1>4. \A g \in Files : FileOk(upload'[g], feed'[g], size'[g]) /\ seen'[g] <= Len(feed'[g])
  BY <1>1, <1>2, <1>3
<1>5. Steady
  <2> SUFFICES ASSUME NEW g \in Files
               PROVE  SteadyFile(upload[g], upload'[g], feed[g], feed'[g], size[g], size'[g],
                                 seen[g], seen'[g])
    BY DEF Steady
  <2>1. CASE g = f
    BY <1>2, <1>3, <2>1
  <2>2. CASE g # f
    BY <1>2, <1>3, <2>2 DEF SteadyFile
  <2> QED
    BY <2>1, <2>2
<1> QED
  BY <1>2, <1>3, <1>4, <1>5 DEF FilesInv

LEMMA FilesAre ==
  ASSUME FilesInv, NEW f \in Files
  PROVE  /\ upload[f] \in Uploads /\ feed[f] \in Seq(FileBlock) /\ size[f] \in 0..NoFile
         /\ seen[f] \in Nat /\ FileOk(upload[f], feed[f], size[f])
         /\ seen[f] <= Len(feed[f]) /\ Len(feed[f]) \in Nat
         /\ \A g : upload = [upload EXCEPT ![g] = upload[g]] /\ feed = [feed EXCEPT ![g] = feed[g]]
         /\ \A g : size = [size EXCEPT ![g] = size[g]] /\ seen = [seen EXCEPT ![g] = seen[g]]
<1>1. upload[f] \in Uploads /\ feed[f] \in Seq(FileBlock) /\ size[f] \in 0..NoFile /\ seen[f] \in Nat
  BY DEF FilesInv
<1>2. Len(feed[f]) \in Nat
  BY <1>1, LenProperties
<1>3. FileOk(upload[f], feed[f], size[f]) /\ seen[f] <= Len(feed[f])
  BY DEF FilesInv
<1>4. \A g : upload = [upload EXCEPT ![g] = upload[g]] /\ feed = [feed EXCEPT ![g] = feed[g]]
  BY DEF FilesInv
<1>5. \A g : size = [size EXCEPT ![g] = size[g]] /\ seen = [seen EXCEPT ![g] = seen[g]]
  BY DEF FilesInv
<1> QED
  BY <1>1, <1>2, <1>3, <1>4, <1>5

LEMMA PostFiles ==
  ASSUME FilesInv, NEW f \in Files, NEW n \in 0..MaxSize, Post(f, n)
  PROVE  FilesInv' /\ Steady
<1> DEFINE v == [upload[f] EXCEPT !.phase = "piping"]
<1>1. size[f] = NoFile /\ size' = [size EXCEPT ![f] = n]
  BY DEF Post
<1>2. v \in Uploads /\ FileOk(v, feed[f], n)
  BY <1>1, FilesAre, PostOk
<1>3. upload' = [upload EXCEPT ![f] = v]
  BY DEF Post
<1> HIDE DEF v
<1>4. OneFile(f, v, feed[f], n, seen[f])
  BY <1>1, <1>3, FilesAre DEF OneFile, Post
<1>5. SteadyFile(upload[f], v, feed[f], feed[f], size[f], n, seen[f], seen[f])
  <2>1. ~IsWhole(feed[f], size[f])
    BY <1>1, LedgerConstants DEF IsWhole, NoFile
  <2> QED
    BY <1>1, <2>1 DEF SteadyFile
<1>6. n \in 0..NoFile
  BY LedgerConstants DEF NoFile
<1> QED
  BY <1>2, <1>4, <1>5, <1>6, FilesAre, OneFileChanges

\* A step that changes the upload alone.
LEMMA UploadFiles ==
  ASSUME FilesInv, NEW f \in Files, NEW v \in Uploads, FileOk(v, feed[f], size[f]),
         upload' = [upload EXCEPT ![f] = v], UNCHANGED <<feed, size, seen>>,
         IsWhole(feed[f], size[f]) => v.phase \in {"none", "done"} \/ upload[f].phase \notin {"none", "done"}
  PROVE  FilesInv' /\ Steady
<1>1. OneFile(f, v, feed[f], size[f], seen[f])
  BY FilesAre DEF OneFile
<1>2. SteadyFile(upload[f], v, feed[f], feed[f], size[f], size[f], seen[f], seen[f])
  BY DEF SteadyFile
<1> QED
  BY <1>1, <1>2, FilesAre, OneFileChanges

LEMMA Piping ==
  ASSUME FilesInv, NEW f \in Files, upload[f].phase = "piping"
  PROVE  size[f] \in 0..MaxSize /\ upload[f].phase \notin {"none", "done"}
<1>1. size[f] # NoFile
  BY FilesAre DEF FileOk
<1> QED
  BY <1>1, FilesAre, LedgerConstants DEF NoFile

LEMMA TransformFiles ==
  ASSUME FilesInv, NEW f \in Files, NEW k \in 1..MaxPiece, Transform(f, k)
  PROVE  FilesInv' /\ Steady
<1> DEFINE u == upload[f]
           n == u.pending + k
           kept == [u EXCEPT !.given = @ + k, !.pending = Rest(n)]
           h == kept.given - n + 1
           v == IF n < BlockSize THEN kept ELSE Pushed(kept, h, n - (n % BlockSize))
<1>1. u.phase = "piping" /\ upload' = [upload EXCEPT ![f] = v] /\ UNCHANGED <<feed, size, seen>>
  BY DEF Transform
<1>2. k \in Nat
  BY FileConstants
<1>3. v \in Uploads /\ FileOk(v, feed[f], size[f])
  BY <1>1, <1>2, FilesAre, Piping, TransformOk
<1> HIDE DEF v
<1> QED
  BY <1>1, <1>3, Piping, UploadFiles

LEMMA FlushFiles ==
  ASSUME FilesInv, NEW f \in Files, Flush(f)
  PROVE  FilesInv' /\ Steady
<1> DEFINE u == upload[f]
           v == [Pushed(u, u.given - u.pending + 1, u.pending) EXCEPT !.pending = 0, !.phase = "flushed"]
<1>1. /\ u.phase = "piping" /\ u.given = size[f]
      /\ upload' = [upload EXCEPT ![f] = v] /\ UNCHANGED <<feed, size, seen>>
  BY DEF Flush
<1>2. v \in Uploads /\ FileOk(v, feed[f], size[f])
  BY <1>1, FilesAre, Piping, FlushOk
<1> HIDE DEF v
<1> QED
  BY <1>1, <1>2, Piping, UploadFiles

LEMMA AbortFiles ==
  ASSUME FilesInv, NEW f \in Files, Abort(f)
  PROVE  FilesInv' /\ Steady
<1> DEFINE v == [upload[f] EXCEPT !.phase = "aborted"]
<1>1. upload[f].phase = "piping" /\ upload' = [upload EXCEPT ![f] = v] /\ UNCHANGED <<feed, size, seen>>
  BY DEF Abort
<1>2. v \in Uploads /\ FileOk(v, feed[f], size[f])
  BY <1>1, FilesAre, AbortOk
<1> HIDE DEF v
<1> QED
  BY <1>1, <1>2, Piping, UploadFiles

LEMMA WrittenFiles ==
  ASSUME FilesInv, NEW f \in Files, Written(f)
  PROVE  FilesInv' /\ Steady /\ IsWhole(feed[f], size[f]) /\ upload[f].processed = size[f]
<1> DEFINE v == [upload[f] EXCEPT !.phase = "done"]
<1>1. upload[f].phase = "written" /\ upload' = [upload EXCEPT ![f] = v] /\ UNCHANGED <<feed, size, seen>>
  BY DEF Written, IsWritten
<1>2. /\ v \in Uploads /\ FileOk(v, feed[f], size[f])
      /\ IsWhole(feed[f], size[f]) /\ upload[f].processed = size[f]
  BY <1>1, FilesAre, WrittenOk
<1> HIDE DEF v
<1> QED
  BY <1>1, <1>2, UploadFiles

LEMMA AppendChunkFiles ==
  ASSUME FilesInv, NEW f \in Files, AppendChunk(f)
  PROVE  FilesInv' /\ Steady
<1> DEFINE v == [upload[f] EXCEPT !.queue = Tail(@)]
           t == Append(feed[f], Head(upload[f].queue))
<1>1. /\ upload[f].queue # <<>> /\ upload' = [upload EXCEPT ![f] = v] /\ feed' = [feed EXCEPT ![f] = t]
      /\ UNCHANGED <<size, seen>>
  BY DEF AppendChunk
<1>2. /\ v \in Uploads /\ t \in Seq(FileBlock) /\ Len(t) = Len(feed[f]) + 1
      /\ FileOk(v, t, size[f]) /\ ~IsWhole(feed[f], size[f])
  BY <1>1, FilesAre, AppendChunkOk
<1> HIDE DEF v, t
<1>3. OneFile(f, v, t, size[f], seen[f]) /\ seen[f] <= Len(t)
  BY <1>1, <1>2, FilesAre DEF OneFile
<1>4. SteadyFile(upload[f], v, feed[f], t, size[f], size[f], seen[f], seen[f])
  BY <1>2 DEF SteadyFile
<1> QED
  BY <1>2, <1>3, <1>4, FilesAre, OneFileChanges

LEMMA AppendHeaderFiles ==
  ASSUME FilesInv, NEW f \in Files, AppendHeader(f)
  PROVE  FilesInv' /\ Steady
<1> DEFINE v == [upload[f] EXCEPT !.phase = "written"]
           t == Append(feed[f], HeaderBlock(upload[f].processed, upload[f].count))
<1>1. /\ HasFinished(upload[f]) /\ upload' = [upload EXCEPT ![f] = v] /\ feed' = [feed EXCEPT ![f] = t]
      /\ UNCHANGED <<size, seen>>
  BY DEF AppendHeader
<1>2. /\ v \in Uploads /\ t \in Seq(FileBlock) /\ Len(t) = Len(feed[f]) + 1
      /\ FileOk(v, t, size[f]) /\ ~IsWhole(feed[f], size[f])
  BY <1>1, FilesAre, AppendHeaderOk
<1> HIDE DEF v, t
<1>3. OneFile(f, v, t, size[f], seen[f]) /\ seen[f] <= Len(t)
  BY <1>1, <1>2, FilesAre DEF OneFile
<1>4. SteadyFile(upload[f], v, feed[f], t, size[f], size[f], seen[f], seen[f])
  BY <1>2 DEF SteadyFile
<1> QED
  BY <1>2, <1>3, <1>4, FilesAre, OneFileChanges

LEMMA ReplicateFiles ==
  ASSUME FilesInv, NEW f \in Files, Replicate(f)
  PROVE  FilesInv' /\ Steady
<1>1. seen[f] < Len(feed[f]) /\ seen' = [seen EXCEPT ![f] = seen[f] + 1] /\ UNCHANGED <<upload, feed, size>>
  BY DEF Replicate
<1>2. OneFile(f, upload[f], feed[f], size[f], seen[f] + 1)
  BY <1>1, FilesAre DEF OneFile
<1>3. seen[f] + 1 \in Nat /\ seen[f] + 1 <= Len(feed[f]) /\ seen[f] # Len(feed[f])
  BY <1>1, FilesAre
<1>4. SteadyFile(upload[f], upload[f], feed[f], feed[f], size[f], size[f], seen[f], seen[f] + 1)
  BY <1>3 DEF SteadyFile
<1> QED
  BY <1>2, <1>3, <1>4, FilesAre, OneFileChanges

LEMMA RestartFiles ==
  ASSUME FilesInv, Restart
  PROVE  FilesInv' /\ Steady
<1>1. upload' = [f \in Files |-> NoUpload] /\ UNCHANGED <<feed, size, seen>>
  BY DEF Restart
<1>2. \A f \in Files : NoUpload \in Uploads /\ FileOk(NoUpload, feed[f], size[f])
  BY FilesAre, RestartOk
<1>3. /\ upload' \in [Files -> Uploads]
      /\ \A f \in Files : upload'[f] = NoUpload /\ FileOk(upload'[f], feed'[f], size'[f])
  <2>1. \A f \in Files : upload'[f] = NoUpload
    BY <1>1
  <2>2. upload' \in [Files -> Uploads]
    BY <1>1, <1>2
  <2> QED
    BY <1>1, <1>2, <2>1, <2>2
<1>4. FilesInv'
  BY <1>1, <1>3 DEF FilesInv
<1>5. NoUpload.phase = "none"
  BY DEF NoUpload
<1>6. Steady
  BY <1>1, <1>3, <1>5 DEF Steady, SteadyFile
<1> QED
  BY <1>4, <1>6

LEMMA SameFiles ==
  ASSUME FilesInv, UNCHANGED <<upload, feed, size, seen>>
  PROVE  FilesInv' /\ Steady
BY DEF FilesInv, Steady, SteadyFile

-----------------------------------------------------------------------------
(* RequestsInv is preserved *)

LEMMA RequestStays ==
  ASSUME NEW q, NEW u, NEW u2, NEW s, NEW s2, NEW z, NEW z2, NEW v, NEW v2,
         RequestOk(q, s, z, v), SteadyFile(u, u2, s, s2, z, z2, v, v2)
  PROVE  RequestOk(q, s2, z2, v2)
<1>1. ASSUME q.phase = "stream"
      PROVE  IsWhole(s2, z2) /\ v2 = Len(s2) /\ q.size = z2 /\ q.blocks = Len(s2) - 1 + Bonus(z2)
  <2>1. IsWhole(s, z) /\ v = Len(s) /\ q.size = z /\ q.blocks = Len(s) - 1 + Bonus(z)
    BY <1>1 DEF RequestOk
  <2>2. z # NoFile
    BY <2>1, LedgerConstants DEF NoFile, IsWhole
  <2> QED
    BY <2>1, <2>2 DEF SteadyFile
<1>2. ASSUME q.phase = "done"
      PROVE  /\ z2 \in 0..MaxSize /\ q.size = z2 /\ q.blocks = Len(q.body) + Bonus(z2)
             /\ IsCut(q.body, Len(q.body), z2)
  <2>1. /\ z \in 0..MaxSize /\ q.size = z /\ q.blocks = Len(q.body) + Bonus(z)
        /\ IsCut(q.body, Len(q.body), z)
    BY <1>2 DEF RequestOk
  <2>2. z # NoFile
    BY <2>1, LedgerConstants DEF NoFile
  <2>3. z2 = z
    BY <2>2 DEF SteadyFile
  <2> QED
    BY <2>1, <2>3
<1> QED
  BY <1>1, <1>2 DEF RequestOk

LEMMA RequestsStay ==
  ASSUME RequestsInv, Steady, reader' = reader
  PROVE  RequestsInv'
<1>1. reader \in [Readers -> Requests]
  BY DEF RequestsInv
<1>2. ASSUME NEW r \in Readers, reader[r].phase # "none"
      PROVE  /\ reader[r].file \in Files
             /\ RequestOk(reader[r], feed'[reader[r].file], size'[reader[r].file], seen'[reader[r].file])
  <2> DEFINE f == reader[r].file
  <2>1. f \in Files /\ RequestOk(reader[r], feed[f], size[f], seen[f])
    BY <1>2 DEF RequestsInv
  <2>2. SteadyFile(upload[f], upload'[f], feed[f], feed'[f], size[f], size'[f], seen[f], seen'[f])
    BY <2>1 DEF Steady
  <2> HIDE DEF f
  <2>3. RequestOk(reader[r], feed'[f], size'[f], seen'[f])
    BY <2>1, <2>2, RequestStays
  <2> QED
    BY <2>1, <2>3 DEF f
<1> QED
  BY <1>1, <1>2 DEF RequestsInv

\* A step of one request.
LEMMA OneRequest ==
  ASSUME RequestsInv, NEW r \in Readers, NEW q \in Requests, reader' = [reader EXCEPT ![r] = q],
         q.phase # "none" => q.file \in Files /\ RequestOk(q, feed[q.file], size[q.file], seen[q.file]),
         UNCHANGED <<feed, size, seen>>
  PROVE  RequestsInv'
<1>1. /\ reader' \in [Readers -> Requests] /\ reader'[r] = q
      /\ \A o \in Readers : o # r => reader'[o] = reader[o]
  BY DEF RequestsInv
<1>2. ASSUME NEW o \in Readers, reader'[o].phase # "none"
      PROVE  /\ reader'[o].file \in Files
             /\ RequestOk(reader'[o], feed'[reader'[o].file], size'[reader'[o].file], seen'[reader'[o].file])
  <2>1. CASE o = r
    BY <1>1, <1>2, <2>1
  <2>2. CASE o # r
    <3>1. /\ reader[o].file \in Files
          /\ RequestOk(reader[o], feed[reader[o].file], size[reader[o].file], seen[reader[o].file])
      BY <1>1, <1>2, <2>2 DEF RequestsInv
    <3> QED
      BY <1>1, <2>2, <3>1
  <2> QED
    BY <2>1, <2>2
<1> QED
  BY <1>1, <1>2 DEF RequestsInv

LEMMA GetRequest ==
  ASSUME RequestsInv, NEW r \in Readers, NEW f \in Files, Get(r, f)
  PROVE  RequestsInv'
<1> DEFINE q == [reader[r] EXCEPT !.phase = "header", !.file = f]
<1>1. reader[r] \in Requests
  BY DEF RequestsInv
<1>2. q \in Requests /\ q.phase = "header" /\ q.file = f
  BY <1>1 DEF Requests, AnyFile
<1>3. reader' = [reader EXCEPT ![r] = q] /\ UNCHANGED <<feed, size, seen>>
  BY DEF Get
<1> HIDE DEF q
<1>4. RequestOk(q, feed[f], size[f], seen[f])
  BY <1>2 DEF RequestOk
<1> QED
  BY <1>2, <1>3, <1>4, OneRequest

LEMMA SendHeadersRequest ==
  ASSUME FilesInv, RequestsInv, NEW r \in Readers, SendHeaders(r)
  PROVE  RequestsInv'
<1> DEFINE f == reader[r].file
           z == size[f]
           head == feed[f][seen[f]]
           sent == [reader[r] EXCEPT !.phase = "stream", !.size = head.size, !.blocks = head.blocks]
           failed == [reader[r] EXCEPT !.phase = "failed"]
<1>1. reader[r] \in Requests /\ f \in Files /\ seen[f] > 0 /\ UNCHANGED <<feed, size, seen>>
  BY DEF RequestsInv, SendHeaders
<1>2. /\ feed[f] \in Seq(FileBlock) /\ seen[f] \in Nat /\ seen[f] <= Len(feed[f])
      /\ FileOk(upload[f], feed[f], z) /\ upload[f].phase \in Phases
  BY <1>1, FilesAre DEF Uploads
<1>3. seen[f] \in DOMAIN feed[f] /\ head \in FileBlock
  <2>1. DOMAIN feed[f] = 1..Len(feed[f]) /\ Len(feed[f]) \in Nat /\ \A i \in DOMAIN feed[f] : feed[f][i] \in FileBlock
    BY <1>2, LenProperties
  <2> QED
    BY <1>1, <1>2, <2>1
<1>4. CASE head.type = "header"
  <2>1. reader' = [reader EXCEPT ![r] = sent]
    BY <1>4 DEF SendHeaders
  <2>2. /\ sent \in Requests /\ sent.phase = "stream" /\ sent.file = f
        /\ sent.size = head.size /\ sent.blocks = head.blocks
    BY <1>1, <1>3 DEF Requests, FileBlock
  <2>3. ~Unfinished(feed[f])
    BY <1>3, <1>4 DEF Unfinished
  <2>4. IsWhole(feed[f], z)
    BY <1>2, <2>3 DEF FileOk, Phases
  <2>5. seen[f] = Len(feed[f]) /\ head = HeaderBlock(z, Len(feed[f]) - 1 + Bonus(z))
    BY <1>2, <1>3, <1>4, <2>4, WholeIs
  <2>6. head.size = z /\ head.blocks = Len(feed[f]) - 1 + Bonus(z)
    BY <2>5 DEF HeaderBlock
  <2> HIDE DEF sent, head, z
  <2>7. RequestOk(sent, feed[f], z, seen[f])
    BY <2>2, <2>4, <2>5, <2>6 DEF RequestOk
  <2> HIDE DEF f
  <2>8. RequestOk(sent, feed[sent.file], size[sent.file], seen[sent.file])
    BY <2>2, <2>7 DEF z
  <2> QED
    BY <1>1, <2>1, <2>2, <2>8, OneRequest
<1>5. CASE head.type # "header"
  <2>1. reader' = [reader EXCEPT ![r] = failed]
    BY <1>5 DEF SendHeaders
  <2>2. failed \in Requests /\ failed.phase = "failed" /\ failed.file = f
    BY <1>1 DEF Requests
  <2> HIDE DEF failed, head, z, f
  <2>3. RequestOk(failed, feed[failed.file], size[failed.file], seen[failed.file])
    BY <2>2 DEF RequestOk
  <2> QED
    BY <1>1, <2>1, <2>2, <2>3, OneRequest
<1> QED
  BY <1>4, <1>5

LEMMA StreamRequest ==
  ASSUME FilesInv, RequestsInv, NEW r \in Readers, Stream(r)
  PROVE  RequestsInv'
<1> DEFINE f == reader[r].file
           z == size[f]
           s == feed[f]
           b == Body(f)
           q == [reader[r] EXCEPT !.phase = "done", !.body = b]
<1>1. /\ reader[r] \in Requests /\ f \in Files /\ reader[r].phase = "stream"
      /\ RequestOk(reader[r], s, z, seen[f]) /\ UNCHANGED <<feed, size, seen>>
      /\ reader' = [reader EXCEPT ![r] = q]
  BY DEF RequestsInv, Stream
<1>2. /\ IsWhole(s, z) /\ seen[f] = Len(s) /\ reader[r].size = z /\ reader[r].blocks = Len(s) - 1 + Bonus(z)
  BY <1>1 DEF RequestOk
<1>3. s \in Seq(FileBlock)
  BY <1>1, FilesAre
<1>4. Len(s) \in Nat \ {0} /\ z \in 0..MaxSize
  BY <1>2, <1>3, WholeIs
<1> DEFINE k == Len(s) - 1
<1>5. b = SubSeq(s, 1, k)
  BY <1>2 DEF Body
<1>6. k \in Nat /\ b \in Seq(FileBlock) /\ Len(b) = k /\ \A i \in 1..k : b[i] = s[i]
  <2>1. k \in Nat /\ k = Len(s) - 1 /\ Len(s) \in Nat
    BY <1>4
  <2> HIDE DEF k, b, s
  <2>2. \A i \in 1..k : i \in 1..Len(s) /\ 1 + i - 1 = i
    BY <2>1
  <2>3. \A i \in 1..k : s[i] \in FileBlock
    BY <1>3, <2>1, <2>2, LenProperties
  <2>4. /\ Len(SubSeq(s, 1, k)) = k /\ SubSeq(s, 1, k) \in Seq(FileBlock)
        /\ \A i \in 1..k : SubSeq(s, 1, k)[i] = s[i]
    BY <1>3, <2>1, <2>2, <2>3
  <2> QED
    BY <1>5, <2>1, <2>4
<1>7. IsCut(b, k, z)
  BY <1>2, <1>6 DEF IsWhole, IsCut
<1>8. /\ q \in Requests /\ q.phase = "done" /\ q.file = f /\ q.size = z /\ q.blocks = k + Bonus(z)
      /\ q.body = b
  BY <1>1, <1>2, <1>6 DEF Requests
<1> HIDE DEF q, b, k, z
<1>9. RequestOk(q, s, z, seen[f])
  BY <1>4, <1>6, <1>7, <1>8 DEF RequestOk
<1> HIDE DEF f
<1>10. RequestOk(q, feed[q.file], size[q.file], seen[q.file])
  BY <1>8, <1>9 DEF z
<1> QED
  BY <1>1, <1>8, <1>10, OneRequest

-----------------------------------------------------------------------------
(* Sequences of entries with an id *)

LEMMA AppendIds ==
  ASSUME NEW S, NEW s \in Seq(S), NEW x \in S
  PROVE  /\ ToSet(Append(s, x)) = ToSet(s) \cup {x}
         /\ IdsOf(Append(s, x)) = IdsOf(s) \cup {x.id}
         /\ Distinct(s) /\ x.id \notin IdsOf(s) => Distinct(Append(s, x))
<1> DEFINE t == Append(s, x)
           n == Len(s) + 1
<1>1. /\ n \in DOMAIN t /\ t[n] = x /\ n \notin DOMAIN s
      /\ \A i \in DOMAIN s : i \in DOMAIN t /\ t[i] = s[i]
      /\ \A i \in DOMAIN t : i \in DOMAIN s \/ i = n
  BY AppendOf
<1> HIDE DEF t, n
<1>2. ToSet(t) = ToSet(s) \cup {x}
  BY <1>1 DEF ToSet
<1>3. IdsOf(t) = IdsOf(s) \cup {x.id}
  BY <1>1 DEF IdsOf
<1>4. Distinct(s) /\ x.id \notin IdsOf(s) => Distinct(t)
  BY <1>1 DEF Distinct, IdsOf
<1> QED
  BY <1>2, <1>3, <1>4 DEF t

LEMMA TailIds ==
  ASSUME NEW S, NEW s \in Seq(S), s # <<>>
  PROVE  /\ ToSet(s) = ToSet(Tail(s)) \cup {Head(s)} /\ Head(s) \in S
         /\ IdsOf(s) = IdsOf(Tail(s)) \cup {Head(s).id}
         /\ Distinct(s) => Distinct(Tail(s)) /\ Head(s).id \notin IdsOf(Tail(s))
<1> DEFINE t == Tail(s)
           h == Head(s)
<1>1. /\ h = s[1] /\ s[1] \in S /\ 1 \in DOMAIN s
      /\ \A i \in DOMAIN t : i \in Nat /\ i # 0 /\ i + 1 \in DOMAIN s /\ t[i] = s[i + 1]
      /\ \A i \in DOMAIN s : i # 1 => i - 1 \in DOMAIN t /\ t[i - 1] = s[i]
  BY TailOf
<1> HIDE DEF t, h
<1>2. ToSet(s) = ToSet(t) \cup {h}
  BY <1>1 DEF ToSet
<1>3. IdsOf(s) = IdsOf(t) \cup {h.id}
  BY <1>1 DEF IdsOf
<1>4. ASSUME Distinct(s)
      PROVE  Distinct(t) /\ h.id \notin IdsOf(t)
  <2>1. Distinct(t)
    <3> SUFFICES ASSUME NEW i \in DOMAIN t, NEW j \in DOMAIN t, t[i].id = t[j].id
                 PROVE  i = j
      BY DEF Distinct
    <3>1. i + 1 = j + 1
      BY <1>1, <1>4 DEF Distinct
    <3> QED
      BY <1>1, <3>1
  <2>2. ASSUME NEW i \in DOMAIN t, t[i].id = h.id
        PROVE  FALSE
    <3>1. i + 1 = 1
      BY <1>1, <1>4, <2>2 DEF Distinct
    <3> QED
      BY <1>1, <3>1
  <2> QED
    BY <2>1, <2>2 DEF IdsOf
<1> QED
  BY <1>1, <1>2, <1>3, <1>4 DEF t, h

LEMMA ConcatIds ==
  ASSUME NEW S, NEW s \in Seq(S), NEW r \in Seq(S)
  PROVE  /\ ToSet(s \o r) = ToSet(s) \cup ToSet(r)
         /\ IdsOf(s \o r) = IdsOf(s) \cup IdsOf(r)
         /\ Distinct(s) /\ Distinct(r) /\ IdsOf(s) \cap IdsOf(r) = {} => Distinct(s \o r)
<1> DEFINE t == s \o r
           n == Len(s)
<1>1. /\ \A i \in DOMAIN s : i \in DOMAIN t /\ t[i] = s[i]
      /\ \A j \in DOMAIN r : n + j \in DOMAIN t /\ t[n + j] = r[j]
      /\ \A i \in DOMAIN t :
           \/ i \in DOMAIN s /\ t[i] = s[i]
           \/ i - n \in DOMAIN r /\ t[i] = r[i - n]
      /\ n \in Nat /\ DOMAIN t = 1..(n + Len(r)) /\ Len(r) \in Nat
  BY ConcatOf
<1> HIDE DEF t, n
<1>2. ToSet(t) = ToSet(s) \cup ToSet(r)
  BY <1>1 DEF ToSet
<1>3. IdsOf(t) = IdsOf(s) \cup IdsOf(r)
  <2>1. \A q : IdsOf(q) = SetIds(ToSet(q))
    BY DEF IdsOf, SetIds, ToSet
  <2>2. SetIds(ToSet(s) \cup ToSet(r)) = SetIds(ToSet(s)) \cup SetIds(ToSet(r))
    BY DEF SetIds
  <2> QED
    BY <1>2, <2>1, <2>2
<1>4. ASSUME Distinct(s), Distinct(r), IdsOf(s) \cap IdsOf(r) = {}
      PROVE  Distinct(t)
  <2> SUFFICES ASSUME NEW i \in DOMAIN t, NEW j \in DOMAIN t, t[i].id = t[j].id
               PROVE  i = j
    BY DEF Distinct
  <2>1. i \in Int /\ j \in Int
    BY <1>1
  <2>2. CASE i \in DOMAIN s /\ t[i] = s[i] /\ j \in DOMAIN s /\ t[j] = s[j]
    BY <1>4, <2>2 DEF Distinct
  <2>3. CASE i - n \in DOMAIN r /\ t[i] = r[i - n] /\ j - n \in DOMAIN r /\ t[j] = r[j - n]
    <3>1. i - n = j - n
      BY <1>4, <2>3 DEF Distinct
    <3> QED
      BY <1>1, <2>1, <3>1
  <2>4. CASE i \in DOMAIN s /\ t[i] = s[i] /\ j - n \in DOMAIN r /\ t[j] = r[j - n]
    BY <1>4, <2>4 DEF IdsOf
  <2>5. CASE i - n \in DOMAIN r /\ t[i] = r[i - n] /\ j \in DOMAIN s /\ t[j] = s[j]
    BY <1>4, <2>5 DEF IdsOf
  <2> QED
    BY <1>1, <2>2, <2>3, <2>4, <2>5
<1> QED
  BY <1>2, <1>3, <1>4 DEF t

\* What holds of all entries, and of one of them.
LEMMA IdsAre ==
  ASSUME NEW s
  PROVE  /\ \A i \in DOMAIN s : s[i] \in ToSet(s) /\ s[i].id \in IdsOf(s)
         /\ \A x \in ToSet(s) : x.id \in IdsOf(s) /\ \E i \in DOMAIN s : s[i] = x
         /\ \A k \in IdsOf(s) : \E x \in ToSet(s) : x.id = k
         /\ \A f, n : Has(s, f, n) <=> \E x \in ToSet(s) : x.id = f /\ x.bytes = n
         /\ \A f, n : Has(s, f, n) => f \in IdsOf(s)
BY DEF ToSet, IdsOf, Has

LEMMA EmptyIds == ToSet(<<>>) = {} /\ IdsOf(<<>>) = {} /\ Distinct(<<>>) /\ \A f, n : ~Has(<<>>, f, n)
BY DEF ToSet, IdsOf, Distinct, Has

-----------------------------------------------------------------------------
(* LedgerInv and ListedInv are preserved *)

\* What is known after new blocks have been added.
LEMMA KnownWith ==
  ASSUME NEW map \in [Files -> 0..NoFile], NEW blocks \in Seq(Block), Distinct(blocks)
  PROVE  LET m == With(map, blocks, Len(blocks)) IN
         /\ m \in [Files -> 0..NoFile]
         /\ \A f \in Files, n \in 0..MaxSize :
              m[f] = n <=> Has(blocks, f, n) \/ (f \notin IdsOf(blocks) /\ map[f] = n)
<1> DEFINE m == With(map, blocks, Len(blocks))
<1>1. /\ m \in [Files -> 0..NoFile]
      /\ \A i \in DOMAIN blocks : m[blocks[i].id] = blocks[i].bytes
      /\ \A f \in Files : f \notin IdsOf(blocks) => m[f] = map[f]
  BY WithOf
<1> HIDE DEF m
<1>2. ASSUME NEW f \in Files, NEW n \in 0..MaxSize
      PROVE  m[f] = n <=> Has(blocks, f, n) \/ (f \notin IdsOf(blocks) /\ map[f] = n)
  BY <1>1 DEF Has, IdsOf
<1> QED
  BY <1>1, <1>2 DEF m

LEMMA BlocksAreBlocks ==
  ASSUME NEW s \in Seq(Block)
  PROVE  \A i \in DOMAIN s : s[i].id \in Files /\ s[i].bytes \in 0..MaxSize /\ s[i].bytes # NoFile
<1>1. \A i \in DOMAIN s : s[i] \in Block
  BY LenProperties
<1>2. \A i \in DOMAIN s : s[i].id \in Files /\ s[i].bytes \in 0..MaxSize
  BY <1>1 DEF Block
<1> QED
  BY <1>2, LedgerConstants DEF NoFile

\* A block that nobody has listed is added.
LEMMA ListsWrite ==
  ASSUME NEW d \in Seq(Block), NEW late \in Seq(Block), NEW known \in [Files -> 0..NoFile],
         NEW read \in BOOLEAN, Lists(d, late, known, read), NEW b \in Block,
         b.id \notin IdsOf(d), b.id \notin IdsOf(late)
  PROVE  LET added == AddBlocks(known, <<b>>) IN
         /\ added.dirty = <<b>> /\ added.map \in [Files -> 0..NoFile]
         /\ Lists(d, Append(late, b), added.map, read)
<1> DEFINE one == <<b>>
           m == With(known, one, Len(one))
<1>1. one \in Seq(Block) /\ DOMAIN one = {1} /\ one[1] = b /\ Len(one) = 1
  OBVIOUS
<1>2. b.id \in Files /\ b.bytes \in 0..MaxSize
  BY DEF Block
<1> HIDE DEF one
<1>3. Distinct(one) /\ IdsOf(one) = {b.id} /\ \A f, n : Has(one, f, n) <=> b.id = f /\ b.bytes = n
  BY <1>1 DEF Distinct, IdsOf, Has
<1>4. known[b.id] # b.bytes
  <2>1. known[b.id] = b.bytes <=> (read /\ Has(d, b.id, b.bytes)) \/ Has(late, b.id, b.bytes)
    BY <1>2 DEF Lists
  <2>2. ~Has(d, b.id, b.bytes) /\ ~Has(late, b.id, b.bytes)
    BY IdsAre
  <2> QED
    BY <2>1, <2>2
<1>5. AddBlocks(known, one) = [map |-> m, dirty |-> one]
  BY <1>1, <1>3, <1>4, AddBlocksOf
<1>6. /\ m \in [Files -> 0..NoFile]
      /\ \A f \in Files, n \in 0..MaxSize :
           m[f] = n <=> Has(one, f, n) \/ (f \notin IdsOf(one) /\ known[f] = n)
  BY <1>1, <1>3, KnownWith
<1> HIDE DEF m
<1> DEFINE t == Append(late, b)
<1>7. /\ ToSet(t) = ToSet(late) \cup {b} /\ IdsOf(t) = IdsOf(late) \cup {b.id} /\ Distinct(t)
  BY AppendIds DEF Lists
<1> HIDE DEF t
<1>8. \A f, n : Has(t, f, n) <=> Has(late, f, n) \/ (b.id = f /\ b.bytes = n)
  BY <1>7, IdsAre
<1>9. ASSUME NEW f \in Files, NEW n \in 0..MaxSize
      PROVE  m[f] = n <=> (read /\ Has(d, f, n)) \/ Has(t, f, n)
  <2>1. known[f] = n <=> (read /\ Has(d, f, n)) \/ Has(late, f, n)
    BY DEF Lists
  <2>2. Has(d, f, n) \/ Has(late, f, n) => f # b.id
    BY IdsAre
  <2> QED
    BY <1>3, <1>6, <1>8, <2>1, <2>2
<1>10. Lists(d, t, m, read)
  BY <1>7, <1>9 DEF Lists
<1>11. LET added == AddBlocks(known, one) IN
       added.dirty = one /\ added.map \in [Files -> 0..NoFile] /\ Lists(d, t, added.map, read)
  BY <1>5, <1>6, <1>10
<1> QED
  BY <1>11 DEF one, t

\* The ledger is read, and what was added early is added again.
LEMMA ListsLoad ==
  ASSUME NEW d \in Seq(Block), NEW late \in Seq(Block), NEW known, Lists(d, late, known, FALSE)
  PROVE  LET added == AddBlocks(AddBlocks(Emptied, d).map, late) IN
         /\ added.dirty = late /\ added.map \in [Files -> 0..NoFile]
         /\ Lists(d, late, added.map, TRUE)
<1> DEFINE e == Emptied
           loaded == With(e, d, Len(d))
           m == With(loaded, late, Len(late))
<1>1. e \in [Files -> 0..NoFile] /\ \A f \in Files : e[f] = NoFile
  BY LedgerConstants DEF Emptied, NoFile
<1>2. Distinct(d) /\ Distinct(late) /\ IdsOf(d) \cap IdsOf(late) = {}
  BY DEF Lists
<1> HIDE DEF e
<1>3. \A i \in DOMAIN d : e[d[i].id] # d[i].bytes
  BY <1>1, BlocksAreBlocks
<1>4. AddBlocks(e, d) = [map |-> loaded, dirty |-> d]
  BY <1>1, <1>2, <1>3, AddBlocksOf
<1>5. /\ loaded \in [Files -> 0..NoFile]
      /\ \A f \in Files, n \in 0..MaxSize :
           loaded[f] = n <=> Has(d, f, n) \/ (f \notin IdsOf(d) /\ e[f] = n)
  BY <1>1, <1>2, KnownWith
<1> HIDE DEF loaded
<1>6. ASSUME NEW f \in Files, NEW n \in 0..MaxSize
      PROVE  loaded[f] = n <=> Has(d, f, n)
  <2>1. n # NoFile
    BY LedgerConstants DEF NoFile
  <2> QED
    BY <1>1, <1>5, <2>1
<1>7. \A i \in DOMAIN late : loaded[late[i].id] # late[i].bytes
  <2> SUFFICES ASSUME NEW i \in DOMAIN late
               PROVE  loaded[late[i].id] # late[i].bytes
    OBVIOUS
  <2>1. late[i].id \in Files /\ late[i].bytes \in 0..MaxSize
    BY BlocksAreBlocks
  <2>2. late[i].id \notin IdsOf(d)
    BY <1>2, IdsAre
  <2>3. ~Has(d, late[i].id, late[i].bytes)
    BY <2>2, IdsAre
  <2> QED
    BY <1>6, <2>1, <2>3
<1>8. AddBlocks(loaded, late) = [map |-> m, dirty |-> late]
  BY <1>2, <1>5, <1>7, AddBlocksOf
<1>9. /\ m \in [Files -> 0..NoFile]
      /\ \A f \in Files, n \in 0..MaxSize :
           m[f] = n <=> Has(late, f, n) \/ (f \notin IdsOf(late) /\ loaded[f] = n)
  BY <1>2, <1>5, KnownWith
<1> HIDE DEF m
<1>10. ASSUME NEW f \in Files, NEW n \in 0..MaxSize
       PROVE  m[f] = n <=> Has(d, f, n) \/ Has(late, f, n)
  <2>1. Has(d, f, n) => f \notin IdsOf(late)
    BY <1>2, IdsAre
  <2> QED
    BY <1>6, <1>9, <2>1
<1>11. Lists(d, late, m, TRUE)
  BY <1>2, <1>10 DEF Lists
<1>12. LET added == AddBlocks(AddBlocks(e, d).map, late) IN
       added.dirty = late /\ added.map \in [Files -> 0..NoFile] /\ Lists(d, late, added.map, TRUE)
  <2>1. AddBlocks(e, d).map = loaded
    BY <1>4
  <2> DEFINE added == AddBlocks(AddBlocks(e, d).map, late)
  <2>2. added = [map |-> m, dirty |-> late]
    BY <1>8, <2>1
  <2> HIDE DEF added
  <2>3. added.dirty = late /\ added.map = m
    BY <2>2
  <2>4. added.dirty = late /\ added.map \in [Files -> 0..NoFile] /\ Lists(d, late, added.map, TRUE)
    BY <1>9, <1>11, <2>3
  <2> QED
    BY <2>4 DEF added
<1> QED
  BY <1>12 DEF e

\* A block reaches the disk.
LEMMA ListsAppended ==
  ASSUME NEW d \in Seq(Block), NEW late \in Seq(Block), late # <<>>, NEW known,
         Lists(d, late, known, TRUE)
  PROVE  /\ Lists(Append(d, Head(late)), Tail(late), known, TRUE)
         /\ Append(d, Head(late)) \in Seq(Block) /\ Tail(late) \in Seq(Block)
         /\ ToSet(Append(d, Head(late))) = ToSet(d) \cup {Head(late)}
         /\ ToSet(Tail(late)) \subseteq ToSet(late) /\ Head(late) \in ToSet(late)
<1> DEFINE h == Head(late)
           t == Tail(late)
           a == Append(d, h)
<1>1. /\ ToSet(late) = ToSet(t) \cup {h} /\ h \in Block /\ t \in Seq(Block)
      /\ IdsOf(late) = IdsOf(t) \cup {h.id} /\ Distinct(t) /\ h.id \notin IdsOf(t)
  BY TailIds, TailOf DEF Lists
<1> HIDE DEF h, t
<1>2. h.id \notin IdsOf(d) /\ Distinct(d) /\ IdsOf(d) \cap IdsOf(t) = {}
  BY <1>1 DEF Lists
<1>3. /\ ToSet(a) = ToSet(d) \cup {h} /\ IdsOf(a) = IdsOf(d) \cup {h.id} /\ Distinct(a) /\ a \in Seq(Block)
  BY <1>1, <1>2, AppendIds, AppendOf
<1> HIDE DEF a
<1>4. ASSUME NEW f \in Files, NEW n \in 0..MaxSize
      PROVE  known[f] = n <=> (TRUE /\ Has(a, f, n)) \/ Has(t, f, n)
  <2>1. known[f] = n <=> Has(d, f, n) \/ Has(late, f, n)
    BY DEF Lists
  <2>2. Has(a, f, n) \/ Has(t, f, n) <=> Has(d, f, n) \/ Has(late, f, n)
    BY <1>1, <1>3, IdsAre
  <2> QED
    BY <2>1, <2>2
<1>5. Lists(a, t, known, TRUE)
  BY <1>1, <1>2, <1>3, <1>4 DEF Lists
<1> QED
  BY <1>1, <1>3, <1>5 DEF a, t, h

LEMMA ListsEmpty ==
  ASSUME NEW d, Distinct(d)
  PROVE  /\ [f \in Files |-> NoFile] \in [Files -> 0..NoFile]
         /\ Lists(d, <<>>, [f \in Files |-> NoFile], FALSE)
<1> DEFINE e == [f \in Files |-> NoFile]
<1>1. e \in [Files -> 0..NoFile] /\ \A f \in Files, n \in 0..MaxSize : e[f] # n
  BY LedgerConstants DEF NoFile
<1> HIDE DEF e
<1>2. Lists(d, <<>>, e, FALSE)
  BY <1>1, EmptyIds DEF Lists
<1> QED
  BY <1>1, <1>2 DEF e

LEMMA LedgerIs ==
  ASSUME LedgerInv
  PROVE  /\ disk \in Seq(Block) /\ appending \in Seq(Block) /\ replay \in Seq(Block)
         /\ ready \in BOOLEAN /\ files \in [Files -> 0..NoFile] /\ Late \in Seq(Block)
         /\ Lists(disk, Late, files, ready)
         /\ ready => Late = appending /\ replay = <<>>
         /\ ~ready => Late = replay /\ appending = <<>>
BY DEF LedgerInv, Late

LEMMA BlocksAreSet ==
  ASSUME NEW b, NEW u, NEW s, NEW z
  PROVE  BlocksAre(b, u, s, z) <=> \A x \in ToSet(b) : BlockOk(x, u[x.id], s[x.id], z[x.id])
BY DEF BlocksAre, ToSet

LEMMA BlocksStay ==
  ASSUME NEW b \in Seq(Block), NEW u, NEW u2, NEW s, NEW s2, NEW z, NEW z2, NEW v, NEW v2,
         BlocksAre(b, u, s, z),
         \A f \in Files : SteadyFile(u[f], u2[f], s[f], s2[f], z[f], z2[f], v[f], v2[f])
  PROVE  BlocksAre(b, u2, s2, z2)
<1> SUFFICES ASSUME NEW i \in DOMAIN b
             PROVE  BlockOk(b[i], u2[b[i].id], s2[b[i].id], z2[b[i].id])
  BY DEF BlocksAre
<1> DEFINE f == b[i].id
<1>1. f \in Files
  BY BlocksAreBlocks
<1>2. b[i].bytes = z[f] /\ IsWhole(s[f], z[f]) /\ u[f].phase \in {"none", "done"}
  BY DEF BlocksAre, BlockOk
<1>3. SteadyFile(u[f], u2[f], s[f], s2[f], z[f], z2[f], v[f], v2[f])
  BY <1>1
<1>4. z[f] # NoFile
  BY <1>2, LedgerConstants DEF IsWhole, NoFile
<1>5. z2[f] = z[f] /\ s2[f] = s[f] /\ u2[f].phase \in {"none", "done"}
  BY <1>2, <1>3, <1>4 DEF SteadyFile
<1> HIDE DEF f
<1>6. BlockOk(b[i], u2[f], s2[f], z2[f])
  BY <1>2, <1>5 DEF BlockOk
<1> QED
  BY <1>6 DEF f

\* The blocks that were listed stay true.
LEMMA ListedStay ==
  ASSUME LedgerInv, ListedInv, Steady
  PROVE  BlocksAre(disk, upload', feed', size') /\ BlocksAre(Late, upload', feed', size')
<1>1. disk \in Seq(Block) /\ Late \in Seq(Block)
  BY LedgerIs
<1>2. BlocksAre(disk, upload, feed, size) /\ BlocksAre(Late, upload, feed, size)
  BY DEF ListedInv, BlocksOk
<1>3. \A f \in Files : SteadyFile(upload[f], upload'[f], feed[f], feed'[f], size[f], size'[f],
                                  seen[f], seen'[f])
  BY DEF Steady
<1> QED
  BY <1>1, <1>2, <1>3, BlocksStay

LEMMA LedgerStays ==
  ASSUME LedgerInv, ListedInv, Steady, UNCHANGED ledgerVars
  PROVE  LedgerInv' /\ ListedInv'
<1>1. LedgerInv' /\ Late' = Late
  BY DEF LedgerInv, Late, ledgerVars
<1>2. ListedInv'
  BY <1>1, ListedStay DEF ListedInv, BlocksOk, ledgerVars
<1> QED
  BY <1>1, <1>2

LEMMA WrittenLedger ==
  ASSUME FilesInv, LedgerInv, ListedInv, NEW f \in Files, Written(f)
  PROVE  LedgerInv' /\ ListedInv'
<1> DEFINE b == [id |-> f, bytes |-> upload[f].processed]
           added == AddBlocks(files, <<b>>)
           late == Append(Late, b)
<1>1. Steady /\ FilesInv' /\ IsWhole(feed[f], size[f]) /\ upload[f].processed = size[f]
  BY WrittenFiles
<1>2. b \in Block /\ b.id = f /\ b.bytes = size[f]
  BY <1>1 DEF IsWhole, Block
<1>3. /\ upload[f].phase = "written" /\ UNCHANGED <<feed, size>> /\ upload'[f].phase = "done"
  BY FilesAre DEF Written, IsWritten, FilesInv, Uploads
<1>4. /\ files' = added.map /\ UNCHANGED <<disk, ready>>
      /\ replay' = IF ready THEN replay ELSE Append(replay, b)
      /\ appending' = IF ready THEN appending \o added.dirty ELSE appending
  BY DEF Written, WriteThrough
<1> HIDE DEF b
<1>5. f \notin IdsOf(disk) /\ f \notin IdsOf(Late)
  <2>1. \A s : BlocksOk(s) => f \notin IdsOf(s)
    BY <1>3 DEF BlocksOk, BlocksAre, BlockOk, IdsOf
  <2> QED
    BY <2>1 DEF ListedInv
<1>6. /\ added.dirty = <<b>> /\ added.map \in [Files -> 0..NoFile]
      /\ Lists(disk, late, added.map, ready)
  BY <1>2, <1>5, LedgerIs, ListsWrite
<1>7. late \in Seq(Block) /\ ToSet(late) = ToSet(Late) \cup {b}
  BY <1>2, LedgerIs, AppendOf, AppendIds
<1> HIDE DEF added
<1>8. /\ appending' \in Seq(Block) /\ replay' \in Seq(Block) /\ Late' = late
      /\ IF ready' THEN replay' = <<>> ELSE appending' = <<>>
  <2>1. CASE ready
    <3>1. appending \o <<b>> = Append(appending, b)
      BY <1>2, LedgerIs
    <3>2. appending' = late /\ replay' = <<>>
      BY <1>4, <1>6, <2>1, <3>1, LedgerIs
    <3>3. <<>> \in Seq(Block)
      OBVIOUS
    <3> QED
      BY <1>4, <1>7, <2>1, <3>2, <3>3 DEF Late
  <2>2. CASE ~ready
    <3>1. replay' = late /\ appending' = <<>>
      BY <1>4, <2>2, LedgerIs
    <3>3. <<>> \in Seq(Block)
      OBVIOUS
    <3> QED
      BY <1>4, <1>7, <2>2, <3>1, <3>3 DEF Late
  <2> QED
    BY <2>1, <2>2
<1>9. LedgerInv'
  <2>1. disk' \in Seq(Block) /\ ready' \in BOOLEAN
    BY <1>4, LedgerIs
  <2>2. Lists(disk', Late', files', ready') /\ files' \in [Files -> 0..NoFile]
    BY <1>4, <1>6, <1>8
  <2> QED
    BY <1>8, <2>1, <2>2 DEF LedgerInv
<1>10. BlockOk(b, upload'[f], feed'[f], size'[f])
  BY <1>1, <1>2, <1>3 DEF BlockOk
<1>11. BlocksAre(disk, upload', feed', size') /\ BlocksAre(Late, upload', feed', size')
  BY <1>1, ListedStay
<1>12. BlocksAre(late, upload', feed', size')
  BY <1>2, <1>7, <1>10, <1>11, BlocksAreSet
<1>13. ListedInv'
  BY <1>4, <1>8, <1>11, <1>12 DEF ListedInv, BlocksOk
<1> QED
  BY <1>9, <1>13

LEMMA LoadLedgerListed ==
  ASSUME LedgerInv, ListedInv, LoadLedger, UNCHANGED fileVars, Steady
  PROVE  LedgerInv' /\ ListedInv'
<1> DEFINE added == AddBlocks(AddBlocks(Emptied, disk).map, replay)
<1>1. /\ ~ready /\ ready' = TRUE /\ files' = added.map /\ appending' = appending \o added.dirty
      /\ replay' = <<>> /\ disk' = disk
  BY DEF LoadLedger
<1>2. Late = replay /\ appending = <<>> /\ ready = FALSE
  BY <1>1, LedgerIs
<1>3. Lists(disk, replay, files, FALSE) /\ disk \in Seq(Block) /\ replay \in Seq(Block)
  BY <1>2, LedgerIs
<1>4. /\ added.dirty = replay /\ added.map \in [Files -> 0..NoFile]
      /\ Lists(disk, replay, added.map, TRUE)
  BY <1>3, ListsLoad
<1> HIDE DEF added
<1>5. <<>> \o replay = replay /\ <<>> \in Seq(Block)
  BY <1>3
<1>6. appending' = replay /\ Late' = Late
  BY <1>1, <1>2, <1>4, <1>5 DEF Late
<1>7. LedgerInv'
  BY <1>1, <1>2, <1>3, <1>4, <1>5, <1>6 DEF LedgerInv
<1>8. ListedInv'
  BY <1>1, <1>6, ListedStay DEF ListedInv, BlocksOk
<1> QED
  BY <1>7, <1>8

LEMMA AppendedListed ==
  ASSUME LedgerInv, ListedInv, Appended, UNCHANGED fileVars
  PROVE  LedgerInv' /\ ListedInv'
<1>1. /\ appending # <<>> /\ disk' = Append(disk, Head(appending)) /\ appending' = Tail(appending)
      /\ UNCHANGED <<ready, files, replay>>
  BY DEF Appended
<1>2. ready = TRUE /\ Late = appending /\ replay = <<>>
  BY <1>1, LedgerIs
<1>3. Lists(disk, appending, files, TRUE) /\ disk \in Seq(Block) /\ appending \in Seq(Block)
  BY <1>2, LedgerIs
<1>4. /\ Lists(disk', appending', files, TRUE) /\ disk' \in Seq(Block) /\ appending' \in Seq(Block)
      /\ ToSet(disk') = ToSet(disk) \cup {Head(appending)}
      /\ ToSet(appending') \subseteq ToSet(appending) /\ Head(appending) \in ToSet(appending)
  BY <1>1, <1>3, ListsAppended
<1>5. Late' = appending'
  BY <1>1, <1>2 DEF Late
<1>6. LedgerInv'
  BY <1>1, <1>2, <1>4, <1>5, LedgerIs DEF LedgerInv
<1>7. BlocksAre(disk, upload, feed, size) /\ BlocksAre(appending, upload, feed, size)
  BY <1>2 DEF ListedInv, BlocksOk
<1>8. BlocksAre(disk', upload, feed, size) /\ BlocksAre(appending', upload, feed, size)
  <2> DEFINE Good(x) == BlockOk(x, upload[x.id], feed[x.id], size[x.id])
  <2>1. \A s : BlocksAre(s, upload, feed, size) <=> \A x \in ToSet(s) : Good(x)
    BY BlocksAreSet
  <2> HIDE DEF Good
  <2>2. \A x \in ToSet(disk) \cup ToSet(appending) : Good(x)
    BY <1>7, <2>1
  <2> QED
    BY <1>4, <2>1, <2>2
<1>9. ListedInv'
  BY <1>5, <1>8 DEF ListedInv, BlocksOk, fileVars
<1> QED
  BY <1>6, <1>9

LEMMA RestartLedgerListed ==
  ASSUME LedgerInv, ListedInv, RestartLedger, Steady
  PROVE  LedgerInv' /\ ListedInv'
<1>1. /\ appending' = <<>> /\ ready' = FALSE /\ files' = [f \in Files |-> NoFile] /\ replay' = <<>>
      /\ disk' = disk
  BY DEF RestartLedger
<1>2. Distinct(disk) /\ disk \in Seq(Block)
  BY LedgerIs DEF Lists
<1>3. /\ files' \in [Files -> 0..NoFile] /\ Lists(disk, <<>>, files', FALSE)
  BY <1>1, <1>2, ListsEmpty
<1>4. Late' = <<>> /\ <<>> \in Seq(Block)
  BY <1>1 DEF Late
<1>5. LedgerInv'
  BY <1>1, <1>2, <1>3, <1>4 DEF LedgerInv
<1>6. BlocksAre(disk, upload', feed', size')
  BY ListedStay
<1>7. BlocksAre(<<>>, upload', feed', size')
  BY DEF BlocksAre
<1>8. ListedInv'
  BY <1>1, <1>4, <1>6, <1>7 DEF ListedInv, BlocksOk
<1> QED
  BY <1>5, <1>8

-----------------------------------------------------------------------------
(* QueryInv is preserved *)

\* The number x is at no place.
Free(x, b, s, r, t) == x \notin IdsOf(b) \cup IdsOf(r) \cup IdsOf(t) \cup SetIds(s)

LEMMA TakeQuery ==
  ASSUME NEW b, NEW s, NEW r, NEW t, NEW c, NEW d, QueriesOk(b, s, r, t, c, d), b # <<>>
  PROVE  /\ QueriesOk(Tail(b), s, r, t, c, d) /\ Free(Head(b).id, Tail(b), s, r, t)
         /\ Head(b) \in Entry /\ Kept(Head(b), c, d)
<1> DEFINE h == Head(b)
           q == Tail(b)
<1>1. /\ b \in Seq(Entry) /\ r \in Seq(Entry) /\ t \in Seq(ReplyMsg) /\ s \in SUBSET Entry
      /\ OnePlace(b, s, r, t)
  BY DEF QueriesOk
<1>2. /\ q \in Seq(Entry) /\ ToSet(b) = ToSet(q) \cup {h} /\ h \in Entry
      /\ IdsOf(b) = IdsOf(q) \cup {h.id} /\ (Distinct(b) => Distinct(q) /\ h.id \notin IdsOf(q))
  BY <1>1, TailOf, TailIds
<1> HIDE DEF h, q
<1>3. OnePlace(q, s, r, t) /\ Free(h.id, q, s, r, t)
  BY <1>1, <1>2 DEF OnePlace, Free
<1>4. QueriesOk(q, s, r, t, c, d) /\ Kept(h, c, d)
  BY <1>1, <1>2, <1>3 DEF QueriesOk
<1> QED
  BY <1>2, <1>3, <1>4 DEF h, q

LEMMA TakeReply ==
  ASSUME NEW b, NEW s, NEW r, NEW t, NEW c, NEW d, QueriesOk(b, s, r, t, c, d), t # <<>>
  PROVE  QueriesOk(b, s, r, Tail(t), c, d) /\ Free(Head(t).id, b, s, r, Tail(t))
<1> DEFINE h == Head(t)
           q == Tail(t)
<1>1. /\ b \in Seq(Entry) /\ r \in Seq(Entry) /\ t \in Seq(ReplyMsg) /\ s \in SUBSET Entry
      /\ OnePlace(b, s, r, t)
  BY DEF QueriesOk
<1>2. /\ q \in Seq(ReplyMsg) /\ ToSet(t) = ToSet(q) \cup {h}
      /\ IdsOf(t) = IdsOf(q) \cup {h.id} /\ (Distinct(t) => Distinct(q) /\ h.id \notin IdsOf(q))
  BY <1>1, TailOf, TailIds
<1> HIDE DEF h, q
<1>3. OnePlace(b, s, r, q) /\ Free(h.id, b, s, r, q)
  BY <1>1, <1>2 DEF OnePlace, Free
<1>4. QueriesOk(b, s, r, q, c, d)
  BY <1>1, <1>2, <1>3 DEF QueriesOk
<1> QED
  BY <1>3, <1>4 DEF h, q

LEMMA TakeSigning ==
  ASSUME NEW b, NEW s, NEW r, NEW t, NEW c, NEW d, QueriesOk(b, s, r, t, c, d), NEW q \in s
  PROVE  /\ QueriesOk(b, s \ {q}, r, t, c, d) /\ Free(q.id, b, s \ {q}, r, t)
         /\ q \in Entry /\ Kept(q, c, d) /\ q.query.type = "Sign"
<1>1. OnePlace(b, s, r, t)
  BY DEF QueriesOk
<1>2. OnePlace(b, s \ {q}, r, t) /\ Free(q.id, b, s \ {q}, r, t)
  BY <1>1 DEF OnePlace, Free, SetIds
<1> QED
  BY <1>2 DEF QueriesOk

LEMMA PutQuery ==
  ASSUME NEW b, NEW s, NEW r, NEW t, NEW c, NEW d, QueriesOk(b, s, r, t, c, d),
         NEW e \in Entry, Free(e.id, b, s, r, t), Kept(e, c, d)
  PROVE  QueriesOk(Append(b, e), s, r, t, c, d)
<1> DEFINE q == Append(b, e)
<1>1. b \in Seq(Entry) /\ OnePlace(b, s, r, t)
  BY DEF QueriesOk
<1>2. /\ q \in Seq(Entry) /\ ToSet(q) = ToSet(b) \cup {e} /\ IdsOf(q) = IdsOf(b) \cup {e.id}
      /\ (Distinct(b) /\ e.id \notin IdsOf(b) => Distinct(q))
  BY <1>1, AppendOf, AppendIds
<1> HIDE DEF q
<1>3. OnePlace(q, s, r, t)
  BY <1>1, <1>2 DEF OnePlace, Free
<1>4. QueriesOk(q, s, r, t, c, d)
  BY <1>2, <1>3 DEF QueriesOk
<1> QED
  BY <1>4 DEF q

LEMMA PutReady ==
  ASSUME NEW b, NEW s, NEW r, NEW t, NEW c, NEW d, QueriesOk(b, s, r, t, c, d),
         NEW e \in Entry, Free(e.id, b, s, r, t), Kept(e, c, d), e.query.type = "Metadata"
  PROVE  QueriesOk(b, s, Append(r, e), t, c, d)
<1> DEFINE q == Append(r, e)
<1>1. r \in Seq(Entry) /\ OnePlace(b, s, r, t)
  BY DEF QueriesOk
<1>2. /\ q \in Seq(Entry) /\ ToSet(q) = ToSet(r) \cup {e} /\ IdsOf(q) = IdsOf(r) \cup {e.id}
      /\ (Distinct(r) /\ e.id \notin IdsOf(r) => Distinct(q))
  BY <1>1, AppendOf, AppendIds
<1> HIDE DEF q
<1>3. OnePlace(b, s, q, t)
  BY <1>1, <1>2 DEF OnePlace, Free
<1>4. QueriesOk(b, s, q, t, c, d)
  BY <1>2, <1>3 DEF QueriesOk
<1> QED
  BY <1>4 DEF q

LEMMA PutReply ==
  ASSUME NEW b, NEW s, NEW r, NEW t, NEW c, NEW d, QueriesOk(b, s, r, t, c, d),
         NEW m \in ReplyMsg, Free(m.id, b, s, r, t), Told(m, c)
  PROVE  QueriesOk(b, s, r, Append(t, m), c, d)
<1> DEFINE q == Append(t, m)
<1>1. t \in Seq(ReplyMsg) /\ OnePlace(b, s, r, t)
  BY DEF QueriesOk
<1>2. /\ q \in Seq(ReplyMsg) /\ ToSet(q) = ToSet(t) \cup {m} /\ IdsOf(q) = IdsOf(t) \cup {m.id}
      /\ (Distinct(t) /\ m.id \notin IdsOf(t) => Distinct(q))
  BY <1>1, AppendOf, AppendIds
<1> HIDE DEF q
<1>3. OnePlace(b, s, r, q)
  BY <1>1, <1>2 DEF OnePlace, Free
<1>4. QueriesOk(b, s, r, q, c, d)
  BY <1>2, <1>3 DEF QueriesOk
<1> QED
  BY <1>4 DEF q

LEMMA PutSigning ==
  ASSUME NEW b, NEW s, NEW r, NEW t, NEW c, NEW d, QueriesOk(b, s, r, t, c, d),
         NEW e \in Entry, Free(e.id, b, s, r, t), Kept(e, c, d), e.query.type = "Sign"
  PROVE  QueriesOk(b, s \cup {e}, r, t, c, d)
<1>1. OnePlace(b, s, r, t)
  BY DEF QueriesOk
<1>2. OnePlace(b, s \cup {e}, r, t)
  BY <1>1 DEF OnePlace, Free, SetIds
<1> QED
  BY <1>2 DEF QueriesOk

\* Only callbacks of numbers that are at no place have changed.
LEMMA CallbacksChange ==
  ASSUME NEW b, NEW s, NEW r, NEW t, NEW c, NEW d, QueriesOk(b, s, r, t, c, d), NEW x, NEW c2,
         Free(x, b, s, r, t),
         \A i \in DOMAIN c : i # x => i \in DOMAIN c2 /\ c2[i] = c[i]
  PROVE  QueriesOk(b, s, r, t, c2, d)
<1>1. \A e : Kept(e, c, d) /\ e.id # x => Kept(e, c2, d)
  BY DEF Kept
<1>2. \A m : Told(m, c) /\ m.id # x => Told(m, c2)
  BY DEF Told
<1>3. /\ \A e \in ToSet(b) : e.id # x
      /\ \A e \in ToSet(r) : e.id # x
      /\ \A e \in ToSet(t) : e.id # x
      /\ \A e \in s : e.id # x
  <2>1. \A q : \A e \in ToSet(q) : e.id \in IdsOf(q)
    BY IdsAre
  <2> QED
    BY <2>1 DEF Free, SetIds
<1> QED
  BY <1>1, <1>2, <1>3 DEF QueriesOk

\* A number without a callback is at no place.
LEMMA NewNumber ==
  ASSUME NEW b, NEW s, NEW r, NEW t, NEW c, NEW d, QueriesOk(b, s, r, t, c, d), NEW x,
         x \notin DOMAIN c
  PROVE  Free(x, b, s, r, t)
<1>1. /\ \A e \in ToSet(b) : e.id # x
      /\ \A e \in ToSet(r) : e.id # x
      /\ \A e \in ToSet(t) : e.id # x
      /\ \A e \in s : e.id # x
  BY DEF QueriesOk, Kept, Told
<1>2. \A q : (\A e \in ToSet(q) : e.id # x) => x \notin IdsOf(q)
  BY IdsAre
<1> QED
  BY <1>1, <1>2 DEF Free, SetIds

\* The disk has grown.
LEMMA DiskGrows ==
  ASSUME NEW b, NEW s, NEW r, NEW t, NEW c, NEW d, QueriesOk(b, s, r, t, c, d), NEW d2,
         IdsOf(d) \subseteq IdsOf(d2)
  PROVE  QueriesOk(b, s, r, t, c, d2)
<1>1. \A e : Kept(e, c, d) => Kept(e, c, d2)
  BY DEF Kept
<1> QED
  BY <1>1 DEF QueriesOk

\* An answer from a ledger that knows what is on the disk.
LEMMA MetadataReplyOk ==
  ASSUME NEW e \in Entry, NEW c, NEW d, Kept(e, c, d), e.query.type = "Metadata",
         NEW map \in [Files -> 0..NoFile], \A f \in IdsOf(d) : map[f] # NoFile
  PROVE  LET m == MetadataReply(e, map) IN m \in ReplyMsg /\ m.id = e.id /\ Told(m, c)
<1> DEFINE m == MetadataReply(e, map)
<1>1. /\ e.id \in Nat /\ e.query.id \in Files /\ map[e.query.id] \in 0..NoFile /\ c[e.id] = e.query
      /\ e.id \in DOMAIN c /\ (e.query.known => e.query.id \in IdsOf(d))
      /\ NoFile \in 0..NoFile
  BY LedgerConstants DEF Entry, Kept, NoFile
<1>2. CASE map[e.query.id] = NoFile
  <2>1. m = [id |-> e.id, payload |-> [type |-> "Document", bytes |-> NoFile]]
    BY <1>2 DEF MetadataReply, Reply
  <2> HIDE DEF m
  <2>2. m \in ReplyMsg /\ m.id = e.id
    BY <1>1, <2>1 DEF ReplyMsg, Answer
  <2>3. ~c[m.id].known
    BY <1>1, <1>2, <2>2
  <2>4. Told(m, c)
    BY <1>1, <2>2, <2>3 DEF Told
  <2> QED
    BY <2>2, <2>4 DEF m
<1>3. CASE map[e.query.id] # NoFile
  <2>1. m = [id |-> e.id, payload |-> [type |-> "File", bytes |-> map[e.query.id]]]
    BY <1>3 DEF MetadataReply, Reply
  <2> HIDE DEF m
  <2>2. m \in ReplyMsg /\ m.id = e.id /\ m.payload.type = "File"
    BY <1>1, <2>1 DEF ReplyMsg, Answer
  <2>3. Told(m, c)
    BY <1>1, <2>2 DEF Told
  <2> QED
    BY <2>2, <2>3 DEF m
<1> QED
  BY <1>2, <1>3

\* Any other answer.
LEMMA ReplyOk ==
  ASSUME NEW e \in Entry, NEW c, NEW d, Kept(e, c, d), e.query.type # "Metadata",
         NEW type \in {"Crypto", "Patch"}
  PROVE  LET m == Reply(e.id, type, NoFile) IN m \in ReplyMsg /\ m.id = e.id /\ Told(m, c)
<1> DEFINE m == Reply(e.id, type, NoFile)
<1>1. m = [id |-> e.id, payload |-> [type |-> type, bytes |-> NoFile]] /\ NoFile \in 0..NoFile
  BY LedgerConstants DEF Reply, NoFile
<1> HIDE DEF m
<1>2. e.id \in Nat /\ e.id \in DOMAIN c /\ c[e.id] = e.query
  BY DEF Entry, Kept
<1>3. m \in ReplyMsg /\ m.id = e.id
  BY <1>1, <1>2 DEF ReplyMsg, Answer
<1>4. Told(m, c)
  BY <1>2, <1>3 DEF Told
<1> QED
  BY <1>3, <1>4 DEF m

LEMMA KnownOnDisk ==
  ASSUME LedgerInv, ready
  PROVE  \A f \in IdsOf(disk) : f \in Files /\ files[f] # NoFile
<1> TAKE f \in IdsOf(disk)
<1>1. PICK i \in DOMAIN disk : disk[i].id = f
  BY DEF IdsOf
<1>2. f \in Files /\ disk[i].bytes \in 0..MaxSize /\ disk[i].bytes # NoFile
  BY <1>1, BlocksAreBlocks, LedgerIs
<1>3. Has(disk, f, disk[i].bytes)
  BY <1>1 DEF Has
<1>4. files[f] = disk[i].bytes
  BY <1>2, <1>3, LedgerIs DEF Lists
<1> QED
  BY <1>2, <1>4

\* Every question that waits for the ledger is answered.
LEMMA ServedOk ==
  ASSUME NEW b, NEW s, NEW r, NEW t, NEW c, NEW d, QueriesOk(b, s, r, t, c, d),
         NEW map \in [Files -> 0..NoFile], \A f \in IdsOf(d) : map[f] # NoFile
  PROVE  QueriesOk(b, s, <<>>, t \o [i \in DOMAIN r |-> MetadataReply(r[i], map)], c, d)
<1> DEFINE v == [i \in DOMAIN r |-> MetadataReply(r[i], map)]
           q == t \o v
<1>1. /\ r \in Seq(Entry) /\ t \in Seq(ReplyMsg) /\ OnePlace(b, s, r, t)
      /\ \A e \in ToSet(r) : Kept(e, c, d) /\ e.query.type = "Metadata"
      /\ \A m \in ToSet(t) : Told(m, c)
  BY DEF QueriesOk
<1>2. Len(r) \in Nat /\ DOMAIN r = 1..Len(r) /\ \A i \in DOMAIN r : r[i] \in Entry
  BY <1>1, LenProperties
<1>3. \A i \in DOMAIN r : v[i] = MetadataReply(r[i], map)
  OBVIOUS
<1>4. ASSUME NEW i \in DOMAIN r
      PROVE  v[i] \in ReplyMsg /\ v[i].id = r[i].id /\ Told(v[i], c)
  <2>1. r[i] \in Entry /\ Kept(r[i], c, d) /\ r[i].query.type = "Metadata"
    BY <1>1, <1>2, IdsAre
  <2>2. LET m == MetadataReply(r[i], map) IN m \in ReplyMsg /\ m.id = r[i].id /\ Told(m, c)
    BY <2>1, MetadataReplyOk
  <2> QED
    BY <1>3, <2>2
<1>5. v = [i \in 1..Len(r) |-> v[i]] /\ DOMAIN v = DOMAIN r
  BY <1>2
<1> HIDE DEF v
<1>6. v \in Seq(ReplyMsg)
  BY <1>2, <1>4, <1>5
<1>7. IdsOf(v) = IdsOf(r) /\ (Distinct(r) => Distinct(v))
  <2>1. DOMAIN v = DOMAIN r /\ \A i \in DOMAIN r : v[i].id = r[i].id
    BY <1>4, <1>5
  <2>2. IdsOf(v) = IdsOf(r)
    BY <2>1 DEF IdsOf
  <2>3. Distinct(r) => Distinct(v)
    BY <2>1 DEF Distinct
  <2> QED
    BY <2>2, <2>3
<1>8. \A m \in ToSet(v) : Told(m, c)
  BY <1>4, <1>5 DEF ToSet
<1>9. /\ q \in Seq(ReplyMsg) /\ ToSet(q) = ToSet(t) \cup ToSet(v) /\ IdsOf(q) = IdsOf(t) \cup IdsOf(v)
      /\ (Distinct(t) /\ Distinct(v) /\ IdsOf(t) \cap IdsOf(v) = {} => Distinct(q))
  BY <1>1, <1>6, ConcatOf, ConcatIds
<1> HIDE DEF q
<1>10. OnePlace(b, s, <<>>, q)
  BY <1>1, <1>7, <1>9, EmptyIds DEF OnePlace
<1>11. \A m \in ToSet(q) : Told(m, c)
  BY <1>1, <1>8, <1>9
<1>12. <<>> \in Seq(Entry)
  OBVIOUS
<1>13. QueriesOk(b, s, <<>>, q, c, d)
  BY <1>9, <1>10, <1>11, <1>12, EmptyIds DEF QueriesOk
<1> QED
  BY <1>13 DEF q, v

LEMMA QueriesAre ==
  ASSUME QueryInv
  PROVE  /\ nextId \in Nat /\ \A i \in DOMAIN cb : i \in Nat /\ i < nextId
         /\ QueriesOk(toBackend, signing, readyQ, toFrontend, cb, disk)
BY DEF QueryInv

LEMMA AskStep ==
  ASSUME QueryInv, NEW type \in {"Crypto", "Sign", "Metadata", "Materialize"},
         NEW f \in AnyFile, type = "Metadata" => f \in Files, QueryBackend(type, f),
         UNCHANGED ledgerVars
  PROVE  QueryInv'
<1> DEFINE query == [type |-> type, id |-> f, known |-> OnDisk(f)]
           e == [id |-> nextId, query |-> query]
<1>1. /\ cb' = [i \in DOMAIN cb \cup {nextId} |-> IF i = nextId THEN query ELSE cb[i]]
      /\ toBackend' = Append(toBackend, e) /\ nextId' = nextId + 1
      /\ UNCHANGED <<signing, readyQ, toFrontend, disk>>
  BY DEF QueryBackend, ledgerVars
<1>2. e \in Entry
  BY QueriesAre DEF Entry, OnDisk
<1>3. OnDisk(f) => f \in IdsOf(disk)
  BY IdsAre DEF OnDisk
<1>4. /\ e.id = nextId /\ e.query = query /\ query.type = type /\ query.id = f
      /\ (query.known => f \in IdsOf(disk))
  BY <1>3
<1> HIDE DEF query, e
<1>5. /\ DOMAIN cb' = DOMAIN cb \cup {nextId} /\ cb'[nextId] = query
      /\ \A i \in DOMAIN cb : i # nextId => cb'[i] = cb[i]
  BY <1>1
<1>6. nextId \notin DOMAIN cb
  BY QueriesAre
<1>7. Free(nextId, toBackend, signing, readyQ, toFrontend)
  BY <1>6, QueriesAre, NewNumber
<1>8. QueriesOk(toBackend, signing, readyQ, toFrontend, cb', disk)
  BY <1>5, <1>7, QueriesAre, CallbacksChange
<1>9. Kept(e, cb', disk)
  BY <1>4, <1>5 DEF Kept
<1>10. QueriesOk(Append(toBackend, e), signing, readyQ, toFrontend, cb', disk)
  BY <1>2, <1>4, <1>7, <1>8, <1>9, PutQuery
<1>11. nextId' \in Nat /\ DOMAIN cb' \in SUBSET {i \in Nat : i < nextId'}
  BY <1>1, <1>5, QueriesAre
<1> QED
  BY <1>1, <1>10, <1>11 DEF QueryInv

LEMMA HandledIs ==
  ASSUME QueryInv, NEW type, Handled(type)
  PROVE  LET h == Head(toBackend) IN
         /\ QueriesOk(toBackend', signing, readyQ, toFrontend, cb, disk)
         /\ Free(h.id, toBackend', signing, readyQ, toFrontend)
         /\ h \in Entry /\ Kept(h, cb, disk) /\ h.query.type = type
         /\ cb' = cb /\ nextId' = nextId
BY QueriesAre, TakeQuery DEF Handled

LEMMA HandleCryptoStep ==
  ASSUME QueryInv, HandleCrypto, UNCHANGED ledgerVars
  PROVE  QueryInv'
<1> DEFINE h == Head(toBackend)
           m == Reply(h.id, "Crypto", NoFile)
<1>1. /\ QueriesOk(toBackend', signing, readyQ, toFrontend, cb, disk)
      /\ Free(h.id, toBackend', signing, readyQ, toFrontend)
      /\ h \in Entry /\ Kept(h, cb, disk) /\ h.query.type = "Crypto"
      /\ cb' = cb /\ nextId' = nextId
  BY HandledIs DEF HandleCrypto
<1>2. m \in ReplyMsg /\ m.id = h.id /\ Told(m, cb)
  BY <1>1, ReplyOk
<1>3. toFrontend' = Append(toFrontend, m) /\ UNCHANGED <<signing, readyQ, disk>>
  BY DEF HandleCrypto, ledgerVars
<1> HIDE DEF m, h
<1>4. QueriesOk(toBackend', signing, readyQ, Append(toFrontend, m), cb, disk)
  BY <1>1, <1>2, PutReply
<1> QED
  BY <1>1, <1>3, <1>4 DEF QueryInv

LEMMA HandleSignStep ==
  ASSUME QueryInv, HandleSign, UNCHANGED ledgerVars
  PROVE  QueryInv'
<1> DEFINE h == Head(toBackend)
<1>1. /\ QueriesOk(toBackend', signing, readyQ, toFrontend, cb, disk)
      /\ Free(h.id, toBackend', signing, readyQ, toFrontend)
      /\ h \in Entry /\ Kept(h, cb, disk) /\ h.query.type = "Sign"
      /\ cb' = cb /\ nextId' = nextId
  BY HandledIs DEF HandleSign
<1>2. signing' = signing \cup {h} /\ UNCHANGED <<toFrontend, readyQ, disk>>
  BY DEF HandleSign, ledgerVars
<1> HIDE DEF h
<1>3. QueriesOk(toBackend', signing \cup {h}, readyQ, toFrontend, cb, disk)
  BY <1>1, PutSigning
<1> QED
  BY <1>1, <1>2, <1>3 DEF QueryInv

LEMMA HandleMetadataStep ==
  ASSUME LedgerInv, QueryInv, HandleMetadata, UNCHANGED ledgerVars
  PROVE  QueryInv'
<1> DEFINE h == Head(toBackend)
           m == MetadataReply(h, files)
<1>1. /\ QueriesOk(toBackend', signing, readyQ, toFrontend, cb, disk)
      /\ Free(h.id, toBackend', signing, readyQ, toFrontend)
      /\ h \in Entry /\ Kept(h, cb, disk) /\ h.query.type = "Metadata"
      /\ cb' = cb /\ nextId' = nextId
  BY HandledIs DEF HandleMetadata
<1>2. UNCHANGED <<signing, disk>>
  BY DEF HandleMetadata, ledgerVars
<1>3. CASE /\ MustWait
           /\ readyQ' = Append(readyQ, h)
           /\ UNCHANGED toFrontend
  <2> HIDE DEF h
  <2>1. QueriesOk(toBackend', signing, Append(readyQ, h), toFrontend, cb, disk)
    BY <1>1, PutReady
  <2> QED
    BY <1>1, <1>2, <1>3, <2>1 DEF QueryInv
<1>4. CASE /\ ~MustWait
           /\ toFrontend' = Append(toFrontend, m)
           /\ UNCHANGED readyQ
  <2>1. ready
    BY <1>4 DEF MustWait
  <2>2. files \in [Files -> 0..NoFile] /\ \A f \in IdsOf(disk) : files[f] # NoFile
    BY <2>1, LedgerIs, KnownOnDisk
  <2>3. m \in ReplyMsg /\ m.id = h.id /\ Told(m, cb)
    BY <1>1, <2>2, MetadataReplyOk
  <2> HIDE DEF m, h
  <2>4. QueriesOk(toBackend', signing, readyQ, Append(toFrontend, m), cb, disk)
    BY <1>1, <2>3, PutReply
  <2> QED
    BY <1>1, <1>2, <1>4, <2>4 DEF QueryInv
<1> QED
  BY <1>3, <1>4 DEF HandleMetadata

LEMMA HandleMaterializeStep ==
  ASSUME QueryInv, HandleMaterialize, UNCHANGED ledgerVars
  PROVE  QueryInv'
<1> DEFINE h == Head(toBackend)
           m == Reply(h.id, "Patch", NoFile)
<1>1. /\ QueriesOk(toBackend', signing, readyQ, toFrontend, cb, disk)
      /\ Free(h.id, toBackend', signing, readyQ, toFrontend)
      /\ h \in Entry /\ Kept(h, cb, disk) /\ h.query.type = "Materialize"
      /\ cb' = cb /\ nextId' = nextId
  BY HandledIs DEF HandleMaterialize
<1>2. m \in ReplyMsg /\ m.id = h.id /\ Told(m, cb)
  BY <1>1, ReplyOk
<1>3. UNCHANGED <<signing, readyQ, disk>> /\ (toFrontend' = Append(toFrontend, m) \/ toFrontend' = toFrontend)
  BY DEF HandleMaterialize, ledgerVars
<1> HIDE DEF m, h
<1>4. QueriesOk(toBackend', signing, readyQ, Append(toFrontend, m), cb, disk)
  BY <1>1, <1>2, PutReply
<1> QED
  BY <1>1, <1>3, <1>4 DEF QueryInv

LEMMA SignedStep ==
  ASSUME QueryInv, Signed, UNCHANGED ledgerVars
  PROVE  QueryInv'
<1>1. PICK q \in signing : /\ signing' = signing \ {q}
                           /\ toFrontend' = Append(toFrontend, Reply(q.id, "Crypto", NoFile))
  BY DEF Signed
<1>2. UNCHANGED <<toBackend, cb, nextId, readyQ, disk>>
  BY DEF Signed, ledgerVars
<1>3. /\ QueriesOk(toBackend, signing \ {q}, readyQ, toFrontend, cb, disk)
      /\ Free(q.id, toBackend, signing \ {q}, readyQ, toFrontend)
      /\ q \in Entry /\ Kept(q, cb, disk) /\ q.query.type = "Sign"
  BY QueriesAre, TakeSigning
<1> DEFINE m == Reply(q.id, "Crypto", NoFile)
<1>4. m \in ReplyMsg /\ m.id = q.id /\ Told(m, cb)
  BY <1>3, ReplyOk
<1>5. toFrontend' = Append(toFrontend, m)
  BY <1>1
<1> HIDE DEF m
<1>6. QueriesOk(toBackend, signing \ {q}, readyQ, Append(toFrontend, m), cb, disk)
  BY <1>3, <1>4, PutReply
<1> QED
  BY <1>1, <1>2, <1>5, <1>6, QueriesAre DEF QueryInv

LEMMA ReceiveReplyStep ==
  ASSUME QueryInv, ReceiveReply, UNCHANGED ledgerVars
  PROVE  QueryInv'
<1> DEFINE x == Head(toFrontend).id
<1>1. /\ toFrontend # <<>> /\ toFrontend' = Tail(toFrontend)
      /\ cb' = [i \in DOMAIN cb \ {x} |-> cb[i]]
      /\ UNCHANGED <<toBackend, nextId, signing, readyQ, disk>>
  BY DEF ReceiveReply, ledgerVars
<1>2. /\ QueriesOk(toBackend, signing, readyQ, toFrontend', cb, disk)
      /\ Free(x, toBackend, signing, readyQ, toFrontend')
  BY <1>1, QueriesAre, TakeReply
<1> HIDE DEF x
<1>3. /\ \A i \in DOMAIN cb : i # x => i \in DOMAIN cb' /\ cb'[i] = cb[i]
      /\ DOMAIN cb' \subseteq DOMAIN cb
  BY <1>1
<1>4. QueriesOk(toBackend, signing, readyQ, toFrontend', cb', disk)
  BY <1>2, <1>3, CallbacksChange
<1>5. nextId \in Nat /\ DOMAIN cb' \in SUBSET {i \in Nat : i < nextId}
  BY <1>3, QueriesAre
<1> QED
  BY <1>1, <1>4, <1>5 DEF QueryInv

LEMMA LoadLedgerQueries ==
  ASSUME QueryInv, LedgerInv', LoadLedger, ServeReadyQ
  PROVE  QueryInv'
<1>1. disk' = disk /\ ready' = TRUE
  BY DEF LoadLedger
<1>2. /\ readyQ' = <<>> /\ toFrontend' = toFrontend \o [i \in DOMAIN readyQ |-> MetadataReply(readyQ[i], files')]
      /\ UNCHANGED <<toBackend, cb, nextId, signing>>
  BY DEF ServeReadyQ, Served
<1>3. (\A f \in IdsOf(disk) : f \in Files /\ files[f] # NoFile)' /\ files' \in [Files -> 0..NoFile]
  <2>1. (LedgerInv /\ ready => \A f \in IdsOf(disk) : f \in Files /\ files[f] # NoFile)'
    BY KnownOnDisk, PTL
  <2>2. files' \in [Files -> 0..NoFile]
    BY DEF LedgerInv
  <2> QED
    BY <1>1, <2>1, <2>2
<1>4. \A f \in IdsOf(disk) : files'[f] # NoFile
  BY <1>1, <1>3
<1>5. QueriesOk(toBackend, signing, <<>>, toFrontend', cb, disk)
  BY <1>2, <1>3, <1>4, QueriesAre, ServedOk
<1> QED
  BY <1>1, <1>2, <1>5, QueriesAre DEF QueryInv

LEMMA AppendedQueries ==
  ASSUME QueryInv, LedgerInv, Appended, UNCHANGED queryVars
  PROVE  QueryInv'
<1>1. appending # <<>> /\ disk' = Append(disk, Head(appending))
  BY DEF Appended
<1>2. Head(appending) \in Block /\ disk \in Seq(Block)
  BY <1>1, LedgerIs, TailIds
<1>3. IdsOf(disk) \subseteq IdsOf(disk')
  BY <1>1, <1>2, AppendIds
<1>4. QueriesOk(toBackend, signing, readyQ, toFrontend, cb, disk')
  BY <1>3, QueriesAre, DiskGrows
<1> QED
  BY <1>4, QueriesAre DEF QueryInv, queryVars

LEMMA NoQueries ==
  ASSUME NEW d
  PROVE  QueriesOk(<<>>, {}, <<>>, <<>>, <<>>, d) /\ DOMAIN <<>> = {}
BY EmptyIds DEF QueriesOk, OnePlace, SetIds

LEMMA RestartQueries ==
  ASSUME Restart
  PROVE  QueryInv'
<1>1. /\ toBackend' = <<>> /\ cb' = <<>> /\ nextId' = 1 /\ signing' = {} /\ readyQ' = <<>>
      /\ toFrontend' = <<>>
  BY DEF Restart
<1> QED
  BY <1>1, NoQueries DEF QueryInv

LEMMA QueriesStay ==
  ASSUME QueryInv, UNCHANGED <<queryVars, disk>>
  PROVE  QueryInv'
BY DEF QueryInv, queryVars

-----------------------------------------------------------------------------
(* Inv is an invariant *)

\* A finite set is enumerated by a sequence, without repetition.
LEMMA EnumeratedOnce ==
  ASSUME NEW S, IsFiniteSet(S)
  PROVE  /\ Cardinality(S) \in Nat /\ SetToSeq(S) \in [1..Cardinality(S) -> S]
         /\ \A i, j \in 1..Cardinality(S) : SetToSeq(S)[i] = SetToSeq(S)[j] => i = j
<1> DEFINE n == Cardinality(S)
<1>1. n \in Nat
  BY FS_CardinalityType
<1>2. PICK g : g \in Bijection(1..n, S)
  BY FS_CardinalityType DEF ExistsBijection
<1>3. g \in [1..n -> S] /\ IsInjective(g)
  BY <1>2 DEF Bijection, Injection
<1> DEFINE c == CHOOSE f \in [1..n -> S] : IsInjective(f)
<1>4. c \in [1..n -> S] /\ IsInjective(c)
  BY <1>3
<1>5. c = SetToSeq(S)
  BY DEF SetToSeq
<1> HIDE DEF c
<1>6. \A i, j \in 1..n : c[i] = c[j] => i = j
  BY <1>4 DEF IsInjective
<1> QED
  BY <1>1, <1>4, <1>5, <1>6

\* A recorded file is whole.
LEMMA WholeIsWhole ==
  ASSUME Recorded # {}
  PROVE  Whole \in Seq(FileBlock) /\ IsWhole(Whole, 1) /\ 1 \in 0..MaxSize
<1> DEFINE k == IF BlockSize = 1 THEN 2 ELSE 1
<1>1. MaxSize \in Nat /\ MaxSize >= 1
  BY FileConstants, LedgerConstants
<1>2. BlockSize \in Nat \ {0} /\ (1 - 1) * BlockSize = 0 /\ 1 * BlockSize = BlockSize
  BY BlockSizeIs
<1>3. k = 1 + Bonus(1) /\ k \in Nat
  <2>1. CASE BlockSize = 1
    <3>1. 1 % 1 = 0
      OBVIOUS
    <3> QED
      BY <2>1, <3>1 DEF Bonus
  <2>2. CASE BlockSize # 1
    <3>1. 1 % BlockSize = 1
      <4>1. 1 < BlockSize
        BY <1>2, <2>2
      <4> QED
        BY <1>2, <4>1
    <3> QED
      BY <2>2, <3>1 DEF Bonus
  <2> QED
    BY <2>1, <2>2
<1>4. Data(1, 1) = ChunkOf(1, 1)
  <2>1. Upto(1, 1) = 1
    BY <1>2 DEF Upto
  <2>2. (1 - 1) * BlockSize + 1 = 1
    BY <1>2
  <2> QED
    BY <2>1, <2>2 DEF ChunkOf
<1>5. Data(1, 1) \in FileBlock
  <2> DEFINE o == 1
  <2>1. o \in Nat /\ o <= o + 1
    OBVIOUS
  <2> HIDE DEF o
  <2>2. Data(o, o) \in FileBlock
    BY <2>1, DataIs
  <2> QED
    BY <2>2 DEF o
<1>6. HeaderBlock(1, k) \in FileBlock
  BY <1>3 DEF HeaderBlock, FileBlock
<1> HIDE DEF k
<1>7. /\ Whole = <<Data(1, 1), HeaderBlock(1, k)>>
  BY DEF Whole, k
<1>8. Whole \in Seq(FileBlock) /\ Len(Whole) = 2 /\ Whole[1] = Data(1, 1) /\ Whole[2] = HeaderBlock(1, k)
  BY <1>5, <1>6, <1>7
<1> HIDE DEF Whole
<1>9. IsCut(Whole, 1, 1)
  BY <1>2, <1>4, <1>8 DEF IsCut
<1>10. IsWhole(Whole, 1)
  <2>1. Len(Whole) - 1 = 1 /\ Whole # <<>>
    BY <1>8
  <2> QED
    BY <1>1, <1>3, <1>8, <1>9, <2>1 DEF IsWhole
<1> QED
  BY <1>1, <1>8, <1>10

LEMMA InitFiles ==
  ASSUME Init
  PROVE  FilesInv /\ RequestsInv /\ \A f \in Recorded : BlockOk([id |-> f, bytes |-> 1], upload[f], feed[f], size[f])
<1>1. /\ size = [f \in Files |-> IF f \in Recorded THEN 1 ELSE NoFile]
      /\ upload = [f \in Files |-> NoUpload]
      /\ feed = [f \in Files |-> IF f \in Recorded THEN Whole ELSE <<>>]
      /\ seen = [f \in Files |-> Len(feed[f])]
      /\ reader = [r \in Readers |-> NoRequest]
  BY DEF Init
<1>2. ASSUME NEW f \in Recorded
      PROVE  Whole \in Seq(FileBlock) /\ IsWhole(Whole, 1) /\ 1 \in 0..MaxSize /\ 1 \in 0..NoFile /\ 1 # NoFile
  <2>1. Recorded # {}
    OBVIOUS
  <2> QED
    BY <2>1, WholeIsWhole, LedgerConstants DEF NoFile
<1>3. NoFile \in 0..NoFile /\ <<>> \in Seq(FileBlock) /\ Unfinished(<<>>)
  BY LedgerConstants DEF NoFile, Unfinished
<1>4. NoUpload \in Uploads /\ NoUpload.phase = "none"
  BY DEF NoUpload, Uploads, Phases
<1> HIDE DEF Whole
<1>5. feed \in [Files -> Seq(FileBlock)] /\ size \in [Files -> 0..NoFile] /\ upload \in [Files -> Uploads]
  BY <1>1, <1>2, <1>3, <1>4
<1>6. \A f \in Files : Len(feed[f]) \in Nat
  BY <1>5, LenProperties
<1>7. seen \in [Files -> Nat] /\ \A f \in Files : seen[f] <= Len(feed[f])
  BY <1>1, <1>6
<1>8. ASSUME NEW f \in Files
      PROVE  FileOk(upload[f], feed[f], size[f])
  <2>1. upload[f] = NoUpload
    BY <1>1
  <2>2. CASE f \in Recorded
    <3>1. feed[f] = Whole /\ size[f] = 1
      BY <1>1, <2>2
    <3> QED
      BY <1>2, <1>4, <2>1, <2>2, <3>1 DEF FileOk
  <2>3. CASE f \notin Recorded
    <3>1. feed[f] = <<>> /\ size[f] = NoFile
      BY <1>1, <2>3
    <3> QED
      BY <1>3, <1>4, <2>1, <3>1 DEF FileOk
  <2> QED
    BY <2>2, <2>3
<1>9. FilesInv
  BY <1>5, <1>7, <1>8 DEF FilesInv
<1>10. RequestsInv
  <2>1. NoRequest \in Requests /\ NoRequest.phase = "none"
    <3>1. <<>> \in Seq(FileBlock) /\ (CHOOSE f \in Files : TRUE) \in AnyFile
      BY DEF AnyFile
    <3> QED
      BY <3>1 DEF NoRequest, Requests
  <2> QED
    BY <1>1, <2>1 DEF RequestsInv
<1>11. ASSUME NEW f \in Recorded
       PROVE  BlockOk([id |-> f, bytes |-> 1], upload[f], feed[f], size[f])
  <2>1. f \in Files
    BY FileConstants
  <2>2. upload[f] = NoUpload /\ feed[f] = Whole /\ size[f] = 1
    BY <1>1, <2>1
  <2> QED
    BY <1>2, <1>4, <2>2 DEF BlockOk
<1> QED
  BY <1>9, <1>10, <1>11

LEMMA InitLedgerListed ==
  ASSUME Init
  PROVE  LedgerInv /\ ListedInv
<1> DEFINE n == Cardinality(Recorded)
           q == SetToSeq(Recorded)
           b == [i \in 1..n |-> [id |-> q[i], bytes |-> 1]]
<1>1. n \in Nat /\ q \in [1..n -> Recorded] /\ \A i, j \in 1..n : q[i] = q[j] => i = j
  BY EnumeratedOnce, FileConstants
<1>2. disk = b /\ appending = <<>> /\ ready = FALSE /\ files = [f \in Files |-> NoFile] /\ replay = <<>>
  BY DEF Init, InitLedger
<1> HIDE DEF n, q
<1>3. \A i \in 1..n : [id |-> q[i], bytes |-> 1] \in Block
  <2> TAKE i \in 1..n
  <2>1. q[i] \in Recorded /\ Recorded \subseteq Files
    BY <1>1, FileConstants
  <2>2. 1 \in 0..MaxSize
    BY <2>1, WholeIsWhole
  <2> QED
    BY <2>1, <2>2 DEF Block
<1>4. disk \in Seq(Block) /\ DOMAIN disk = 1..n /\ \A i \in 1..n : disk[i] = [id |-> q[i], bytes |-> 1]
  BY <1>1, <1>2, <1>3
<1>5. Distinct(disk)
  BY <1>1, <1>4 DEF Distinct
<1>6. Late = <<>> /\ <<>> \in Seq(Block)
  BY <1>2 DEF Late
<1>7. files \in [Files -> 0..NoFile] /\ Lists(disk, <<>>, files, FALSE)
  BY <1>2, <1>5, ListsEmpty
<1>8. LedgerInv
  BY <1>2, <1>4, <1>6, <1>7 DEF LedgerInv
<1>9. BlocksAre(disk, upload, feed, size)
  <2> SUFFICES ASSUME NEW i \in 1..n
               PROVE  BlockOk(disk[i], upload[disk[i].id], feed[disk[i].id], size[disk[i].id])
    BY <1>4 DEF BlocksAre
  <2>1. q[i] \in Recorded /\ disk[i] = [id |-> q[i], bytes |-> 1] /\ disk[i].id = q[i]
    BY <1>1, <1>4
  <2> QED
    BY <2>1, InitFiles
<1>10. BlocksAre(<<>>, upload, feed, size)
  BY DEF BlocksAre
<1>11. ListedInv
  BY <1>6, <1>9, <1>10 DEF ListedInv, BlocksOk
<1> QED
  BY <1>8, <1>11

LEMMA InitInv == Init => Inv
<1> SUFFICES ASSUME Init PROVE Inv
  OBVIOUS
<1>1. QueryInv
  BY NoQueries DEF Init, InitQueries, QueryInv
<1> QED
  BY <1>1, InitFiles, InitLedgerListed DEF Inv

\* Each step keeps the four parts.
LEMMA StartStep ==
  ASSUME Inv, UNCHANGED <<ledgerVars, queryVars, size, upload, feed, seen, reader>>
  PROVE  Inv'
<1>1. FilesInv' /\ Steady
  BY SameFiles DEF Inv
<1>2. RequestsInv'
  BY <1>1, RequestsStay DEF Inv
<1>3. LedgerInv' /\ ListedInv'
  BY <1>1, LedgerStays DEF Inv
<1>4. QueryInv'
  BY QueriesStay DEF Inv, ledgerVars
<1> QED
  BY <1>1, <1>2, <1>3, <1>4 DEF Inv

LEMMA LedgerStepInv ==
  ASSUME Inv, LedgerStep
  PROVE  Inv'
<1>1. UNCHANGED fileVars
  BY DEF LedgerStep
<1>2. FilesInv' /\ Steady
  BY <1>1, SameFiles DEF Inv, fileVars
<1>3. RequestsInv'
  BY <1>1, <1>2, RequestsStay DEF Inv, fileVars
<1>4. CASE LoadLedger /\ ServeReadyQ
  <2>1. LedgerInv' /\ ListedInv'
    BY <1>1, <1>2, <1>4, LoadLedgerListed DEF Inv
  <2>2. QueryInv'
    BY <1>4, <2>1, LoadLedgerQueries DEF Inv
  <2> QED
    BY <1>2, <1>3, <2>1, <2>2 DEF Inv
<1>5. CASE Appended /\ UNCHANGED queryVars
  <2>1. LedgerInv' /\ ListedInv'
    BY <1>1, <1>5, AppendedListed DEF Inv
  <2>2. QueryInv'
    BY <1>5, AppendedQueries DEF Inv
  <2> QED
    BY <1>2, <1>3, <2>1, <2>2 DEF Inv
<1> QED
  BY <1>4, <1>5 DEF LedgerStep

LEMMA QueriesAlone ==
  ASSUME Inv, QueryInv', UNCHANGED <<ledgerVars, fileVars>>
  PROVE  Inv'
<1>1. FilesInv' /\ Steady
  BY SameFiles DEF Inv, fileVars
<1>2. RequestsInv'
  BY <1>1, RequestsStay DEF Inv, fileVars
<1>3. LedgerInv' /\ ListedInv'
  BY <1>1, LedgerStays DEF Inv
<1> QED
  BY <1>1, <1>2, <1>3 DEF Inv

LEMMA QueryStepInv ==
  ASSUME Inv, QueryStep
  PROVE  Inv'
<1>1. UNCHANGED ledgerVars /\ UNCHANGED fileVars
  BY DEF QueryStep
<1>2. QueryInv'
  BY <1>1, HandleCryptoStep, HandleSignStep, HandleMetadataStep, HandleMaterializeStep, SignedStep,
     ReceiveReplyStep DEF Inv, QueryStep, HandleQuery
<1> QED
  BY <1>1, <1>2, QueriesAlone

LEMMA AskInv ==
  ASSUME Inv, Ask
  PROVE  Inv'
<1> DEFINE any == CHOOSE f \in Files : TRUE
<1>1. UNCHANGED ledgerVars /\ UNCHANGED fileVars
  BY DEF Ask
<1>2. any \in AnyFile /\ \A f \in Files : f \in AnyFile
  BY DEF AnyFile
<1>3. (\E f \in Files : Meta(f)) \/ Materialize(any) \/ Sign(any) \/ CryptoRequest(any)
  BY DEF Ask
<1> HIDE DEF any
<1>4. ASSUME NEW f \in Files, Meta(f)
      PROVE  QueryInv'
  BY <1>1, <1>2, <1>4, AskStep DEF Inv, Meta
<1>5. ASSUME NEW type \in {"Crypto", "Sign", "Materialize"}, QueryBackend(type, any)
      PROVE  QueryInv'
  <2>1. type \in {"Crypto", "Sign", "Metadata", "Materialize"} /\ type # "Metadata"
    OBVIOUS
  <2> QED
    BY <1>1, <1>2, <1>5, <2>1, AskStep DEF Inv
<1>6. QueryInv'
  BY <1>3, <1>4, <1>5 DEF Materialize, Sign, CryptoRequest
<1> QED
  BY <1>1, <1>6, QueriesAlone

\* A step of an upload but the last.
LEMMA UploadInv ==
  ASSUME Inv, FilesInv', Steady, UNCHANGED <<ledgerVars, queryVars, reader>>
  PROVE  Inv'
<1>1. RequestsInv'
  BY RequestsStay DEF Inv
<1>2. LedgerInv' /\ ListedInv'
  BY LedgerStays DEF Inv
<1>3. QueryInv'
  BY QueriesStay DEF Inv, ledgerVars
<1> QED
  BY <1>1, <1>2, <1>3 DEF Inv

LEMMA WrittenInv ==
  ASSUME Inv, NEW f \in Files, Written(f)
  PROVE  Inv'
<1>1. FilesInv' /\ Steady
  BY WrittenFiles DEF Inv
<1>2. RequestsInv'
  BY <1>1, RequestsStay DEF Inv, Written
<1>3. LedgerInv' /\ ListedInv'
  BY WrittenLedger DEF Inv
<1>4. QueryInv'
  BY QueriesStay DEF Inv, Written, WriteThrough
<1> QED
  BY <1>1, <1>2, <1>3, <1>4 DEF Inv

LEMMA WriteStepInv ==
  ASSUME Inv, WriteStep
  PROVE  Inv'
<1>1. PICK f \in Files :
        \/ \E n \in 0..MaxSize : Post(f, n)
        \/ \E k \in 1..MaxPiece : Transform(f, k)
        \/ Flush(f) \/ Abort(f) \/ AppendChunk(f) \/ AppendHeader(f) \/ Written(f)
  BY DEF WriteStep
<1>2. ASSUME NEW n \in 0..MaxSize, Post(f, n)
      PROVE  Inv'
  BY <1>2, PostFiles, UploadInv DEF Inv, Post
<1>3. ASSUME NEW k \in 1..MaxPiece, Transform(f, k)
      PROVE  Inv'
  BY <1>3, TransformFiles, UploadInv DEF Inv, Transform
<1>4. CASE Flush(f)
  BY <1>4, FlushFiles, UploadInv DEF Inv, Flush
<1>5. CASE Abort(f)
  BY <1>5, AbortFiles, UploadInv DEF Inv, Abort
<1>6. CASE AppendChunk(f)
  BY <1>6, AppendChunkFiles, UploadInv DEF Inv, AppendChunk
<1>7. CASE AppendHeader(f)
  BY <1>7, AppendHeaderFiles, UploadInv DEF Inv, AppendHeader
<1>8. CASE Written(f)
  BY <1>8, WrittenInv
<1> QED
  BY <1>1, <1>2, <1>3, <1>4, <1>5, <1>6, <1>7, <1>8

LEMMA ReadersAlone ==
  ASSUME Inv, RequestsInv', UNCHANGED <<ledgerVars, queryVars, upload, feed, size, seen>>
  PROVE  Inv'
<1>1. FilesInv' /\ Steady
  BY SameFiles DEF Inv
<1>2. LedgerInv' /\ ListedInv'
  BY <1>1, LedgerStays DEF Inv
<1>3. QueryInv'
  BY QueriesStay DEF Inv, ledgerVars
<1> QED
  BY <1>1, <1>2, <1>3 DEF Inv

LEMMA ReadStepInv ==
  ASSUME Inv, ReadStep
  PROVE  Inv'
<1>1. ASSUME NEW f \in Files, Replicate(f)
      PROVE  Inv'
  BY <1>1, ReplicateFiles, UploadInv DEF Inv, Replicate
<1>2. ASSUME NEW r \in Readers, SendHeaders(r)
      PROVE  Inv'
  BY <1>2, SendHeadersRequest, ReadersAlone DEF Inv, SendHeaders
<1>3. ASSUME NEW r \in Readers, Stream(r)
      PROVE  Inv'
  BY <1>3, StreamRequest, ReadersAlone DEF Inv, Stream
<1>4. ASSUME NEW r \in Readers, NEW f \in Files, Get(r, f)
      PROVE  Inv'
  BY <1>4, GetRequest, ReadersAlone DEF Inv, Get
<1> QED
  BY <1>1, <1>2, <1>3, <1>4 DEF ReadStep

LEMMA RestartInv ==
  ASSUME Inv, Restart
  PROVE  Inv'
<1>1. FilesInv' /\ Steady
  BY RestartFiles DEF Inv
<1>2. RequestsInv'
  BY <1>1, RequestsStay DEF Inv, Restart
<1>3. LedgerInv' /\ ListedInv'
  BY <1>1, RestartLedgerListed DEF Inv, Restart
<1>4. QueryInv'
  BY RestartQueries
<1> QED
  BY <1>1, <1>2, <1>3, <1>4 DEF Inv

LEMMA StepInv == Inv /\ [Next]_vars => Inv'
<1> SUFFICES ASSUME Inv, [Next]_vars
             PROVE  Inv'
  OBVIOUS
<1>1. CASE StartFileServer
  BY <1>1, StartStep DEF StartFileServer
<1>2. CASE LedgerStep
  BY <1>2, LedgerStepInv
<1>3. CASE QueryStep
  BY <1>3, QueryStepInv
<1>4. CASE Ask
  BY <1>4, AskInv
<1>5. CASE WriteStep
  BY <1>5, WriteStepInv
<1>6. CASE ReadStep
  BY <1>6, ReadStepInv
<1>7. CASE Restart
  BY <1>7, RestartInv
<1>8. CASE UNCHANGED vars
  BY <1>8, StartStep DEF vars, fileVars
<1> QED
  BY <1>1, <1>2, <1>3, <1>4, <1>5, <1>6, <1>7, <1>8 DEF Next

\* The inductive invariant holds: what is in a feed and on its way to it are the
\* first bytes of the file, the ledger lists each whole file once, and every
\* query is at one place at most and kept as it was asked.
THEOREM InvHolds == Spec => []Inv
BY InitInv, StepInv, PTL DEF Spec

-----------------------------------------------------------------------------
(* Theorems *)

\* The ledger is true at any time: a file that it lists, or that will be added
\* to it, was written completely, and what is known once it was read is what
\* is on its disk and what is being appended, each file once.  (writeThrough,
\* loadLedger and addBlock of Metadata.ts, writeLog in FileStore.ts)
THEOREM LedgerHolds == Spec => []LedgerIsTrue
<1>1. ASSUME Inv PROVE LedgerIsTrue
  <2>1. ListedIsWhole
    <3>1. ToSet(disk) \cup ToSet(appending) \cup ToSet(replay) = ToSet(disk) \cup ToSet(Late)
      BY <1>1, LedgerIs, EmptyIds DEF Inv
    <3>2. \A b \in ToSet(disk) \cup ToSet(Late) : BlockOk(b, upload[b.id], feed[b.id], size[b.id])
      BY <1>1, BlocksAreSet DEF Inv, ListedInv, BlocksOk
    <3>3. ASSUME NEW b \in ToSet(disk) \cup ToSet(Late)
          PROVE  /\ feed[b.id] # <<>> /\ feed[b.id][Len(feed[b.id])].type = "header"
                 /\ b.bytes = size[b.id]
      <4>1. b.bytes = size[b.id] /\ IsWhole(feed[b.id], size[b.id])
        BY <3>2 DEF BlockOk
      <4> QED
        BY <4>1 DEF IsWhole, HeaderBlock
    <3> QED
      BY <3>1, <3>3 DEF ListedIsWhole
  <2>2. KnownIsListed
    <3> SUFFICES ASSUME ready PROVE
          /\ \A f \in Files, n \in 0..MaxSize :
               files[f] = n <=> \E i \in DOMAIN (disk \o appending) :
                                  (disk \o appending)[i] = [id |-> f, bytes |-> n]
          /\ \A i, j \in DOMAIN (disk \o appending) :
               (disk \o appending)[i].id = (disk \o appending)[j].id => i = j
      BY DEF KnownIsListed
    <3> DEFINE listed == disk \o appending
    <3>1. Lists(disk, appending, files, TRUE) /\ disk \in Seq(Block) /\ appending \in Seq(Block)
      BY <1>1, LedgerIs DEF Inv
    <3>2. /\ ToSet(listed) = ToSet(disk) \cup ToSet(appending) /\ Distinct(listed)
          /\ listed \in Seq(Block)
      BY <3>1, ConcatOf, ConcatIds DEF Lists
    <3> HIDE DEF listed
    <3>3. \A i \in DOMAIN listed : listed[i] \in Block
      BY <3>2, LenProperties
    <3>4. ASSUME NEW f \in Files, NEW n \in 0..MaxSize
          PROVE  files[f] = n <=> \E i \in DOMAIN listed : listed[i] = [id |-> f, bytes |-> n]
      <4>1. files[f] = n <=> Has(disk, f, n) \/ Has(appending, f, n)
        BY <3>1 DEF Lists
      <4>2. Has(disk, f, n) \/ Has(appending, f, n) <=> Has(listed, f, n)
        BY <3>2, IdsAre
      <4>3. Has(listed, f, n) <=> \E i \in DOMAIN listed : listed[i] = [id |-> f, bytes |-> n]
        BY <3>3 DEF Has, Block
      <4> QED
        BY <4>1, <4>2, <4>3
    <3>5. \A i, j \in DOMAIN listed : listed[i].id = listed[j].id => i = j
      BY <3>2 DEF Distinct
    <3> QED
      BY <3>4, <3>5 DEF listed
  <2> QED
    BY <2>1, <2>2 DEF LedgerIsTrue
<1> QED
  BY <1>1, InvHolds, PTL

\* Whoever asks about a file that was on the disk is told that it is a file,
\* whether the ledger was read before the question or after it, and however
\* the process has restarted in between.  (handleQuery, readyQ in Metadata.ts)
THEOREM ToldHolds == Spec => []ToldOfFiles
<1>1. ASSUME Inv PROVE ToldOfFiles
  <2>1. \A m \in ToSet(toFrontend) : Told(m, cb)
    BY <1>1 DEF Inv, QueryInv, QueriesOk
  <2> QED
    BY <2>1, IdsAre DEF ToldOfFiles, Told
<1> QED
  BY <1>1, InvHolds, PTL

\* A reader gets all the bytes of the file in their order, whatever the pieces
\* in which they came, and their number before them; one block too many is
\* announced if and only if the last one is full.  (write, header, read and
\* ChunkSizeTransform)
THEOREM ReadHolds == Spec => []GetsTheFile
<1>1. ASSUME Inv PROVE GetsTheFile
  <2> SUFFICES ASSUME NEW r \in Readers, reader[r].phase = "done"
               PROVE  /\ reader[r].size = size[reader[r].file]
                      /\ FlattenSeq([i \in DOMAIN reader[r].body |-> reader[r].body[i].bytes])
                           = [i \in 1..reader[r].size |-> i]
                      /\ reader[r].blocks = Len(reader[r].body)
                                             + (IF reader[r].size % BlockSize = 0 THEN 1 ELSE 0)
    BY DEF GetsTheFile
  <2> DEFINE f == reader[r].file
             b == reader[r].body
  <2>1. reader[r] \in Requests /\ RequestOk(reader[r], feed[f], size[f], seen[f])
    BY <1>1 DEF Inv, RequestsInv
  <2>2. /\ size[f] \in 0..MaxSize /\ reader[r].size = size[f]
        /\ reader[r].blocks = Len(b) + Bonus(size[f]) /\ IsCut(b, Len(b), size[f])
        /\ b \in Seq(FileBlock)
    BY <2>1 DEF RequestOk, Requests
  <2>3. size[f] \in Nat
    BY <2>2, LedgerConstants
  <2> HIDE DEF b, f
  <2>4. FlattenSeq([i \in DOMAIN b |-> b[i].bytes]) = [i \in 1..size[f] |-> i]
    BY <2>2, <2>3, CutHoldsBytes
  <2> QED
    BY <2>2, <2>4 DEF Bonus, b, f
<1> QED
  BY <1>1, InvHolds, PTL
=============================================================================
