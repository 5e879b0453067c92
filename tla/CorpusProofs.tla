----------------------------- MODULE CorpusProofs -----------------------------
(***************************************************************************)
(* Proofs about Corpus and about the hash in it, Sha256, for every tree,   *)
(* all contents, all names, all caps, blocks of any size and every number  *)
(* of changes during the scan.                                             *)
(*                                                                         *)
(* First the hash.  What update() makes of some bytes is put in closed     *)
(* form: the whole blocks are compressed, the rest is kept (Fed).  So two  *)
(* calls in a row are one call with both messages, and what finish() feeds *)
(* is the padding of FIPS 180-4.                                           *)
(*                                                                         *)
(* Then the names of the tests, the hashes that the scan keeps, and the    *)
(* walk, which is compared with the directories that lead to each other    *)
(* (Walked).  At the end come the draws: that samples spread is not        *)
(* inductive, as a draw must add a new hash as long as there is one, which *)
(* needs that only hashes of files are avoided and that the files stay     *)
(* after the scan, where entry is what could still change them.            *)
(***************************************************************************)
EXTENDS Corpus, FoldTheorems, FiniteSetTheorems, SequenceTheorems, TLAPS

-----------------------------------------------------------------------------
(* Blocks *)

\* The bytes of i blocks, the blocks in x bytes, and the bytes beyond them.
Size(i)  == Block * i
Whole(x) == x \div Block
Over(x)  == x % Block

\* The bytes of a message after its last whole block.
Left(p) == SubSeq(p, Size(Whole(Len(p))) + 1, Len(p))

\* Blocks follow each other.
LEMMA Sizes ==
  /\ Block \in Nat \ {0} /\ Size(0) = 0
  /\ \A i \in Nat : Size(i) \in Nat /\ Size(i + 1) = Size(i) + Block
  /\ \A i, k \in Nat : Size(i + k) = Size(i) + Size(k)
  /\ \A i, k \in Nat : i <= k => Size(i) <= Size(k)
<1>1. Block \in Nat \ {0}
  BY Sha256Assumption
<1>2. ASSUME NEW i \in Nat PROVE Block * i \in Nat /\ Block * (i + 1) = Block * i + Block
  BY <1>1
<1>3. ASSUME NEW i \in Nat, NEW k \in Nat PROVE Block * (i + k) = Block * i + Block * k
  BY <1>1
<1>4. ASSUME NEW i \in Nat, NEW k \in Nat, i <= k PROVE Block * i <= Block * k
  <2>1. k - i \in Nat /\ k = i + (k - i)
    BY <1>4
  <2>2. Block * k = Block * i + Block * (k - i)
    BY <1>3, <2>1
  <2> QED
    BY <1>2, <2>1, <2>2
<1>5. Block * 0 = 0
  BY <1>1
<1> QED
  BY <1>1, <1>2, <1>3, <1>4, <1>5 DEF Size

\* A number is made of its blocks and what is beyond them, and of no others.
LEMMA Division ==
  /\ \A x \in Nat : /\ x = Size(Whole(x)) + Over(x)
                    /\ Whole(x) \in Nat /\ Over(x) \in 0 .. Block - 1
  /\ \A q \in Nat, r \in 0 .. Block - 1 :
       Whole(Size(q) + r) = q /\ Over(Size(q) + r) = r
<1>1. Block \in Nat \ {0}
  BY Sha256Assumption
<1>2. ASSUME NEW x \in Nat
      PROVE  /\ x = Block * (x \div Block) + (x % Block)
             /\ x \div Block \in Nat /\ x % Block \in 0 .. Block - 1
  BY <1>1
<1>3. ASSUME NEW q \in Nat, NEW r \in 0 .. Block - 1, NEW x \in Nat, x = Block * q + r
      PROVE  x \div Block = q /\ x % Block = r
  BY <1>1, <1>3
<1>4. ASSUME NEW q \in Nat, NEW r \in 0 .. Block - 1
      PROVE  Whole(Size(q) + r) = q /\ Over(Size(q) + r) = r
  <2>1. r \in Nat
    BY <1>1
  <2>2. Block * q \in Nat /\ Block * q + r \in Nat
    BY <1>1, <2>1
  <2> QED
    BY <1>3, <2>1, <2>2 DEF Size, Whole, Over
<1> QED
  BY <1>2, <1>4 DEF Size, Whole, Over

\* A part of a sequence.
LEMMA Stretch ==
  ASSUME NEW p \in Seq(Nat), NEW u \in Nat \ {0}, NEW v \in Nat, v <= Len(p)
  PROVE  /\ SubSeq(p, u, v) \in Seq(Nat)
         /\ Len(SubSeq(p, u, v)) = IF u <= v THEN v - u + 1 ELSE 0
         /\ \A j \in 1 .. v - u + 1 : SubSeq(p, u, v)[j] = p[u + j - 1]
<1>1. \A j \in u .. v : p[j] \in Nat
  OBVIOUS
<1> QED
  BY <1>1, SubSeqProperties

\* What Blocks and Left return.
LEMMA BlocksLeft ==
  ASSUME NEW p \in Seq(Nat)
  PROVE  /\ Blocks(p) \in Seq(Seq(Nat)) /\ Len(Blocks(p)) = Whole(Len(p))
         /\ \A i \in Nat : i < Whole(Len(p)) =>
              Blocks(p)[i + 1] = SubSeq(p, Size(i) + 1, Size(i + 1))
         /\ Left(p) \in Seq(Nat) /\ Len(Left(p)) = Over(Len(p))
         /\ \A j \in 1 .. Over(Len(p)) : Left(p)[j] = p[Size(Whole(Len(p))) + j]
<1> DEFINE q == Whole(Len(p))
           r == Over(Len(p))
<1>1. q \in Nat /\ r \in 0 .. Block - 1 /\ Len(p) = Size(q) + r /\ Size(q) \in Nat /\ Len(p) \in Nat
  <2>1. Len(p) \in Nat
    OBVIOUS
  <2> QED
    BY <2>1, Division, Sizes
<1>2. Blocks(p) = [i \in 1 .. q |-> SubSeq(p, Size(i - 1) + 1, Size(i))]
  BY DEF Blocks, Size, Whole
<1> HIDE DEF q, r
<1>3. ASSUME NEW i \in 1 .. q PROVE SubSeq(p, Size(i - 1) + 1, Size(i)) \in Seq(Nat)
  <2>0. i - 1 \in Nat /\ i \in Nat /\ i <= q
    BY <1>1
  <2>1. Size(i - 1) \in Nat /\ Size(i) \in Nat /\ Size(i) <= Size(q)
    BY <1>1, <2>0, Sizes
  <2>2. Size(i - 1) + 1 \in Nat \ {0} /\ Size(i) <= Len(p)
    BY <1>1, <2>1
  <2> QED
    BY <2>1, <2>2, Stretch
<1>4. Blocks(p) \in Seq(Seq(Nat)) /\ Len(Blocks(p)) = q
  BY <1>1, <1>2, <1>3
<1>5. ASSUME NEW i \in Nat, i < q PROVE Blocks(p)[i + 1] = SubSeq(p, Size(i) + 1, Size(i + 1))
  <2>1. i + 1 \in 1 .. q /\ (i + 1) - 1 = i
    BY <1>1, <1>5
  <2> QED
    BY <1>2, <2>1
<1>6. /\ Left(p) \in Seq(Nat) /\ Len(Left(p)) = r
      /\ \A j \in 1 .. r : Left(p)[j] = p[Size(q) + j]
  <2>1. Left(p) = SubSeq(p, Size(q) + 1, Len(p))
    BY DEF Left, q
  <2>2. Size(q) + 1 \in Nat \ {0} /\ Len(p) <= Len(p)
    BY <1>1
  <2> DEFINE u == Size(q) + 1
  <2> HIDE DEF u
  <2>3. /\ SubSeq(p, u, Len(p)) \in Seq(Nat)
        /\ Len(SubSeq(p, u, Len(p))) = IF u <= Len(p) THEN Len(p) - u + 1 ELSE 0
        /\ \A j \in 1 .. Len(p) - u + 1 : SubSeq(p, u, Len(p))[j] = p[u + j - 1]
    BY <1>1, <2>2, Stretch DEF u
  <2>4. /\ Left(p) \in Seq(Nat)
        /\ Len(Left(p)) = IF Size(q) + 1 <= Len(p) THEN Len(p) - (Size(q) + 1) + 1 ELSE 0
        /\ \A j \in 1 .. Len(p) - (Size(q) + 1) + 1 : Left(p)[j] = p[(Size(q) + 1) + j - 1]
    BY <2>1, <2>3 DEF u
  <2>5. ASSUME NEW j \in 1 .. r PROVE Left(p)[j] = p[Size(q) + j]
    <3>1. j \in 1 .. Len(p) - (Size(q) + 1) + 1 /\ (Size(q) + 1) + j - 1 = Size(q) + j
      BY <1>1
    <3> QED
      BY <2>4, <3>1
  <2> QED
    BY <1>1, <2>4, <2>5
<1> QED
  BY <1>4, <1>5, <1>6 DEF q, r

\* a has c behind its first n elements.
Ends(a, n, c) == Len(a) = n + Len(c) /\ \A j \in 1 .. Len(c) : a[n + j] = c[j]

\* A part of the end of a sequence.
LEMMA PartOfEnd ==
  ASSUME NEW a \in Seq(Nat), NEW c \in Seq(Nat), NEW n \in Nat, Ends(a, n, c),
         NEW u \in Nat \ {0}, NEW v \in Nat, v <= Len(c)
  PROVE  SubSeq(a, n + u, n + v) = SubSeq(c, u, v)
<1> USE DEF Ends
<1> DEFINE s == SubSeq(a, n + u, n + v)
           t == SubSeq(c, u, v)
<1>1. n + u \in Nat \ {0} /\ n + v \in Nat /\ n + v <= Len(a)
  OBVIOUS
<1>2. /\ s \in Seq(Nat)
      /\ Len(s) = IF n + u <= n + v THEN (n + v) - (n + u) + 1 ELSE 0
      /\ \A j \in 1 .. (n + v) - (n + u) + 1 : s[j] = a[(n + u) + j - 1]
  BY <1>1, Stretch
<1>3. /\ t \in Seq(Nat) /\ Len(t) = IF u <= v THEN v - u + 1 ELSE 0
      /\ \A j \in 1 .. v - u + 1 : t[j] = c[u + j - 1]
  BY Stretch
<1> HIDE DEF s, t
<1>4. ASSUME NEW j \in 1 .. Len(s) PROVE s[j] = t[j]
  <2>1. /\ j \in 1 .. v - u + 1 /\ j \in 1 .. (n + v) - (n + u) + 1
        /\ (n + u) + j - 1 = n + (u + j - 1) /\ u + j - 1 \in 1 .. Len(c)
    BY <1>2
  <2>2. a[n + (u + j - 1)] = c[u + j - 1]
    BY <2>1
  <2> QED
    BY <1>2, <1>3, <2>1, <2>2
<1>5. Len(s) = Len(t)
  BY <1>2, <1>3
<1> QED
  BY <1>2, <1>3, <1>4, <1>5, SeqEqual DEF s, t


\* The blocks of a message that goes on are those it had, and those of what
\* was left with what follows.
LEMMA BlocksGrow ==
  ASSUME NEW a \in Seq(Nat), NEW b \in Seq(Nat)
  PROVE  /\ Blocks(a \o b) = Blocks(a) \o Blocks(Left(a) \o b)
         /\ Left(a \o b) = Left(Left(a) \o b)
<1> DEFINE q == Whole(Len(a))
           r == Over(Len(a))
           c == Left(a) \o b
           w == a \o b
           k == Whole(Len(c))
           n == Size(q)
<1>1. /\ q \in Nat /\ r \in Nat /\ Len(a) \in Nat /\ Len(b) \in Nat
      /\ n \in Nat /\ Len(a) = n + r
  <2>1. Len(a) \in Nat /\ Len(b) \in Nat
    OBVIOUS
  <2>2. q \in Nat /\ r \in 0 .. Block - 1 /\ Len(a) = Size(q) + r
    BY <2>1, Division
  <2>3. n \in Nat
    BY <2>2, Sizes
  <2> QED
    BY <2>1, <2>2, <2>3
<1>2. /\ w \in Seq(Nat) /\ Len(w) = Len(a) + Len(b)
      /\ \A i \in 1 .. Len(a) + Len(b) : w[i] = IF i <= Len(a) THEN a[i] ELSE b[i - Len(a)]
  BY ConcatProperties
<1>3. /\ Left(a) \in Seq(Nat) /\ Len(Left(a)) = r
      /\ \A j \in 1 .. r : Left(a)[j] = a[n + j]
  BY BlocksLeft
<1>4. /\ c \in Seq(Nat) /\ Len(c) = r + Len(b)
      /\ \A i \in 1 .. r + Len(b) : c[i] = IF i <= r THEN Left(a)[i] ELSE b[i - r]
  <2> HIDE DEF q, r, n, w
  <2> QED
    BY <1>3, ConcatProperties
<1> HIDE DEF q, r, c, w, n, k
<1>5. Len(w) = n + Len(c) /\ Ends(w, n, c)
  <2>1. Len(w) = n + Len(c)
    BY <1>1, <1>2, <1>4
  <2>2. ASSUME NEW j \in 1 .. Len(c) PROVE w[n + j] = c[j]
    <3>1. n + j \in 1 .. Len(a) + Len(b) /\ (n + j <= Len(a) <=> j <= r) /\ (n + j) - Len(a) = j - r
      BY <1>1, <1>4
    <3>2. w[n + j] = IF j <= r THEN a[n + j] ELSE b[j - r]
      BY <1>2, <3>1
    <3>3. c[j] = IF j <= r THEN Left(a)[j] ELSE b[j - r]
      BY <1>4
    <3>4. j <= r => Left(a)[j] = a[n + j]
      BY <1>1, <1>3
    <3> QED
      BY <3>2, <3>3, <3>4
  <2> QED
    BY <2>1, <2>2 DEF Ends
<1>6. /\ k \in Nat /\ Size(k) <= Len(c) /\ Len(c) \in Nat
      /\ Whole(Len(w)) = q + k /\ Over(Len(w)) = Over(Len(c))
  <2>1. Len(c) \in Nat
    BY <1>4
  <2>2. k \in Nat /\ Over(Len(c)) \in 0 .. Block - 1 /\ Len(c) = Size(k) + Over(Len(c))
    BY <2>1, Division DEF k
  <2>3. Size(k) \in Nat /\ q + k \in Nat /\ Size(q + k) = n + Size(k)
    BY <1>1, <2>2, Sizes DEF n
  <2>4. Len(w) = Size(q + k) + Over(Len(c))
    <3>1. Len(w) = n + (Size(k) + Over(Len(c))) /\ Over(Len(c)) \in Int
      BY <1>5, <2>2
    <3> QED
      BY <1>1, <2>3, <3>1
  <2>5. Whole(Len(w)) = q + k /\ Over(Len(w)) = Over(Len(c))
    <3> DEFINE x == q + k
               o == Over(Len(c))
    <3>1. x \in Nat /\ o \in 0 .. Block - 1
      BY <2>2, <2>3
    <3> HIDE DEF x, o
    <3>2. Whole(Size(x) + o) = x /\ Over(Size(x) + o) = o
      BY <3>1, Division
    <3>3. Len(w) = Size(x) + o
      BY <2>4 DEF x, o
    <3> QED
      BY <3>2, <3>3 DEF x, o
  <2> QED
    BY <2>1, <2>2, <2>3, <2>5
<1>7. \A u \in Nat \ {0}, v \in Nat :
        v <= Len(c) => SubSeq(w, n + u, n + v) = SubSeq(c, u, v)
  <2>1. w \in Seq(Nat) /\ c \in Seq(Nat) /\ n \in Nat /\ Ends(w, n, c)
    BY <1>1, <1>2, <1>4, <1>5
  <2> QED
    BY <2>1, PartOfEnd, Zenon
<1>8. Blocks(w) = Blocks(a) \o Blocks(c)
  <2>1. /\ Blocks(w) \in Seq(Seq(Nat)) /\ Len(Blocks(w)) = q + k
        /\ \A i \in Nat : i < q + k => Blocks(w)[i + 1] = SubSeq(w, Size(i) + 1, Size(i + 1))
    BY <1>2, <1>6, BlocksLeft
  <2>2. /\ Blocks(a) \in Seq(Seq(Nat)) /\ Len(Blocks(a)) = q
        /\ \A i \in Nat : i < q => Blocks(a)[i + 1] = SubSeq(a, Size(i) + 1, Size(i + 1))
    BY BlocksLeft DEF q
  <2>3. /\ Blocks(c) \in Seq(Seq(Nat)) /\ Len(Blocks(c)) = k
        /\ \A i \in Nat : i < k => Blocks(c)[i + 1] = SubSeq(c, Size(i) + 1, Size(i + 1))
    BY <1>4, BlocksLeft DEF k
  <2>4. /\ Blocks(a) \o Blocks(c) \in Seq(Seq(Nat)) /\ Len(Blocks(a) \o Blocks(c)) = q + k
        /\ \A i \in 1 .. q + k :
             (Blocks(a) \o Blocks(c))[i] = IF i <= q THEN Blocks(a)[i] ELSE Blocks(c)[i - q]
    BY <2>2, <2>3, ConcatProperties
  <2>5. ASSUME NEW i \in Nat, i < q + k
        PROVE  Blocks(w)[i + 1] = (Blocks(a) \o Blocks(c))[i + 1]
    <3>1. CASE i < q
      <4>1. Size(i) \in Nat /\ Size(i + 1) \in Nat /\ Size(i + 1) = Size(i) + Block /\ Size(i + 1) <= n
        <5>1. i + 1 \in Nat /\ i + 1 <= q
          BY <1>1, <3>1
        <5> QED
          BY <1>1, <5>1, Sizes DEF n
      <4>2. Size(i) + 1 \in 1 .. Len(a) /\ Size(i + 1) \in 1 .. Len(a)
        <5>1. Block \in Nat \ {0}
          BY Sizes
        <5> QED
          BY <1>1, <4>1, <5>1
      <4>3. SubSeq(w, Size(i) + 1, Size(i + 1)) = SubSeq(a, Size(i) + 1, Size(i + 1))
        BY <4>2, SubSeqOfConcat1 DEF w
      <4>4. i + 1 \in 1 .. q + k /\ i + 1 <= q
        BY <1>1, <1>6, <3>1
      <4> QED
        BY <2>1, <2>2, <2>4, <2>5, <3>1, <4>3, <4>4
    <3>2. CASE ~(i < q)
      <4> DEFINE j == i - q
      <4>1. j \in Nat /\ i = q + j /\ i + 1 = q + (j + 1) /\ j < k /\ j + 1 \in Nat /\ j + 1 <= k
        BY <1>1, <1>6, <2>5, <3>2
      <4> HIDE DEF j
      <4>2. Size(j) \in Nat /\ Size(j + 1) \in Nat /\ Size(j + 1) <= Size(k) /\ Size(k) \in Nat
        BY <1>6, <4>1, Sizes
      <4>3. Size(i) = n + Size(j) /\ Size(i + 1) = n + Size(j + 1)
        BY <1>1, <4>1, Sizes DEF n
      <4>4. Size(j) + 1 \in Nat \ {0} /\ Size(j + 1) <= Len(c)
        BY <1>6, <4>2
      <4>5. SubSeq(w, n + (Size(j) + 1), n + Size(j + 1)) = SubSeq(c, Size(j) + 1, Size(j + 1))
        BY <1>7, <4>2, <4>4
      <4>6. n + (Size(j) + 1) = Size(i) + 1
        BY <1>1, <4>2, <4>3
      <4>7. Blocks(w)[i + 1] = SubSeq(c, Size(j) + 1, Size(j + 1))
        BY <2>1, <2>5, <4>3, <4>5, <4>6
      <4>8. i + 1 \in 1 .. q + k /\ ~(i + 1 <= q) /\ (i + 1) - q = j + 1
        BY <1>1, <1>6, <4>1
      <4> QED
        BY <2>3, <2>4, <4>1, <4>7, <4>8
    <3> QED
      BY <3>1, <3>2
  <2>6. ASSUME NEW i \in 1 .. q + k PROVE Blocks(w)[i] = (Blocks(a) \o Blocks(c))[i]
    <3>1. i - 1 \in Nat /\ i - 1 < q + k /\ (i - 1) + 1 = i
      BY <1>1, <1>6
    <3> QED
      BY <2>5, <3>1
  <2> QED
    BY <2>1, <2>4, <2>6, SeqEqual
<1>9. Left(w) = Left(c)
  <2>1. Size(k) \in Nat /\ Size(q + k) = n + Size(k)
    BY <1>1, <1>6, Sizes DEF n
  <2>2. Size(k) + 1 \in Nat \ {0} /\ Len(c) <= Len(c)
    BY <1>6, <2>1
  <2>3. SubSeq(w, n + (Size(k) + 1), n + Len(c)) = SubSeq(c, Size(k) + 1, Len(c))
    BY <1>6, <1>7, <2>2
  <2>4. Size(q + k) + 1 = n + (Size(k) + 1)
    BY <1>1, <2>1
  <2> QED
    BY <1>5, <1>6, <2>3, <2>4 DEF Left, k
<1> QED
  BY <1>8, <1>9 DEF w, c
-----------------------------------------------------------------------------
(* update() *)

\* What update() makes of a state and data.
Fed(s, data) ==
  [h |-> s.h \o Blocks(s.buf \o data), total |-> s.total, buf |-> Left(s.buf \o data)]

\* It is a state.
LEMMA FedState ==
  ASSUME NEW s \in State, NEW data \in Seq(Nat)
  PROVE  Fed(s, data) \in State
<1>1. s.h \in Seq(Seq(Nat)) /\ s.total \in Nat /\ s.buf \o data \in Seq(Nat)
  BY ConcatProperties DEF State
<1> DEFINE w == s.buf \o data
<1>2. /\ Blocks(w) \in Seq(Seq(Nat)) /\ Left(w) \in Seq(Nat)
      /\ Len(Left(w)) = Over(Len(w)) /\ Len(w) \in Nat
  <2>1. w \in Seq(Nat)
    BY <1>1
  <2> HIDE DEF w
  <2> QED
    BY <2>1, BlocksLeft
<1>3. Over(Len(s.buf \o data)) < Block
  <2>1. Over(Len(s.buf \o data)) \in 0 .. Block - 1
    BY <1>2, Division
  <2> QED
    BY <2>1, Sizes
<1>4. s.h \o Blocks(s.buf \o data) \in Seq(Seq(Nat))
  BY <1>1, <1>2, ConcatProperties
<1> QED
  BY <1>1, <1>2, <1>3, <1>4 DEF Fed, State

\* Less than a block has no block.
LEMMA NoBlock ==
  ASSUME NEW p \in Seq(Nat), Len(p) < Block
  PROVE  Blocks(p) = <<>> /\ Left(p) = p
<1>1. Len(p) \in Nat /\ Block \in Nat
  BY Sizes
<1>2. Len(p) = Size(0) + Len(p) /\ Len(p) \in 0 .. Block - 1
  <2>1. Size(0) = 0
    BY Sizes
  <2> QED
    BY <1>1, <2>1
<1>3. Whole(Len(p)) = 0 /\ Over(Len(p)) = Len(p)
  <2>1. 0 \in Nat
    OBVIOUS
  <2> QED
    BY <1>2, <2>1, Division
<1>4. Blocks(p) \in Seq(Seq(Nat)) /\ Len(Blocks(p)) = 0
  BY <1>3, BlocksLeft
<1>5. Left(p) = SubSeq(p, 1, Len(p))
  <2>1. Size(0) + 1 = 1
    BY Sizes
  <2> QED
    BY <1>3, <2>1 DEF Left
<1> QED
  BY <1>4, <1>5, SubSeqFull, EmptySeq

\* A block is one.
LEMMA OneBlock ==
  ASSUME NEW p \in Seq(Nat), Len(p) = Block
  PROVE  Blocks(p) = <<p>> /\ Left(p) = <<>>
<1>1. Block \in Nat \ {0} /\ Size(0) = 0 /\ Size(1) = Block
  <2>1. 0 \in Nat /\ 0 + 1 = 1
    OBVIOUS
  <2> QED
    BY <2>1, Sizes
<1>2. Len(p) = Size(1) + 0 /\ 0 \in 0 .. Block - 1 /\ 1 \in Nat
  BY <1>1
<1>3. Whole(Len(p)) = 1 /\ Over(Len(p)) = 0
  BY <1>2, Division
<1>4. /\ Blocks(p) \in Seq(Seq(Nat)) /\ Len(Blocks(p)) = 1
      /\ Blocks(p)[0 + 1] = SubSeq(p, Size(0) + 1, Size(0 + 1))
  <2>1. 0 \in Nat /\ 0 < Whole(Len(p))
    BY <1>3
  <2> QED
    BY <1>3, <2>1, BlocksLeft
<1>5. Blocks(p)[1] = p
  <2>1. 0 + 1 = 1 /\ Size(0) + 1 = 1 /\ Size(0 + 1) = Len(p)
    BY <1>1
  <2>2. SubSeq(p, 1, Len(p)) = p
    BY SubSeqFull
  <2> QED
    BY <1>4, <2>1, <2>2
<1>6. Left(p) \in Seq(Nat) /\ Len(Left(p)) = 0
  BY <1>3, BlocksLeft
<1> QED
  BY <1>4, <1>5, <1>6

\* What is fed in two parts is fed.
LEMMA FedTwice ==
  ASSUME NEW s \in State, NEW a \in Seq(Nat), NEW b \in Seq(Nat)
  PROVE  Fed(Fed(s, a), b) = Fed(s, a \o b)
<1> DEFINE w == s.buf \o a
<1>1. s.h \in Seq(Seq(Nat)) /\ s.buf \in Seq(Nat) /\ w \in Seq(Nat)
  BY ConcatProperties DEF State
<1>2. s.buf \o (a \o b) = w \o b
  <2> DEFINE u == s.buf
  <2>1. u \in Seq(Nat)
    BY <1>1
  <2> HIDE DEF u
  <2>2. (u \o a) \o b = u \o (a \o b)
    BY <2>1, ConcatAssociative
  <2> QED
    BY <2>2 DEF u
<1> HIDE DEF w
<1>3. /\ Blocks(w \o b) = Blocks(w) \o Blocks(Left(w) \o b)
      /\ Left(w \o b) = Left(Left(w) \o b)
  BY <1>1, BlocksGrow
<1>4. Blocks(w) \in Seq(Seq(Nat)) /\ Left(w) \in Seq(Nat)
  BY <1>1, BlocksLeft
<1>5. Left(w) \o b \in Seq(Nat)
  BY <1>4, ConcatProperties
<1>6. Blocks(Left(w) \o b) \in Seq(Seq(Nat))
  BY <1>5, BlocksLeft
<1>7. (s.h \o Blocks(w)) \o Blocks(Left(w) \o b) = s.h \o Blocks(w \o b)
  <2> DEFINE u == s.h
             v == Blocks(w)
             x == Blocks(Left(w) \o b)
  <2>1. u \in Seq(Seq(Nat)) /\ v \in Seq(Seq(Nat)) /\ x \in Seq(Seq(Nat))
    BY <1>1, <1>4, <1>6
  <2>2. Blocks(w \o b) = v \o x
    BY <1>3
  <2> HIDE DEF u, v, x
  <2>3. (u \o v) \o x = u \o (v \o x)
    BY <2>1, ConcatAssociative
  <2> QED
    BY <2>2, <2>3 DEF u, v, x
<1> QED
  BY <1>2, <1>3, <1>7 DEF Fed, w

\* Nothing fed is nothing done.
LEMMA FedNothing ==
  ASSUME NEW s \in State
  PROVE  Fed(s, <<>>) = s
<1>1. s.h \in Seq(Seq(Nat)) /\ s.buf \in Seq(Nat) /\ Len(s.buf) < Block
  BY DEF State
<1>2. s.buf \o <<>> = s.buf /\ s.h \o <<>> = s.h
  BY <1>1, ConcatEmptySeq
<1>3. Blocks(s.buf) = <<>> /\ Left(s.buf) = s.buf
  BY <1>1, NoBlock
<1> QED
  BY <1>2, <1>3 DEF Fed, State

\* A record with one field changed.
LEMMA WithBuf ==
  ASSUME NEW H, NEW T, NEW B, NEW s \in [h : H, total : T, buf : B], NEW u
  PROVE  [s EXCEPT !.buf = u] = [h |-> s.h, total |-> s.total, buf |-> u]
OBVIOUS

\* The same for the count of what has been fed.
LEMMA WithTotal ==
  ASSUME NEW H, NEW T, NEW B, NEW s \in [h : H, total : T, buf : B], NEW n
  PROVE  [s EXCEPT !.total = n] = [h |-> s.h, total |-> n, buf |-> s.buf]
OBVIOUS

\* One turn of the loop of update(): what it takes of the data, the state with
\* it, and the data after it.
Taken(s, data) == Min({Block - Len(s.buf), Len(data)})
Turned(s, data) ==
  LET t == [s EXCEPT !.buf = @ \o SubSeq(data, 1, Taken(s, data))]
  IN  IF Len(t.buf) = Block THEN Process(t) ELSE t
After(s, data) == SubSeq(data, Taken(s, data) + 1, Len(data))

\* A turn feeds what it takes.
LEMMA Turn ==
  ASSUME NEW s \in State, NEW data \in Seq(Nat), data # <<>>
  PROVE  /\ Turned(s, data) \in State /\ After(s, data) \in Seq(Nat)
         /\ Len(After(s, data)) < Len(data)
         /\ Fed(Turned(s, data), After(s, data)) = Fed(s, data)
<1> DEFINE b == s.buf
           k == Taken(s, data)
           p == SubSeq(data, 1, k)
           r == After(s, data)
<1>1. /\ b \in Seq(Nat) /\ Len(b) \in Nat /\ Len(b) < Block /\ Block \in Nat
      /\ s.h \in Seq(Seq(Nat)) /\ s.total \in Nat
      /\ s = [h |-> s.h, total |-> s.total, buf |-> b]
  BY Sizes DEF State
<1>2. Len(data) \in Nat \ {0}
  BY EmptySeq
<1>3. k \in Nat \ {0} /\ k <= Len(data) /\ Len(b) + k <= Block
  <2> DEFINE x == Block - Len(b)
             y == Len(data)
  <2>1. x \in Nat \ {0} /\ y \in Nat \ {0}
    BY <1>1, <1>2
  <2> HIDE DEF x, y
  <2>2. Min({x, y}) = IF x <= y THEN x ELSE y
    BY <2>1 DEF Min
  <2>3. k = Min({x, y})
    BY DEF Taken, x, y
  <2>4. x = Block - Len(b) /\ y = Len(data)
    BY DEF x, y
  <2> HIDE DEF k, b
  <2> QED
    BY <1>1, <1>2, <2>1, <2>2, <2>3, <2>4
<1>4. r = SubSeq(data, k + 1, Len(data))
  BY DEF After
<1> HIDE DEF k, r, b
<1>5. p \in Seq(Nat) /\ Len(p) = k
  BY <1>2, <1>3, Stretch
<1>6. r \in Seq(Nat) /\ Len(r) < Len(data)
  BY <1>2, <1>3, <1>4, Stretch
<1>7. p \o r = data
  <2>1. 1 \in 1 .. Len(data) + 1 /\ k \in 1 - 1 .. Len(data) /\ Len(data) \in k .. Len(data)
    BY <1>2, <1>3
  <2>2. SubSeq(data, 1, k) \o SubSeq(data, k + 1, Len(data)) = SubSeq(data, 1, Len(data))
    BY <2>1, ConcatAdjacentSubSeq
  <2> QED
    BY <1>4, <2>2, SubSeqFull
<1> HIDE DEF p
<1>8. b \o p \in Seq(Nat) /\ Len(b \o p) = Len(b) + k
  BY <1>1, <1>5, ConcatProperties
<1>9. Turned(s, data) = Fed(s, p)
  <2> DEFINE u == b \o p
             t == [h |-> s.h, total |-> s.total, buf |-> u]
  <2>1. t = [s EXCEPT !.buf = @ \o SubSeq(data, 1, Taken(s, data))]
    <3> DEFINE B == {c \in Seq(Nat) : Len(c) < Block}
    <3>1. s \in [h : Seq(Seq(Nat)), total : Nat, buf : B]
      BY DEF State
    <3>2. s.buf \o SubSeq(data, 1, Taken(s, data)) = u
      BY DEF b, p, k
    <3> HIDE DEF u, B
    <3>3. [s EXCEPT !.buf = u] = [h |-> s.h, total |-> s.total, buf |-> u]
      BY <3>1, WithBuf
    <3> QED
      BY <3>2, <3>3
  <2>2. Turned(s, data) = IF Len(u) = Block THEN [h |-> Append(s.h, u), total |-> s.total, buf |-> <<>>]
                                           ELSE t
    <3> HIDE DEF t
    <3>1. Turned(s, data) = IF Len(t.buf) = Block THEN Process(t) ELSE t
      BY <2>1 DEF Turned
    <3>2. t.buf = u /\ Process(t) = [h |-> Append(s.h, u), total |-> s.total, buf |-> <<>>]
      BY DEF t, Process
    <3> QED
      BY <3>1, <3>2
  <2>3. Fed(s, p) = [h |-> s.h \o Blocks(u), total |-> s.total, buf |-> Left(u)]
    BY DEF Fed, b
  <2>4. u \in Seq(Nat) /\ Len(u) <= Block /\ Len(u) \in Nat
    BY <1>1, <1>3, <1>8
  <2> HIDE DEF u
  <2>5. CASE Len(u) = Block
    <3>1. Blocks(u) = <<u>> /\ Left(u) = <<>>
      BY <2>4, <2>5, OneBlock
    <3>2. s.h \o <<u>> = Append(s.h, u)
      BY <1>1, <2>4, AppendIsConcat
    <3> QED
      BY <2>2, <2>3, <2>5, <3>1, <3>2
  <2>6. CASE Len(u) # Block
    <3>1. Blocks(u) = <<>> /\ Left(u) = u
      BY <1>1, <2>4, <2>6, NoBlock
    <3>2. s.h \o <<>> = s.h
      BY <1>1, ConcatEmptySeq
    <3> QED
      BY <2>2, <2>3, <2>6, <3>1, <3>2
  <2> QED
    BY <2>5, <2>6
<1>10. Fed(s, p) \in State
  BY <1>5, FedState
<1>11. Fed(Fed(s, p), r) = Fed(s, p \o r)
  BY <1>5, <1>6, FedTwice
<1> QED
  BY <1>6, <1>7, <1>9, <1>10, <1>11 DEF r

\* A state and data.
Inputs == State \X Seq(Nat)

\* f is what the loop of update() says.
Loops(f) ==
  f = [x \in Inputs |-> IF x[2] = <<>> THEN x[1] ELSE f[<<Turned(x[1], x[2]), After(x[1], x[2])>>]]

\* The function that feeds, which is such a function.
Feeding == [x \in Inputs |-> Fed(x[1], x[2])]

\* What feeds makes one turn and feeds the rest.
LEMMA FeedingLoops == Loops(Feeding)
<1> SUFFICES ASSUME NEW x \in Inputs
             PROVE  Feeding[x] = IF x[2] = <<>> THEN x[1]
                                 ELSE Feeding[<<Turned(x[1], x[2]), After(x[1], x[2])>>]
  <2>1. Feeding = [x \in Inputs |-> Feeding[x]]
    BY DEF Feeding
  <2> QED
    BY <2>1 DEF Loops
<1>0. PICK s \in State, data \in Seq(Nat) : x = <<s, data>>
  BY DEF Inputs
<1> SUFFICES Feeding[<<s, data>>] = IF data = <<>> THEN s
                                      ELSE Feeding[<<Turned(s, data), After(s, data)>>]
  BY <1>0
<1>1. ASSUME NEW u \in State, NEW v \in Seq(Nat) PROVE Feeding[<<u, v>>] = Fed(u, v)
  BY DEF Inputs, Feeding
<1>2. Feeding[<<s, data>>] = Fed(s, data)
  BY <1>1
<1>3. CASE data = <<>>
  BY <1>2, <1>3, FedNothing
<1>4. CASE data # <<>>
  <2>1. /\ Turned(s, data) \in State /\ After(s, data) \in Seq(Nat)
        /\ Fed(Turned(s, data), After(s, data)) = Fed(s, data)
    BY <1>4, Turn
  <2> QED
    BY <1>1, <1>2, <1>4, <2>1
<1> QED
  BY <1>3, <1>4

\* All of them feed.
LEMMA LoopsFeed ==
  ASSUME NEW f, Loops(f)
  PROVE  \A s \in State, data \in Seq(Nat) : f[<<s, data>>] = Fed(s, data)
<1> DEFINE P == {n \in Nat : \A s \in State, data \in Seq(Nat) :
                               Len(data) <= n => f[<<s, data>>] = Fed(s, data)}
<1>1. ASSUME NEW s \in State, NEW data \in Seq(Nat)
      PROVE  f[<<s, data>>] = IF data = <<>> THEN s ELSE f[<<Turned(s, data), After(s, data)>>]
  <2> DEFINE g == [x \in Inputs |-> IF x[2] = <<>> THEN x[1]
                                    ELSE f[<<Turned(x[1], x[2]), After(x[1], x[2])>>]]
  <2>1. f = g
    BY DEF Loops
  <2>2. g[<<s, data>>] = IF data = <<>> THEN s ELSE f[<<Turned(s, data), After(s, data)>>]
    BY DEF Inputs
  <2> HIDE DEF g
  <2> QED
    BY <2>1, <2>2
<1>2. ASSUME NEW s \in State, NEW data \in Seq(Nat), Len(data) <= 0
      PROVE  f[<<s, data>>] = Fed(s, data)
  <2>1. data = <<>>
    BY <1>2, EmptySeq
  <2> QED
    BY <1>1, <2>1, FedNothing
<1>3. ASSUME NEW n \in Nat, n \in P, NEW s \in State, NEW data \in Seq(Nat), Len(data) <= n + 1
      PROVE  f[<<s, data>>] = Fed(s, data)
  <2>1. CASE data = <<>>
    BY <1>1, <2>1, FedNothing
  <2>2. CASE data # <<>>
    <3>1. /\ Turned(s, data) \in State /\ After(s, data) \in Seq(Nat)
          /\ Len(After(s, data)) < Len(data)
          /\ Fed(Turned(s, data), After(s, data)) = Fed(s, data)
      BY <2>2, Turn
    <3>2. Len(After(s, data)) <= n
      <4>1. Len(After(s, data)) \in Nat /\ Len(data) \in Nat
        BY <3>1
      <4> QED
        BY <1>3, <3>1, <4>1
    <3>3. f[<<Turned(s, data), After(s, data)>>] = Fed(Turned(s, data), After(s, data))
      BY <1>3, <3>1, <3>2
    <3> QED
      BY <1>1, <2>2, <3>1, <3>3
  <2> QED
    BY <2>1, <2>2
<1>4. 0 \in P /\ \A n \in Nat : n \in P => n + 1 \in P
  BY <1>2, <1>3
<1> HIDE DEF P
<1>5. \A n \in Nat : n \in P
  BY <1>4, NatInductive
<1> QED
  <2> TAKE s \in State, data \in Seq(Nat)
  <2>1. Len(data) \in Nat
    OBVIOUS
  <2>2. Len(data) \in P
    BY <1>5, <2>1
  <2> QED
    BY <2>1, <2>2 DEF P

\* update() feeds, whatever the size of the parts that it is given.
THEOREM UpdateFeeds ==
  ASSUME NEW s \in State, NEW data \in Seq(Nat)
  PROVE  Update(s, data) = [Fed(s, data) EXCEPT !.total = s.total + Len(data)]
<1>1. Absorb = CHOOSE f : Loops(f)
  BY DEF Absorb, Loops, Inputs, Turned, After, Taken
<1>2. Loops(Absorb)
  BY <1>1, FeedingLoops
<1> DEFINE t == [s EXCEPT !.total = @ + Len(data)]
<1>3. t \in State /\ Fed(t, data) = [Fed(s, data) EXCEPT !.total = s.total + Len(data)]
  <2> DEFINE B == {c \in Seq(Nat) : Len(c) < Block}
             n == s.total + Len(data)
  <2>1. s \in [h : Seq(Seq(Nat)), total : Nat, buf : B] /\ n \in Nat
    BY DEF State
  <2>2. t = [s EXCEPT !.total = n]
    OBVIOUS
  <2>3. State = [h : Seq(Seq(Nat)), total : Nat, buf : B]
    BY DEF State
  <2> HIDE DEF B, n, t
  <2>4. t = [h |-> s.h, total |-> n, buf |-> s.buf] /\ t \in State
    BY <2>1, <2>2, <2>3, WithTotal
  <2>5. Fed(t, data) = [h |-> Fed(s, data).h, total |-> n, buf |-> Fed(s, data).buf]
    BY <2>4 DEF Fed
  <2>6. Fed(s, data) \in [h : Seq(Seq(Nat)), total : Nat, buf : B]
    BY <2>3, FedState
  <2>7. [Fed(s, data) EXCEPT !.total = n] = [h |-> Fed(s, data).h, total |-> n, buf |-> Fed(s, data).buf]
    BY <2>6, WithTotal
  <2> QED
    BY <2>4, <2>5, <2>7 DEF n
<1> HIDE DEF t
<1>4. Absorb[<<t, data>>] = Fed(t, data)
  BY <1>2, <1>3, LoopsFeed
<1> QED
  BY <1>3, <1>4 DEF Update, t

\* The same, field by field.
LEMMA UpdateIs ==
  ASSUME NEW s \in State, NEW data \in Seq(Nat)
  PROVE  /\ Update(s, data) \in State
         /\ Update(s, data) = [h |-> s.h \o Blocks(s.buf \o data), total |-> s.total + Len(data),
                               buf |-> Left(s.buf \o data)]
<1> DEFINE B == {c \in Seq(Nat) : Len(c) < Block}
           n == s.total + Len(data)
           f == Fed(s, data)
<1>1. State = [h : Seq(Seq(Nat)), total : Nat, buf : B] /\ n \in Nat
  BY DEF State
<1>2. f \in State /\ Update(s, data) = [f EXCEPT !.total = n]
  BY FedState, UpdateFeeds
<1>3. f.h = s.h \o Blocks(s.buf \o data) /\ f.buf = Left(s.buf \o data)
  BY DEF Fed
<1> HIDE DEF B, n, f
<1>4. Update(s, data) = [h |-> f.h, total |-> n, buf |-> f.buf]
  BY <1>1, <1>2, WithTotal
<1>5. Update(s, data) \in State
  BY <1>1, <1>2, <1>4
<1> QED
  BY <1>3, <1>4, <1>5 DEF n

\* It does not matter how data are cut into parts.
THEOREM UpdateTwice ==
  ASSUME NEW s \in State, NEW a \in Seq(Nat), NEW b \in Seq(Nat)
  PROVE  Update(Update(s, a), b) = Update(s, a \o b)
<1> DEFINE t == Update(s, a)
           w == s.buf \o a
<1>1. s.buf \in Seq(Nat) /\ s.h \in Seq(Seq(Nat)) /\ s.total \in Nat /\ w \in Seq(Nat)
  BY DEF State
<1>2. a \o b \in Seq(Nat) /\ Len(a \o b) = Len(a) + Len(b) /\ Len(a) \in Nat /\ Len(b) \in Nat
  BY ConcatProperties
<1>3. /\ t \in State
      /\ t = [h |-> s.h \o Blocks(w), total |-> s.total + Len(a), buf |-> Left(w)]
  BY UpdateIs
<1> HIDE DEF t, w
<1>4. /\ Update(t, b) = [h |-> t.h \o Blocks(t.buf \o b), total |-> t.total + Len(b),
                         buf |-> Left(t.buf \o b)]
      /\ Update(s, a \o b) = [h |-> s.h \o Blocks(s.buf \o (a \o b)),
                              total |-> s.total + Len(a \o b), buf |-> Left(s.buf \o (a \o b))]
  BY <1>2, <1>3, UpdateIs
<1>5. Fed(Fed(s, a), b) = Fed(s, a \o b)
  BY FedTwice
<1>6. Fed(s, a) = [h |-> s.h \o Blocks(w), total |-> s.total, buf |-> Left(w)]
  BY DEF Fed, w
<1>7. /\ Fed(Fed(s, a), b).h = (s.h \o Blocks(w)) \o Blocks(Left(w) \o b)
      /\ Fed(Fed(s, a), b).buf = Left(Left(w) \o b)
  BY <1>6 DEF Fed
<1>8. /\ Fed(s, a \o b).h = s.h \o Blocks(s.buf \o (a \o b))
      /\ Fed(s, a \o b).buf = Left(s.buf \o (a \o b))
  BY DEF Fed
<1>9. /\ (s.h \o Blocks(w)) \o Blocks(Left(w) \o b) = s.h \o Blocks(s.buf \o (a \o b))
      /\ Left(Left(w) \o b) = Left(s.buf \o (a \o b))
  BY <1>5, <1>7, <1>8
<1>10. (s.total + Len(a)) + Len(b) = s.total + Len(a \o b)
  BY <1>1, <1>2
<1>11. t.h = s.h \o Blocks(w) /\ t.total = s.total + Len(a) /\ t.buf = Left(w)
  BY <1>3
<1> QED
  BY <1>4, <1>9, <1>10, <1>11 DEF t

-----------------------------------------------------------------------------
(* The padding *)

\* The zeros after n bytes of a block, up to the place of the length.
Gap(n) == IF n <= Block - LenSize THEN Block - LenSize - n ELSE (2 * Block) - LenSize - n

\* A zero makes the gap one less, until it is filled.
LEMMA GapNat ==
  ASSUME NEW n \in 0 .. Block - 1
  PROVE  /\ Gap(n) \in 0 .. Block - 1
         /\ Gap(n) = 0 <=> n = Block - LenSize
         /\ Gap(n) # 0 => Gap(IF n + 1 = Block THEN 0 ELSE n + 1) = Gap(n) - 1
BY Sha256Assumption DEF Gap

\* Zeros are a sequence, and one more is one in front.
LEMMA ZerosSeq ==
  ASSUME NEW k \in Nat
  PROVE  /\ Zeros(k) \in Seq(Nat) /\ Len(Zeros(k)) = k
         /\ Zeros(0) = <<>> /\ <<0>> \o Zeros(k) = Zeros(k + 1)
<1>1. ASSUME NEW n \in Nat
      PROVE  Zeros(n) \in Seq(Nat) /\ Len(Zeros(n)) = n /\ \A i \in 1 .. n : Zeros(n)[i] = 0
  BY DEF Zeros
<1>2. Zeros(0) = <<>>
  BY <1>1, EmptySeq
<1>3. <<0>> \o Zeros(k) = Zeros(k + 1)
  <2> DEFINE z == Zeros(k)
             y == Zeros(k + 1)
             x == <<0>> \o z
  <2>1. /\ z \in Seq(Nat) /\ Len(z) = k /\ \A i \in 1 .. k : z[i] = 0
        /\ y \in Seq(Nat) /\ Len(y) = k + 1 /\ \A i \in 1 .. k + 1 : y[i] = 0
    BY <1>1
  <2>2. <<0>> \in Seq(Nat) /\ Len(<<0>>) = 1 /\ <<0>>[1] = 0
    OBVIOUS
  <2> HIDE DEF z, y
  <2>3. /\ x \in Seq(Nat) /\ Len(x) = k + 1
        /\ \A i \in 1 .. k + 1 : x[i] = IF i <= 1 THEN <<0>>[i] ELSE z[i - 1]
    BY <2>1, <2>2, ConcatProperties
  <2> HIDE DEF x
  <2>4. ASSUME NEW i \in 1 .. k + 1 PROVE x[i] = y[i]
    <3>1. i <= 1 => i = 1
      OBVIOUS
    <3>2. ~(i <= 1) => i - 1 \in 1 .. k
      OBVIOUS
    <3> QED
      BY <2>1, <2>2, <2>3, <3>1, <3>2
  <2>5. x = y
    BY <2>1, <2>3, <2>4, SeqEqual
  <2> QED
    BY <2>5 DEF x, y, z
<1> QED
  BY <1>1, <1>2, <1>3

\* What is in the buffer after one more zero.
LEMMA OneZero ==
  ASSUME NEW s \in State
  PROVE  /\ Update(s, <<0>>) \in State /\ Len(s.buf) \in 0 .. Block - 1
         /\ Len(Update(s, <<0>>).buf) = IF Len(s.buf) + 1 = Block THEN 0 ELSE Len(s.buf) + 1
<1> DEFINE b == s.buf
           w == b \o <<0>>
           n == Len(b)
<1>1. <<0>> \in Seq(Nat) /\ Len(<<0>>) = 1
  OBVIOUS
<1>2. b \in Seq(Nat) /\ n \in 0 .. Block - 1 /\ Block \in Nat \ {0}
  <2>1. b \in Seq(Nat) /\ n < Block /\ n \in Nat
    BY DEF State
  <2>2. Block \in Nat \ {0}
    BY Sizes
  <2> QED
    BY <2>1, <2>2
<1>3. Update(s, <<0>>) \in State /\ Update(s, <<0>>).buf = Left(w)
  <2> DEFINE z == <<0>>
  <2>1. z \in Seq(Nat)
    OBVIOUS
  <2> HIDE DEF z
  <2>2. /\ Update(s, z) \in State
        /\ Update(s, z) = [h |-> s.h \o Blocks(s.buf \o z), total |-> s.total + Len(z),
                           buf |-> Left(s.buf \o z)]
    BY <2>1, UpdateIs
  <2>3. Update(s, z).buf = Left(s.buf \o z)
    BY <2>2
  <2> QED
    BY <2>2, <2>3 DEF z
<1>4. w \in Seq(Nat) /\ Len(w) = n + 1
  <2> HIDE DEF b
  <2> QED
    BY <1>1, <1>2, ConcatProperties
<1> HIDE DEF w
<1>5. CASE n + 1 = Block
  <2>1. Left(w) = <<>>
    BY <1>4, <1>5, OneBlock
  <2> QED
    BY <1>2, <1>3, <1>5, <2>1
<1>6. CASE n + 1 # Block
  <2>1. n + 1 < Block
    BY <1>2, <1>6
  <2>2. Left(w) = w
    BY <1>4, <2>1, NoBlock
  <2> QED
    BY <1>2, <1>3, <1>4, <1>6, <2>2
<1> QED
  BY <1>5, <1>6

\* f is what the loop of finish() says.
Pads(f) == f = [s \in State |-> IF Len(s.buf) = Block - LenSize THEN s ELSE f[Update(s, <<0>>)]]

\* The function that fills the gap.
Padding == [s \in State |-> Update(s, Zeros(Gap(Len(s.buf))))]

\* A turn of it is a zero of the gap.
LEMMA PadTurn ==
  ASSUME NEW s \in State
  PROVE  /\ Gap(Len(s.buf)) \in Nat
         /\ Gap(Len(s.buf)) = 0 <=> Len(s.buf) = Block - LenSize
         /\ Gap(Len(s.buf)) = 0 => Padding[s] = s
         /\ Gap(Len(s.buf)) # 0 =>
              /\ Update(s, <<0>>) \in State
              /\ Gap(Len(Update(s, <<0>>).buf)) = Gap(Len(s.buf)) - 1
              /\ Padding[s] = Padding[Update(s, <<0>>)]
<1> DEFINE n == Len(s.buf)
           g == Gap(n)
           t == Update(s, <<0>>)
<1>1. t \in State /\ n \in 0 .. Block - 1 /\ Len(t.buf) = IF n + 1 = Block THEN 0 ELSE n + 1
  BY OneZero
<1> HIDE DEF n, t
<1>2. /\ g \in Nat
      /\ g = 0 <=> n = Block - LenSize
      /\ g # 0 => Gap(Len(t.buf)) = g - 1
  <2>1. Gap(n) \in 0 .. Block - 1
    BY <1>1, GapNat
  <2> QED
    BY <1>1, <2>1, GapNat
<1>3. Padding[s] = Update(s, Zeros(g)) /\ Padding[t] = Update(t, Zeros(Gap(Len(t.buf))))
  BY <1>1 DEF Padding, n
<1> HIDE DEF g
<1>4. g = 0 => Padding[s] = s
  <2> SUFFICES ASSUME g = 0 PROVE Padding[s] = s
    OBVIOUS
  <2>1. Padding[s] = Update(s, <<>>)
    BY <1>3, ZerosSeq
  <2>2. s.h \in Seq(Seq(Nat)) /\ s.total \in Nat /\ s.buf \in Seq(Nat)
        /\ s = [h |-> s.h, total |-> s.total, buf |-> s.buf]
    BY DEF State
  <2>3. Update(s, <<>>) = [Fed(s, <<>>) EXCEPT !.total = s.total + Len(<<>>)]
    BY EmptySeq, UpdateFeeds
  <2>4. Fed(s, <<>>) = s /\ s.total + Len(<<>>) = s.total
    BY <2>2, FedNothing
  <2> DEFINE n0 == s.total
             B == {c \in Seq(Nat) : Len(c) < Block}
  <2>5. Update(s, <<>>) = [s EXCEPT !.total = n0]
    BY <2>3, <2>4
  <2>6. s \in [h : Seq(Seq(Nat)), total : Nat, buf : B]
    BY DEF State
  <2> HIDE DEF n0, B
  <2>7. Update(s, <<>>) = [h |-> s.h, total |-> n0, buf |-> s.buf]
    BY <2>5, <2>6, WithTotal
  <2> QED
    BY <2>1, <2>2, <2>7 DEF n0
<1>5. g # 0 => Padding[s] = Padding[t]
  <2> SUFFICES ASSUME g # 0 PROVE Padding[s] = Padding[t]
    OBVIOUS
  <2>1. g - 1 \in Nat /\ (g - 1) + 1 = g
    BY <1>2
  <2>2. Zeros(g) = <<0>> \o Zeros(g - 1) /\ Zeros(g - 1) \in Seq(Nat)
    BY <2>1, ZerosSeq
  <2>3. Update(t, Zeros(g - 1)) = Update(s, <<0>> \o Zeros(g - 1))
    <3> DEFINE y == <<0>>
               z == Zeros(g - 1)
    <3>1. y \in Seq(Nat) /\ z \in Seq(Nat)
      BY <2>2
    <3> HIDE DEF y, z
    <3>2. Update(Update(s, y), z) = Update(s, y \o z)
      BY <3>1, UpdateTwice
    <3> QED
      BY <3>2 DEF t, y, z
  <2> QED
    BY <1>2, <1>3, <2>2, <2>3
<1> QED
  BY <1>1, <1>2, <1>4, <1>5 DEF g, n, t

\* It is such a function.
LEMMA PaddingPads == Pads(Padding)
<1> SUFFICES ASSUME NEW s \in State
             PROVE  Padding[s] = IF Len(s.buf) = Block - LenSize THEN s ELSE Padding[Update(s, <<0>>)]
  <2>1. Padding = [s \in State |-> Padding[s]]
    BY DEF Padding
  <2> QED
    BY <2>1 DEF Pads
<1> QED
  BY PadTurn

\* All such functions fill the gap with zeros.
LEMMA PadsFill ==
  ASSUME NEW f, Pads(f)
  PROVE  \A s \in State : f[s] = Update(s, Zeros(Gap(Len(s.buf))))
<1> DEFINE P == {n \in Nat : \A s \in State : Gap(Len(s.buf)) = n => f[s] = Padding[s]}
<1>1. ASSUME NEW s \in State
      PROVE  f[s] = IF Len(s.buf) = Block - LenSize THEN s ELSE f[Update(s, <<0>>)]
  <2> DEFINE g == [u \in State |-> IF Len(u.buf) = Block - LenSize THEN u ELSE f[Update(u, <<0>>)]]
  <2>1. f = g
    BY DEF Pads
  <2>2. g[s] = IF Len(s.buf) = Block - LenSize THEN s ELSE f[Update(s, <<0>>)]
    OBVIOUS
  <2> HIDE DEF g
  <2> QED
    BY <2>1, <2>2
<1>2. 0 \in P
  BY <1>1, PadTurn
<1>3. ASSUME NEW n \in Nat, n \in P PROVE n + 1 \in P
  <2> SUFFICES ASSUME NEW s \in State, Gap(Len(s.buf)) = n + 1 PROVE f[s] = Padding[s]
    OBVIOUS
  <2>1. /\ Update(s, <<0>>) \in State
        /\ Gap(Len(Update(s, <<0>>).buf)) = (n + 1) - 1
        /\ Padding[s] = Padding[Update(s, <<0>>)]
        /\ Len(s.buf) # Block - LenSize
    <3>1. n + 1 # 0
      OBVIOUS
    <3> QED
      BY <3>1, PadTurn
  <2>2. (n + 1) - 1 = n
    OBVIOUS
  <2>3. f[Update(s, <<0>>)] = Padding[Update(s, <<0>>)]
    BY <1>3, <2>1, <2>2
  <2> QED
    BY <1>1, <2>1, <2>3
<1> HIDE DEF P
<1>4. \A n \in Nat : n \in P
  BY <1>2, <1>3, NatInductive
<1> QED
  <2> TAKE s \in State
  <2>1. Gap(Len(s.buf)) \in P
    BY <1>4, PadTurn
  <2> QED
    BY <2>1 DEF P, Padding

\* What the loop of finish() does.
LEMMA PadZerosFill ==
  ASSUME NEW s \in State
  PROVE  PadZeros[s] = Update(s, Zeros(Gap(Len(s.buf)))) /\ Gap(Len(s.buf)) \in Nat
<1>1. PadZeros = CHOOSE f : Pads(f)
  BY DEF PadZeros, Pads
<1>2. Pads(PadZeros)
  BY <1>1, PaddingPads
<1> QED
  BY <1>2, PadsFill, PadTurn

-----------------------------------------------------------------------------
(* The length *)

\* f is n, shifted right by 8, 16, ... bits.
Shifts(f, n, m) == f = [k \in 0 .. m |-> IF k = 0 THEN n ELSE f[k - 1] \div 256]

\* There is such a function, of numbers.
LEMMA ShiftsExist ==
  ASSUME NEW n \in Nat
  PROVE  \A m \in Nat : \E f \in [0 .. m -> Nat] : Shifts(f, n, m)
<1> DEFINE P == {m \in Nat : \E f \in [0 .. m -> Nat] : Shifts(f, n, m)}
<1>1. 0 \in P
  <2> DEFINE f == [k \in 0 .. 0 |-> n]
  <2>1. f \in [0 .. 0 -> Nat]
    OBVIOUS
  <2>2. f = [k \in 0 .. 0 |-> IF k = 0 THEN n ELSE f[k - 1] \div 256]
    OBVIOUS
  <2> HIDE DEF f
  <2>3. Shifts(f, n, 0)
    BY <2>2 DEF Shifts
  <2> QED
    BY <2>1, <2>3
<1>2. ASSUME NEW m \in Nat, m \in P PROVE m + 1 \in P
  <2>1. PICK f \in [0 .. m -> Nat] : Shifts(f, n, m)
    BY <1>2
  <2> DEFINE g == [k \in 0 .. m + 1 |-> IF k = 0 THEN n ELSE f[k - 1] \div 256]
  <2>2. ASSUME NEW k \in 0 .. m PROVE f[k] = IF k = 0 THEN n ELSE f[k - 1] \div 256
    <3> DEFINE h == [j \in 0 .. m |-> IF j = 0 THEN n ELSE f[j - 1] \div 256]
    <3>1. f = h
      BY <2>1 DEF Shifts
    <3>2. h[k] = IF k = 0 THEN n ELSE f[k - 1] \div 256
      OBVIOUS
    <3> HIDE DEF h
    <3> QED
      BY <3>1, <3>2
  <2>3. ASSUME NEW k \in 0 .. m + 1 PROVE g[k] \in Nat
    <3>1. k # 0 => k - 1 \in 0 .. m
      OBVIOUS
    <3>2. k # 0 => f[k - 1] \in Nat
      BY <3>1
    <3>3. \A x \in Nat : x \div 256 \in Nat
      OBVIOUS
    <3> QED
      BY <3>2, <3>3
  <2>4. ASSUME NEW k \in 0 .. m PROVE g[k] = f[k]
    BY <2>2
  <2>5. ASSUME NEW k \in 0 .. m + 1
        PROVE  g[k] = IF k = 0 THEN n ELSE g[k - 1] \div 256
    <3>1. k # 0 => k - 1 \in 0 .. m
      OBVIOUS
    <3>2. k # 0 => g[k - 1] = f[k - 1]
      BY <2>4, <3>1
    <3>3. g[k] = IF k = 0 THEN n ELSE f[k - 1] \div 256
      OBVIOUS
    <3> HIDE DEF g
    <3> QED
      BY <3>2, <3>3
  <2>6. g = [k \in 0 .. m + 1 |-> g[k]]
    OBVIOUS
  <2> HIDE DEF g
  <2>7. g \in [0 .. m + 1 -> Nat] /\ Shifts(g, n, m + 1)
    BY <2>3, <2>5, <2>6 DEF Shifts
  <2> QED
    BY <2>7
<1> HIDE DEF P
<1>3. \A m \in Nat : m \in P
  BY <1>1, <1>2, NatInductive
<1> QED
  BY <1>3 DEF P

\* The length is written in LenSize bytes.
LEMMA LengthBytesSeq ==
  ASSUME NEW n \in Nat
  PROVE  LengthBytes(n) \in Seq(Nat) /\ Len(LengthBytes(n)) = LenSize
<1>0. LenSize \in Nat
  BY Sha256Assumption
<1> DEFINE f == CHOOSE g : Shifts(g, n, LenSize)
<1>1. LengthBytes(n) = [i \in 1 .. LenSize |-> f[LenSize - i] % 256]
  BY DEF LengthBytes, Shifts
<1>2. Shifts(f, n, LenSize)
  BY <1>0, ShiftsExist
<1> HIDE DEF f
<1>3. ASSUME NEW k \in 0 .. LenSize PROVE f[k] = IF k = 0 THEN n ELSE f[k - 1] \div 256
  <2> DEFINE h == [j \in 0 .. LenSize |-> IF j = 0 THEN n ELSE f[j - 1] \div 256]
  <2>1. f = h
    BY <1>2 DEF Shifts
  <2>2. h[k] = IF k = 0 THEN n ELSE f[k - 1] \div 256
    OBVIOUS
  <2> HIDE DEF h
  <2> QED
    BY <2>1, <2>2
<1> DEFINE P == {k \in Nat : k <= LenSize => f[k] \in Nat}
<1>4. 0 \in P
  BY <1>0, <1>3
<1>5. ASSUME NEW k \in Nat, k \in P PROVE k + 1 \in P
  <2> SUFFICES ASSUME k + 1 <= LenSize PROVE f[k + 1] \in Nat
    OBVIOUS
  <2>1. k + 1 \in 0 .. LenSize /\ k + 1 # 0 /\ (k + 1) - 1 = k /\ k <= LenSize
    BY <1>0
  <2>2. f[k + 1] = f[k] \div 256 /\ f[k] \in Nat
    BY <1>3, <1>5, <2>1
  <2>3. \A x \in Nat : x \div 256 \in Nat
    OBVIOUS
  <2> QED
    BY <2>2, <2>3
<1> HIDE DEF P
<1>6. \A k \in Nat : k \in P
  BY <1>4, <1>5, NatInductive
<1>7. ASSUME NEW i \in 1 .. LenSize PROVE f[LenSize - i] % 256 \in Nat
  <2>1. LenSize - i \in Nat /\ LenSize - i <= LenSize
    BY <1>0
  <2>2. f[LenSize - i] \in Nat
    BY <1>6, <2>1 DEF P
  <2> QED
    BY <2>2
<1> QED
  BY <1>0, <1>1, <1>7

-----------------------------------------------------------------------------
(* finish() *)

\* The zeros that FIPS 180-4 asks for are those of the gap.
LEMMA LeastZeros ==
  ASSUME NEW n \in Nat
  PROVE  /\ Gap(Over(n + 1)) \in Nat
         /\ Gap(Over(n + 1)) = CHOOSE k \in 0 .. Block - 1 : (n + 1 + k + LenSize) % Block = 0
<1> DEFINE r == Over(n + 1)
           q == Whole(n + 1)
           g == Gap(r)
           x == n + 1 + g + LenSize
<1>1. Block \in Nat \ {0} /\ LenSize \in Nat \ {0} /\ LenSize < Block
  BY Sha256Assumption
<1>2. n + 1 = Size(q) + r /\ q \in Nat /\ r \in 0 .. Block - 1
  <2>1. n + 1 \in Nat
    OBVIOUS
  <2> QED
    BY <2>1, Division
<1>3. Size(q) \in Nat /\ Size(q + 1) = Size(q) + Block /\ Size(q + 2) = Size(q) + (2 * Block)
  <2>1. q + 1 \in Nat /\ (q + 1) + 1 = q + 2
    BY <1>2
  <2>2. Size(q) \in Nat /\ Size(q + 1) = Size(q) + Block /\ Size((q + 1) + 1) = Size(q + 1) + Block
    BY <1>2, <2>1, Sizes
  <2> QED
    BY <1>1, <2>1, <2>2
<1>4. g \in 0 .. Block - 1
  BY <1>2, GapNat
<1> HIDE DEF q, r
<1>5. \E p \in Nat : x = Size(p)
  <2>1. CASE r <= Block - LenSize
    <3>1. g = Block - LenSize - r
      BY <2>1 DEF Gap
    <3> HIDE DEF g
    <3>2. x = Size(q + 1)
      BY <1>1, <1>2, <1>3, <3>1
    <3> QED
      BY <1>2, <3>2
  <2>2. CASE ~(r <= Block - LenSize)
    <3>1. g = (2 * Block) - LenSize - r
      BY <2>2 DEF Gap
    <3> HIDE DEF g
    <3>2. x = Size(q + 2)
      BY <1>1, <1>2, <1>3, <3>1
    <3> QED
      BY <1>2, <3>2
  <2> QED
    BY <2>1, <2>2
<1> HIDE DEF g
<1>6. PICK p \in Nat : x = Size(p)
  BY <1>5
<1>7. Over(x) = 0 /\ x \in Nat
  <2>1. 0 \in 0 .. Block - 1
    BY <1>1
  <2>2. Size(p) \in Nat
    BY Sizes
  <2>3. x = Size(p) + 0 /\ x \in Nat
    BY <1>6, <2>2
  <2> QED
    BY <2>1, <2>3, Division
<1>8. ASSUME NEW k \in 0 .. Block - 1, Over(n + 1 + k + LenSize) = 0 PROVE k = g
  <2> DEFINE y == n + 1 + k + LenSize
             m == Whole(y)
  <2>1. y \in Nat
    BY <1>1
  <2>2. y = Size(m) + 0 /\ m \in Nat
    BY <1>8, <2>1, Division
  <2>3. Size(m) \in Nat /\ Size(p) \in Nat
    BY <2>2, Sizes
  <2>4. y - x = k - g
    BY <1>1, <1>4
  <2> HIDE DEF y, m, x
  <2>5. CASE k > g
    <3>1. k - g \in 0 .. Block - 1 /\ y = Size(p) + (k - g)
      BY <1>1, <1>4, <1>6, <2>1, <2>3, <2>4, <2>5
    <3>2. Over(y) = k - g
      BY <3>1, Division
    <3> QED
      BY <1>4, <1>8, <2>5, <3>2 DEF y
  <2>6. CASE k < g
    <3>1. g - k \in 0 .. Block - 1 /\ x = Size(m) + (g - k)
      BY <1>1, <1>4, <1>7, <2>1, <2>2, <2>3, <2>4, <2>6
    <3>2. Over(x) = g - k
      BY <2>2, <3>1, Division
    <3> QED
      BY <1>4, <1>7, <2>6, <3>2
  <2> QED
    BY <1>4, <2>5, <2>6
<1>9. \A k \in 0 .. Block - 1 : (n + 1 + k + LenSize) % Block = 0 <=> k = g
  <2>1. (n + 1 + g + LenSize) % Block = 0
    BY <1>7 DEF Over, x
  <2> QED
    BY <1>8, <2>1 DEF Over
<1>10. g = CHOOSE k \in 0 .. Block - 1 : (n + 1 + k + LenSize) % Block = 0
  BY <1>4, <1>9
<1>11. g \in Nat
  BY <1>1, <1>4
<1> QED
  BY <1>10, <1>11 DEF g, r

\* The hash of sha256.h is that of FIPS 180-4: update() and finish(), which
\* fill a buffer, process it when it is full and count what is fed, process
\* just the blocks of the padded message, for data of any length.
THEOREM HashIsDigest ==
  ASSUME NEW data \in Seq(Nat)
  PROVE  Hash(data) = Digest(data) /\ Hash(data) \in Seq(Seq(Nat))
<1> DEFINE n == Len(data)
           m == <<Mark>>
           s == Update(Start, data)
           t == Update(s, m)
           z == Zeros(Gap(Len(t.buf)))
           l == LengthBytes(8 * s.total)
           p == ((data \o m) \o z) \o l
<1>1. n \in Nat /\ m \in Seq(Nat) /\ Len(m) = 1
  BY DEF Mark
<1>2. Start \in State /\ Start.h = <<>> /\ Start.buf = <<>> /\ Start.total = 0
  <2>1. <<>> \in Seq(Seq(Nat)) /\ <<>> \in Seq(Nat) /\ Len(<<>>) = 0
    BY EmptySeq
  <2>2. 0 < Block
    BY Sha256Assumption
  <2> QED
    BY <2>1, <2>2 DEF Start, State
<1>3. s \in State /\ s.total = n
  <2>1. /\ s \in State
        /\ s = [h |-> Start.h \o Blocks(Start.buf \o data), total |-> Start.total + Len(data),
                buf |-> Left(Start.buf \o data)]
    BY <1>2, UpdateIs
  <2>2. s.total = Start.total + Len(data)
    BY <2>1
  <2> QED
    BY <1>1, <1>2, <2>1, <2>2
<1> HIDE DEF m
<1>4. data \o m \in Seq(Nat) /\ Len(data \o m) = n + 1
  <2>1. data \o m \in Seq(Nat) /\ Len(data \o m) = Len(data) + Len(m)
    BY <1>1, ConcatProperties
  <2> HIDE DEF s, t, z, l, p
  <2> QED
    BY <1>1, <2>1
<1>5. t \in State /\ t = Update(Start, data \o m) /\ Len(t.buf) = Over(n + 1)
  <2>1. t = Update(Start, data \o m)
    BY <1>1, <1>2, UpdateTwice
  <2> DEFINE w == data \o m
  <2>2. w \in Seq(Nat) /\ Len(w) = n + 1
    BY <1>4
  <2> HIDE DEF w
  <2>3. /\ Update(Start, w) \in State
        /\ Update(Start, w) = [h |-> Start.h \o Blocks(Start.buf \o w), total |-> Start.total + Len(w),
                               buf |-> Left(Start.buf \o w)]
    BY <1>2, <2>2, UpdateIs
  <2>4. Update(Start, w).buf = Left(w)
    <3>1. Update(Start, w).buf = Left(Start.buf \o w)
      BY <2>3
    <3>2. <<>> \o w = w
      BY <2>2, ConcatEmptySeq
    <3> QED
      BY <1>2, <3>1, <3>2
  <2>5. Len(Left(w)) = Over(n + 1)
    BY <2>2, BlocksLeft
  <2> HIDE DEF t
  <2> QED
    BY <2>1, <2>3, <2>4, <2>5 DEF w
<1>6. PadZeros[t] = Update(t, z) /\ z \in Seq(Nat)
  <2> HIDE DEF t
  <2> QED
    BY <1>5, PadZerosFill, ZerosSeq
<1>7. l \in Seq(Nat) /\ l = LengthBytes(8 * n)
  <2>1. 8 * n \in Nat
    BY <1>1
  <2> HIDE DEF s, n
  <2> QED
    BY <1>3, <2>1, LengthBytesSeq
<1>8. Hash(data) = Update(PadZeros[t], l).h
  BY DEF Hash, Finish, m
<1> HIDE DEF s, t, z, l
<1>9. (data \o m) \o z \in Seq(Nat) /\ p \in Seq(Nat)
  BY <1>4, <1>6, <1>7, ConcatProperties
<1>10. Update(PadZeros[t], l) = Update(Start, p)
  <2>1. Update(t, z) = Update(Start, (data \o m) \o z)
    BY <1>2, <1>4, <1>5, <1>6, UpdateTwice
  <2> DEFINE y == (data \o m) \o z
  <2>2. y \in Seq(Nat)
    BY <1>9
  <2> HIDE DEF y
  <2>3. Update(Update(Start, y), l) = Update(Start, y \o l)
    BY <1>2, <1>7, <2>2, UpdateTwice
  <2> QED
    BY <1>6, <2>1, <2>3 DEF y
<1>11. Update(Start, p).h = Blocks(p)
  <2> HIDE DEF p
  <2>1. Update(Start, p) = [h |-> Start.h \o Blocks(Start.buf \o p), total |-> Start.total + Len(p),
                            buf |-> Left(Start.buf \o p)]
    BY <1>2, <1>9, UpdateIs
  <2>2. Update(Start, p).h = <<>> \o Blocks(<<>> \o p)
    BY <1>2, <2>1
  <2>3. <<>> \o p = p
    BY <1>9, ConcatEmptySeq
  <2>4. Blocks(p) \in Seq(Seq(Nat))
    BY <1>9, BlocksLeft
  <2>5. <<>> \o Blocks(p) = Blocks(p)
    BY <2>4, ConcatEmptySeq
  <2> QED
    BY <2>2, <2>3, <2>5
<1>12. Digest(data) = Blocks(p)
  <2>1. Gap(Len(t.buf)) = CHOOSE k \in 0 .. Block - 1 : (Len(data) + 1 + k + LenSize) % Block = 0
    BY <1>1, <1>5, LeastZeros
  <2>2. Padded(data) = ((data \o <<Mark>>) \o z) \o LengthBytes(8 * Len(data))
    BY <2>1 DEF Padded, z
  <2> QED
    BY <1>7, <2>2 DEF Digest, m
<1> HIDE DEF p
<1>13. Blocks(p) \in Seq(Seq(Nat))
  BY <1>9, BlocksLeft
<1> QED
  BY <1>8, <1>10, <1>11, <1>12, <1>13

-----------------------------------------------------------------------------
(* generate() *)

\* What is kept of a name is a name.
LEMMA CleanName ==
  ASSUME NEW name \in Name
  PROVE  Clean(name) \in Name
<1> DEFINE n == Len(name)
           op == [i \in 1 .. n |-> [out \in Name |->
                    IF name[i] \in {"'", "."} THEN out ELSE Append(out, name[i])]]
           Iter(f) == f = [s \in SUBSET (1 .. n) |->
                             IF s = {} THEN <<>>
                             ELSE IF name[Max(s)] \in {"'", "."} THEN f[s \ {Max(s)}]
                             ELSE Append(f[s \ {Max(s)}], name[Max(s)])]
           iter == CHOOSE f : Iter(f)
<1>1. n \in Nat /\ DOMAIN name = 1 .. n /\ \A i \in 1 .. n : name[i] \in Part
  BY DEF Name
<1>2. Clean(name) = iter[1 .. n]
  BY <1>1 DEF Clean, FoldLeft, MapThenFoldSet
<1>3. op \in [1 .. n -> [Name -> Name]] /\ <<>> \in Name
  <2>1. ASSUME NEW i \in 1 .. n, NEW out \in Name PROVE Append(out, name[i]) \in Name
    BY <1>1 DEF Name
  <2>2. <<>> \in Name
    BY DEF Name
  <2> HIDE DEF n
  <2> QED
    BY <2>1, <2>2
<1>4. ASSUME NEW i \in 1 .. n, NEW out \in Name
      PROVE  op[i][out] = IF name[i] \in {"'", "."} THEN out ELSE Append(out, name[i])
  OBVIOUS
<1> HIDE DEF n, op, iter
<1>5. PICK g \in [SUBSET (1 .. n) -> Name] : FoldsLeft(g, n, Name, <<>>, op)
  BY <1>1, <1>3, FoldLeftExists
<1>6. ASSUME NEW s \in SUBSET (1 .. n), s # {}
      PROVE  Max(s) \in 1 .. n /\ s \ {Max(s)} \in SUBSET (1 .. n)
  BY <1>1, <1>6, LastIndex
<1>7. Iter(g)
  <2>1. ASSUME NEW s \in SUBSET (1 .. n)
        PROVE  g[s] = IF s = {} THEN <<>>
                      ELSE IF name[Max(s)] \in {"'", "."} THEN g[s \ {Max(s)}]
                      ELSE Append(g[s \ {Max(s)}], name[Max(s)])
    <3>1. CASE s = {}
      BY <1>5, <3>1 DEF FoldsLeft
    <3>2. CASE s # {}
      <4>1. Max(s) \in 1 .. n /\ g[s \ {Max(s)}] \in Name
        BY <1>5, <1>6, <3>2
      <4>2. g[s] = op[Max(s)][g[s \ {Max(s)}]]
        BY <1>5, <3>2, <4>1 DEF FoldsLeft
      <4> QED
        BY <1>4, <3>2, <4>1, <4>2
    <3> QED
      BY <3>1, <3>2
  <2>2. g = [s \in SUBSET (1 .. n) |-> g[s]]
    BY <1>5
  <2> QED
    BY <2>1, <2>2
<1>8. Iter(iter)
  <2> HIDE DEF Iter
  <2> QED
    BY <1>7 DEF iter
<1>9. FoldsLeft(iter, n, Name, <<>>, op)
  <2>0. ASSUME NEW s \in SUBSET (1 .. n)
        PROVE  iter[s] = IF s = {} THEN <<>>
                         ELSE IF name[Max(s)] \in {"'", "."} THEN iter[s \ {Max(s)}]
                         ELSE Append(iter[s \ {Max(s)}], name[Max(s)])
    <3> DEFINE body == [t \in SUBSET (1 .. n) |->
                             IF t = {} THEN <<>>
                             ELSE IF name[Max(t)] \in {"'", "."} THEN iter[t \ {Max(t)}]
                             ELSE Append(iter[t \ {Max(t)}], name[Max(t)])]
    <3>1. iter = body
      BY <1>8
    <3>2. body[s] = IF s = {} THEN <<>>
                    ELSE IF name[Max(s)] \in {"'", "."} THEN iter[s \ {Max(s)}]
                    ELSE Append(iter[s \ {Max(s)}], name[Max(s)])
      OBVIOUS
    <3> HIDE DEF body
    <3> QED
      BY <3>1, <3>2
  <2>1. iter[{}] = <<>>
    BY <2>0
  <2>2. ASSUME NEW s \in SUBSET (1 .. n), s # {}, iter[s \ {Max(s)}] \in Name
        PROVE  iter[s] = op[Max(s)][iter[s \ {Max(s)}]]
    BY <1>4, <1>6, <2>0, <2>2
  <2> QED
    BY <2>1, <2>2 DEF FoldsLeft
<1> QED
  BY <1>1, <1>2, <1>3, <1>9, FoldLeftType

\* What generate() may return: a name at most once, and not too many.
Tests == {out \in Seq(Name) : /\ Len(out) <= MaxPerFile
                              /\ \A j, k \in 1 .. Len(out) : j # k => out[j] # out[k]}

\* generate() returns names, each once, and not too many.
LEMMA GenerateTests ==
  ASSUME NEW source \in Seq(Line)
  PROVE  Generate(source) \in Tests
<1> DEFINE n == Len(source)
           Of(i) == Clean(DeclOf[source[i]].name)
           Takes(i, out) == Len(out) < MaxPerFile /\ Usable(source[i]) /\ Of(i) \notin Range(out)
           op == [i \in 1 .. n |-> [out \in Tests |->
                    IF Takes(i, out) THEN Append(out, Of(i)) ELSE out]]
           Iter(f) == f = [s \in SUBSET (1 .. n) |->
                             IF s = {} THEN <<>>
                             ELSE IF Takes(Max(s), f[s \ {Max(s)}])
                             THEN Append(f[s \ {Max(s)}], Of(Max(s))) ELSE f[s \ {Max(s)}]]
           iter == CHOOSE f : Iter(f)
<1>1. n \in Nat /\ DOMAIN source = 1 .. n /\ \A i \in 1 .. n : Of(i) \in Name
  <2>1. n \in Nat /\ DOMAIN source = 1 .. n /\ \A i \in 1 .. n : source[i] \in Line
    OBVIOUS
  <2>2. ASSUME NEW i \in 1 .. n PROVE DeclOf[source[i]].name \in Name
    BY <2>1, CorpusAssumption
  <2>3. ASSUME NEW i \in 1 .. n PROVE Of(i) \in Name
    <3> DEFINE m == DeclOf[source[i]].name
    <3>1. m \in Name
      BY <2>2
    <3> HIDE DEF m
    <3>2. Clean(m) \in Name
      BY <3>1, CleanName
    <3> QED
      BY <3>2 DEF m
  <2> QED
    BY <2>1, <2>3
<1>2. Generate(source) = iter[1 .. n]
  BY <1>1 DEF Generate, FoldLeft, MapThenFoldSet
<1>3. op \in [1 .. n -> [Tests -> Tests]] /\ <<>> \in Tests
  <2>1. ASSUME NEW i \in 1 .. n, NEW out \in Tests, Takes(i, out)
        PROVE  Append(out, Of(i)) \in Tests
    <3> DEFINE x == Of(i)
               a == Append(out, x)
    <3>1. /\ out \in Seq(Name) /\ Len(out) \in Nat /\ x \in Name /\ Len(out) < MaxPerFile
          /\ \A j, k \in 1 .. Len(out) : j # k => out[j] # out[k]
          /\ \A j \in 1 .. Len(out) : x # out[j]
      BY <1>1, <2>1 DEF Tests, Range
    <3>2. MaxPerFile \in Nat
      BY CorpusAssumption
    <3> HIDE DEF x, Of, Takes
    <3>3. /\ a \in Seq(Name) /\ Len(a) = Len(out) + 1 /\ a[Len(out) + 1] = x
          /\ \A j \in 1 .. Len(out) : a[j] = out[j]
      BY <3>1
    <3> HIDE DEF a
    <3>4. ASSUME NEW j \in 1 .. Len(a), NEW k \in 1 .. Len(a), j # k PROVE a[j] # a[k]
      <4>1. j \in 1 .. Len(out) \/ j = Len(out) + 1
        BY <3>1, <3>3
      <4>2. k \in 1 .. Len(out) \/ k = Len(out) + 1
        BY <3>1, <3>3
      <4> QED
        BY <3>1, <3>3, <3>4, <4>1, <4>2
    <3>5. Len(a) <= MaxPerFile
      BY <3>1, <3>2, <3>3
    <3> QED
      BY <3>3, <3>4, <3>5 DEF Tests, a, x
  <2>2. <<>> \in Tests
    BY CorpusAssumption DEF Tests
  <2> HIDE DEF n, Takes, Of
  <2> QED
    BY <2>1, <2>2
<1>4. ASSUME NEW i \in 1 .. n, NEW out \in Tests
      PROVE  op[i][out] = IF Takes(i, out) THEN Append(out, Of(i)) ELSE out
  <2> HIDE DEF n, Takes, Of
  <2> QED
    OBVIOUS
<1> HIDE DEF n, op, iter, Takes, Of
<1>5. PICK g \in [SUBSET (1 .. n) -> Tests] : FoldsLeft(g, n, Tests, <<>>, op)
  BY <1>1, <1>3, FoldLeftExists
<1>6. ASSUME NEW s \in SUBSET (1 .. n), s # {}
      PROVE  Max(s) \in 1 .. n /\ s \ {Max(s)} \in SUBSET (1 .. n)
  BY <1>1, <1>6, LastIndex
<1>7. Iter(g)
  <2>1. ASSUME NEW s \in SUBSET (1 .. n)
        PROVE  g[s] = IF s = {} THEN <<>>
                      ELSE IF Takes(Max(s), g[s \ {Max(s)}])
                      THEN Append(g[s \ {Max(s)}], Of(Max(s))) ELSE g[s \ {Max(s)}]
    <3>1. CASE s = {}
      BY <1>5, <3>1 DEF FoldsLeft
    <3>2. CASE s # {}
      <4>1. Max(s) \in 1 .. n /\ g[s \ {Max(s)}] \in Tests
        BY <1>5, <1>6, <3>2
      <4>2. g[s] = op[Max(s)][g[s \ {Max(s)}]]
        BY <1>5, <3>2, <4>1 DEF FoldsLeft
      <4> QED
        BY <1>4, <3>2, <4>1, <4>2
    <3> QED
      BY <3>1, <3>2
  <2>2. g = [s \in SUBSET (1 .. n) |-> g[s]]
    BY <1>5
  <2> QED
    BY <2>1, <2>2
<1>8. Iter(iter)
  <2> HIDE DEF Iter
  <2> QED
    BY <1>7 DEF iter
<1>9. FoldsLeft(iter, n, Tests, <<>>, op)
  <2>0. ASSUME NEW s \in SUBSET (1 .. n)
        PROVE  iter[s] = IF s = {} THEN <<>>
                         ELSE IF Takes(Max(s), iter[s \ {Max(s)}])
                         THEN Append(iter[s \ {Max(s)}], Of(Max(s))) ELSE iter[s \ {Max(s)}]
    <3> DEFINE body == [t \in SUBSET (1 .. n) |->
                             IF t = {} THEN <<>>
                             ELSE IF Takes(Max(t), iter[t \ {Max(t)}])
                             THEN Append(iter[t \ {Max(t)}], Of(Max(t))) ELSE iter[t \ {Max(t)}]]
    <3>1. iter = body
      BY <1>8
    <3>2. body[s] = IF s = {} THEN <<>>
                    ELSE IF Takes(Max(s), iter[s \ {Max(s)}])
                    THEN Append(iter[s \ {Max(s)}], Of(Max(s))) ELSE iter[s \ {Max(s)}]
      OBVIOUS
    <3> HIDE DEF body
    <3> QED
      BY <3>1, <3>2
  <2>1. iter[{}] = <<>>
    BY <2>0
  <2>2. ASSUME NEW s \in SUBSET (1 .. n), s # {}, iter[s \ {Max(s)}] \in Tests
        PROVE  iter[s] = op[Max(s)][iter[s \ {Max(s)}]]
    BY <1>4, <1>6, <2>0, <2>2
  <2> QED
    BY <2>1, <2>2 DEF FoldsLeft
<1> QED
  BY <1>1, <1>2, <1>3, <1>9, FoldLeftType

-----------------------------------------------------------------------------
(* Types, and the hashes of what files held *)

\* What is known of a file that walk() is at, and what is kept of it.
Entry == [path : Lean, large : BOOLEAN, hash : Seq(Seq(Nat))]
Sample == [path : Lean, hash : Seq(Seq(Nat)), source : Seq(Line)]

\* What a file may have held.
Texts == Content \cup {Gone}

\* The types of what the scan knows.  The innermost walk() knows that a file is
\* large as long as nobody changes it.
ScanTyped ==
  /\ disk \in [File -> Texts] /\ held \in [File -> SUBSET Texts]
  /\ edits \in 0 .. MaxEdits
  /\ todo \in Seq(SUBSET (File \cup Dir))
  /\ entry = NoEntry \/ entry \in Entry
  /\ files \in Seq(Sample)
  /\ edits = 0 => \A k \in DOMAIN files : Len(files[k].source) <= Head256
  /\ edits = 0 /\ entry # NoEntry => (entry.large <=> Len(TextOf(disk[entry.path])) > Head256)

\* The types of the rest.
TestTyped ==
  /\ phase \in {"scan", "sample", "generate", "end"} /\ live \in BOOLEAN
  /\ draws \in Nat /\ avoid \subseteq Hashes
  /\ tests \in Seq(Name) /\ Len(tests) <= Max({MaxPerFile, 1})
  /\ declared \subseteq Name /\ tried \in Seq([name : Name, draw : Nat])
  /\ lost \subseteq DOMAIN tried

\* What was read of a file for a hash.
Text == [path : Lean, text : Seq(Line), torn : BOOLEAN]

\* s is how t begins.
Begins(s, t) == Len(s) <= Len(t) /\ \A j \in 1 .. Len(s) : s[j] = t[j]

\* An open file has been at its path.  What has been read of it is how it
\* begins, unless it has been written to since; each line was there anyway.
Reading ==
  /\ reading \in BOOLEAN /\ old \in Texts /\ text \in Seq(Line) /\ torn \in BOOLEAN
  /\ reading => /\ entry # NoEntry /\ Opened # Gone /\ Opened \in held[entry.path]
                /\ Spliced(text, held[entry.path])
                /\ torn \/ Begins(text, Current)
  /\ ~reading => old = Gone /\ text = <<>> /\ ~torn
  /\ edits = 0 => old = Gone /\ ~torn

\* What t tells of n has been in that file, all of it at a time unless torn.
Fits(t, n, tear) ==
  Spliced(t, held[n]) /\ (tear \/ \E c \in held[n] : t = TextOf(c))

\* The digests of what was read of the file n.
Digests(n) == {Digest(h.text) : h \in {g \in hashed : g.path = n}}

\* The hashes so far.
Hashed ==
  /\ \A n \in File : disk[n] \in held[n]
  /\ hashed \subseteq Text
  /\ \A h \in hashed : Fits(h.text, h.path, h.torn) /\ (edits = 0 => ~h.torn)
  /\ entry # NoEntry => entry.hash \in Digests(entry.path) \cup {<<>>}
  /\ \A k \in DOMAIN files : files[k].hash \in Digests(files[k].path)

\* What holds of the scan and of the types, also while files are changed.
Sound == ScanTyped /\ TestTyped /\ Reading /\ Hashed

\* What is in a file is text.
LEMMA TextTypes ==
  ASSUME NEW c \in Texts
  PROVE  TextOf(c) \in Seq(Line)
<1>1. CASE c = Gone
  BY <1>1 DEF TextOf
<1>2. CASE c # Gone
  <2>1. c \in Content /\ c \in Seq(Nat) /\ TextOf(c) = c
    BY <1>2, CorpusAssumption DEF Texts, TextOf
  <2>2. Range(c) \subseteq Line
    BY <2>1 DEF Line
  <2>3. \A i \in 1 .. Len(c) : c[i] \in Line
    BY <2>1, <2>2 DEF Range
  <2> QED
    BY <2>1, <2>3
<1> QED
  BY <1>1, <1>2

\* A text is hashed to its digest.
LEMMA TextHash ==
  ASSUME NEW t \in Seq(Line)
  PROVE  Hash(t) = Digest(t) /\ Hash(t) \in Seq(Seq(Nat))
<1>1. Line \subseteq Nat
  <2>1. ASSUME NEW c \in Content PROVE Range(c) \subseteq Nat
    <3>1. c \in Seq(Nat)
      BY CorpusAssumption
    <3> QED
      BY <3>1 DEF Range
  <2> QED
    BY <2>1 DEF Line
<1>2. t \in Seq(Nat)
  <2> DEFINE L == Line
  <2>1. t \in Seq(L) /\ L \subseteq Nat
    BY <1>1
  <2> HIDE DEF L
  <2>2. ASSUME NEW i \in 1 .. Len(t) PROVE t[i] \in Nat
    <3>1. t[i] \in L
      BY <2>1
    <3> QED
      BY <2>1, <3>1
  <2> QED
    BY <2>1, <2>2
<1> QED
  BY <1>2, HashIsDigest

\* Files have positive numbers, NoEntry has none.
LEMMA EntryIsEntry ==
  ASSUME NEW e \in Entry
  PROVE  e # NoEntry /\ e.path \in File
<1>1. e.path \in Lean
  BY DEF Entry
<1>2. e.path \in File /\ e.path # 0
  BY <1>1, CorpusAssumption
<1>3. NoEntry.path = 0
  BY DEF NoEntry
<1> QED
  BY <1>2, <1>3

\* The entries that walk() has yet to see.
LEMMA TodoTypes ==
  ASSUME NEW S, todo \in Seq(SUBSET S), todo # <<>>
  PROVE  /\ Front(todo) \in Seq(SUBSET S) /\ Last(todo) \subseteq S
         /\ Len(todo) \in Nat \ {0} /\ Len(Front(todo)) = Len(todo) - 1
         /\ Last(todo) = todo[Len(todo)] /\ \A j \in 1 .. Len(todo) - 1 : Front(todo)[j] = todo[j]
<1> DEFINE n == Len(todo)
<1>1. n \in Nat \ {0} /\ \A j \in 1 .. n : todo[j] \in SUBSET S
  BY EmptySeq
<1>2. Front(todo) = SubSeq(todo, 1, n - 1) /\ Last(todo) = todo[n]
  BY DEF Front, Last
<1>3. n - 1 \in Int /\ 1 \in Int /\ (\A j \in 1 .. n - 1 : todo[j] \in SUBSET S) /\ n \in 1 .. n
  BY <1>1
<1> HIDE DEF n
<1> DEFINE f == SubSeq(todo, 1, n - 1)
<1>4. /\ f \in Seq(SUBSET S)
      /\ Len(f) = IF 1 <= n - 1 THEN (n - 1) - 1 + 1 ELSE 0
      /\ \A j \in 1 .. (n - 1) - 1 + 1 : f[j] = todo[1 + j - 1]
  BY <1>3, SubSeqProperties
<1> HIDE DEF f
<1>5. Len(f) = n - 1 /\ \A j \in 1 .. n - 1 : f[j] = todo[j]
  BY <1>1, <1>4
<1> QED
  BY <1>1, <1>2, <1>3, <1>4, <1>5 DEF n, f

\* They are entries also when one is ticked off.
LEMMA TickedTypes ==
  ASSUME NEW S, todo \in Seq(SUBSET S), todo # <<>>, NEW n
  PROVE  Ticked(n) \in Seq(SUBSET S)
<1> DEFINE f == Front(todo)
           x == Last(todo) \ {n}
<1>1. f \in Seq(SUBSET S) /\ x \in SUBSET S
  BY TodoTypes
<1> HIDE DEF f, x
<1>2. Append(f, x) \in Seq(SUBSET S)
  BY <1>1
<1> QED
  BY <1>2 DEF Ticked, f, x

-----------------------------------------------------------------------------
(* Reading *)

\* What was at its place stays a piece of what has been held.
LEMMA SplicedMore ==
  ASSUME NEW t, NEW H, NEW G, Spliced(t, H), H \subseteq G
  PROVE  Spliced(t, G)
BY DEF Spliced

\* The less of two numbers.
LEMMA LessOfTwo ==
  ASSUME NEW a \in Nat, NEW b \in Nat
  PROVE  Min({a, b}) = IF a <= b THEN a ELSE b
BY DEF Min

\* What has been read of c after one more ::read.
ReadOn(s, c) == s \o SubSeq(c, Len(s) + 1, Min({Len(s) + Buffer, Len(c)}))

\* What one ::read adds.
LEMMA OneRead ==
  ASSUME NEW L, NEW s \in Seq(L), NEW c \in Seq(L), Len(s) < Len(c), NEW t, t = ReadOn(s, c)
  PROVE  /\ t \in Seq(L) /\ Len(t) <= Len(c)
         /\ \A j \in 1 .. Len(t) : t[j] = IF j <= Len(s) THEN s[j] ELSE c[j]
<1> DEFINE k == Len(s)
           n == Min({k + Buffer, Len(c)})
           p == SubSeq(c, k + 1, n)
<1>1. k \in Nat /\ Len(c) \in Nat /\ Buffer \in Nat /\ k < Len(c)
  BY CorpusAssumption
<1> HIDE DEF k
<1>2. n \in Nat /\ k <= n /\ n <= Len(c)
  <2> DEFINE a == k + Buffer
             b == Len(c)
  <2>1. a \in Nat /\ b \in Nat /\ k <= a /\ k <= b
    BY <1>1
  <2>2. n = Min({a, b})
    OBVIOUS
  <2> HIDE DEF a, b
  <2>3. n = IF a <= b THEN a ELSE b
    BY <2>1, <2>2, LessOfTwo
  <2> HIDE DEF n
  <2>4. n \in Nat /\ k <= n /\ n <= b
    BY <2>1, <2>3
  <2> QED
    BY <2>4 DEF b
<1> HIDE DEF n
<1>3. \A j \in k + 1 .. n : c[j] \in L
  BY <1>1, <1>2
<1>4. /\ p \in Seq(L) /\ Len(p) = IF k + 1 <= n THEN n - (k + 1) + 1 ELSE 0
      /\ \A j \in 1 .. n - (k + 1) + 1 : p[j] = c[(k + 1) + j - 1]
  BY <1>1, <1>2, <1>3, SubSeqProperties
<1> HIDE DEF p
<1>5. Len(p) = n - k /\ \A j \in 1 .. n - k : p[j] = c[k + j]
  BY <1>1, <1>2, <1>4
<1>6. t = s \o p /\ Len(s) = k
  BY DEF k, n, p, ReadOn
<1>7. t \in Seq(L) /\ Len(t) = n
  <2>1. t \in Seq(L) /\ Len(t) = k + Len(p)
    BY <1>4, <1>6, ConcatProperties
  <2>2. Len(t) = n
    BY <1>1, <1>2, <1>5, <2>1
  <2> QED
    BY <2>1, <2>2
<1>8. ASSUME NEW j \in 1 .. Len(t) PROVE t[j] = IF j <= k THEN s[j] ELSE c[j]
  <2>1. t[j] = IF j <= k THEN s[j] ELSE p[j - k]
    <3>1. k + Len(p) = n
      BY <1>1, <1>2, <1>5
    <3>2. j \in 1 .. Len(s) + Len(p)
      BY <1>6, <1>7, <3>1
    <3>3. (s \o p)[j] = IF j <= Len(s) THEN s[j] ELSE p[j - Len(s)]
      BY <1>4, <3>2, ConcatProperties
    <3> QED
      BY <1>6, <3>3
  <2>2. ~(j <= k) => j - k \in 1 .. n - k /\ k + (j - k) = j
    BY <1>1, <1>2, <1>7
  <2> QED
    BY <1>5, <2>1, <2>2
<1> QED
  BY <1>2, <1>6, <1>7, <1>8

\* What is left open is as it was when nothing that it depends on changes.
LEMMA ReadingKept ==
  ASSUME Reading, UNCHANGED <<reading, old, text, torn, entry, disk, held, edits>>
  PROVE  Reading'
BY DEF Reading, Opened, Current, Spliced, Begins

\* More of the file is read.
LEMMA ReadingReads ==
  ASSUME Sound, Reads
  PROVE  Reading'
<1>1. /\ reading /\ Reading /\ Len(text) < Len(Current)
      /\ text' = text \o SubSeq(Current, Len(text) + 1, Min({Len(text) + Buffer, Len(Current)}))
      /\ UNCHANGED <<reading, old, torn, entry, disk, held, edits>>
  BY DEF Reads, Sound, changes
<1>2. /\ text \in Seq(Line) /\ Opened \in Texts /\ Opened \in held[entry.path]
      /\ Spliced(text, held[entry.path]) /\ (torn \/ Begins(text, Current))
  <2>1. entry \in Entry
    BY <1>1 DEF Reading, Sound, ScanTyped
  <2>2. held[entry.path] \subseteq Texts
    BY <2>1, EntryIsEntry DEF Sound, ScanTyped
  <2> QED
    BY <1>1, <2>2 DEF Reading
<1>3. Current \in Seq(Line)
  BY <1>2, TextTypes DEF Current
<1>4. /\ text' \in Seq(Line) /\ Len(text') <= Len(Current)
      /\ \A j \in 1 .. Len(text') : text'[j] = IF j <= Len(text) THEN text[j] ELSE Current[j]
  <2> DEFINE s == text
             c == Current
             t == text'
             L == Line
  <2>1. s \in Seq(L) /\ c \in Seq(L) /\ Len(s) < Len(c) /\ t = ReadOn(s, c)
    BY <1>1, <1>2, <1>3 DEF ReadOn
  <2> HIDE DEF s, c, t, L
  <2>2. /\ t \in Seq(L) /\ Len(t) <= Len(c)
        /\ \A j \in 1 .. Len(t) : t[j] = IF j <= Len(s) THEN s[j] ELSE c[j]
    BY <2>1, OneRead
  <2> QED
    BY <2>2 DEF s, c, t, L
<1>5. Opened' = Opened /\ Current' = Current
  BY <1>1 DEF Opened, Current
<1>6. Spliced(text', held[entry.path])
  <2> SUFFICES ASSUME NEW j \in DOMAIN text'
               PROVE  \E c \in held[entry.path] : j \in DOMAIN TextOf(c) /\ text'[j] = TextOf(c)[j]
    BY DEF Spliced
  <2>1. j \in 1 .. Len(text') /\ Len(text) \in Nat /\ Len(Current) \in Nat
    BY <1>2, <1>3, <1>4
  <2>2. CASE j <= Len(text)
    <3>1. j \in DOMAIN text /\ text'[j] = text[j]
      BY <1>2, <1>4, <2>1, <2>2
    <3> QED
      BY <1>2, <3>1 DEF Spliced
  <2>3. CASE ~(j <= Len(text))
    <3>1. j \in DOMAIN Current /\ text'[j] = Current[j]
      BY <1>3, <1>4, <2>1, <2>3
    <3> QED
      BY <1>2, <3>1 DEF Current
  <2> QED
    BY <2>2, <2>3
<1>7. torn \/ Begins(text', Current)
  BY <1>2, <1>4 DEF Begins
<1> QED
  BY <1>1, <1>4, <1>5, <1>6, <1>7 DEF Reading

\* Another program changes a file.
LEMMA ReadingEdits ==
  ASSUME Sound, NEW n \in Lean, NEW c \in Content \cup {Gone}, Writes(n, c) \/ Replaces(n, c)
  PROVE  Reading'
<1>1. /\ Reading /\ disk \in [File -> Texts] /\ held \in [File -> SUBSET Texts] /\ edits \in Nat
      /\ n \in File
  BY CorpusAssumption DEF Sound, ScanTyped
<1>2. /\ disk' = [disk EXCEPT ![n] = c] /\ held' = [held EXCEPT ![n] = @ \cup {c}]
      /\ edits' = edits + 1 /\ UNCHANGED <<reading, text, entry>> /\ c \in Texts
  BY DEF Writes, Replaces, Edits, Texts
<1>3. edits' # 0
  BY <1>1, <1>2
<1>4. \A m \in File : held[m] \subseteq held'[m] /\ (m # n => disk'[m] = disk[m])
  BY <1>1, <1>2
<1>5. disk'[n] = c /\ c \in held'[n]
  BY <1>1, <1>2
<1>6. CASE ~reading
  <2>1. old' = old /\ torn' = torn
    BY <1>1, <1>6 DEF Writes, Replaces, OpenAt, Reading
  <2> QED
    BY <1>1, <1>2, <1>3, <1>6, <2>1 DEF Reading
<1>7. CASE reading
  <2> DEFINE m == entry.path
  <2>1. /\ m \in File /\ Opened # Gone /\ Opened \in held'[m] /\ Spliced(text, held'[m])
        /\ entry # NoEntry /\ (torn \/ Begins(text, Current))
    <3>1. entry \in Entry /\ m \in File
      BY <1>1, <1>7, EntryIsEntry DEF Reading, Sound, ScanTyped
    <3> QED
      BY <1>1, <1>4, <1>7, <3>1, SplicedMore DEF Reading
  <2>2. text \in Seq(Line) /\ old \in Texts /\ torn \in BOOLEAN
    BY <1>1 DEF Reading
  <2> HIDE DEF m
  <2>3. CASE OpenAt(n) /\ Writes(n, c)
    <3>1. m = n /\ old' = Gone /\ c # Gone /\ torn' = (torn \/ text # <<>>) /\ old' = old
      BY <2>3 DEF OpenAt, Writes, m
    <3>2. Opened' = c
      BY <1>2, <1>5, <3>1 DEF Opened, m
    <3>3. torn' \/ Begins(text, Current')
      <4>1. ASSUME text = <<>> PROVE Begins(text, Current')
        <5>1. Current' \in Seq(Line)
          BY <1>2, <3>2, TextTypes DEF Current
        <5>2. Len(text) = 0 /\ Len(Current') \in Nat
          BY <4>1, <5>1
        <5> QED
          BY <5>2 DEF Begins
      <4> QED
        BY <3>1, <4>1
    <3> QED
      BY <1>2, <1>3, <1>5, <1>7, <2>1, <2>2, <3>1, <3>2, <3>3 DEF Reading, m
  <2>4. CASE OpenAt(n) /\ Replaces(n, c)
    <3>1. m = n /\ old = Gone /\ old' = disk[n] /\ torn' = torn
      BY <2>4 DEF OpenAt, Replaces, m
    <3>2. Opened = disk[n]
      BY <3>1 DEF Opened, m
    <3>3. Opened' = Opened /\ Current' = Current /\ old' \in Texts
      BY <1>1, <2>1, <3>1, <3>2 DEF Opened, Current
    <3> QED
      BY <1>2, <1>3, <1>7, <2>1, <2>2, <3>1, <3>3 DEF Reading, m
  <2>5. CASE ~OpenAt(n)
    <3>1. old' = old /\ torn' = torn
      BY <2>2, <2>5 DEF Writes, Replaces
    <3>2. Opened' = Opened /\ Current' = Current
      BY <1>2, <1>4, <1>7, <2>1, <2>5, <3>1 DEF Opened, Current, OpenAt, m
    <3> QED
      BY <1>2, <1>3, <1>7, <2>1, <2>2, <3>1, <3>2 DEF Reading, m
  <2> QED
    BY <2>3, <2>4, <2>5
<1> QED
  BY <1>6, <1>7

\* What each step keeps of the reading.
LEMMA ReadingSteps ==
  ASSUME Sound, [Next]_vars
  PROVE  Reading'
<1> USE DEF scanVars, changes, reader, testVars
<1>1. Reading /\ (\A m \in File : disk[m] \in held[m]) /\ (entry = NoEntry \/ entry \in Entry)
  BY DEF Sound, ScanTyped, Hashed
<1>2. ASSUME NEW n \in File \cup Dir, Passes(n) \/ Descends(n)
      PROVE  Reading'
  BY <1>1, <1>2, ReadingKept DEF Passes, Descends
<1>3. ASSUME NEW n \in File \cup Dir, Stats(n)
      PROVE  Reading'
  <2>1. ~reading /\ UNCHANGED <<reading, old, text, torn, edits>>
    BY <1>1, <1>3 DEF Stats, Walking, Reading
  <2> QED
    BY <1>1, <2>1 DEF Reading
<1>4. CASE Ascends \/ Scanned
  BY <1>1, <1>4, ReadingKept DEF Ascends, Scanned
<1>5. CASE Opens
  <2>1. /\ entry # NoEntry /\ ~reading /\ disk[entry.path] # Gone /\ reading' = TRUE
        /\ UNCHANGED <<old, text, torn, entry, disk, held, edits>>
    BY <1>5 DEF Opens
  <2>2. old = Gone /\ text = <<>> /\ torn = FALSE /\ entry.path \in File
    BY <1>1, <2>1, EntryIsEntry DEF Reading
  <2>3. Opened' = disk[entry.path] /\ Opened' \in held[entry.path] /\ Opened' # Gone
    BY <1>1, <2>1, <2>2 DEF Opened
  <2>4. Spliced(text', held[entry.path])
    BY <2>1, <2>2 DEF Spliced
  <2>5. Begins(text', Current')
    <3>1. Current' \in Seq(Line)
      <4>1. disk[entry.path] \in Texts
        BY <2>2 DEF Sound, ScanTyped
      <4> QED
        BY <2>3, <4>1, TextTypes DEF Current
    <3>2. Len(text') = 0 /\ Len(Current') \in Nat
      BY <2>1, <2>2, <3>1
    <3> QED
      BY <3>2 DEF Begins
  <2> QED
    BY <1>1, <2>1, <2>2, <2>3, <2>4, <2>5 DEF Reading
<1>6. CASE Hashing \/ Collects
  <2>1. reading' = FALSE /\ old' = Gone /\ text' = <<>> /\ torn' = FALSE
    BY <1>6 DEF Hashing, Collects, ReadEnds
  <2>2. old' \in Texts /\ text' \in Seq(Line)
    BY <2>1 DEF Texts
  <2>3. reading' \in BOOLEAN /\ torn' \in BOOLEAN /\ ~reading' /\ ~torn'
    BY <2>1
  <2> QED
    BY <2>1, <2>2, <2>3 DEF Reading
<1>7. CASE SampleRuns \/ SamplesDone \/ Generates \/ AddsTest \/ AddsKernel \/ Loses
           \/ GeneratesDone \/ UNCHANGED vars
  <2>1. UNCHANGED scanVars
    BY <1>7 DEF SampleRuns, SamplesDone, Generates, AddsTest, AddsKernel, Loses, Tries,
                GeneratesDone, vars
  <2> QED
    BY <1>1, <2>1, ReadingKept
<1> QED
  BY <1>2, <1>3, <1>4, <1>5, <1>6, <1>7, ReadingReads, ReadingEdits DEF Next

\* What is known of a text when the end of the file has been come to.
LEMMA TextRead ==
  ASSUME Sound, ReadEnds
  PROVE  /\ text \in Seq(Line) /\ Fits(text, entry.path, torn)
         /\ edits = 0 => ~torn /\ text = TextOf(disk[entry.path])
<1>1. Reading /\ entry.path \in File /\ disk[entry.path] \in held[entry.path]
      /\ held[entry.path] \subseteq Texts
  BY EntryIsEntry DEF Sound, ReadEnds, ScanTyped, Hashed
<1>2. CASE reading
  <2>1. /\ text \in Seq(Line) /\ Opened \in held[entry.path] /\ Spliced(text, held[entry.path])
        /\ (torn \/ Begins(text, Current)) /\ Len(text) >= Len(Current)
        /\ (edits = 0 => old = Gone /\ ~torn)
    BY <1>1, <1>2 DEF Reading, ReadEnds
  <2>2. Current \in Seq(Line)
    BY <1>1, <2>1, TextTypes DEF Current
  <2>3. Begins(text, Current) => text = Current
    <3>1. Begins(text, Current) => Len(text) = Len(Current) /\ \A j \in 1 .. Len(text) : text[j] = Current[j]
      BY <2>1, <2>2 DEF Begins
    <3> QED
      BY <2>1, <2>2, <3>1, SeqEqual
  <2>4. torn \/ \E c \in held[entry.path] : text = TextOf(c)
    BY <2>1, <2>3 DEF Current
  <2>5. edits = 0 => text = TextOf(disk[entry.path])
    BY <2>1, <2>3 DEF Current, Opened
  <2> QED
    BY <2>1, <2>4, <2>5 DEF Fits
<1>3. CASE ~reading
  <2>1. text = <<>> /\ ~torn /\ disk[entry.path] = Gone /\ TextOf(Gone) = <<>>
    BY <1>1, <1>3 DEF Reading, ReadEnds, TextOf
  <2>2. Spliced(text, held[entry.path])
    BY <2>1 DEF Spliced
  <2> QED
    BY <1>1, <2>1, <2>2 DEF Fits, Reading
<1> QED
  BY <1>2, <1>3

-----------------------------------------------------------------------------
(* Steps of the scan *)

\* What each step of the scan keeps.
LEMMA ScanSteps ==
  ASSUME Sound, [Next]_vars
  PROVE  ScanTyped' /\ Hashed'
<1> USE DEF scanVars, changes, reader, testVars
<1>0. /\ disk \in [File -> Texts] /\ held \in [File -> SUBSET Texts] /\ edits \in 0 .. MaxEdits
      /\ todo \in Seq(SUBSET (File \cup Dir)) /\ (entry = NoEntry \/ entry \in Entry)
      /\ files \in Seq(Sample)
      /\ (edits = 0 => \A k \in DOMAIN files : Len(files[k].source) <= Head256)
      /\ (edits = 0 /\ entry # NoEntry => (entry.large <=> Len(TextOf(disk[entry.path])) > Head256))
      /\ (\A n \in File : disk[n] \in held[n])
      /\ hashed \subseteq Text
      /\ (\A h \in hashed : Fits(h.text, h.path, h.torn) /\ (edits = 0 => ~h.torn))
      /\ (entry # NoEntry => entry.hash \in Digests(entry.path) \cup {<<>>})
      /\ (\A k \in DOMAIN files : files[k].hash \in Digests(files[k].path))
  BY DEF Sound, ScanTyped, Hashed
<1>1. CASE UNCHANGED <<disk, held, edits, entry, files, hashed>> /\ todo' \in Seq(SUBSET (File \cup Dir))
  BY <1>0, <1>1 DEF ScanTyped, Hashed, Digests, Fits
<1>2. ASSUME NEW n \in File \cup Dir, Passes(n) \/ Descends(n)
      PROVE  ScanTyped' /\ Hashed'
  <2>1. /\ todo # <<>> /\ UNCHANGED <<disk, held, edits, entry, files, hashed>>
        /\ todo' = Ticked(n) \/ (n \in Dir /\ todo' = Append(Ticked(n), Entries[n]))
    BY <1>2 DEF Passes, Descends, Walking
  <2>2. Ticked(n) \in Seq(SUBSET (File \cup Dir))
    BY <1>0, <2>1, TickedTypes
  <2>3. n \in Dir => Entries[n] \in SUBSET (File \cup Dir)
    BY TreeAssumption
  <2>4. todo' \in Seq(SUBSET (File \cup Dir))
    BY <2>1, <2>2, <2>3
  <2> QED
    BY <1>1, <2>1, <2>4
<1>3. ASSUME NEW n \in File \cup Dir, Stats(n)
      PROVE  ScanTyped' /\ Hashed'
  <2>1. /\ todo # <<>> /\ UNCHANGED <<disk, held, edits, files, hashed>> /\ todo' = Ticked(n)
        /\ entry' = [path |-> n, large |-> Len(disk[n]) > Head256, hash |-> <<>>]
        /\ n \in Lean /\ disk[n] # Gone
    BY <1>3 DEF Stats, Walking
  <2>2. todo' \in Seq(SUBSET (File \cup Dir))
    BY <1>0, <2>1, TickedTypes
  <2>3. entry' \in Entry /\ entry'.path = n /\ entry'.hash = <<>>
        /\ (entry'.large <=> Len(disk[n]) > Head256)
    <3> DEFINE b == Len(disk[n]) > Head256
    <3>1. b \in BOOLEAN /\ <<>> \in Seq(Seq(Nat))
      OBVIOUS
    <3> HIDE DEF b
    <3>2. entry' = [path |-> n, large |-> b, hash |-> <<>>]
      BY <2>1 DEF b
    <3>3. entry' \in Entry /\ entry'.path = n /\ entry'.hash = <<>> /\ entry'.large = b
      BY <2>1, <3>1, <3>2 DEF Entry
    <3> QED
      BY <3>3 DEF b
  <2>4. TextOf(disk[n]) = disk[n]
    BY <2>1 DEF TextOf
  <2>5. entry'.large <=> Len(TextOf(disk[entry'.path])) > Head256
    BY <2>3, <2>4
  <2> QED
    BY <1>0, <2>1, <2>2, <2>3, <2>5 DEF ScanTyped, Hashed, Digests, Fits
<1>4. CASE Ascends
  <2>1. todo # <<>> /\ todo' = Front(todo) /\ UNCHANGED <<disk, held, edits, entry, files, hashed>>
    BY <1>4 DEF Ascends
  <2>2. todo' \in Seq(SUBSET (File \cup Dir))
    BY <1>0, <2>1, TodoTypes
  <2> QED
    BY <1>1, <2>1, <2>2
<1>5. CASE Hashing
  <2> DEFINE n == entry.path
             h == Hash(text)
             g == [path |-> n, text |-> text, torn |-> torn]
  <2>1. /\ entry \in Entry /\ entry' = [entry EXCEPT !.hash = h] /\ hashed' = hashed \cup {g}
        /\ UNCHANGED <<disk, held, edits, todo, files>> /\ ReadEnds
    BY <1>0, <1>5 DEF Hashing, ReadEnds
  <2>2. n \in Lean
    BY <2>1 DEF Entry
  <2>3. /\ text \in Seq(Line) /\ torn \in BOOLEAN /\ Fits(text, n, torn) /\ (edits = 0 => ~torn)
        /\ h = Digest(text) /\ h \in Seq(Seq(Nat))
    BY <2>1, TextRead, TextHash DEF Sound, Reading
  <2>4. g \in Text /\ g.path = n /\ g.text = text /\ g.torn = torn
    BY <2>2, <2>3 DEF Text
  <2>5. h \in Digests(n)'
    BY <2>1, <2>3, <2>4 DEF Digests
  <2>6. \A m : Digests(m) \subseteq Digests(m)'
    BY <2>1 DEF Digests
  <2> HIDE DEF h, g
  <2>7. entry' \in Entry /\ entry'.path = n /\ entry'.large = entry.large /\ entry'.hash = h
    BY <2>1, <2>3 DEF Entry
  <2>8. ScanTyped'
    <3>1. entry # NoEntry
      BY <2>1, EntryIsEntry
    <3> QED
      BY <1>0, <2>1, <2>7, <3>1 DEF ScanTyped
  <2>9. hashed' \subseteq Text /\ \A x \in hashed' : Fits(x.text, x.path, x.torn)' /\ (edits' = 0 => ~x.torn)
    BY <1>0, <2>1, <2>3, <2>4 DEF Fits
  <2>10. (\A k \in DOMAIN files : files[k].hash \in Digests(files[k].path))'
    BY <1>0, <2>1, <2>6
  <2>11. (entry.hash \in Digests(entry.path))'
    BY <2>5, <2>7
  <2> QED
    BY <1>0, <2>1, <2>8, <2>9, <2>10, <2>11 DEF Hashed
<1>6. CASE Collects
  <2> DEFINE n == entry.path
             all == text
             src == IF entry.large THEN SubSeq(all, 1, Min({Head256, Len(all)})) ELSE all
             f == [path |-> n, hash |-> entry.hash, source |-> src]
  <2>1. /\ entry \in Entry /\ entry # NoEntry /\ entry.hash # <<>>
        /\ files' = Append(files, f) /\ entry' = NoEntry
        /\ UNCHANGED <<disk, held, edits, todo, hashed>> /\ ReadEnds
    BY <1>0, <1>6 DEF Collects, ReadEnds
  <2>2. n \in File /\ n \in Lean /\ disk[n] \in Texts /\ entry.hash \in Seq(Seq(Nat))
    BY <1>0, <2>1, EntryIsEntry DEF Entry
  <2>3. all \in Seq(Line) /\ (edits = 0 => all = TextOf(disk[n]))
    BY <2>1, TextRead
  <2> HIDE DEF all
  <2>4. Len(all) \in Nat /\ Head256 \in Nat
    BY <2>3, CorpusAssumption
  <2>5. Min({Head256, Len(all)}) = IF Head256 <= Len(all) THEN Head256 ELSE Len(all)
    BY <2>4 DEF Min
  <2>6. src \in Seq(Line) /\ (edits = 0 => Len(src) <= Head256)
    <3> DEFINE m == Min({Head256, Len(all)})
    <3>1. m \in Nat /\ m <= Len(all) /\ m <= Head256
      BY <2>4, <2>5
    <3> HIDE DEF m
    <3>2. \A i \in 1 .. m : all[i] \in Line
      BY <2>3, <2>4, <3>1
    <3>3. SubSeq(all, 1, m) \in Seq(Line) /\ Len(SubSeq(all, 1, m)) = IF 1 <= m THEN m - 1 + 1 ELSE 0
      BY <3>1, <3>2, SubSeqProperties
    <3>4. Len(SubSeq(all, 1, m)) <= Head256
      BY <2>4, <3>1, <3>3
    <3>5. edits = 0 /\ ~entry.large => Len(all) <= Head256
      BY <1>0, <2>1, <2>3, <2>4
    <3> QED
      BY <2>3, <3>3, <3>4, <3>5 DEF m
  <2> HIDE DEF src
  <2>7. f \in Sample /\ f.source = src /\ f.path = n /\ f.hash = entry.hash
    BY <2>2, <2>6 DEF Sample
  <2> HIDE DEF f
  <2>8. /\ files' \in Seq(Sample) /\ Len(files) \in Nat /\ DOMAIN files = 1 .. Len(files)
        /\ DOMAIN files' = 1 .. Len(files) + 1
        /\ files'[Len(files) + 1] = f /\ \A k \in 1 .. Len(files) : files'[k] = files[k]
    BY <1>0, <2>1, <2>7
  <2>9. ASSUME NEW k \in DOMAIN files', edits = 0 PROVE Len(files'[k].source) <= Head256
    BY <1>0, <2>6, <2>7, <2>8, <2>9
  <2>10. ASSUME NEW k \in DOMAIN files' PROVE files'[k].hash \in Digests(files'[k].path)
    <3>1. CASE k \in DOMAIN files
      BY <1>0, <2>8, <3>1
    <3>2. CASE k = Len(files) + 1
      BY <1>0, <2>1, <2>7, <2>8, <3>2
    <3> QED
      BY <2>8, <3>1, <3>2
  <2>11. ScanTyped'
    BY <1>0, <2>1, <2>8, <2>9 DEF ScanTyped
  <2>12. ASSUME NEW k \in DOMAIN files' PROVE Digests(files'[k].path) = Digests(files[k].path)'
    BY <2>1 DEF Digests
  <2> QED
    BY <1>0, <2>1, <2>10, <2>11, <2>12 DEF Hashed, Fits
<1>7. CASE Scanned
  <2>1. PICK p \in Bijection(DOMAIN files, DOMAIN files) : files' = [k \in DOMAIN files |-> files[p[k]]]
    BY <1>7 DEF Scanned
  <2>2. UNCHANGED <<disk, held, edits, todo, entry, hashed>>
    BY <1>7 DEF Scanned
  <2>3. DOMAIN files = 1 .. Len(files) /\ Len(files) \in Nat /\ \A k \in DOMAIN files : p[k] \in DOMAIN files
    BY <1>0, <2>1 DEF Bijection, Injection
  <2>4. DOMAIN files' = DOMAIN files /\ \A k \in DOMAIN files : files'[k] = files[p[k]]
    BY <2>1
  <2>5. files' \in Seq(Sample)
    <3>1. \A k \in 1 .. Len(files) : files[p[k]] \in Sample
      BY <1>0, <2>3
    <3>2. files' = [k \in 1 .. Len(files) |-> files[p[k]]]
      BY <2>1, <2>3
    <3> QED
      BY <2>3, <3>1, <3>2
  <2>6. ScanTyped'
    BY <1>0, <2>2, <2>3, <2>4, <2>5 DEF ScanTyped
  <2> QED
    BY <1>0, <2>2, <2>3, <2>4, <2>6 DEF Hashed, Digests, Fits
<1>8. ASSUME NEW n \in Lean, NEW c \in Content \cup {Gone}, Edits(n, c)
      PROVE  ScanTyped' /\ Hashed'
  <2>1. /\ disk' = [disk EXCEPT ![n] = c] /\ held' = [held EXCEPT ![n] = @ \cup {c}]
        /\ edits' = edits + 1 /\ edits < MaxEdits /\ UNCHANGED <<todo, entry, files, hashed>>
    BY <1>8 DEF Edits
  <2>2. n \in File /\ c \in Texts /\ MaxEdits \in Nat
    BY CorpusAssumption DEF Texts
  <2>3. /\ disk' \in [File -> Texts] /\ held' \in [File -> SUBSET Texts]
        /\ \A m \in File : disk'[m] \in held'[m] /\ held[m] \subseteq held'[m]
    BY <1>0, <2>1, <2>2
  <2>4. edits' \in 0 .. MaxEdits /\ edits' # 0
    BY <1>0, <2>1, <2>2
  <2>5. ScanTyped'
    BY <1>0, <2>1, <2>3, <2>4 DEF ScanTyped
  <2>6. ASSUME NEW h \in hashed PROVE Fits(h.text, h.path, h.torn)'
    <3>1. h.path \in File
      BY <1>0, CorpusAssumption DEF Text
    <3>2. Fits(h.text, h.path, h.torn)
      BY <1>0
    <3> QED
      BY <2>3, <3>1, <3>2, SplicedMore DEF Fits
  <2> QED
    BY <1>0, <2>1, <2>3, <2>4, <2>5, <2>6 DEF Hashed, Digests
<1>9. CASE SampleRuns \/ SamplesDone \/ Generates \/ AddsTest \/ AddsKernel \/ Loses
           \/ GeneratesDone \/ UNCHANGED vars
  <2>1. UNCHANGED scanVars
    BY <1>9 DEF SampleRuns, SamplesDone, Generates, AddsTest, AddsKernel, Loses, Tries,
                GeneratesDone, vars
  <2> QED
    BY <1>0, <1>1, <2>1
<1>10. CASE Opens \/ Reads
  <2>1. UNCHANGED <<disk, held, edits, todo, entry, files, hashed>>
    BY <1>10 DEF Opens, Reads
  <2> QED
    BY <1>0, <1>1, <2>1
<1> QED
  BY <1>2, <1>3, <1>4, <1>5, <1>6, <1>7, <1>8, <1>9, <1>10 DEF Next, Writes, Replaces

-----------------------------------------------------------------------------
(* Names *)

\* One element more at the end of a sequence.
LEMMA OneMore ==
  ASSUME NEW S, NEW s \in Seq(S), NEW x \in S
  PROVE  /\ Append(s, x) \in Seq(S) /\ Len(s) \in Nat /\ Len(Append(s, x)) = Len(s) + 1
         /\ Append(s, x)[Len(s) + 1] = x /\ \A j \in 1 .. Len(s) : Append(s, x)[j] = s[j]
         /\ DOMAIN s = 1 .. Len(s) /\ DOMAIN Append(s, x) = 1 .. Len(s) + 1
OBVIOUS

\* A sequence of one element.
LEMMA JustOne ==
  ASSUME NEW S, NEW x \in S
  PROVE  <<x>> \in Seq(S) /\ Len(<<x>>) = 1 /\ <<x>>[1] = x
OBVIOUS

\* The larger of two numbers.
LEMMA LargerOfTwo ==
  ASSUME NEW a \in Nat, NEW b \in Nat
  PROVE  Max({a, b}) = IF a >= b THEN a ELSE b
BY DEF Max

\* The names that are made are names; a fallback's tells which test it is for,
\* and is not that of a run.
LEMMA NameTypes ==
  /\ \A i \in Nat : RunSource(i) \in Name /\ Trivial(i) \in Name
  /\ \A m \in Name : Kernel(m) \in Name
  /\ \A m, n \in Name : Kernel(m) = Kernel(n) => m = n
  /\ \A m \in Name, i \in Nat : Kernel(m) # RunSource(i)
<1>1. ASSUME NEW i \in Nat
      PROVE  /\ Number(i) \in Seq(Part) /\ Len(Number(i)) = i
             /\ \A j \in 1 .. i : Number(i)[j] = "1"
  <2> DEFINE a == "1"
  <2>1. a \in Part
    BY CorpusAssumption
  <2>2. Number(i) = [j \in 1 .. i |-> a]
    BY DEF Number
  <2> HIDE DEF a
  <2>3. Number(i) \in Seq(Part) /\ Len(Number(i)) = i /\ \A j \in 1 .. i : Number(i)[j] = a
    BY <2>1, <2>2
  <2> QED
    BY <2>3 DEF a
<1>2. ASSUME NEW i \in Nat, NEW t \in Part
      PROVE  /\ <<t>> \o Number(i) \in Name /\ Len(<<t>> \o Number(i)) = i + 1
             /\ (<<t>> \o Number(i))[i + 1] \in {t, "1"}
  <2> DEFINE u == <<t>>
             d == Number(i)
  <2>1. u \in Seq(Part) /\ Len(u) = 1 /\ u[1] = t
    BY JustOne
  <2>2. d \in Seq(Part) /\ Len(d) = i /\ \A j \in 1 .. i : d[j] = "1"
    BY <1>1
  <2> HIDE DEF u, d
  <2>3. /\ u \o d \in Seq(Part) /\ Len(u \o d) = Len(u) + Len(d)
        /\ \A j \in 1 .. Len(u) + Len(d) : (u \o d)[j] = IF j <= Len(u) THEN u[j] ELSE d[j - Len(u)]
    BY <2>1, <2>2, ConcatProperties
  <2>4. i + 1 \in 1 .. Len(u) + Len(d) /\ (i + 1) - Len(u) = i
    BY <2>1, <2>2
  <2>5. (u \o d)[i + 1] = IF i + 1 <= 1 THEN u[i + 1] ELSE d[i]
    BY <2>1, <2>3, <2>4
  <2>6. (u \o d)[i + 1] \in {t, "1"}
    <3>1. CASE i = 0
      BY <2>1, <2>5, <3>1
    <3>2. CASE i # 0
      BY <2>2, <2>5, <3>2
    <3> QED
      BY <3>1, <3>2
  <2>7. Len(u \o d) = i + 1
    BY <2>1, <2>2, <2>3
  <2> QED
    BY <2>3, <2>6, <2>7 DEF u, d, Name
<1>3. ASSUME NEW i \in Nat
      PROVE  /\ RunSource(i) \in Name /\ Trivial(i) \in Name /\ Len(RunSource(i)) = i + 1
             /\ RunSource(i)[i + 1] \in {"leanffi_run_source_", "1"}
  <2>1. "leanffi_run_source_" \in Part /\ "leanffi_trivial_" \in Part
    BY CorpusAssumption
  <2>2. /\ <<"leanffi_run_source_">> \o Number(i) \in Name
        /\ Len(<<"leanffi_run_source_">> \o Number(i)) = i + 1
        /\ (<<"leanffi_run_source_">> \o Number(i))[i + 1] \in {"leanffi_run_source_", "1"}
    BY <1>2, <2>1, Zenon
  <2>3. <<"leanffi_trivial_">> \o Number(i) \in Name
    BY <1>2, <2>1, Zenon
  <2> QED
    BY <2>2, <2>3, Zenon DEF RunSource, Trivial
<1>4. ASSUME NEW m \in Name
      PROVE  /\ Kernel(m) \in Name /\ Len(m) \in Nat /\ Len(Kernel(m)) = Len(m) + 1
             /\ Kernel(m)[Len(m) + 1] = "_kernel" /\ \A j \in 1 .. Len(m) : Kernel(m)[j] = m[j]
  <2> DEFINE x == "_kernel"
  <2>1. m \in Seq(Part) /\ x \in Part
    BY CorpusAssumption DEF Name
  <2> HIDE DEF x
  <2>2. /\ Append(m, x) \in Seq(Part) /\ Len(m) \in Nat /\ Len(Append(m, x)) = Len(m) + 1
        /\ Append(m, x)[Len(m) + 1] = x /\ \A j \in 1 .. Len(m) : Append(m, x)[j] = m[j]
    BY <2>1, OneMore
  <2> QED
    BY <2>2, Zenon DEF Kernel, Name, x
<1>5. ASSUME NEW m \in Name, NEW n \in Name, Kernel(m) = Kernel(n)
      PROVE  m = n
  <2>1. Len(m) = Len(n)
    BY <1>4, <1>5
  <2>2. \A j \in 1 .. Len(m) : m[j] = n[j]
    BY <1>4, <1>5, <2>1
  <2>3. m \in Seq(Part) /\ n \in Seq(Part)
    BY DEF Name
  <2> QED
    BY <2>1, <2>2, <2>3, SeqEqual
<1>6. ASSUME NEW m \in Name, NEW i \in Nat, Kernel(m) = RunSource(i)
      PROVE  FALSE
  <2>1. Len(m) = i
    BY <1>3, <1>4, <1>6
  <2>2. "_kernel" \in {"leanffi_run_source_", "1"}
    BY <1>3, <1>4, <1>6, <2>1
  <2> QED
    BY <2>2
<1> QED
  BY <1>3, <1>4, <1>5, <1>6

\* The names that the environment may have: of imports, runs, tests and their
\* fallbacks.  Of a draw, no test comes twice.
Named ==
  /\ \A m \in declared :
       \/ m \in Imported \/ \E i \in Nat : m = RunSource(i)
       \/ \E q \in DOMAIN tried : m = tried[q].name \/ m = Kernel(tried[q].name)
  /\ phase \in {"scan", "sample"} => tried = <<>> /\ tests = <<>>
  /\ \A q \in DOMAIN tried : tried[q].draw <= draws
  /\ \A j, k \in DOMAIN tests : j # k => tests[j] # tests[k]
  /\ \A q \in DOMAIN tried, j \in DOMAIN tests : tried[q].draw = draws => tried[q].name # tests[j]

\* The test that comes next, and what is known after it.
LEMMA TryTypes ==
  ASSUME TestTyped, Named, Tries
  PROVE  LET t == Head(tests)
             p == Len(tried) + 1
         IN  /\ t \in Name /\ t = tests[1] /\ 1 \in DOMAIN tests
             /\ tests' \in Seq(Name) /\ Len(tests') <= Max({MaxPerFile, 1})
             /\ tried' \in Seq([name : Name, draw : Nat])
             /\ DOMAIN tried = 1 .. p - 1 /\ DOMAIN tried' = 1 .. p /\ p \in Nat /\ Len(tried') = p
             /\ \A q \in DOMAIN tried : tried'[q] = tried[q] /\ tried[q].name \in Name
             /\ tried'[p].name = t /\ tried'[p].draw = draws
             /\ phase = "generate" /\ phase' = phase /\ draws' = draws /\ draws \in Nat
             /\ \A q \in DOMAIN tried' : tried'[q].draw <= draws'
             /\ \A j, k \in DOMAIN tests' : j # k => tests'[j] # tests'[k]
             /\ \A q \in DOMAIN tried', j \in DOMAIN tests' :
                  tried'[q].draw = draws' => tried'[q].name # tests'[j]
<1> DEFINE t == Head(tests)
           p == Len(tried) + 1
           x == [name |-> t, draw |-> draws]
           S == [name : Name, draw : Nat]
<1>1. /\ tests \in Seq(Name) /\ tests # <<>> /\ Len(tests) <= Max({MaxPerFile, 1})
      /\ tried \in Seq(S) /\ draws \in Nat
      /\ phase = "generate" /\ phase' = phase /\ draws' = draws
      /\ tests' = Tail(tests) /\ tried' = Append(tried, x)
  BY DEF TestTyped, Tries, scanVars
<1>2. /\ t \in Name /\ t = tests[1] /\ Len(tests) \in Nat \ {0} /\ DOMAIN tests = 1 .. Len(tests)
      /\ tests' \in Seq(Name) /\ Len(tests') = Len(tests) - 1 /\ DOMAIN tests' = 1 .. Len(tests) - 1
      /\ \A j \in 1 .. Len(tests) - 1 : tests'[j] = tests[j + 1]
  <2>1. Head(tests) \in Name /\ Head(tests) = tests[1]
    BY <1>1
  <2>2. Tail(tests) \in Seq(Name) /\ Len(Tail(tests)) = Len(tests) - 1 /\ Len(tests) \in Nat \ {0}
    BY <1>1, EmptySeq, HeadTailProperties
  <2>3. \A j \in 1 .. Len(Tail(tests)) : Tail(tests)[j] = tests[j + 1]
    BY <1>1, HeadTailProperties
  <2> QED
    BY <1>1, <2>1, <2>2, <2>3
<1>3. x \in S /\ x.name = t /\ x.draw = draws
  BY <1>1, <1>2
<1> HIDE DEF x, t
<1>4. /\ tried' \in Seq(S) /\ p \in Nat /\ Len(tried') = p
      /\ DOMAIN tried = 1 .. p - 1 /\ DOMAIN tried' = 1 .. p /\ tried'[p] = x
      /\ \A q \in DOMAIN tried : tried'[q] = tried[q]
  <2> HIDE DEF S
  <2> QED
    BY <1>1, <1>3
<1>5. \A q \in DOMAIN tried : tried[q].name \in Name
  <2>1. ASSUME NEW q \in DOMAIN tried PROVE tried[q] \in S
    <3> HIDE DEF S
    <3> QED
      BY <1>1
  <2> QED
    BY <2>1
<1>6. Len(tests') <= Max({MaxPerFile, 1})
  <2> DEFINE b == Max({MaxPerFile, 1})
  <2>1. b \in Nat
    BY CorpusAssumption, LargerOfTwo
  <2>2. Len(tests) <= b
    BY <1>1
  <2> HIDE DEF b
  <2>3. Len(tests') <= b
    BY <1>2, <2>1, <2>2
  <2> QED
    BY <2>3 DEF b
<1> HIDE DEF p, S
<1>7. ASSUME NEW q \in DOMAIN tried' PROVE q = p \/ q \in DOMAIN tried
  BY <1>4
<1>8. ASSUME NEW q \in DOMAIN tried' PROVE tried'[q].draw <= draws'
  BY <1>1, <1>3, <1>4, <1>7 DEF Named
<1>9. ASSUME NEW j \in DOMAIN tests'
      PROVE  /\ j + 1 \in DOMAIN tests /\ tests'[j] = tests[j + 1] /\ j + 1 # 1 /\ 1 \in DOMAIN tests
             /\ tests'[j] # t
  <2>1. j + 1 \in DOMAIN tests /\ tests'[j] = tests[j + 1] /\ j + 1 # 1 /\ 1 \in DOMAIN tests
    BY <1>2
  <2> QED
    BY <1>2, <2>1 DEF Named
<1>10. ASSUME NEW j \in DOMAIN tests', NEW k \in DOMAIN tests', j # k PROVE tests'[j] # tests'[k]
  <2>1. j + 1 # k + 1
    BY <1>2, <1>10
  <2> QED
    BY <1>9, <2>1 DEF Named
<1>11. ASSUME NEW q \in DOMAIN tried', NEW j \in DOMAIN tests', tried'[q].draw = draws'
       PROVE  tried'[q].name # tests'[j]
  <2>1. CASE q = p
    BY <1>3, <1>4, <1>9, <2>1
  <2>2. CASE q \in DOMAIN tried
    BY <1>1, <1>4, <1>9, <1>11, <2>2 DEF Named
  <2> QED
    BY <1>7, <2>1, <2>2
<1>12. 1 \in DOMAIN tests /\ tried'[p].name = t /\ tried'[p].draw = draws
  BY <1>2, <1>3, <1>4
<1> QED
  BY <1>1, <1>2, <1>4, <1>5, <1>6, <1>8, <1>10, <1>11, <1>12 DEF t, p, S

\* Names and types.
Tested == TestTyped /\ Named /\ LostByClash

\* What a step that leaves the tests and the names alone keeps.
LEMMA TestsKept ==
  ASSUME Tested, UNCHANGED testVars, UNCHANGED draws,
         phase' \in {"scan", "sample", "generate", "end"}, live' \in BOOLEAN,
         avoid' \subseteq Hashes', phase' \in {"scan", "sample"} => phase \in {"scan", "sample"}
  PROVE  Tested'
<1> USE DEF testVars
<1>1. TestTyped'
  BY DEF Tested, TestTyped
<1>2. Named'
  BY DEF Tested, Named
<1>3. LostByClash'
  BY DEF Tested, LostByClash
<1> QED
  BY <1>1, <1>2, <1>3 DEF Tested

\* What the steps of the scan keep.
LEMMA TestsScan ==
  ASSUME Sound, Tested,
         \/ \E n \in File \cup Dir : Passes(n) \/ Descends(n) \/ Stats(n)
         \/ Ascends \/ Opens \/ Reads \/ Hashing \/ Collects \/ Scanned
         \/ \E n \in Lean, c \in Content \cup {Gone} : Edits(n, c)
         \/ GeneratesDone \/ UNCHANGED vars
  PROVE  Tested'
<1> USE DEF scanVars, changes, reader
<1>1. TestTyped /\ Named
  BY DEF Tested
<1>2. avoid \subseteq Hashes /\ files \in Seq(Sample) /\ phase \in {"scan", "sample", "generate", "end"}
      /\ live \in BOOLEAN
  BY <1>1 DEF TestTyped, Sound, ScanTyped
<1>3. CASE UNCHANGED <<testVars, draws, avoid, files, phase, live>>
  <2>1. avoid' \subseteq Hashes'
    BY <1>2, <1>3 DEF Hashes
  <2> QED
    BY <1>2, <1>3, <2>1, TestsKept
<1>4. CASE (\E n \in File \cup Dir : Passes(n) \/ Descends(n) \/ Stats(n))
           \/ Ascends \/ Opens \/ Reads \/ Hashing
           \/ (\E n \in Lean, c \in Content \cup {Gone} : Edits(n, c))
           \/ UNCHANGED vars
  <2>1. UNCHANGED <<testVars, draws, avoid, files, phase, live>>
    BY <1>4 DEF Passes, Descends, Stats, Ascends, Opens, Reads, Hashing, Edits, vars
  <2> QED
    BY <1>3, <2>1
<1>5. CASE Collects
  <2>1. /\ UNCHANGED <<testVars, draws, avoid, phase, live>>
        /\ files' = Append(files, [path |-> entry.path, hash |-> entry.hash,
             source |-> IF entry.large THEN SubSeq(text, 1, Min({Head256, Len(text)})) ELSE text])
    BY <1>5 DEF Collects
  <2>2. \A k \in DOMAIN files : k \in DOMAIN files' /\ files'[k] = files[k]
    BY <1>2, <2>1
  <2>3. avoid' \subseteq Hashes'
    BY <1>2, <2>1, <2>2 DEF Hashes
  <2> QED
    BY <1>2, <2>1, <2>3, TestsKept
<1>6. CASE Scanned
  <2>1. UNCHANGED <<testVars, draws, avoid, live>> /\ phase = "scan" /\ phase' = "sample"
    BY <1>6 DEF Scanned
  <2>2. PICK p \in Bijection(DOMAIN files, DOMAIN files) : files' = [k \in DOMAIN files |-> files[p[k]]]
    BY <1>6 DEF Scanned
  <2>3. ASSUME NEW k \in DOMAIN files PROVE \E j \in DOMAIN files' : files'[j] = files[k]
    <3>1. PICK j \in DOMAIN files : p[j] = k
      BY <2>2 DEF Bijection, Surjection
    <3> QED
      BY <2>2, <3>1
  <2>4. avoid' \subseteq Hashes'
    <3>1. Hashes \subseteq Hashes'
      BY <2>3 DEF Hashes
    <3> QED
      BY <1>2, <2>1, <3>1
  <2> QED
    BY <1>2, <2>1, <2>4, TestsKept
<1>7. CASE GeneratesDone
  <2>1. UNCHANGED <<testVars, draws, avoid, files, live>> /\ phase = "generate" /\ phase' = "end"
    BY <1>7 DEF GeneratesDone
  <2>2. avoid' \subseteq Hashes'
    BY <1>2, <2>1 DEF Hashes
  <2> QED
    BY <1>2, <2>1, <2>2, TestsKept
<1> QED
  BY <1>4, <1>5, <1>6, <1>7

\* What a draw keeps.
LEMMA DrawTypes ==
  ASSUME TestTyped, NEW k, Draws(k), UNCHANGED files
  PROVE  /\ k \in DOMAIN files /\ draws \in Nat /\ draws' \in Nat /\ draws' = draws + 1
         /\ avoid' \subseteq Hashes'
<1>1. k \in DOMAIN files /\ draws' = draws + 1 /\ avoid' = avoid \cup {files[k].hash}
  BY DEF Draws, Pool, Preferred
<1>2. files[k].hash \in Hashes /\ Hashes' = Hashes
  BY <1>1 DEF Hashes
<1> QED
  BY <1>1, <1>2 DEF TestTyped

\* What the draws of both phases keep.
LEMMA TestsDrawn ==
  ASSUME Sound, Tested, SampleRuns \/ SamplesDone \/ Generates
  PROVE  Tested'
<1> USE DEF scanVars, changes, reader, testVars
<1>1. TestTyped /\ Named /\ LostByClash /\ files \in Seq(Sample)
  BY DEF Tested, Sound, ScanTyped
<1>2. CASE SampleRuns
  <2>1. /\ phase = "sample" /\ UNCHANGED <<scanVars, phase, live, tests, tried, lost>>
        /\ declared' = declared \/ declared' = declared \cup {RunSource(draws)}
    BY <1>2 DEF SampleRuns
  <2>2. PICK k \in DOMAIN files : Draws(k)
    BY <1>2 DEF SampleRuns
  <2>3. draws \in Nat /\ draws' \in Nat /\ draws' = draws + 1 /\ avoid' \subseteq Hashes'
    BY <1>1, <2>1, <2>2, DrawTypes
  <2>4. RunSource(draws) \in Name
    BY <2>3, NameTypes
  <2>5. TestTyped'
    BY <1>1, <2>1, <2>3, <2>4 DEF TestTyped
  <2>6. Named'
    <3>1. ASSUME NEW m \in declared'
          PROVE  \/ m \in Imported \/ \E i \in Nat : m = RunSource(i)
                 \/ \E q \in DOMAIN tried : m = tried[q].name \/ m = Kernel(tried[q].name)
      BY <1>1, <2>1, <2>3 DEF Named
    <3>2. tried = <<>> /\ tests = <<>>
      BY <1>1, <2>1 DEF Named
    <3>3. DOMAIN tried = {} /\ DOMAIN tests = {}
      BY <3>2
    <3> QED
      BY <2>1, <3>1, <3>2, <3>3 DEF Named
  <2>7. LostByClash'
    BY <1>1, <2>1 DEF LostByClash
  <2> QED
    BY <2>5, <2>6, <2>7 DEF Tested
<1>3. CASE SamplesDone
  <2>1. /\ phase = "sample" /\ phase' = "generate" /\ draws' = 0 /\ avoid' = {}
        /\ UNCHANGED <<scanVars, live, testVars>>
    BY <1>3 DEF SamplesDone
  <2>2. DOMAIN tried = {} /\ DOMAIN tests = {}
    <3>1. tried = <<>> /\ tests = <<>>
      BY <1>1, <2>1 DEF Named
    <3> QED
      BY <3>1
  <2>3. TestTyped'
    BY <1>1, <2>1 DEF TestTyped
  <2>4. Named'
    BY <1>1, <2>1, <2>2 DEF Named
  <2>5. LostByClash'
    BY <1>1, <2>1 DEF LostByClash
  <2> QED
    BY <2>3, <2>4, <2>5 DEF Tested
<1>4. CASE Generates
  <2>1. phase = "generate" /\ UNCHANGED <<scanVars, phase, live, declared, tried, lost>>
    BY <1>4 DEF Generates
  <2>2. PICK k \in DOMAIN files :
          /\ Draws(k)
          /\ tests' = IF ~live THEN <<>>
                      ELSE IF Generate(files[k].source) # <<>> THEN Generate(files[k].source)
                      ELSE <<Trivial(draws)>>
    BY <1>4 DEF Generates
  <2>3. draws \in Nat /\ draws' \in Nat /\ draws' = draws + 1 /\ avoid' \subseteq Hashes'
    BY <1>1, <2>1, <2>2, DrawTypes
  <2>4. /\ tests' \in Seq(Name) /\ Len(tests') <= Max({MaxPerFile, 1})
        /\ \A i, j \in DOMAIN tests' : i # j => tests'[i] # tests'[j]
    <3>0. MaxPerFile \in Nat /\ Max({MaxPerFile, 1}) = IF MaxPerFile >= 1 THEN MaxPerFile ELSE 1
      BY CorpusAssumption, LargerOfTwo
    <3>1. CASE tests' = <<>>
      BY <3>0, <3>1
    <3>2. CASE tests' = Generate(files[k].source)
      <4> DEFINE s == files[k].source
                 out == Generate(s)
      <4>1. s \in Seq(Line)
        <5>1. files[k] \in Sample
          BY <1>1
        <5> QED
          BY <5>1 DEF Sample
      <4> HIDE DEF s
      <4>2. out \in Tests
        BY <4>1, GenerateTests
      <4>3. tests' = out
        BY <3>2 DEF s
      <4> HIDE DEF out
      <4>4. /\ out \in Seq(Name) /\ Len(out) <= MaxPerFile /\ Len(out) \in Nat /\ DOMAIN out = 1 .. Len(out)
            /\ \A i, j \in 1 .. Len(out) : i # j => out[i] # out[j]
        BY <4>2 DEF Tests
      <4> QED
        BY <3>0, <4>3, <4>4
    <3>3. CASE tests' = <<Trivial(draws)>>
      <4> DEFINE t == Trivial(draws)
      <4>1. t \in Name
        BY <2>3, NameTypes
      <4> HIDE DEF t
      <4>2. <<t>> \in Seq(Name) /\ Len(<<t>>) = 1 /\ DOMAIN <<t>> = {1}
        BY <4>1
      <4>3. tests' = <<t>>
        BY <3>3 DEF t
      <4>4. \A i, j \in DOMAIN tests' : i = j
        BY <4>2, <4>3
      <4> QED
        BY <3>0, <4>2, <4>3, <4>4
    <3> QED
      BY <2>2, <3>1, <3>2, <3>3
  <2>5. TestTyped'
    BY <1>1, <2>1, <2>3, <2>4 DEF TestTyped
  <2>6. ASSUME NEW q \in DOMAIN tried PROVE tried[q].draw <= draws' /\ tried[q].draw # draws'
    <3>1. tried[q].draw \in Nat
      <4> DEFINE S == [name : Name, draw : Nat]
      <4>1. tried \in Seq(S)
        BY <1>1 DEF TestTyped
      <4> HIDE DEF S
      <4>2. tried[q] \in S
        BY <4>1
      <4> QED
        BY <4>2 DEF S
    <3>2. tried[q].draw <= draws
      BY <1>1 DEF Named
    <3> QED
      BY <2>3, <3>1, <3>2
  <2>7. Named'
    BY <1>1, <2>1, <2>4, <2>6 DEF Named
  <2>8. LostByClash'
    BY <1>1, <2>1 DEF LostByClash
  <2> QED
    BY <2>5, <2>7, <2>8 DEF Tested
<1> QED
  BY <1>2, <1>3, <1>4

\* What a test keeps.  If its fallback is lost, its name was there: no run has
\* such a name, so a test had it, or one of this name had a fallback, which was
\* not of this draw.
LEMMA TestsTried ==
  ASSUME Sound, Tested, AddsTest \/ AddsKernel \/ Loses
  PROVE  Tested'
<1> USE DEF scanVars, changes, reader, testVars
<1> DEFINE t == Head(tests)
           p == Len(tried) + 1
<1>1. TestTyped /\ Named /\ LostByClash /\ Tries
  BY DEF Tested, AddsTest, AddsKernel, Loses
<1>2. /\ t \in Name /\ t = tests[1] /\ 1 \in DOMAIN tests
      /\ tests' \in Seq(Name) /\ Len(tests') <= Max({MaxPerFile, 1})
      /\ tried' \in Seq([name : Name, draw : Nat])
      /\ DOMAIN tried = 1 .. p - 1 /\ DOMAIN tried' = 1 .. p /\ p \in Nat /\ Len(tried') = p
      /\ \A q \in DOMAIN tried : tried'[q] = tried[q] /\ tried[q].name \in Name
      /\ tried'[p].name = t /\ tried'[p].draw = draws
      /\ phase = "generate" /\ phase' = phase /\ draws' = draws /\ draws \in Nat
      /\ \A q \in DOMAIN tried' : tried'[q].draw <= draws'
      /\ \A j, k \in DOMAIN tests' : j # k => tests'[j] # tests'[k]
      /\ \A q \in DOMAIN tried', j \in DOMAIN tests' :
           tried'[q].draw = draws' => tried'[q].name # tests'[j]
  BY <1>1, TryTypes
<1>3. /\ UNCHANGED <<live, avoid, files>> /\ tests' = Tail(tests)
      /\ declared' \in {declared, declared \cup {t}, declared \cup {Kernel(t)}}
      /\ lost' = lost \/ (lost' = lost \cup {p} /\ Kernel(t) \in declared)
  BY <1>1, <1>2 DEF AddsTest, AddsKernel, Loses, Tries
<1> HIDE DEF t, p
<1>4. p \in DOMAIN tried' /\ \A q \in DOMAIN tried : q \in DOMAIN tried'
  <2>1. p \in 1 .. p
    <3>1. Len(tried) \in Nat
      BY <1>1 DEF TestTyped
    <3> QED
      BY <3>1 DEF p
  <2> QED
    BY <1>2, <2>1
<1>5. TestTyped'
  <2>1. Kernel(t) \in Name
    BY <1>2, NameTypes
  <2>2. declared' \subseteq Name
    BY <1>1, <1>2, <1>3, <2>1 DEF TestTyped
  <2>3. lost' \subseteq DOMAIN tried'
    BY <1>1, <1>3, <1>4 DEF TestTyped
  <2>4. avoid' \subseteq Hashes'
    BY <1>1, <1>3 DEF TestTyped, Hashes
  <2> QED
    BY <1>1, <1>2, <1>3, <2>2, <2>3, <2>4 DEF TestTyped
<1>6. Named'
  <2>1. ASSUME NEW m \in declared'
        PROVE  \/ m \in Imported \/ \E i \in Nat : m = RunSource(i)
               \/ \E q \in DOMAIN tried' : m = tried'[q].name \/ m = Kernel(tried'[q].name)
    <3>1. CASE m \in declared
      BY <1>1, <1>2, <1>4, <3>1 DEF Named
    <3>2. CASE m \in {t, Kernel(t)}
      BY <1>2, <1>4, <3>2
    <3> QED
      BY <1>3, <3>1, <3>2
  <2> QED
    BY <1>2, <2>1 DEF Named
<1>7. LostByClash'
  <2> SUFFICES ASSUME NEW x \in lost', Kernel(tried'[x].name) \notin Imported
               PROVE  \E q \in 1 .. x - 1 :
                        \/ tried'[q].name = tried'[x].name /\ tried'[q].draw # tried'[x].draw
                        \/ tried'[q].name = Kernel(tried'[x].name)
    BY DEF LostByClash
  <2>1. CASE x \in lost
    <3>1. x \in DOMAIN tried
      BY <1>1, <2>1 DEF TestTyped
    <3>2. PICK q \in 1 .. x - 1 :
            \/ tried[q].name = tried[x].name /\ tried[q].draw # tried[x].draw
            \/ tried[q].name = Kernel(tried[x].name)
      BY <1>1, <1>2, <2>1, <3>1 DEF LostByClash
    <3>3. q \in DOMAIN tried
      BY <1>2, <3>1
    <3>4. tried'[q] = tried[q] /\ tried'[x] = tried[x]
      BY <1>2, <3>1, <3>3
    <3> QED
      BY <3>2, <3>4
  <2>2. CASE x \notin lost
    <3>1. x = p /\ Kernel(t) \in declared /\ Kernel(t) \notin Imported
      BY <1>2, <1>3, <2>2
    <3>2. \A i \in Nat : Kernel(t) # RunSource(i)
      BY <1>2, NameTypes
    <3>3. PICK q \in DOMAIN tried : Kernel(t) = tried[q].name \/ Kernel(t) = Kernel(tried[q].name)
      BY <1>1, <3>1, <3>2 DEF Named
    <3>4. q \in 1 .. x - 1 /\ tried'[q] = tried[q] /\ tried[q].name \in Name
      BY <1>2, <3>1
    <3>5. CASE Kernel(t) = tried[q].name
      BY <1>2, <3>1, <3>4, <3>5
    <3>6. CASE Kernel(t) = Kernel(tried[q].name)
      <4>1. tried[q].name = t
        BY <1>2, <3>4, <3>6, NameTypes
      <4>2. tried[q].draw # draws
        BY <1>1, <1>2, <4>1 DEF Named
      <4> QED
        BY <1>2, <3>1, <3>4, <4>1, <4>2
    <3> QED
      BY <3>3, <3>5, <3>6
  <2> QED
    BY <2>1, <2>2
<1> QED
  BY <1>5, <1>6, <1>7 DEF Tested

-----------------------------------------------------------------------------
(* The walk *)

\* What the sets of a sequence have.
In(t) == UNION {t[k] : k \in DOMAIN t}

\* The sets of a sequence have nothing in common.
Apart(t) == \A j, k \in DOMAIN t : j # k => t[j] \cap t[k] = {}

\* The paths that have been collected, and the one that is being so.
Paths == {files[k].path : k \in DOMAIN files}
At    == IF entry = NoEntry THEN {} ELSE {entry.path}

\* What the walk leaves out.
Omitted(x) == x \in Skipped \/ x \in File \ Lean \/ (x \in File /\ disk[x] = Gone)

\* V are the directories that the walk has come to.  What is in them is still
\* to be seen, and in one place only, or has been: it is left out, or a
\* directory that the walk has come to, or a file that is collected, once.
Walked(V) ==
  /\ Top \in V /\ V \subseteq Reached
  /\ \A v \in V : v # Top => \E d \in V : v \in Entries[d]
  /\ \A d \in V : \A x \in Entries[d] : x \in In(todo) \/ x \in Paths \cup At \cup V \/ Omitted(x)
  /\ Apart(todo) /\ In(todo) \cap (V \cup Paths \cup At) = {}
  /\ \A k \in DOMAIN todo : \E d \in V : todo[k] \subseteq Entries[d]
  /\ \A n \in Paths \cup At : n \in Lean /\ disk[n] # Gone /\ \E d \in V : n \in Entries[d]
  /\ Paths \cap At = {}
  /\ \A j, k \in DOMAIN files : j # k => files[j].path # files[k].path

\* The directories that are scanned are closed.
LEMMA ReachedClosed ==
  /\ Reached \subseteq Dir /\ Top \in Reached
  /\ \A d \in Reached : LeadsTo(d) \subseteq Reached
  /\ \A D \in SUBSET Dir : Closed(D) => Reached \subseteq D
<1>1. Top \in Reached
  BY CorpusAssumption DEF Reached, Closed
<1>2. ASSUME NEW d \in Reached, NEW e \in LeadsTo(d) PROVE e \in Reached
  <2>1. e \in Dir
    BY DEF LeadsTo
  <2>2. ASSUME NEW D \in SUBSET Dir, Closed(D) PROVE e \in D
    <3>1. d \in D
      BY <2>2 DEF Reached
    <3> QED
      BY <2>2, <3>1 DEF Closed
  <2> QED
    BY <2>1, <2>2 DEF Reached
<1> QED
  BY <1>1, <1>2 DEF Reached

\* One entry is ticked off.
LEMMA TickedIn ==
  ASSUME NEW S, todo \in Seq(SUBSET S), todo # <<>>, Apart(todo), NEW n \in Last(todo)
  PROVE  /\ DOMAIN Ticked(n) = DOMAIN todo /\ \A k \in DOMAIN todo : Ticked(n)[k] \subseteq todo[k]
         /\ n \in In(todo) /\ In(Ticked(n)) = In(todo) \ {n} /\ Apart(Ticked(n))
<1> DEFINE m == Len(todo)
           f == Front(todo)
           x == Last(todo) \ {n}
           t == Ticked(n)
<1>1. /\ f \in Seq(SUBSET S) /\ x \in SUBSET S /\ m \in Nat \ {0} /\ Len(f) = m - 1
      /\ Last(todo) = todo[m] /\ DOMAIN todo = 1 .. m /\ \A j \in 1 .. m - 1 : f[j] = todo[j]
  BY TodoTypes
<1>2. t = Append(f, x) /\ x = todo[m] \ {n} /\ n \in todo[m]
  BY <1>1 DEF Ticked
<1> HIDE DEF f, x, t, m
<1>3. DOMAIN t = 1 .. m /\ t[m] = x /\ \A j \in 1 .. m - 1 : t[j] = todo[j]
  <2>1. DOMAIN Append(f, x) = 1 .. Len(f) + 1 /\ Append(f, x)[Len(f) + 1] = x
        /\ \A j \in 1 .. Len(f) : Append(f, x)[j] = f[j]
    BY <1>1, OneMore
  <2>2. Len(f) + 1 = m
    BY <1>1
  <2> QED
    BY <1>1, <1>2, <2>1, <2>2
<1>4. m \in 1 .. m /\ \A j \in 1 .. m : j # m => j \in 1 .. m - 1
  BY <1>1
<1>5. ASSUME NEW k \in 1 .. m PROVE t[k] \subseteq todo[k] /\ t[k] = todo[k] \ {n}
  <2>1. CASE k = m
    BY <1>2, <1>3, <2>1
  <2>2. CASE k # m
    <3>1. t[k] = todo[k]
      BY <1>3, <1>4, <2>2
    <3>2. n \notin todo[k]
      BY <1>1, <1>2, <1>4, <2>2 DEF Apart
    <3> QED
      BY <3>1, <3>2
  <2> QED
    BY <2>1, <2>2
<1>6. n \in In(todo)
  BY <1>1, <1>2, <1>4 DEF In
<1>7. In(t) = In(todo) \ {n}
  BY <1>1, <1>3, <1>5 DEF In
<1>8. Apart(t)
  BY <1>1, <1>3, <1>5 DEF Apart
<1> QED
  BY <1>1, <1>3, <1>5, <1>6, <1>7, <1>8 DEF t

\* An entry that is left out.
LEMMA WalkedPasses ==
  ASSUME Sound, NEW V, Walked(V), NEW n \in File \cup Dir, Passes(n)
  PROVE  Walked(V)'
<1>1. /\ todo \in Seq(SUBSET (File \cup Dir)) /\ todo # <<>> /\ n \in Last(todo) /\ todo' = Ticked(n)
      /\ UNCHANGED <<disk, files, entry>> /\ Omitted(n)
  BY DEF Passes, Walking, changes, Sound, ScanTyped, Omitted
<1>2. /\ DOMAIN todo' = DOMAIN todo /\ \A k \in DOMAIN todo : todo'[k] \subseteq todo[k]
      /\ In(todo') = In(todo) \ {n} /\ Apart(todo')
  BY <1>1, TickedIn DEF Walked
<1>3. Paths' = Paths /\ At' = At /\ \A x : Omitted(x)' <=> Omitted(x)
  BY <1>1 DEF Paths, At, Omitted
<1> QED
  BY <1>1, <1>2, <1>3 DEF Walked

\* A directory that is gone into.
LEMMA WalkedDescends ==
  ASSUME Sound, NEW V, Walked(V), NEW n \in File \cup Dir, Descends(n)
  PROVE  Walked(V \cup {n})'
<1> DEFINE W == V \cup {n}
           t == Ticked(n)
           m == Len(t)
<1>1. /\ todo \in Seq(SUBSET (File \cup Dir)) /\ todo # <<>> /\ n \in Last(todo)
      /\ todo' = Append(t, Entries[n]) /\ n \in Dir \ Skipped
      /\ UNCHANGED <<disk, files, entry>>
  BY DEF Descends, Walking, changes, Sound, ScanTyped
<1>2. /\ DOMAIN t = DOMAIN todo /\ \A k \in DOMAIN todo : t[k] \subseteq todo[k]
      /\ n \in In(todo) /\ In(t) = In(todo) \ {n} /\ Apart(t)
  BY <1>1, TickedIn DEF Walked
<1>3. Paths' = Paths /\ At' = At /\ \A x : Omitted(x)' <=> Omitted(x)
  BY <1>1 DEF Paths, At, Omitted
<1>4. t \in Seq(SUBSET (File \cup Dir)) /\ Entries[n] \in SUBSET (File \cup Dir)
  BY <1>1, TickedTypes, TreeAssumption
<1> HIDE DEF t
<1>5. /\ m \in Nat /\ DOMAIN t = 1 .. m /\ DOMAIN todo' = 1 .. m + 1 /\ todo'[m + 1] = Entries[n]
      /\ \A k \in 1 .. m : todo'[k] = t[k]
  <2> DEFINE S == SUBSET (File \cup Dir)
             x == Entries[n]
  <2>1. t \in Seq(S) /\ x \in S
    BY <1>4
  <2> HIDE DEF S, x
  <2>2. /\ Len(t) \in Nat /\ Append(t, x)[Len(t) + 1] = x
        /\ \A j \in 1 .. Len(t) : Append(t, x)[j] = t[j]
        /\ DOMAIN t = 1 .. Len(t) /\ DOMAIN Append(t, x) = 1 .. Len(t) + 1
    BY <2>1, OneMore
  <2> QED
    BY <1>1, <2>2 DEF x
<1> HIDE DEF m
<1>6. \A k \in DOMAIN todo' : k \in 1 .. m \/ k = m + 1
  BY <1>5
<1>7. m + 1 \in DOMAIN todo' /\ m + 1 \notin 1 .. m /\ \A k \in 1 .. m : k \in DOMAIN todo'
  BY <1>5
<1>8. In(todo') = (In(todo) \ {n}) \cup Entries[n]
  <2>1. In(todo') = In(t) \cup Entries[n]
    BY <1>5, <1>6, <1>7 DEF In
  <2> QED
    BY <1>2, <2>1
<1>9. PICK e \in V : n \in Entries[e]
  <2>1. PICK k \in DOMAIN todo : n \in todo[k]
    BY <1>2 DEF In
  <2> QED
    BY <2>1 DEF Walked
<1>10. V \subseteq Dir /\ V \subseteq Reached /\ n \notin V /\ n \in Reached
  <2>1. V \subseteq Dir /\ V \subseteq Reached /\ n \notin V
    BY <1>2, ReachedClosed DEF Walked
  <2>2. n \in LeadsTo(e)
    BY <1>1, <1>9 DEF LeadsTo
  <2> QED
    BY <1>9, <2>1, <2>2, ReachedClosed
<1>11. \A d \in V : Entries[d] \cap Entries[n] = {}
  BY <1>1, <1>10, TreeAssumption
<1>12. Entries[n] \cap W = {}
  <2>1. n \notin Entries[n]
    BY <1>9, <1>11
  <2>2. ASSUME NEW v \in V, v \in Entries[n] PROVE FALSE
    <3>1. v # Top
      BY <1>1, <2>2, TreeAssumption
    <3>2. PICK d \in V : v \in Entries[d]
      BY <3>1 DEF Walked
    <3> QED
      BY <1>11, <2>2, <3>2
  <2> QED
    BY <2>1, <2>2
<1>13. Apart(todo')
  <2>1. ASSUME NEW k \in 1 .. m PROVE todo'[k] \cap Entries[n] = {}
    <3>1. k \in DOMAIN todo /\ todo'[k] \subseteq todo[k]
      BY <1>2, <1>5
    <3>2. PICK d \in V : todo[k] \subseteq Entries[d]
      BY <3>1 DEF Walked
    <3> QED
      BY <1>11, <3>1, <3>2
  <2>2. ASSUME NEW j \in 1 .. m, NEW k \in 1 .. m, j # k PROVE todo'[j] \cap todo'[k] = {}
    BY <1>2, <1>5, <2>2 DEF Apart
  <2> QED
    BY <1>5, <1>6, <2>1, <2>2 DEF Apart
<1>14. In(todo') \cap (W \cup Paths \cup At) = {}
  <2>1. Entries[n] \cap (Paths \cup At) = {}
    BY <1>11 DEF Walked
  <2> QED
    BY <1>8, <1>12, <2>1 DEF Walked
<1>15. \A k \in DOMAIN todo' : \E d \in W : todo'[k] \subseteq Entries[d]
  <2>1. ASSUME NEW k \in 1 .. m PROVE \E d \in W : todo'[k] \subseteq Entries[d]
    <3>1. k \in DOMAIN todo /\ todo'[k] \subseteq todo[k]
      BY <1>2, <1>5
    <3> QED
      BY <3>1 DEF Walked
  <2> QED
    BY <1>5, <1>6, <2>1
<1>16. ASSUME NEW d \in W, NEW x \in Entries[d]
       PROVE  x \in In(todo') \/ x \in Paths \cup At \cup W \/ Omitted(x)
  BY <1>8 DEF Walked
<1>17. \A v \in W : v # Top => \E d \in W : v \in Entries[d]
  BY <1>9 DEF Walked
<1> QED
  BY <1>1, <1>3, <1>10, <1>13, <1>14, <1>15, <1>16, <1>17 DEF Walked

\* A directory that is left.
LEMMA WalkedAscends ==
  ASSUME Sound, NEW V, Walked(V), Ascends
  PROVE  Walked(V)'
<1> DEFINE m == Len(todo)
           f == Front(todo)
<1>1. /\ todo \in Seq(SUBSET (File \cup Dir)) /\ todo # <<>> /\ Last(todo) = {} /\ todo' = f
      /\ UNCHANGED <<disk, files, entry>>
  BY DEF Ascends, changes, Sound, ScanTyped
<1>2. /\ f \in Seq(SUBSET (File \cup Dir)) /\ m \in Nat \ {0} /\ Len(f) = m - 1
      /\ Last(todo) = todo[m] /\ DOMAIN todo = 1 .. m /\ \A j \in 1 .. m - 1 : f[j] = todo[j]
  <2> DEFINE S == File \cup Dir
  <2>1. todo \in Seq(SUBSET S)
    BY <1>1
  <2> HIDE DEF S
  <2>2. /\ f \in Seq(SUBSET S) /\ m \in Nat \ {0} /\ Len(f) = m - 1
        /\ Last(todo) = todo[m] /\ \A j \in 1 .. m - 1 : f[j] = todo[j]
    BY <1>1, <2>1, TodoTypes
  <2>3. DOMAIN todo = 1 .. m
    BY <2>1
  <2> QED
    BY <2>2, <2>3 DEF S
<1> HIDE DEF m, f
<1>3. /\ DOMAIN f = 1 .. m - 1 /\ \A k \in 1 .. m : k = m \/ k \in 1 .. m - 1
      /\ \A k \in 1 .. m - 1 : k \in 1 .. m
  BY <1>2
<1>4. In(f) = In(todo)
  BY <1>1, <1>2, <1>3 DEF In
<1>5. Apart(f) /\ \A k \in DOMAIN f : k \in DOMAIN todo /\ f[k] = todo[k]
  BY <1>2, <1>3 DEF Walked, Apart
<1>6. Paths' = Paths /\ At' = At /\ \A x : Omitted(x)' <=> Omitted(x)
  BY <1>1 DEF Paths, At, Omitted
<1> QED
  BY <1>1, <1>4, <1>5, <1>6 DEF Walked

\* A file that is looked into.
LEMMA WalkedStats ==
  ASSUME Sound, NEW V, Walked(V), NEW n \in File \cup Dir, Stats(n)
  PROVE  Walked(V)'
<1>1. /\ todo \in Seq(SUBSET (File \cup Dir)) /\ todo # <<>> /\ n \in Last(todo) /\ todo' = Ticked(n)
      /\ UNCHANGED <<disk, files>> /\ n \in Lean /\ disk[n] # Gone /\ entry = NoEntry
      /\ entry' = [path |-> n, large |-> Len(disk[n]) > Head256, hash |-> <<>>]
  BY DEF Stats, Walking, changes, Sound, ScanTyped
<1>2. /\ DOMAIN todo' = DOMAIN todo /\ \A k \in DOMAIN todo : todo'[k] \subseteq todo[k]
      /\ n \in In(todo) /\ In(todo') = In(todo) \ {n} /\ Apart(todo')
  BY <1>1, TickedIn DEF Walked
<1>3. Paths' = Paths /\ At = {} /\ \A x : Omitted(x)' <=> Omitted(x)
  BY <1>1 DEF Paths, At, Omitted
<1>4. At' = {n}
  <2>1. n # 0 /\ entry'.path = n /\ NoEntry.path = 0
    BY <1>1, CorpusAssumption DEF NoEntry
  <2> QED
    BY <2>1 DEF At
<1>5. \E d \in V : n \in Entries[d]
  BY <1>2 DEF Walked, In
<1>6. n \notin Paths
  BY <1>2 DEF Walked
<1> QED
  BY <1>1, <1>2, <1>3, <1>4, <1>5, <1>6 DEF Walked

\* A file that is hashed.
LEMMA WalkedHashing ==
  ASSUME Sound, NEW V, Walked(V), Hashing
  PROVE  Walked(V)'
<1> DEFINE h == Hash(text)
<1>1. entry \in Entry /\ entry' = [entry EXCEPT !.hash = h] /\ UNCHANGED <<disk, todo, files>>
  BY DEF Hashing, ReadEnds, changes, Sound, ScanTyped
<1> HIDE DEF h
<1>2. entry'.path = entry.path /\ entry'.path # 0
  <2>1. entry.path # 0
    BY <1>1, CorpusAssumption DEF Entry
  <2> QED
    BY <1>1, <2>1 DEF Entry
<1>3. entry' # NoEntry /\ entry # NoEntry
  BY <1>2 DEF NoEntry
<1>4. Paths' = Paths /\ At' = At /\ \A x : Omitted(x)' <=> Omitted(x)
  BY <1>1, <1>2, <1>3 DEF Paths, At, Omitted
<1> QED
  BY <1>1, <1>4 DEF Walked

\* A file that is collected.
LEMMA WalkedCollects ==
  ASSUME Sound, NEW V, Walked(V), Collects
  PROVE  Walked(V)'
<1> DEFINE m == Len(files)
           src == IF entry.large THEN SubSeq(text, 1, Min({Head256, Len(text)})) ELSE text
           f == [path |-> entry.path, hash |-> entry.hash, source |-> src]
<1>1. /\ files \in Seq(Sample) /\ files' = Append(files, f) /\ entry # NoEntry /\ entry' = NoEntry
      /\ UNCHANGED <<disk, todo>>
  BY DEF Collects, ReadEnds, changes, Sound, ScanTyped
<1> HIDE DEF src
<1>2. f.path = entry.path
  OBVIOUS
<1> HIDE DEF f
<1>3. /\ DOMAIN files = 1 .. m /\ m \in Nat /\ DOMAIN files' = 1 .. m + 1
      /\ files'[m + 1] = f /\ \A k \in 1 .. m : files'[k] = files[k]
  BY <1>1
<1> HIDE DEF m
<1>4. /\ \A k \in 1 .. m + 1 : k = m + 1 \/ k \in 1 .. m
      /\ \A k \in 1 .. m : k \in 1 .. m + 1 /\ k # m + 1
      /\ m + 1 \in 1 .. m + 1
  BY <1>3
<1>5. At = {entry.path} /\ At' = {} /\ \A x : Omitted(x)' <=> Omitted(x)
  BY <1>1 DEF At, Omitted
<1>6. Paths' = Paths \cup At
  BY <1>2, <1>3, <1>4, <1>5 DEF Paths
<1>7. \A k \in 1 .. m : files[k].path # entry.path
  <2>1. \A k \in 1 .. m : files[k].path \in Paths
    BY <1>3 DEF Paths
  <2> QED
    BY <1>5, <2>1 DEF Walked
<1>8. ASSUME NEW j \in DOMAIN files', NEW k \in DOMAIN files', j # k
      PROVE  files'[j].path # files'[k].path
  BY <1>2, <1>3, <1>4, <1>7, <1>8 DEF Walked
<1> QED
  BY <1>1, <1>5, <1>6, <1>8 DEF Walked

\* The files are in the order of their paths, each once.
Ordered == \A j, k \in DOMAIN files : j < k => files[j].path < files[k].path

\* The scan as long as nobody changes a file.
Quiet ==
  /\ \A n \in File : held[n] = {disk[n]}
  /\ entry # NoEntry => phase = "scan" /\ disk[entry.path] # Gone
  /\ \A k \in DOMAIN files :
       disk[files[k].path] # Gone /\ files[k].source = Kept(disk[files[k].path])
  /\ phase = "scan" => \E V : Walked(V)
  /\ phase # "scan" => Paths = Found /\ Ordered

\* A change of a file ends it.
Scanning == edits = 0 => Quiet

\* When nothing is left to be seen, all has been found: the directories that
\* were come to are closed.
LEMMA WalkFinds ==
  ASSUME NEW V, Walked(V), todo = <<>>, At = {}
  PROVE  Paths = Found
<1>1. In(todo) = {}
  BY DEF In
<1>2. V \subseteq Reached /\ V \subseteq Dir
  BY ReachedClosed DEF Walked
<1>3. Closed(V)
  <2>1. ASSUME NEW d \in V, NEW x \in LeadsTo(d) PROVE x \in V
    <3>1. x \in Entries[d] /\ x \in Dir /\ x \notin Skipped
      BY DEF LeadsTo
    <3>2. x \notin File /\ x \notin Lean
      BY <3>1, CorpusAssumption
    <3>3. ~Omitted(x) /\ x \notin Paths
      BY <3>1, <3>2 DEF Omitted, Walked
    <3> QED
      BY <1>1, <3>1, <3>3 DEF Walked
  <2> QED
    BY <2>1 DEF Closed, Walked
<1>4. V = Reached
  BY <1>2, <1>3, ReachedClosed
<1>5. ASSUME NEW n \in Found PROVE n \in Paths
  <2>1. n \in Lean /\ disk[n] # Gone /\ \E d \in V : n \in Entries[d]
    BY <1>4 DEF Found
  <2>2. n \in File /\ n \notin Dir
    BY <2>1, CorpusAssumption
  <2>3. ~Omitted(n) /\ n \notin V
    BY <1>2, <2>1, <2>2, CorpusAssumption DEF Omitted
  <2> QED
    BY <1>1, <2>1, <2>3 DEF Walked
<1>6. ASSUME NEW n \in Paths PROVE n \in Found
  BY <1>4 DEF Walked, Found
<1> QED
  BY <1>5, <1>6

\* Nothing is cut off a file that is not large.
LEMMA KeptIsAll ==
  ASSUME NEW c \in Seq(Line), Len(c) <= Head256
  PROVE  Kept(c) = c
<1> DEFINE n == Len(c)
           s == SubSeq(c, 1, n)
<1>1. n \in Nat /\ Head256 \in Nat /\ \A j \in 1 .. n : c[j] \in Line
  BY CorpusAssumption
<1>2. Min({Head256, n}) = n
  BY <1>1 DEF Min
<1>3. Kept(c) = s
  BY <1>2 DEF Kept
<1>4. s \in Seq(Line) /\ Len(s) = (IF 1 <= n THEN n - 1 + 1 ELSE 0)
      /\ \A j \in 1 .. n - 1 + 1 : s[j] = c[1 + j - 1]
  BY <1>1, SubSeqProperties
<1> HIDE DEF s
<1>5. Len(s) = n /\ \A j \in 1 .. n : s[j] = c[j]
  BY <1>1, <1>4
<1>6. s = c
  <2> HIDE DEF n
  <2> QED
    BY <1>4, <1>5, SeqEqual DEF n
<1> QED
  BY <1>3, <1>6

\* The walk while nobody changes a file.
LEMMA QuietWalks ==
  ASSUME Sound, Quiet, edits = 0,
         \/ \E n \in File \cup Dir : Passes(n) \/ Descends(n) \/ Stats(n)
         \/ Ascends \/ Opens \/ Reads \/ Hashing
  PROVE  Quiet'
<1> USE DEF changes
<1>1. /\ UNCHANGED <<disk, held, files, phase>>
      /\ \/ UNCHANGED entry
         \/ \E n \in Lean : disk[n] # Gone /\ entry'.path = n
         \/ entry # NoEntry /\ entry'.path = entry.path
  <2>1. ASSUME Hashing PROVE entry'.path = entry.path
    <3>1. entry \in Entry
      BY <2>1 DEF Hashing, ReadEnds, Sound, ScanTyped
    <3> DEFINE h == Hash(text)
    <3>2. entry' = [entry EXCEPT !.hash = h]
      BY <2>1 DEF Hashing
    <3> HIDE DEF h
    <3> QED
      BY <3>1, <3>2 DEF Entry
  <2>2. CASE Ascends \/ Opens \/ Reads
    BY <2>2 DEF Ascends, Opens, Reads
  <2>3. CASE Hashing
    BY <2>1, <2>3 DEF Hashing, ReadEnds
  <2>4. ASSUME NEW n \in File \cup Dir, Passes(n) \/ Descends(n)
        PROVE  UNCHANGED <<disk, held, files, phase, entry>>
    BY <2>4 DEF Passes, Descends
  <2>5. ASSUME NEW n \in File \cup Dir, Stats(n)
        PROVE  /\ UNCHANGED <<disk, held, files, phase>>
               /\ n \in Lean /\ disk[n] # Gone /\ entry'.path = n
    BY <2>5 DEF Stats
  <2> QED
    BY <2>2, <2>3, <2>4, <2>5
<1>2. phase = "scan"
  BY DEF Passes, Descends, Stats, Walking, Ascends, Opens, Reads, Hashing, ReadEnds, Quiet, Sound,
         Reading
<1>3. PICK V : Walked(V)
  BY <1>2 DEF Quiet
<1>4. \E W : Walked(W)'
  <2>1. CASE Opens \/ Reads
    <3>1. UNCHANGED <<disk, todo, entry, files>>
      BY <2>1 DEF Opens, Reads
    <3> QED
      BY <1>3, <3>1 DEF Walked, Paths, At, Omitted
  <2> QED
    BY <1>3, <2>1, WalkedPasses, WalkedDescends, WalkedStats, WalkedAscends, WalkedHashing
<1>5. (entry # NoEntry => disk[entry.path] # Gone)'
  BY <1>1 DEF Quiet
<1>6. \A k \in DOMAIN files : disk'[files'[k].path] # Gone /\ files'[k].source = Kept(disk'[files'[k].path])
  BY <1>1 DEF Quiet
<1> QED
  BY <1>1, <1>2, <1>4, <1>5, <1>6 DEF Quiet

\* A file is collected while nobody changes it.
LEMMA QuietCollects ==
  ASSUME Sound, Quiet, edits = 0, Collects
  PROVE  Quiet'
<1> DEFINE m == Len(files)
           n == entry.path
           all == text
           src == IF entry.large THEN SubSeq(all, 1, Min({Head256, Len(all)})) ELSE all
           f == [path |-> n, hash |-> entry.hash, source |-> src]
<1>1. /\ entry \in Entry /\ entry # NoEntry /\ entry' = NoEntry
      /\ files \in Seq(Sample) /\ files' = Append(files, f)
      /\ disk \in [File -> Texts] /\ (entry.large <=> Len(TextOf(disk[n])) > Head256)
      /\ UNCHANGED <<disk, held, phase>> /\ ReadEnds
  BY DEF Collects, ReadEnds, changes, Sound, ScanTyped
<1>2. n \in File /\ n \in Lean /\ disk[n] # Gone /\ phase = "scan"
  BY <1>1, EntryIsEntry DEF Quiet, Entry
<1>3. all = disk[n] /\ all \in Seq(Line) /\ all = TextOf(disk[n])
  <2>1. all = TextOf(disk[n]) /\ all \in Seq(Line)
    BY <1>1, TextRead
  <2> QED
    BY <1>2, <2>1 DEF TextOf
<1>4. src = Kept(all)
  <2>1. CASE entry.large
    BY <2>1 DEF Kept
  <2>2. CASE ~entry.large
    <3>1. Len(all) <= Head256
      <4> HIDE DEF all
      <4>1. Len(all) \in Nat /\ Head256 \in Nat
        BY <1>3, CorpusAssumption
      <4> QED
        BY <1>1, <1>3, <2>2, <4>1
    <3> HIDE DEF all
    <3> QED
      BY <1>3, <2>2, <3>1, KeptIsAll
  <2> QED
    BY <2>1, <2>2
<1>5. src = Kept(disk[n])
  BY <1>3, <1>4
<1>6. f.path = n /\ f.source = src
  OBVIOUS
<1> HIDE DEF all, src, f
<1>7. /\ DOMAIN files = 1 .. m /\ m \in Nat /\ DOMAIN files' = 1 .. m + 1
      /\ files'[m + 1] = f /\ \A k \in 1 .. m : files'[k] = files[k]
  BY <1>1
<1>8. \A k \in 1 .. m + 1 : k = m + 1 \/ k \in 1 .. m
  BY <1>7
<1> HIDE DEF m
<1>9. ASSUME NEW k \in DOMAIN files'
      PROVE  disk'[files'[k].path] # Gone /\ files'[k].source = Kept(disk'[files'[k].path])
  <2>1. CASE k = m + 1
    BY <1>1, <1>2, <1>5, <1>6, <1>7, <2>1
  <2>2. CASE k \in 1 .. m
    BY <1>1, <1>7, <2>2 DEF Quiet
  <2> QED
    BY <1>7, <1>8, <2>1, <2>2
<1>10. \E V : Walked(V)'
  BY <1>2, WalkedCollects DEF Quiet
<1> QED
  BY <1>1, <1>2, <1>9, <1>10 DEF Quiet

\* The files are sorted.
LEMMA QuietScanned ==
  ASSUME Sound, Quiet, Scanned
  PROVE  Quiet'
<1>1. PICK p \in Bijection(DOMAIN files, DOMAIN files) :
        /\ \A j, k \in DOMAIN files : j < k => ~ByPath(files[p[k]], files[p[j]])
        /\ files' = [k \in DOMAIN files |-> files[p[k]]]
  BY DEF Scanned
<1>2. /\ phase = "scan" /\ phase' = "sample" /\ entry = NoEntry /\ todo = <<>>
      /\ UNCHANGED <<disk, held, todo, entry>>
  BY DEF Scanned, changes
<1>3. /\ \A k \in DOMAIN files : p[k] \in DOMAIN files
      /\ \A j, k \in DOMAIN files : p[j] = p[k] => j = k
      /\ \A k \in DOMAIN files : \E j \in DOMAIN files : p[j] = k
  <2> DEFINE D == DOMAIN files
  <2>1. p \in Bijection(D, D)
    BY <1>1
  <2> HIDE DEF D
  <2>2. /\ \A k \in D : p[k] \in D
        /\ \A j, k \in D : p[j] = p[k] => j = k
        /\ \A k \in D : \E j \in D : p[j] = k
    BY <2>1 DEF Bijection, Injection, Surjection, IsInjective
  <2> QED
    BY <2>2 DEF D
<1>4. DOMAIN files' = DOMAIN files /\ \A k \in DOMAIN files : files'[k] = files[p[k]]
  BY <1>1
<1>5. PICK V : Walked(V)
  BY <1>2 DEF Quiet
<1>6. Paths' = Paths
  <2>1. ASSUME NEW k \in DOMAIN files PROVE files[k].path \in Paths'
    <3>1. PICK j \in DOMAIN files : p[j] = k
      BY <1>3
    <3> QED
      BY <1>4, <3>1 DEF Paths
  <2>2. ASSUME NEW k \in DOMAIN files' PROVE files'[k].path \in Paths
    <3>1. p[k] \in DOMAIN files /\ files'[k].path = files[p[k]].path
      BY <1>3, <1>4
    <3> QED
      BY <3>1 DEF Paths
  <2> QED
    BY <2>1, <2>2 DEF Paths
<1>7. Paths = Found
  BY <1>2, <1>5, WalkFinds DEF At
<1>8. Found' = Found
  BY <1>2 DEF Found
<1>9. \A k \in DOMAIN files : files[k].path \in Nat
  <2>1. ASSUME NEW k \in DOMAIN files PROVE files[k] \in Sample
    BY DEF Sound, ScanTyped
  <2> QED
    BY <2>1, CorpusAssumption DEF Sample
<1>10. ASSUME NEW j \in DOMAIN files, NEW k \in DOMAIN files, j < k
       PROVE  files'[j].path < files'[k].path
  <2>1. files[p[j]].path \in Nat /\ files[p[k]].path \in Nat
    BY <1>3, <1>9
  <2>2. ~(files[p[k]].path < files[p[j]].path)
    BY <1>1, <1>10 DEF ByPath
  <2>3. j # k
    <3>1. j \in Nat /\ k \in Nat
      BY DEF Sound, ScanTyped
    <3> QED
      BY <1>10, <3>1
  <2>4. files[p[j]].path # files[p[k]].path
    BY <1>3, <1>5, <2>3 DEF Walked
  <2> QED
    BY <1>4, <2>1, <2>2, <2>4
<1>11. Ordered'
  BY <1>4, <1>10 DEF Ordered
<1>12. ASSUME NEW k \in DOMAIN files'
       PROVE  disk'[files'[k].path] # Gone /\ files'[k].source = Kept(disk'[files'[k].path])
  <2>1. p[k] \in DOMAIN files /\ files'[k] = files[p[k]]
    BY <1>3, <1>4
  <2>2. disk[files[p[k]].path] # Gone /\ files[p[k]].source = Kept(disk[files[p[k]].path])
    BY <2>1 DEF Quiet
  <2> QED
    BY <1>2, <2>1, <2>2
<1> QED
  BY <1>2, <1>6, <1>7, <1>8, <1>11, <1>12 DEF Quiet

\* The other steps: a change ends it, the draws leave it alone.
LEMMA ScanningSteps ==
  ASSUME Sound, Scanning, [Next]_vars
  PROVE  Scanning'
<1> USE DEF scanVars, changes, reader, testVars
<1>1. CASE (\E n \in File \cup Dir : Passes(n) \/ Descends(n) \/ Stats(n))
           \/ Ascends \/ Opens \/ Reads \/ Hashing
  <2>1. edits' = edits
    BY <1>1 DEF Passes, Descends, Stats, Ascends, Opens, Reads, Hashing
  <2> QED
    BY <1>1, <2>1, QuietWalks DEF Scanning
<1>2. CASE Collects
  <2>1. edits' = edits
    BY <1>2 DEF Collects
  <2> QED
    BY <1>2, <2>1, QuietCollects DEF Scanning
<1>3. CASE Scanned
  <2>1. edits' = edits
    BY <1>3 DEF Scanned
  <2> QED
    BY <1>3, <2>1, QuietScanned DEF Scanning
<1>4. CASE \E n \in Lean, c \in Content \cup {Gone} : Edits(n, c)
  <2>1. edits' = edits + 1 /\ edits \in Nat
    BY <1>4, CorpusAssumption DEF Edits, Sound, ScanTyped
  <2> QED
    BY <2>1 DEF Scanning
<1>5. CASE SampleRuns \/ SamplesDone \/ Generates \/ AddsTest \/ AddsKernel \/ Loses
           \/ GeneratesDone \/ UNCHANGED vars
  <2>1. UNCHANGED scanVars
    BY <1>5 DEF SampleRuns, SamplesDone, Generates, AddsTest, AddsKernel, Loses, Tries,
                GeneratesDone, vars
  <2>2. phase' = phase \/ (phase # "scan" /\ phase' # "scan")
    BY <1>5 DEF SampleRuns, SamplesDone, Generates, AddsTest, AddsKernel, Loses, Tries,
                GeneratesDone, vars
  <2>3. /\ (\E V : Walked(V)) => (\E V : Walked(V)')
        /\ Paths' = Paths /\ Found' = Found
    BY <2>1 DEF Walked, Paths, At, Omitted, Found
  <2>4. Ordered' <=> Ordered
    BY <2>1 DEF Ordered
  <2>5. ASSUME Quiet PROVE Quiet'
    <3>1. (\E V : Walked(V)) => (\E V : Walked(V)')
      BY <2>3
    <3>2. (entry # NoEntry => phase = "scan" /\ disk[entry.path] # Gone)'
      BY <2>1, <2>2, <2>5 DEF Quiet
    <3>3. (phase = "scan" => \E V : Walked(V))'
      BY <2>2, <2>5, <3>1 DEF Quiet
    <3>4. (phase # "scan" => Paths = Found /\ Ordered)'
      BY <2>2, <2>3, <2>4, <2>5 DEF Quiet
    <3> QED
      BY <2>1, <2>5, <3>2, <3>3, <3>4 DEF Quiet
  <2> QED
    BY <2>1, <2>5 DEF Scanning
<1> QED
  BY <1>1, <1>2, <1>3, <1>4, <1>5 DEF Next, Writes, Replaces

\* What makes the scan reproducible.
LEMMA QuietIsReproducible ==
  ASSUME Sound, Scanning
  PROVE  Reproducible
<1> SUFFICES ASSUME edits = 0, phase # "scan"
             PROVE  /\ Range(files) = {[path |-> n, hash |-> Digest(disk[n]), source |-> Kept(disk[n])]
                                        : n \in Found}
                    /\ \A j, k \in DOMAIN files : j < k => files[j].path < files[k].path
  BY DEF Reproducible
<1> DEFINE R(n) == [path |-> n, hash |-> Digest(disk[n]), source |-> Kept(disk[n])]
<1>1. Quiet /\ Paths = Found /\ Ordered
  BY DEF Scanning, Quiet
<1>2. ASSUME NEW k \in DOMAIN files PROVE files[k] = R(files[k].path)
  <2> DEFINE n == files[k].path
             h == Digest(disk[n])
             c == Kept(disk[n])
  <2>1. files[k] \in Sample
    BY DEF Sound, ScanTyped
  <2>2. n \in File /\ disk[n] # Gone
    BY <1>1, <2>1, CorpusAssumption DEF Quiet, Sample
  <2>3. files[k].hash = h
    <3>1. PICK g \in hashed : g.path = n /\ files[k].hash = Digest(g.text)
      BY DEF Sound, Hashed, Digests
    <3>2. PICK x \in held[n] : g.text = TextOf(x)
      BY <3>1 DEF Sound, Hashed, Fits
    <3>3. x = disk[n]
      BY <1>1, <2>2, <3>2 DEF Quiet
    <3>4. TextOf(disk[n]) = disk[n]
      BY <2>2 DEF TextOf
    <3> QED
      BY <3>1, <3>2, <3>3, <3>4
  <2>4. files[k].source = c
    BY <1>1 DEF Quiet
  <2> HIDE DEF h, c
  <2>5. files[k] = [path |-> n, hash |-> h, source |-> c]
    BY <2>1, <2>3, <2>4 DEF Sample
  <2> QED
    BY <2>5 DEF h, c
<1> HIDE DEF R
<1>3. Range(files) = {R(n) : n \in Paths}
  BY <1>2 DEF Range, Paths
<1>4. Range(files) = {R(n) : n \in Found}
  BY <1>1, <1>3
<1> QED
  BY <1>1, <1>4 DEF R, Ordered

-----------------------------------------------------------------------------
(* All of it *)

\* The inductive invariant of the types, the hashes, the names and the walk.
Inv == Sound /\ Tested /\ Scanning

\* At first the top directory has been come to, and its entries are to be seen.
LEMMA WalkStarts == Init => \E V : Walked(V)
<1> SUFFICES ASSUME Init PROVE Walked({Top})
  OBVIOUS
<1> DEFINE e == Entries[Top]
<1>1. e \in SUBSET (File \cup Dir) /\ Top \notin e
  BY CorpusAssumption, TreeAssumption
<1> HIDE DEF e
<1>2. todo = <<e>> /\ DOMAIN todo = {1} /\ todo[1] = e
  BY DEF Init, e
<1>3. In(todo) = e
  BY <1>2 DEF In
<1>4. Paths = {} /\ At = {} /\ DOMAIN files = {}
  BY DEF Init, Paths, At
<1>5. {Top} \subseteq Reached
  BY ReachedClosed
<1>6. \A d \in {Top} : \A x \in Entries[d] : x \in In(todo)
  BY <1>3 DEF e
<1>7. Apart(todo)
  BY <1>2 DEF Apart
<1>8. \A k \in DOMAIN todo : \E d \in {Top} : todo[k] \subseteq Entries[d]
  BY <1>2 DEF e
<1> QED
  BY <1>1, <1>3, <1>4, <1>5, <1>6, <1>7, <1>8 DEF Walked

\* At first the invariant holds.
LEMMA InvInit == Init => Inv
<1> SUFFICES ASSUME Init PROVE Inv
  OBVIOUS
<1>1. disk \in [File -> Texts] /\ held = [n \in File |-> {disk[n]}] /\ edits = 0 /\ MaxEdits \in Nat
  BY CorpusAssumption DEF Init, Texts
<1>2. files = <<>> /\ DOMAIN files = {} /\ entry = NoEntry /\ phase = "scan"
  BY DEF Init
<1>3. todo \in Seq(SUBSET (File \cup Dir))
  <2> DEFINE S == SUBSET (File \cup Dir)
             e == Entries[Top]
  <2>1. e \in S
    BY CorpusAssumption, TreeAssumption
  <2>2. todo = <<e>>
    BY DEF Init
  <2> HIDE DEF S, e
  <2>3. todo \in Seq(S)
    BY <2>1, <2>2, JustOne
  <2> QED
    BY <2>3 DEF S
<1>4. ScanTyped
  BY <1>1, <1>2, <1>3 DEF ScanTyped
<1>5. Hashed /\ Reading
  <2>1. hashed = {} /\ reading = FALSE /\ old = Gone /\ text = <<>> /\ torn = FALSE
    BY DEF Init
  <2>2. \A n \in File : disk[n] \in held[n]
    BY <1>1
  <2>3. Hashed
    BY <1>2, <2>1, <2>2 DEF Hashed
  <2>4. old \in Texts /\ text \in Seq(Line)
    BY <2>1 DEF Texts
  <2>5. reading \in BOOLEAN /\ torn \in BOOLEAN /\ ~reading /\ ~torn
    BY <2>1
  <2> QED
    BY <2>1, <2>3, <2>4, <2>5 DEF Reading
<1>6. /\ live \in BOOLEAN /\ draws = 0 /\ avoid = {} /\ tests = <<>> /\ declared = Imported
      /\ tried = <<>> /\ lost = {} /\ Imported \subseteq Name
  BY CorpusAssumption DEF Init
<1>7. TestTyped
  <2> DEFINE b == Max({MaxPerFile, 1})
  <2>1. b \in Nat
    BY CorpusAssumption, LargerOfTwo
  <2>2. Len(tests) <= b
    <3> HIDE DEF b
    <3> QED
      BY <1>6, <2>1
  <2> QED
    BY <1>2, <1>6, <2>2 DEF TestTyped
<1>8. Named /\ LostByClash
  BY <1>6 DEF Named, LostByClash
<1>9. Scanning
  BY <1>1, <1>2, WalkStarts DEF Scanning, Quiet
<1> QED
  BY <1>4, <1>5, <1>7, <1>8, <1>9 DEF Inv, Sound, Tested

\* Every step keeps the invariant.
LEMMA InvNext == Inv /\ [Next]_vars => Inv'
<1> SUFFICES ASSUME Inv, [Next]_vars PROVE Inv'
  OBVIOUS
<1>1. Sound /\ Tested /\ Scanning
  BY DEF Inv
<1>2. ScanTyped' /\ Hashed' /\ Reading'
  BY <1>1, ScanSteps, ReadingSteps
<1>3. Tested'
  BY <1>1, TestsScan, TestsDrawn, TestsTried DEF Next, Writes, Replaces
<1>4. Scanning'
  BY <1>1, ScanningSteps
<1> QED
  BY <1>2, <1>3, <1>4 DEF Inv, Sound, Tested

\* The invariant holds.
LEMMA InvAlways == Spec => []Inv
BY InvInit, InvNext, PTL DEF Spec

\* The types of the variables, for every tree and all contents: the walk and
\* the folds of the generator give what they should, and what they give is
\* bounded by the caps of the code.
THEOREM CorpusTypes == Spec => []TypeOK
<1>1. Inv => TypeOK
  BY DEF Inv, Sound, Tested, ScanTyped, TestTyped, Reading, Hashed, Texts, Entry, Sample, Text, TypeOK
<1> QED
  BY <1>1, InvAlways, PTL

\* Also when files are changed during the scan, a hash in the evidence is the
\* SHA-256 digest of something that the file has held since, or of nothing if
\* it has gone; or, if the file was written to between two reads of it, of a
\* mixture of what it has held, each line at its place.  What sha256.h computes
\* by buffers is the digest of the padded message.
THEOREM HashesAreDigests == Spec => []HashesContent
<1>1. Inv => HashesContent
  <2> SUFFICES ASSUME Inv, NEW k \in DOMAIN files
               PROVE  \E h \in hashed :
                        /\ h.path = files[k].path /\ files[k].hash = Digest(h.text)
                        /\ Spliced(h.text, held[h.path])
                        /\ h.torn \/ \E c \in held[h.path] : h.text = TextOf(c)
    BY DEF HashesContent
  <2>1. PICK h \in hashed : h.path = files[k].path /\ files[k].hash = Digest(h.text)
    BY DEF Inv, Sound, Hashed, Digests
  <2> QED
    BY <2>1 DEF Inv, Sound, Hashed, Fits
<1> QED
  BY <1>1, InvAlways, PTL

\* What scan() finds is a function of the tree, whatever the order in which
\* readdir lists it: all Lean files that can be come to, each once, by their
\* paths, each with the digest of all of it and no more of its source than is
\* to be kept.
THEOREM ScanReproducible == Spec => []Reproducible
<1>1. Inv => Reproducible
  BY QuietIsReproducible DEF Inv
<1> QED
  BY <1>1, InvAlways, PTL

\* The fallback of a test fails too only if the names really clash, however
\* many files there are and whatever the names in them.
THEOREM LossesAreClashes == Spec => []LostByClash
<1>1. Inv => LostByClash
  BY DEF Inv, Tested
<1> QED
  BY <1>1, InvAlways, PTL

-----------------------------------------------------------------------------
(* Draws *)

\* After the scan nothing is left to be collected, and what is avoided has
\* been drawn.
Drawing ==
  /\ \E n \in Nat : DOMAIN files = 1 .. n
  /\ draws \in Nat
  /\ avoid \subseteq Hashes
  /\ phase = "scan" => draws = 0 /\ avoid = {}
  /\ phase # "scan" => entry = NoEntry

\* The inductive invariant of the draws.
IndInv == Drawing /\ DrawsSpread

\* There are finitely many hashes.
LEMMA HashesFinite == Drawing => IsFiniteSet(Hashes) /\ Cardinality(Hashes) \in Nat
<1> SUFFICES ASSUME Drawing PROVE IsFiniteSet(Hashes) /\ Cardinality(Hashes) \in Nat
  OBVIOUS
<1>1. PICK n \in Nat : DOMAIN files = 1 .. n
  BY DEF Drawing
<1>2. 1 \in Int /\ n \in Int
  OBVIOUS
<1>3. IsFiniteSet(1 .. n)
  BY <1>2, FS_Interval, Zenon
<1> DEFINE f == [k \in 1 .. n |-> files[k].hash]
<1>4. f \in Surjection(1 .. n, Hashes)
  BY <1>1 DEF Surjection, Hashes
<1>5. IsFiniteSet(Hashes)
  BY <1>3, <1>4, FS_Surjection
<1> QED
  BY <1>5, FS_CardinalityType

\* Before the first draw of a phase nothing is to be avoided.
LEMMA NothingDrawn ==
  ASSUME Drawing', draws' = 0, avoid' = {}
  PROVE  DrawsSpread'
<1>1. Cardinality(avoid') = 0
  BY FS_EmptySet
<1>2. (IsFiniteSet(Hashes) /\ Cardinality(Hashes) \in Nat)'
  BY HashesFinite, PTL
<1>3. Min({0, Cardinality(Hashes')}) = 0
  BY <1>2, LessOfTwo
<1> QED
  BY <1>1, <1>3 DEF DrawsSpread

\* A draw brings a new hash unless all have been drawn.
LEMMA DrawSpreads ==
  ASSUME Drawing, Cardinality(avoid) = Min({draws, Cardinality(Hashes)}), NEW k, Draws(k)
  PROVE  /\ draws' \in Nat /\ avoid' \subseteq Hashes
         /\ Cardinality(avoid') = Min({draws', Cardinality(Hashes)})
<1> DEFINE h == files[k].hash
           n == Cardinality(Hashes)
           a == Cardinality(avoid)
<1>1. n \in Nat /\ IsFiniteSet(Hashes) /\ IsFiniteSet(avoid) /\ a \in Nat /\ a <= n
  BY HashesFinite, FS_Subset, FS_CardinalityType DEF Drawing
<1>2. draws \in Nat /\ draws' = draws + 1 /\ avoid' = avoid \cup {h} /\ k \in DOMAIN files
  BY DEF Draws, Pool, Preferred, Drawing
<1>3. h \in Hashes /\ avoid' \subseteq Hashes
  BY <1>2 DEF Hashes, Drawing
<1>4. Min({draws, n}) = (IF draws <= n THEN draws ELSE n)
      /\ Min({draws + 1, n}) = (IF draws + 1 <= n THEN draws + 1 ELSE n)
  BY <1>1, <1>2, LessOfTwo
<1>5. CASE Preferred # {}
  <2>1. h \notin avoid
    BY <1>5 DEF Draws, Pool, Preferred
  <2>2. Cardinality(avoid') = a + 1
    BY <1>1, <1>2, <2>1, FS_AddElement
  <2>3. Cardinality(avoid') <= n
    BY <1>1, <1>3, FS_Subset
  <2> QED
    BY <1>1, <1>2, <1>3, <1>4, <2>2, <2>3
<1>6. CASE Preferred = {}
  <2>1. avoid = Hashes
    BY <1>6 DEF Preferred, Hashes, Drawing
  <2>2. avoid' = Hashes
    BY <1>2, <1>3, <2>1
  <2> QED
    BY <1>1, <1>2, <1>3, <1>4, <2>1, <2>2
<1> QED
  BY <1>5, <1>6

\* Every step keeps what is known of the draws.
LEMMA DrawingNext ==
  ASSUME IndInv, [Next]_vars
  PROVE  IndInv'
<1> USE DEF scanVars, changes, reader, testVars
<1>1. CASE phase = "scan" /\ UNCHANGED <<phase, draws, avoid>> /\ \E n \in Nat : DOMAIN files' = 1 .. n
  BY <1>1 DEF IndInv, Drawing, DrawsSpread
<1>2. CASE UNCHANGED <<files, entry, phase, draws, avoid>>
  BY <1>2 DEF IndInv, Drawing, DrawsSpread, Hashes
<1>3. CASE \E n \in File \cup Dir : Passes(n) \/ Descends(n) \/ Stats(n)
  <2>1. phase = "scan" /\ UNCHANGED <<phase, draws, avoid, files>>
    BY <1>3 DEF Passes, Descends, Stats, Walking
  <2> QED
    BY <1>1, <2>1 DEF IndInv, Drawing
<1>4. CASE Ascends \/ Opens \/ Hashing \/ (\E n \in Lean, c \in Content \cup {Gone} : Edits(n, c))
  <2>1. phase = "scan" /\ UNCHANGED <<phase, draws, avoid, files>>
    BY <1>4 DEF Ascends, Opens, Hashing, ReadEnds, Edits, IndInv, Drawing
  <2> QED
    BY <1>1, <2>1 DEF IndInv, Drawing
<1>5. CASE Collects
  <2>1. phase = "scan" /\ UNCHANGED <<phase, draws, avoid>> /\ \E x : files' = Append(files, x)
    BY <1>5 DEF Collects, ReadEnds, IndInv, Drawing
  <2> QED
    BY <1>1, <2>1 DEF IndInv, Drawing
<1>6. CASE Scanned
  <2>1. /\ phase = "scan" /\ phase' = "sample" /\ entry = NoEntry
        /\ UNCHANGED <<entry, draws, avoid>> /\ DOMAIN files' = DOMAIN files
    BY <1>6 DEF Scanned
  <2>2. draws = 0 /\ avoid = {}
    BY <2>1 DEF IndInv, Drawing
  <2>3. Drawing'
    BY <2>1, <2>2 DEF IndInv, Drawing
  <2> QED
    BY <2>1, <2>2, <2>3, NothingDrawn DEF IndInv
<1>7. CASE SampleRuns \/ Generates
  <2>1. phase # "scan" /\ UNCHANGED <<files, entry, phase>> /\ \E k \in DOMAIN files : Draws(k)
    BY <1>7 DEF SampleRuns, Generates
  <2> QED
    BY <2>1, DrawSpreads DEF IndInv, Drawing, DrawsSpread, Hashes
<1>8. CASE SamplesDone
  <2>1. phase' = "generate" /\ draws' = 0 /\ avoid' = {} /\ UNCHANGED <<files, entry>> /\ phase = "sample"
    BY <1>8 DEF SamplesDone
  <2>2. Drawing'
    BY <2>1 DEF IndInv, Drawing, Hashes
  <2> QED
    BY <2>1, <2>2, NothingDrawn DEF IndInv
<1>9. CASE AddsTest \/ AddsKernel \/ Loses \/ UNCHANGED vars
  <2>1. UNCHANGED <<files, entry, phase, draws, avoid>>
    BY <1>9 DEF AddsTest, AddsKernel, Loses, Tries, vars
  <2> QED
    BY <1>2, <2>1
<1>10. CASE GeneratesDone
  BY <1>10 DEF GeneratesDone, IndInv, Drawing, DrawsSpread, Hashes
<1>11. CASE Reads
  <2>1. UNCHANGED <<files, entry, phase, draws, avoid>>
    BY <1>11 DEF Reads
  <2> QED
    BY <1>2, <2>1
<1> QED
  BY <1>3, <1>4, <1>5, <1>6, <1>7, <1>8, <1>9, <1>10, <1>11 DEF Next, Writes, Replaces

\* A phase draws as many different contents as it can: none is drawn again
\* before all have been drawn, for every tree and however files have changed.
THEOREM SamplesSpread == Spec => []DrawsSpread
<1>1. Init => IndInv
  BY DEF Init, IndInv, Drawing, DrawsSpread
<1>2. IndInv /\ [Next]_vars => IndInv'
  BY DrawingNext
<1>3. IndInv => DrawsSpread
  BY DEF IndInv
<1> QED
  BY <1>1, <1>2, <1>3, PTL DEF Spec
=============================================================================
