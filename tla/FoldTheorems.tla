----------------------------- MODULE FoldTheorems -----------------------------
(***************************************************************************)
(* Induction and recursion, over numbers and over the subsets of a finite  *)
(* set, for what is defined by a fold of the community modules or by a     *)
(* recursive function.                                                     *)
(*                                                                         *)
(* They are stated for sets and functions in place of operators: what is   *)
(* to be shown of all numbers is that they are in a set, and the step of a *)
(* recursion is a function.                                                *)
(*                                                                         *)
(* What a fold of a sequence from the left returns is of the type that its *)
(* first value has and that its step keeps (FoldLeftType).                 *)
(*                                                                         *)
(* Then what SumFunction computes, as far as counting needs it.  It adds   *)
(* the values up in the order in which CHOOSE takes elements from a set.   *)
(* That order depends on the set alone, so the sums of two functions over  *)
(* the subsets of their domain can be compared one by one.                 *)
(***************************************************************************)
EXTENDS Integers, Functions, FiniteSetsExt, FiniteSetTheorems, WellFoundedInduction, TLAPS

-----------------------------------------------------------------------------
(* Induction *)

\* A set with 0 and with the successor of each of its numbers has them all.
THEOREM NatInductive ==
  ASSUME NEW P, 0 \in P, \A n \in Nat : n \in P => n + 1 \in P
  PROVE  \A n \in Nat : n \in P
<1> SUFFICES ASSUME Nat \ P # {} PROVE FALSE
  OBVIOUS
<1>1. PICK m \in Nat \ P : \A d \in Nat \ P : <<d, m>> \notin OpToRel(<, Nat)
  BY NatLessThanWellFounded, WFMin
<1>2. m \in Nat /\ m # 0
  BY <1>1
<1>3. m - 1 \in Nat /\ m - 1 < m /\ (m - 1) + 1 = m
  BY <1>2
<1>4. m - 1 \in P
  BY <1>1, <1>2, <1>3 DEF OpToRel
<1>5. (m - 1) + 1 \in P
  BY <1>3, <1>4
<1> QED
  BY <1>1, <1>3, <1>5

\* What is left of a set without one of its members.
LEMMA RestSmaller ==
  ASSUME NEW S, IsFiniteSet(S), NEW s \in SUBSET S
  PROVE  /\ Cardinality(s) \in Nat
         /\ s = {} <=> Cardinality(s) = 0
         /\ \A x \in s : /\ s \ {x} \in SUBSET S
                        /\ Cardinality(s \ {x}) = Cardinality(s) - 1
<1>1. IsFiniteSet(s)
  BY FS_Subset
<1>2. Cardinality(s) \in Nat /\ (s = {} <=> Cardinality(s) = 0)
  BY <1>1, FS_CardinalityType, FS_EmptySet
<1> QED
  BY <1>1, <1>2, FS_RemoveElement

\* A set with the empty set, and with each subset of S that becomes a member
\* without any one of its elements, has all subsets of S.
THEOREM SubsetInductive ==
  ASSUME NEW S, IsFiniteSet(S), NEW P, {} \in P,
         \A s \in SUBSET S : s # {} /\ (\A x \in s : s \ {x} \in P) => s \in P
  PROVE  \A s \in SUBSET S : s \in P
<1> DEFINE Q == {n \in Nat : \A s \in SUBSET S : Cardinality(s) = n => s \in P}
<1>1. 0 \in Q
  BY RestSmaller
<1>2. ASSUME NEW n \in Nat, n \in Q PROVE n + 1 \in Q
  <2>1. ASSUME NEW s \in SUBSET S, Cardinality(s) = n + 1 PROVE s \in P
    <3>1. s # {} /\ \A x \in s : s \ {x} \in SUBSET S /\ Cardinality(s \ {x}) = n
      BY <2>1, RestSmaller
    <3> QED
      BY <1>2, <3>1
  <2> QED
    BY <2>1
<1>3. \A n \in Nat : n \in Q
  <2> HIDE DEF Q
  <2> QED
    BY <1>1, <1>2, NatInductive
<1> QED
  BY <1>3, RestSmaller

-----------------------------------------------------------------------------
(* Recursion *)

\* pick takes an element from each subset of S.
Picks(pick, S) == \A s \in SUBSET S : s # {} => pick[s] \in s

\* h has a value in V for each subset of S: that of the empty set is b, and
\* one element more, in the order of pick, makes another value by op.
Folds(h, S, pick, V, b, op) ==
  /\ h \in [SUBSET S -> V]
  /\ \A s \in SUBSET S : h[s] = IF s = {} THEN b ELSE op[pick[s]][h[s \ {pick[s]}]]

\* There is such a function.
THEOREM SubsetRecursive ==
  ASSUME NEW S, IsFiniteSet(S), NEW pick, Picks(pick, S),
         NEW V, NEW b \in V, NEW op \in [S -> [V -> V]]
  PROVE  \E h : Folds(h, S, pick, V, b, op)
<1> USE DEF Picks
<1> DEFINE Val(h, s) == IF s = {} THEN b ELSE op[pick[s]][h[s \ {pick[s]}]]
           Upto(h, n) == \A s \in SUBSET S : Cardinality(s) <= n => h[s] = Val(h, s)
           P == {n \in Nat : \E h \in [SUBSET S -> V] : Upto(h, n)}
<1>1. 0 \in P
  <2>1. \A s \in SUBSET S : Cardinality(s) <= 0 => s = {}
    BY RestSmaller
  <2>2. Upto([s \in SUBSET S |-> b], 0)
    BY <2>1
  <2>3. [s \in SUBSET S |-> b] \in [SUBSET S -> V]
    OBVIOUS
  <2> QED
    BY <2>2, <2>3
<1>2. ASSUME NEW n \in Nat, n \in P PROVE n + 1 \in P
  <2>1. PICK h \in [SUBSET S -> V] : Upto(h, n)
    BY <1>2
  <2> DEFINE k == [s \in SUBSET S |-> IF Cardinality(s) <= n THEN h[s] ELSE Val(h, s)]
  <2>2. \A s \in SUBSET S : Val(h, s) \in V
    OBVIOUS
  <2>3. k \in [SUBSET S -> V]
    BY <2>2
  <2>4. ASSUME NEW s \in SUBSET S, Cardinality(s) <= n + 1 PROVE k[s] = Val(k, s)
    <3>1. k[s] = Val(h, s)
      BY <2>1
    <3>2. s # {} => k[s \ {pick[s]}] = h[s \ {pick[s]}]
      <4>1. s # {} => s \ {pick[s]} \in SUBSET S /\ Cardinality(s \ {pick[s]}) <= n
        BY <2>4, RestSmaller
      <4> QED
        BY <4>1
    <3>3. Val(h, s) = Val(k, s)
      <4> HIDE DEF k
      <4> QED
        BY <3>2
    <3> QED
      BY <3>1, <3>3
  <2>5. Upto(k, n + 1)
    BY <2>4
  <2> HIDE DEF k, Upto
  <2> QED
    BY <2>3, <2>5
<1>3. \A n \in Nat : n \in P
  <2> HIDE DEF P
  <2> QED
    BY <1>1, <1>2, NatInductive
<1>4. PICK h \in [SUBSET S -> V] : Upto(h, Cardinality(S))
  BY <1>3, FS_CardinalityType
<1>5. \A s \in SUBSET S : Cardinality(s) <= Cardinality(S)
  BY FS_Subset
<1> QED
  BY <1>4, <1>5 DEF Folds

-----------------------------------------------------------------------------
(* Folds of sequences from the left *)

\* A set of indices has a last one.
LEMMA LastIndex ==
  ASSUME NEW n \in Nat
  PROVE  /\ IsFiniteSet(1 .. n)
         /\ \A s \in SUBSET (1 .. n) : s # {} => Max(s) \in s
<1>1. IsFiniteSet(1 .. n)
  <2>1. 1 \in Int /\ n \in Int
    OBVIOUS
  <2> QED
    BY <2>1, FS_Interval, Zenon
<1> DEFINE P == {s \in SUBSET (1 .. n) : s # {} => \E x \in s : \A y \in s : x >= y}
<1>2. {} \in P
  OBVIOUS
<1>3. ASSUME NEW s \in SUBSET (1 .. n), s # {}, \A x \in s : s \ {x} \in P PROVE s \in P
  <2>1. PICK x \in s : TRUE
    BY <1>3
  <2>2. CASE s \ {x} = {}
    <3>1. \A y \in s : x >= y
      BY <2>2
    <3> QED
      BY <3>1
  <2>3. CASE s \ {x} # {}
    <3>1. PICK z \in s \ {x} : \A y \in s \ {x} : z >= y
      BY <1>3, <2>3
    <3>2. CASE x >= z
      <4>1. ASSUME NEW y \in s PROVE x >= y
        <5>1. x \in 1 .. n /\ y \in 1 .. n /\ z \in 1 .. n
          OBVIOUS
        <5>2. y # x => z >= y
          BY <3>1
        <5> QED
          BY <3>2, <5>1, <5>2
      <4> QED
        BY <4>1
    <3>3. CASE ~(x >= z)
      <4>1. ASSUME NEW y \in s PROVE z >= y
        <5>1. x \in 1 .. n /\ y \in 1 .. n /\ z \in 1 .. n
          OBVIOUS
        <5>2. y # x => z >= y
          BY <3>1
        <5> QED
          BY <3>3, <5>1, <5>2
      <4> QED
        BY <4>1
    <3> QED
      BY <3>2, <3>3
  <2> QED
    BY <2>2, <2>3
<1> HIDE DEF P
<1>4. \A s \in SUBSET (1 .. n) : s \in P
  BY <1>1, <1>2, <1>3, SubsetInductive
<1>5. ASSUME NEW s \in SUBSET (1 .. n), s # {} PROVE Max(s) \in s
  <2>1. \E x \in s : \A y \in s : x >= y
    BY <1>4, <1>5 DEF P
  <2> QED
    BY <2>1 DEF Max
<1> QED
  BY <1>1, <1>5

\* f has the fold of the first elements for each set of indices, as FoldLeft
\* computes it: the value of the empty set is b, and that of a set comes from
\* the value without its last index, by the op of that index.
FoldsLeft(f, n, V, b, op) ==
  /\ f[{}] = b
  /\ \A s \in SUBSET (1 .. n) : s # {} /\ f[s \ {Max(s)}] \in V =>
       f[s] = op[Max(s)][f[s \ {Max(s)}]]

\* There is such a function.
THEOREM FoldLeftExists ==
  ASSUME NEW n \in Nat, NEW V, NEW b \in V, NEW op \in [1 .. n -> [V -> V]]
  PROVE  \E f \in [SUBSET (1 .. n) -> V] : FoldsLeft(f, n, V, b, op)
<1> DEFINE S == 1 .. n
           pick == [s \in SUBSET S |-> Max(s)]
<1>1. IsFiniteSet(S) /\ \A s \in SUBSET S : s # {} => pick[s] \in s /\ pick[s] = Max(s)
  BY LastIndex
<1> HIDE DEF S, pick
<1>2. Picks(pick, S) /\ op \in [S -> [V -> V]]
  BY <1>1 DEF Picks, S
<1>3. PICK h : Folds(h, S, pick, V, b, op)
  BY <1>1, <1>2, SubsetRecursive
<1>4. h \in [SUBSET S -> V] /\ h[{}] = b
  BY <1>3 DEF Folds
<1>5. ASSUME NEW s \in SUBSET S, s # {} PROVE h[s] = op[Max(s)][h[s \ {Max(s)}]]
  BY <1>1, <1>3, <1>5 DEF Folds
<1> QED
  BY <1>4, <1>5 DEF FoldsLeft, S

\* All of them have the same type.
THEOREM FoldLeftType ==
  ASSUME NEW n \in Nat, NEW V, NEW b \in V, NEW op \in [1 .. n -> [V -> V]],
         NEW f, FoldsLeft(f, n, V, b, op)
  PROVE  f[1 .. n] \in V
<1> DEFINE P == {s \in SUBSET (1 .. n) : f[s] \in V}
<1>1. {} \in P
  BY DEF FoldsLeft
<1>2. ASSUME NEW s \in SUBSET (1 .. n), s # {}, \A x \in s : s \ {x} \in P PROVE s \in P
  <2>1. Max(s) \in s
    BY <1>2, LastIndex
  <2>2. f[s \ {Max(s)}] \in V
    BY <1>2, <2>1
  <2>3. f[s] = op[Max(s)][f[s \ {Max(s)}]]
    BY <1>2, <2>2 DEF FoldsLeft
  <2> QED
    BY <2>1, <2>2, <2>3
<1> HIDE DEF P
<1>3. IsFiniteSet(1 .. n)
  BY LastIndex
<1>4. \A s \in SUBSET (1 .. n) : s \in P
  <2> DEFINE S == 1 .. n
  <2>1. /\ IsFiniteSet(S) /\ {} \in P
        /\ \A s \in SUBSET S : s # {} /\ (\A x \in s : s \ {x} \in P) => s \in P
    BY <1>1, <1>2, <1>3
  <2> HIDE DEF S
  <2>2. \A s \in SUBSET S : s \in P
    BY <2>1, SubsetInductive
  <2> QED
    BY <2>2 DEF S
<1> QED
  BY <1>4 DEF P

-----------------------------------------------------------------------------
(* Sums *)

\* The element of s that is added next, and those that are left.
First(s) == CHOOSE x \in s : TRUE
Rest(s)  == s \ {First(s)}

\* h has the sum of g over each subset of S.
Sums(g, S, h) == h = [s \in SUBSET S |-> IF s = {} THEN 0 ELSE g[First(s)] + h[Rest(s)]]

\* There is a function with the sums.
LEMMA SumsExist ==
  ASSUME NEW S, IsFiniteSet(S), NEW g \in [S -> Nat]
  PROVE  \E h : Sums(g, S, h)
<1> DEFINE pick == [s \in SUBSET S |-> First(s)]
           op == [i \in S |-> [v \in Nat |-> g[i] + v]]
<1>1. Picks(pick, S)
  BY DEF First, Picks
<1>2. op \in [S -> [Nat -> Nat]]
  OBVIOUS
<1>3. PICK h : Folds(h, S, pick, Nat, 0, op)
  <2>1. 0 \in Nat
    OBVIOUS
  <2> HIDE DEF pick, op
  <2> QED
    BY <1>1, <1>2, <2>1, SubsetRecursive
<1>4. ASSUME NEW s \in SUBSET S PROVE h[s] = IF s = {} THEN 0 ELSE g[First(s)] + h[Rest(s)]
  BY <1>1, <1>3 DEF Rest, Folds, Picks
<1>5. h = [s \in SUBSET S |-> h[s]]
  BY <1>3 DEF Folds
<1> QED
  BY <1>4, <1>5 DEF Sums

\* The function with the sums that SumFunction uses.
SumsOf(g, S) == CHOOSE h : Sums(g, S, h)

\* Its values, by the recursion.
LEMMA SumsUnfold ==
  ASSUME NEW S, IsFiniteSet(S), NEW g \in [S -> Nat]
  PROVE  /\ SumFunction(g) = SumsOf(g, S)[S]
         /\ \A s \in SUBSET S :
              SumsOf(g, S)[s] = IF s = {} THEN 0 ELSE g[First(s)] + SumsOf(g, S)[Rest(s)]
<1>1. SumFunction(g) = FoldFunctionOnSet(+, 0, g, S)
  BY DEF SumFunction, SumFunctionOnSet
<1>2. SumFunction(g) = MapThenFoldSet(+, 0, LAMBDA i : g[i], LAMBDA s : CHOOSE x \in s : TRUE, S)
  BY <1>1 DEF FoldFunctionOnSet
<1>3. SumFunction(g) = SumsOf(g, S)[S]
  BY <1>2 DEF MapThenFoldSet, SumsOf, Sums, First, Rest
<1>4. Sums(g, S, SumsOf(g, S))
  BY SumsExist DEF SumsOf
<1> QED
  BY <1>3, <1>4 DEF Sums

-----------------------------------------------------------------------------
(* Sums that differ by one *)

\* Sums of numbers are numbers.
LEMMA SumsNat ==
  ASSUME NEW S, IsFiniteSet(S), NEW g \in [S -> Nat]
  PROVE  \A s \in SUBSET S : SumsOf(g, S)[s] \in Nat
<1> DEFINE P == {s \in SUBSET S : SumsOf(g, S)[s] \in Nat}
<1>1. {} \in P
  <2>1. SumsOf(g, S)[{}] = 0
    BY SumsUnfold
  <2> QED
    BY <2>1
<1>2. ASSUME NEW s \in SUBSET S, s # {}, \A x \in s : s \ {x} \in P PROVE s \in P
  <2>1. First(s) \in s /\ Rest(s) \in P
    BY <1>2 DEF First, Rest
  <2>2. SumsOf(g, S)[s] = g[First(s)] + SumsOf(g, S)[Rest(s)]
    BY <1>2, SumsUnfold
  <2> QED
    BY <2>1, <2>2
<1>3. \A s \in SUBSET S : s \in P
  <2> HIDE DEF P
  <2> QED
    BY <1>1, <1>2, SubsetInductive
<1> QED
  BY <1>3

\* The sum is a number.
THEOREM SumFunctionNat ==
  ASSUME NEW S, IsFiniteSet(S), NEW g \in [S -> Nat]
  PROVE  SumFunction(g) \in Nat
BY SumsUnfold, SumsNat

\* The sum of zeros is zero.
THEOREM SumFunctionZero ==
  ASSUME NEW S, IsFiniteSet(S), NEW g, g = [i \in S |-> 0]
  PROVE  SumFunction(g) = 0
<1> DEFINE P == {s \in SUBSET S : SumsOf(g, S)[s] = 0}
<1>1. g \in [S -> Nat]
  OBVIOUS
<1>2. {} \in P
  BY <1>1, SumsUnfold
<1>3. ASSUME NEW s \in SUBSET S, s # {}, \A x \in s : s \ {x} \in P PROVE s \in P
  <2>1. First(s) \in s /\ Rest(s) \in P
    BY <1>3 DEF First, Rest
  <2>2. SumsOf(g, S)[s] = g[First(s)] + SumsOf(g, S)[Rest(s)]
    BY <1>1, <1>3, SumsUnfold
  <2> QED
    BY <2>1, <2>2
<1>4. \A s \in SUBSET S : s \in P
  <2> HIDE DEF P
  <2> QED
    BY <1>2, <1>3, SubsetInductive
<1> QED
  BY <1>1, <1>4, SumsUnfold

\* If one of the values goes up by one, so does the sum.
THEOREM SumFunctionIncrement ==
  ASSUME NEW S, IsFiniteSet(S), NEW g \in [S -> Nat], NEW i \in S,
         NEW k, k = [g EXCEPT ![i] = @ + 1]
  PROVE  SumFunction(k) = SumFunction(g) + 1
<1> DEFINE More(s) == IF i \in s THEN SumsOf(g, S)[s] + 1 ELSE SumsOf(g, S)[s]
           P == {s \in SUBSET S : SumsOf(k, S)[s] = More(s)}
<1>1. k \in [S -> Nat]
  OBVIOUS
<1>2. \A s \in SUBSET S :
        SumsOf(k, S)[s] = IF s = {} THEN 0 ELSE k[First(s)] + SumsOf(k, S)[Rest(s)]
  BY <1>1, SumsUnfold, Zenon
<1>3. \A s \in SUBSET S :
        SumsOf(g, S)[s] = IF s = {} THEN 0 ELSE g[First(s)] + SumsOf(g, S)[Rest(s)]
  BY SumsUnfold, Zenon
<1>4. {} \in P
  <2>1. SumsOf(k, S)[{}] = 0 /\ SumsOf(g, S)[{}] = 0
    BY <1>2, <1>3
  <2> QED
    BY <2>1
<1>5. ASSUME NEW s \in SUBSET S, s # {}, \A x \in s : s \ {x} \in P PROVE s \in P
  <2>1. First(s) \in s /\ Rest(s) = s \ {First(s)}
    BY <1>5 DEF First, Rest
  <2>2. SumsOf(k, S)[Rest(s)] = More(Rest(s))
    BY <1>5, <2>1
  <2>3. SumsOf(k, S)[s] = k[First(s)] + SumsOf(k, S)[Rest(s)]
    BY <1>2, <1>5
  <2>4. SumsOf(g, S)[s] = g[First(s)] + SumsOf(g, S)[Rest(s)]
    BY <1>3, <1>5
  <2>5. SumsOf(g, S)[Rest(s)] \in Nat /\ g[First(s)] \in Nat
    BY <2>1, SumsNat
  <2>6. CASE i = First(s)
    <3>1. i \in s /\ i \notin Rest(s) /\ k[First(s)] = g[First(s)] + 1
      BY <2>1, <2>6
    <3> QED
      BY <2>2, <2>3, <2>4, <2>5, <3>1
  <2>7. CASE i # First(s)
    <3>1. k[First(s)] = g[First(s)] /\ (i \in s <=> i \in Rest(s))
      BY <2>1, <2>7
    <3> QED
      BY <2>2, <2>3, <2>4, <2>5, <3>1
  <2> QED
    BY <2>6, <2>7
<1>6. \A s \in SUBSET S : s \in P
  <2> HIDE DEF P
  <2> QED
    BY <1>4, <1>5, SubsetInductive
<1>7. SumsOf(k, S)[S] = SumsOf(g, S)[S] + 1
  BY <1>6
<1>8. SumFunction(k) = SumsOf(k, S)[S]
  BY <1>1, SumsUnfold, Zenon
<1>9. SumFunction(g) = SumsOf(g, S)[S]
  BY SumsUnfold, Zenon
<1> QED
  BY <1>7, <1>8, <1>9
=============================================================================
