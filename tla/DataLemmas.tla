----------------------------- MODULE DataLemmas -----------------------------
(***************************************************************************)
(* Facts about data, stated for any sequence and any function, that the    *)
(* proofs about the modules rest on: what taking an element out of a       *)
(* sequence does to the others, as with the queue of Redis commands; and   *)
(* what a change of a function does to the sum of its values, as with the  *)
(* messages let through by age, the events verified by peer, and the       *)
(* requests served by connection.                                          *)
(*                                                                         *)
(* SumFunction of the community module is defined by recursion.  What it   *)
(* is for every finite set is proved with a minimal counterexample: the    *)
(* strict subset ordering of a finite set is well founded.                 *)
(***************************************************************************)
EXTENDS SequencesExt, SequenceTheorems, FiniteSetTheorems, WellFoundedInduction, TLAPS

-----------------------------------------------------------------------------
(* Sequences.                                                              *)

(* Sequences without repetitions.                                          *)
Distinct(s) == \A i, j \in 1..Len(s) : s[i] = s[j] => i = j

(* RemoveAt of the community module, given by its elements.                *)
LEMMA RemoveAtElements ==
  ASSUME NEW S, NEW s \in Seq(S), NEW i \in 1..Len(s)
  PROVE  /\ RemoveAt(s, i) \in Seq(S)
         /\ Len(RemoveAt(s, i)) = Len(s) - 1
         /\ \A j \in 1..(Len(s) - 1) :
              RemoveAt(s, i)[j] = IF j < i THEN s[j] ELSE s[j + 1]
<1> DEFINE front == SubSeq(s, 1, i - 1)
           back  == SubSeq(s, i + 1, Len(s))
<1>1. front \in Seq(S) /\ Len(front) = i - 1 /\ \A j \in 1..(i - 1) : front[j] = s[j]
  OBVIOUS
<1>2. /\ back \in Seq(S) /\ Len(back) = Len(s) - i
      /\ \A j \in 1..(Len(s) - i) : back[j] = s[j + i]
  OBVIOUS
<1>3. RemoveAt(s, i) = front \o back
  BY DEF RemoveAt
<1>4. Len(s) \in Nat /\ i \in Nat /\ 1 <= i /\ i <= Len(s)
  OBVIOUS
<1> HIDE DEF front, back
<1>5. Len(front \o back) = Len(s) - 1 /\ front \o back \in Seq(S)
  <2>1. front \o back \in Seq(S) /\ Len(front \o back) = Len(front) + Len(back)
    BY <1>1, <1>2, ConcatProperties
  <2>2. (i - 1) + (Len(s) - i) = Len(s) - 1
    BY <1>4
  <2> QED
    BY <1>1, <1>2, <2>1, <2>2
<1>6. ASSUME NEW j \in 1..(Len(s) - 1)
      PROVE  (front \o back)[j] = IF j < i THEN s[j] ELSE s[j + 1]
  <2>1. CASE j < i
    BY <1>1, <1>2, <1>4, <2>1
  <2>2. CASE ~ (j < i)
    <3>1. j - (i - 1) \in 1..(Len(s) - i) /\ (j - (i - 1)) + i = j + 1
      BY <1>4, <2>2
    <3>2. (front \o back)[j] = back[j - (i - 1)]
      BY <1>1, <1>2, <1>4, <2>2
    <3> QED
      BY <1>2, <2>2, <3>1, <3>2
  <2> QED
    BY <2>1, <2>2
<1> QED
  BY <1>3, <1>5, <1>6

(* Without its i-th element, a sequence without repetitions has none.      *)
LEMMA TakenOut ==
  ASSUME NEW S, NEW s \in Seq(S), Distinct(s), NEW i \in 1..Len(s)
  PROVE  /\ Distinct(RemoveAt(s, i))
         /\ \A j \in 1..(Len(s) - 1) : RemoveAt(s, i)[j] # s[i]
<1>1. Len(s) \in Nat
  OBVIOUS
<1>2. /\ Len(RemoveAt(s, i)) = Len(s) - 1
      /\ \A j \in 1..(Len(s) - 1) :
           RemoveAt(s, i)[j] = IF j < i THEN s[j] ELSE s[j + 1]
  BY RemoveAtElements
<1> DEFINE from(j) == IF j < i THEN j ELSE j + 1
<1>3. ASSUME NEW j \in 1..(Len(s) - 1)
      PROVE  from(j) \in 1..Len(s) /\ from(j) # i /\ RemoveAt(s, i)[j] = s[from(j)]
  BY <1>1, <1>2
<1>4. ASSUME NEW j \in 1..(Len(s) - 1), NEW k \in 1..(Len(s) - 1), from(j) = from(k)
      PROVE  j = k
  BY <1>1, <1>4
<1>5. \A j \in 1..(Len(s) - 1) : RemoveAt(s, i)[j] # s[i]
  BY <1>3 DEF Distinct
<1> HIDE DEF from
<1>6. Distinct(RemoveAt(s, i))
  BY <1>2, <1>3, <1>4 DEF Distinct
<1> QED
  BY <1>5, <1>6

(* Nor with that element put at the end.                                   *)
LEMMA MovedLast ==
  ASSUME NEW S, NEW s \in Seq(S), Distinct(s), NEW i \in 1..Len(s)
  PROVE  /\ Append(RemoveAt(s, i), s[i]) \in Seq(S)
         /\ Distinct(Append(RemoveAt(s, i), s[i]))
         /\ Len(Append(RemoveAt(s, i), s[i])) = Len(s)
         /\ Append(RemoveAt(s, i), s[i])[Len(s)] = s[i]
         /\ \A j \in 1..(Len(s) - 1) : Append(RemoveAt(s, i), s[i])[j] =
                                         IF j < i THEN s[j] ELSE s[j + 1]
<1> DEFINE cut   == RemoveAt(s, i)
           moved == Append(cut, s[i])
<1>1. Len(s) \in Nat /\ i \in 1..Len(s) /\ s[i] \in S
  OBVIOUS
<1>2. /\ cut \in Seq(S) /\ Len(cut) = Len(s) - 1
      /\ \A j \in 1..(Len(s) - 1) : cut[j] = IF j < i THEN s[j] ELSE s[j + 1]
  BY RemoveAtElements
<1>3. Distinct(cut) /\ \A j \in 1..(Len(s) - 1) : cut[j] # s[i]
  BY TakenOut
<1> HIDE DEF cut
<1>4. /\ moved \in Seq(S) /\ Len(moved) = Len(s) /\ moved[Len(s)] = s[i]
      /\ \A j \in 1..(Len(s) - 1) : moved[j] = cut[j]
  BY <1>1, <1>2
<1> HIDE DEF moved
<1>5. Distinct(moved)
  <2> SUFFICES ASSUME NEW j \in 1..Len(s), NEW k \in 1..Len(s), moved[j] = moved[k]
               PROVE  j = k
    BY <1>4 DEF Distinct
  <2>1. CASE j = Len(s) \/ k = Len(s)
    BY <1>1, <1>3, <1>4, <2>1
  <2>2. CASE j \in 1..(Len(s) - 1) /\ k \in 1..(Len(s) - 1)
    BY <1>2, <1>3, <1>4, <2>2 DEF Distinct
  <2> QED
    BY <1>1, <2>1, <2>2
<1> QED
  BY <1>2, <1>4, <1>5 DEF cut, moved

-----------------------------------------------------------------------------
(* Sums.                                                                   *)

Some(s) == CHOOSE x \in s : TRUE

(* The sums over the subsets of S, as the community module adds them up.   *)
Sums(f, S) == CHOOSE it : it = [s \in SUBSET S |->
                IF s = {} THEN 0 ELSE f[Some(s)] + it[s \ {Some(s)}]]

LEMMA SumIsLast == ASSUME NEW f, NEW S PROVE SumFunctionOnSet(f, S) = Sums(f, S)[S]
  BY DEF SumFunctionOnSet, FoldFunctionOnSet, MapThenFoldSet, Sums, Some

LEMMA SubsetInduction ==
  ASSUME NEW S, IsFiniteSet(S), NEW G, {} \in G,
         \A s \in SUBSET S : s # {} /\ s \ {Some(s)} \in G => s \in G
  PROVE  SUBSET S \subseteq G
<1> DEFINE Bad == {s \in SUBSET S : s \notin G}
<1>1. IsWellFoundedOn(StrictSubsetOrdering(S), SUBSET S)
  BY FS_StrictSubsetOrderingWellFounded, FS_FiniteSubsetsOfFinite
<1>2. SUFFICES ASSUME Bad # {} PROVE FALSE
  OBVIOUS
<1>3. PICK s \in Bad : \A t \in Bad : <<t, s>> \notin StrictSubsetOrdering(S)
  <2> Bad \subseteq SUBSET S
    OBVIOUS
  <2> HIDE DEF Bad
  <2> QED BY <1>1, <1>2, WFMin
<1>4. s # {} /\ Some(s) \in s
  BY DEF Some
<1>5. <<s \ {Some(s)}, s>> \in StrictSubsetOrdering(S)
  BY <1>4 DEF StrictSubsetOrdering
<1>6. s \ {Some(s)} \notin Bad
  BY <1>3, <1>5
<1> QED BY <1>4, <1>6

LEMMA NatSetInduction ==
  ASSUME NEW G, 0 \in G, \A n \in Nat : n \in G => n + 1 \in G
  PROVE  Nat \subseteq G
<1> DEFINE Bad == {n \in Nat : n \notin G}
<1> SUFFICES ASSUME Bad # {} PROVE FALSE
  OBVIOUS
<1>1. PICK n \in Bad : \A m \in Bad : <<m, n>> \notin OpToRel(<, Nat)
  <2>1. Bad \subseteq Nat
    OBVIOUS
  <2> HIDE DEF Bad
  <2> QED
    BY <2>1, NatLessThanWellFounded, WFMin
<1>2. n \in Nat /\ n # 0 /\ n - 1 \in Nat /\ n - 1 < n
  OBVIOUS
<1>3. <<n - 1, n>> \in OpToRel(<, Nat)
  BY <1>2 DEF OpToRel
<1>4. n - 1 \in G
  BY <1>1, <1>2, <1>3
<1> QED
  BY <1>2, <1>4

(* What the sum over s is, given those over smaller sets.                  *)
SumStep(f, it, s) == IF s = {} THEN 0 ELSE f[Some(s)] + it[s \ {Some(s)}]

LEMMA SumsExist ==
  ASSUME NEW f, NEW S, IsFiniteSet(S)
  PROVE  \A s \in SUBSET S : Sums(f, S)[s] = SumStep(f, Sums(f, S), s)
<1> DEFINE Level(n) == {s \in SUBSET S : Cardinality(s) <= n}
           Upto(n) == \E it : it = [s \in Level(n) |-> SumStep(f, it, s)]
           Good == {n \in Nat : Upto(n)}
<1>1. \A s \in SUBSET S : IsFiniteSet(s) /\ Cardinality(s) \in Nat /\ (Cardinality(s) = 0 <=> s = {})
  BY FS_Subset, FS_CardinalityType, FS_EmptySet
<1>2. ASSUME NEW s \in SUBSET S, s # {}
      PROVE  s \ {Some(s)} \in SUBSET S /\ Cardinality(s \ {Some(s)}) = Cardinality(s) - 1
  <2>1. Some(s) \in s
    BY <1>2 DEF Some
  <2> QED
    BY <1>1, <2>1, FS_RemoveElement
<1>3. 0 \in Good
  <2> DEFINE it == [s \in Level(0) |-> 0]
  <2>1. \A s \in Level(0) : s = {}
    BY <1>1
  <2>2. it = [s \in Level(0) |-> SumStep(f, it, s)]
    BY <2>1 DEF SumStep
  <2> HIDE DEF it, Level
  <2> QED
    BY <2>2
<1>4. ASSUME NEW n \in Nat, n \in Good PROVE n + 1 \in Good
  <2>1. PICK it : it = [s \in Level(n) |-> SumStep(f, it, s)]
    BY <1>4
  <2> DEFINE next == [s \in Level(n + 1) |-> SumStep(f, it, s)]
  <2>2. \A s \in Level(n) : s \in Level(n + 1) /\ next[s] = it[s]
    BY <1>1, <2>1
  <2>3. \A s \in Level(n + 1) : s # {} => s \ {Some(s)} \in Level(n)
    BY <1>1, <1>2
  <2>4. \A s \in Level(n + 1) : SumStep(f, next, s) = SumStep(f, it, s)
    <3> HIDE DEF next, Level
    <3> QED
      BY <2>2, <2>3 DEF SumStep
  <2>5. next = [s \in Level(n + 1) |-> SumStep(f, next, s)]
    <3>1. next = [s \in Level(n + 1) |-> SumStep(f, it, s)]
      OBVIOUS
    <3> HIDE DEF next, Level
    <3> QED
      BY <2>4, <3>1
  <2> HIDE DEF next, Level
  <2> QED
    BY <2>5
<1>5. Cardinality(S) \in Good
  <2> HIDE DEF Good
  <2> QED
    BY <1>1, <1>3, <1>4, NatSetInduction
<1>6. Level(Cardinality(S)) = SUBSET S
  BY <1>1, FS_Subset
<1>7. \E it : it = [s \in SUBSET S |-> SumStep(f, it, s)]
  BY <1>5, <1>6
<1>8. Sums(f, S) = [s \in SUBSET S |-> SumStep(f, Sums(f, S), s)]
  BY <1>7 DEF Sums, SumStep
<1> DEFINE it == Sums(f, S)
<1>9. it = [s \in SUBSET S |-> SumStep(f, it, s)]
  BY <1>8
<1> HIDE DEF it
<1>10. \A s \in SUBSET S : it[s] = SumStep(f, it, s)
  BY <1>9
<1> QED
  BY <1>10 DEF it

(* The sum over a set, from that over the set without one element.         *)
AddsUp(it, f, S) ==
  /\ it[{}] = 0
  /\ \A s \in SUBSET S : s # {} =>
       Some(s) \in s /\ it[s] = f[Some(s)] + it[s \ {Some(s)}]

LEMMA SumsAddUp == ASSUME NEW f, NEW S, IsFiniteSet(S) PROVE AddsUp(Sums(f, S), f, S)
<1> DEFINE it == Sums(f, S)
<1>1. \A s \in SUBSET S : it[s] = SumStep(f, it, s)
  BY SumsExist
<1> HIDE DEF it
<1>2. it[{}] = 0
  BY <1>1 DEF SumStep
<1>3. \A s \in SUBSET S : s # {} => it[s] = f[Some(s)] + it[s \ {Some(s)}]
  BY <1>1 DEF SumStep
<1>4. \A s : s # {} => Some(s) \in s
  BY DEF Some
<1>5. AddsUp(it, f, S)
  BY <1>2, <1>3, <1>4 DEF AddsUp
<1> QED
  BY <1>5 DEF it

(* Sums of natural numbers are.                                            *)
LEMMA SumIsNat ==
  ASSUME NEW S, IsFiniteSet(S), NEW f \in [S -> Nat]
  PROVE  SumFunction(f) \in Nat
<1> DEFINE it == Sums(f, S)
           G == {s \in SUBSET S : it[s] \in Nat}
<1>1. AddsUp(it, f, S)
  BY SumsAddUp
<1> HIDE DEF it
<1>2. {} \in G
  BY <1>1 DEF AddsUp
<1>3. ASSUME NEW s \in SUBSET S, s # {}, s \ {Some(s)} \in G PROVE s \in G
  <2>1. Some(s) \in s /\ it[s] = f[Some(s)] + it[s \ {Some(s)}]
    BY <1>1, <1>3 DEF AddsUp
  <2> QED
    BY <1>3, <2>1
<1>4. S \in G
  <2> HIDE DEF G
  <2> QED
    BY <1>2, <1>3, SubsetInduction
<1>5. SumFunction(f) = it[S]
  BY SumIsLast DEF SumFunction, it
<1> QED
  BY <1>4, <1>5

(* Functions on a finite set, equal but for their values at x.             *)
DiffersAt(x, g, f, S) ==
  /\ IsFiniteSet(S) /\ f \in [S -> Nat] /\ g \in [S -> Nat]
  /\ x \in S /\ \A y \in S \ {x} : g[y] = f[y]

(* Changing one summand changes the sum as much.                           *)
LEMMA SumOfChanged ==
  ASSUME NEW S, NEW f, NEW g, NEW x, DiffersAt(x, g, f, S)
  PROVE  SumFunction(g) = SumFunction(f) + g[x] - f[x]
<1> IsFiniteSet(S) /\ f \in [S -> Nat] /\ g \in [S -> Nat] /\ x \in S
  BY DEF DiffersAt
<1> DEFINE it == Sums(f, S)
           jt == Sums(g, S)
           G == {s \in SUBSET S : it[s] \in Int /\ jt[s] = IF x \in s THEN it[s] + g[x] - f[x] ELSE it[s]}
<1>1. AddsUp(it, f, S)
  BY SumsAddUp
<1>2. AddsUp(jt, g, S)
  BY SumsAddUp
<1> HIDE DEF it, jt
<1>3. {} \in G
  BY <1>1, <1>2 DEF AddsUp
<1>4. ASSUME NEW s \in SUBSET S, s # {}, s \ {Some(s)} \in G PROVE s \in G
  <2> DEFINE y == Some(s)
  <2>1. y \in s /\ it[s] = f[y] + it[s \ {y}] /\ jt[s] = g[y] + jt[s \ {y}]
    BY <1>1, <1>2, <1>4 DEF AddsUp
  <2>2. /\ it[s \ {y}] \in Int
        /\ jt[s \ {y}] = IF x \in s \ {y} THEN it[s \ {y}] + g[x] - f[x] ELSE it[s \ {y}]
        /\ f[x] \in Nat /\ g[x] \in Nat /\ f[y] \in Nat /\ g[y] \in Nat /\ (y # x => f[y] = g[y])
    BY <1>4, <2>1 DEF DiffersAt
  <2> HIDE DEF y
  <2>3. CASE y = x
    BY <1>4, <2>1, <2>2, <2>3
  <2>4. CASE y # x
    BY <1>4, <2>1, <2>2, <2>4
  <2> QED
    BY <2>3, <2>4
<1>5. S \in G
  <2> HIDE DEF G
  <2> QED
    BY <1>3, <1>4, SubsetInduction
<1>6. SumFunction(f) = it[S] /\ SumFunction(g) = jt[S]
  BY SumIsLast DEF SumFunction, it, jt
<1> QED
  BY <1>5, <1>6

(* A sum is no larger than one with larger summands.                       *)
LEMMA SumIsMonotonic ==
  ASSUME NEW S, IsFiniteSet(S), NEW f \in [S -> Nat], NEW g \in [S -> Nat],
         \A x \in S : f[x] <= g[x]
  PROVE  SumFunction(f) <= SumFunction(g)
<1> DEFINE it == Sums(f, S)
           jt == Sums(g, S)
           G == {s \in SUBSET S : it[s] \in Int /\ jt[s] \in Int /\ it[s] <= jt[s]}
<1>1. AddsUp(it, f, S)
  BY SumsAddUp
<1>2. AddsUp(jt, g, S)
  BY SumsAddUp
<1> HIDE DEF it, jt
<1>3. {} \in G
  BY <1>1, <1>2 DEF AddsUp
<1>4. ASSUME NEW s \in SUBSET S, s # {}, s \ {Some(s)} \in G PROVE s \in G
  <2> DEFINE y == Some(s)
  <2>1. y \in s /\ it[s] = f[y] + it[s \ {y}] /\ jt[s] = g[y] + jt[s \ {y}]
    BY <1>1, <1>2, <1>4 DEF AddsUp
  <2>2. f[y] \in Nat /\ g[y] \in Nat /\ f[y] <= g[y]
    BY <2>1
  <2> QED
    BY <1>4, <2>1, <2>2
<1>5. S \in G
  <2> HIDE DEF G
  <2> QED
    BY <1>3, <1>4, SubsetInduction
<1>6. SumFunction(f) = it[S] /\ SumFunction(g) = jt[S]
  BY SumIsLast DEF SumFunction, it, jt
<1> QED
  BY <1>5, <1>6

(* The sum of zeros.                                                       *)
LEMMA SumOfZeros ==
  ASSUME NEW S, IsFiniteSet(S), NEW f \in [S -> {0}]
  PROVE  SumFunction(f) = 0
<1> DEFINE it == Sums(f, S)
           G == {s \in SUBSET S : it[s] = 0}
<1>1. AddsUp(it, f, S)
  BY SumsAddUp
<1> HIDE DEF it
<1>2. {} \in G
  BY <1>1 DEF AddsUp
<1>3. ASSUME NEW s \in SUBSET S, s # {}, s \ {Some(s)} \in G PROVE s \in G
  <2>1. Some(s) \in s /\ it[s] = f[Some(s)] + it[s \ {Some(s)}]
    BY <1>1, <1>3 DEF AddsUp
  <2> QED
    BY <1>3, <2>1
<1>4. S \in G
  <2> HIDE DEF G
  <2> QED
    BY <1>2, <1>3, SubsetInduction
<1>5. SumFunction(f) = it[S]
  BY SumIsLast DEF SumFunction, it
<1> QED
  BY <1>4, <1>5

(* The sum of sums.                                                        *)
LEMMA SumOfSums ==
  ASSUME NEW S, IsFiniteSet(S), NEW f \in [S -> Nat], NEW g \in [S -> Nat],
         NEW h \in [S -> Nat], \A x \in S : h[x] = f[x] + g[x]
  PROVE  SumFunction(h) = SumFunction(f) + SumFunction(g)
<1> DEFINE it == Sums(f, S)
           jt == Sums(g, S)
           kt == Sums(h, S)
           G == {s \in SUBSET S : it[s] \in Int /\ jt[s] \in Int /\ kt[s] = it[s] + jt[s]}
<1>1. AddsUp(it, f, S) /\ AddsUp(jt, g, S) /\ AddsUp(kt, h, S)
  BY SumsAddUp
<1> HIDE DEF it, jt, kt
<1>2. {} \in G
  BY <1>1 DEF AddsUp
<1>3. ASSUME NEW s \in SUBSET S, s # {}, s \ {Some(s)} \in G PROVE s \in G
  <2> DEFINE y == Some(s)
  <2>1. /\ y \in s /\ it[s] = f[y] + it[s \ {y}] /\ jt[s] = g[y] + jt[s \ {y}]
        /\ kt[s] = h[y] + kt[s \ {y}]
    BY <1>1, <1>3 DEF AddsUp
  <2>2. f[y] \in Nat /\ g[y] \in Nat /\ h[y] = f[y] + g[y]
    BY <2>1
  <2> QED
    BY <1>3, <2>1, <2>2
<1>4. S \in G
  <2> HIDE DEF G
  <2> QED
    BY <1>2, <1>3, SubsetInduction
<1>5. SumFunction(f) = it[S] /\ SumFunction(g) = jt[S] /\ SumFunction(h) = kt[S]
  BY SumIsLast DEF SumFunction, it, jt, kt
<1> QED
  BY <1>4, <1>5

(* The values of f in s, and zero elsewhere.                               *)
Masked(f, s) == [x \in DOMAIN f |-> IF x \in s THEN f[x] ELSE 0]

(* The values of f on 0..w moved one place on, with a zero in the first.   *)
IsShift(g, f, w) ==
  /\ w \in Nat /\ f \in [0..w -> Nat] /\ g \in [0..w -> Nat]
  /\ g[0] = 0 /\ \A a \in 1..w : g[a] = f[a - 1]

(* The places of s in 0..w moved one place on, whatever becomes of 0.      *)
IsShiftOfSet(t, s, w) == \A a \in 1..w : a \in t <=> a - 1 \in s

(* Moving every summand one place on loses the last one.                   *)
LEMMA SumOfShifted ==
  ASSUME NEW w, NEW f, NEW g, IsShift(g, f, w)
  PROVE  SumFunction(g) + f[w] = SumFunction(f)
<1> w \in Nat /\ f \in [0..w -> Nat] /\ g \in [0..w -> Nat]
  BY DEF IsShift
<1> DEFINE UpTo(h, n) == Masked(h, 0..n)
           G == {n \in Nat : n <= w =>
                   SumFunction(UpTo(g, n)) + f[n] = SumFunction(UpTo(f, n))}
<1>1. IsFiniteSet(0..w)
  <2>1. 0 \in Int /\ w \in Int
    OBVIOUS
  <2> QED
    BY <2>1, FS_Interval
<1>2. \A n \in Nat : UpTo(f, n) \in [0..w -> Nat] /\ UpTo(g, n) \in [0..w -> Nat]
  BY <1>1 DEF Masked
<1>3. ASSUME NEW h \in [0..w -> Nat], NEW n \in 1..w
      PROVE  SumFunction(UpTo(h, n)) = SumFunction(UpTo(h, n - 1)) + h[n]
  <2>1. UpTo(h, n) \in [0..w -> Nat] /\ UpTo(h, n - 1) \in [0..w -> Nat]
    BY DEF Masked
  <2>2. UpTo(h, n)[n] = h[n] /\ UpTo(h, n - 1)[n] = 0 /\ n \in 0..w
    BY DEF Masked
  <2>3. \A y \in (0..w) \ {n} : UpTo(h, n)[y] = UpTo(h, n - 1)[y]
    BY DEF Masked
  <2> HIDE DEF UpTo
  <2>4. SumFunction(UpTo(h, n)) = SumFunction(UpTo(h, n - 1)) + UpTo(h, n)[n] - UpTo(h, n - 1)[n]
    <3> DEFINE p == UpTo(h, n)
               q == UpTo(h, n - 1)
               S == 0..w
    <3>1. DiffersAt(n, p, q, S)
      BY <1>1, <2>1, <2>2, <2>3 DEF DiffersAt
    <3> HIDE DEF p, q, S
    <3>2. SumFunction(p) = SumFunction(q) + p[n] - q[n]
      BY <3>1, SumOfChanged
    <3> QED
      BY <3>2 DEF p, q
  <2>5. SumFunction(UpTo(h, n - 1)) \in Nat
    BY <1>1, <2>1, SumIsNat
  <2> QED
    BY <2>2, <2>4, <2>5
<1>4. ASSUME NEW h \in [0..w -> Nat] PROVE SumFunction(UpTo(h, 0)) = h[0]
  <2> DEFINE zero == [a \in 0..w |-> 0]
  <2>1. UpTo(h, 0) \in [0..w -> Nat] /\ zero \in [0..w -> Nat] /\ 0 \in 0..w
    BY DEF Masked
  <2>2. UpTo(h, 0)[0] = h[0] /\ zero[0] = 0 /\ \A y \in (0..w) \ {0} : UpTo(h, 0)[y] = zero[y]
    BY DEF Masked
  <2>3. SumFunction(zero) = 0
    <3>1. zero \in [0..w -> {0}]
      OBVIOUS
    <3> HIDE DEF zero
    <3> QED
      BY <1>1, <3>1, SumOfZeros
  <2> HIDE DEF zero, UpTo
  <2>4. SumFunction(UpTo(h, 0)) = SumFunction(zero) + UpTo(h, 0)[0] - zero[0]
    <3> DEFINE p == UpTo(h, 0)
               S == 0..w
               x == 0
    <3>1. DiffersAt(x, p, zero, S)
      BY <1>1, <2>1, <2>2 DEF DiffersAt
    <3> HIDE DEF p, S, x
    <3>2. SumFunction(p) = SumFunction(zero) + p[x] - zero[x]
      BY <3>1, SumOfChanged
    <3> QED
      BY <3>2 DEF p, x
  <2>5. h[0] \in Nat
    OBVIOUS
  <2> QED
    BY <2>2, <2>3, <2>4, <2>5
<1>5. ASSUME NEW h \in [0..w -> Nat] PROVE UpTo(h, w) = h
  BY DEF Masked
<1>6. 0 \in G
  <2>1. SumFunction(UpTo(g, 0)) = 0 /\ SumFunction(UpTo(f, 0)) = f[0]
    BY <1>1, <1>4 DEF IsShift
  <2> HIDE DEF UpTo
  <2> QED
    BY <2>1
<1>7. ASSUME NEW n \in Nat, n \in G PROVE n + 1 \in G
  <2> SUFFICES ASSUME n + 1 <= w
               PROVE  SumFunction(UpTo(g, n + 1)) + f[n + 1] = SumFunction(UpTo(f, n + 1))
    OBVIOUS
  <2>1. n + 1 \in 1..w /\ (n + 1) - 1 = n
    OBVIOUS
  <2>2. /\ SumFunction(UpTo(g, n + 1)) = SumFunction(UpTo(g, n)) + g[n + 1]
        /\ SumFunction(UpTo(f, n + 1)) = SumFunction(UpTo(f, n)) + f[n + 1]
    <3> HIDE DEF UpTo
    <3> QED
      BY <1>1, <1>3, <2>1
  <2>3. g[n + 1] = f[n] /\ f[n] \in Nat /\ f[n + 1] \in Nat
    BY <2>1 DEF IsShift
  <2>4. SumFunction(UpTo(g, n)) + f[n] = SumFunction(UpTo(f, n))
    BY <1>7
  <2>5. SumFunction(UpTo(g, n)) \in Nat /\ SumFunction(UpTo(f, n)) \in Nat
    BY <1>1, <1>2, SumIsNat
  <2> HIDE DEF UpTo
  <2> QED
    BY <2>2, <2>3, <2>4, <2>5
<1>8. w \in G
  <2> HIDE DEF G
  <2> QED
    BY <1>6, <1>7, NatSetInduction
<1>9. SumFunction(UpTo(g, w)) + f[w] = SumFunction(UpTo(f, w))
  BY <1>8
<1>10. UpTo(g, w) = g /\ UpTo(f, w) = f
  BY <1>1, <1>5
<1> HIDE DEF UpTo
<1> QED
  BY <1>9, <1>10

(* The values in a part of the domain, and zero outside it.                *)
LEMMA MaskedType ==
  ASSUME NEW S, NEW f \in [S -> Nat], NEW s
  PROVE  /\ Masked(f, s) \in [S -> Nat]
         /\ \A x \in S : Masked(f, s)[x] = IF x \in s THEN f[x] ELSE 0
BY DEF Masked

(* A sum is the sum of its parts.                                          *)
LEMMA SumOfParts ==
  ASSUME NEW S, IsFiniteSet(S), NEW f \in [S -> Nat], NEW s
  PROVE  /\ SumFunction(f) = SumFunction(Masked(f, s)) + SumFunction(Masked(f, S \ s))
         /\ SumFunction(Masked(f, s)) \in Nat
         /\ SumFunction(Masked(f, S \ s)) \in Nat
<1> DEFINE g == Masked(f, s)
           h == Masked(f, S \ s)
<1>1. /\ g \in [S -> Nat] /\ \A x \in S : g[x] = IF x \in s THEN f[x] ELSE 0
      /\ h \in [S -> Nat] /\ \A x \in S : h[x] = IF x \in s THEN 0 ELSE f[x]
  BY DEF Masked
<1> HIDE DEF g, h
<1>2. \A x \in S : f[x] = g[x] + h[x]
  BY <1>1
<1>3. SumFunction(f) = SumFunction(g) + SumFunction(h)
  BY <1>1, <1>2, SumOfSums
<1>4. SumFunction(g) \in Nat /\ SumFunction(h) \in Nat
  BY <1>1, SumIsNat
<1> QED
  BY <1>3, <1>4 DEF g, h

(* What is left of a part that moves one place on with its summands.       *)
LEMMA SumOfShiftedPart ==
  ASSUME NEW w, NEW f, NEW g, NEW s, NEW t, IsShift(g, f, w), IsShiftOfSet(t, s, w)
  PROVE  /\ SumFunction(Masked(g, t)) <= SumFunction(Masked(f, s))
         /\ w \notin s => SumFunction(Masked(g, t)) = SumFunction(Masked(f, s))
         /\ SumFunction(Masked(g, t)) \in Nat
         /\ SumFunction(Masked(f, s)) \in Nat
<1> w \in Nat /\ f \in [0..w -> Nat] /\ g \in [0..w -> Nat]
  BY DEF IsShift
<1> DEFINE p == Masked(f, s)
           q == Masked(g, t)
           S == 0..w
<1>1. /\ p \in [S -> Nat] /\ \A a \in S : p[a] = IF a \in s THEN f[a] ELSE 0
      /\ q \in [S -> Nat] /\ \A a \in S : q[a] = IF a \in t THEN g[a] ELSE 0
  BY DEF Masked
<1>2. 0 \in S /\ w \in S /\ \A a \in 1..w : a \in S /\ a - 1 \in S
  OBVIOUS
<1>3. IsFiniteSet(S)
  <2>1. 0 \in Int /\ w \in Int
    OBVIOUS
  <2> QED
    BY <2>1, FS_Interval
<1> HIDE DEF p, q
<1>4. IsShift(q, p, w)
  <2>1. q[0] = 0 /\ \A a \in 1..w : q[a] = p[a - 1]
    <3> HIDE DEF S
    <3> QED
      BY <1>1, <1>2 DEF IsShift, IsShiftOfSet
  <2> QED
    BY <1>1, <2>1 DEF IsShift
<1>5. SumFunction(q) + p[w] = SumFunction(p)
  BY <1>1, <1>4, SumOfShifted
<1>6. p[w] \in Nat /\ (w \notin s => p[w] = 0)
  BY <1>1, <1>2
<1> HIDE DEF S
<1>7. SumFunction(q) \in Nat /\ SumFunction(p) \in Nat
  BY <1>1, <1>3, SumIsNat
<1> QED
  BY <1>5, <1>6, <1>7 DEF p, q
=============================================================================
