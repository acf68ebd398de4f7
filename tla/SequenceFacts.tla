--------------------------- MODULE SequenceFacts ----------------------------
(***************************************************************************)
(* What the proofs about scripts of writes and plans of runner processes   *)
(* need of sequences: the least number of a set, concatenation, flattening *)
(* and sorting, recursion over numbers, and sequences that repeat nothing. *)
(***************************************************************************)
EXTENDS Integers, Sequences, FiniteSets, SequencesExt, FiniteSetsExt, Functions,
        SequenceTheorems, FiniteSetTheorems, WellFoundedInduction, TLAPS

IsSequence(w) == w \in Seq(Range(w))

LEMMA SequenceOf ==
  ASSUME NEW T, NEW w \in Seq(T)
  PROVE  /\ IsSequence(w) /\ Len(w) \in Nat /\ DOMAIN w = 1..Len(w)
         /\ Range(w) \subseteq T
         /\ \A i \in DOMAIN w : w[i] \in Range(w)
<1>1. \A i \in 1..Len(w) : w[i] \in T
  OBVIOUS
<1>2. \A i \in 1..Len(w) : w[i] \in Range(w)
  BY DEF Range
<1>3. w \in [1..Len(w) -> Range(w)] /\ Len(w) \in Nat
  BY <1>2
<1>4. w \in Seq(Range(w))
  BY <1>3, SeqDef
<1> QED BY <1>1, <1>2, <1>4 DEF Range, IsSequence

LEMMA EmptyShape == IsSequence(<< >>) /\ Range(<< >>) = {}
<1>1. << >> \in Seq({}) /\ DOMAIN << >> = {}
  OBVIOUS
<1>2. IsSequence(<< >>)
  BY <1>1, SequenceOf
<1> QED BY <1>1, <1>2 DEF Range

LEMMA SingleShape ==
  ASSUME NEW x
  PROVE  IsSequence(<<x>>) /\ Range(<<x>>) = {x}
<1>1. <<x>> \in Seq({x})
  OBVIOUS
<1>2. IsSequence(<<x>>)
  BY <1>1, SequenceOf
<1> QED BY <1>2 DEF Range

LEMMA PairShape ==
  ASSUME NEW x, NEW y
  PROVE  /\ IsSequence(<<x, y>>) /\ DOMAIN <<x, y>> = 1..2
         /\ <<x, y>>[1] = x /\ <<x, y>>[2] = y
<1>1. <<x, y>> \in Seq({x, y})
  OBVIOUS
<1>2. IsSequence(<<x, y>>)
  BY <1>1, SequenceOf
<1>3. DOMAIN <<x, y>> = 1..2 /\ <<x, y>>[1] = x /\ <<x, y>>[2] = y
  OBVIOUS
<1> QED BY <1>2, <1>3

LEMMA TailOf ==
  ASSUME NEW w, IsSequence(w), w # << >>
  PROVE  /\ IsSequence(Tail(w)) /\ Head(w) = w[1] /\ 1 \in DOMAIN w
         /\ Len(w) \in Nat /\ DOMAIN w = 1..Len(w)
         /\ DOMAIN Tail(w) = 1..(Len(w) - 1)
         /\ \A i \in DOMAIN Tail(w) : Tail(w)[i] = w[i + 1] /\ i + 1 \in DOMAIN w
         /\ Range(w) \subseteq {Head(w)} \cup Range(Tail(w))
<1> DEFINE T == Range(w)
<1>1. w \in Seq(T)
  BY DEF IsSequence
<1> HIDE DEF T
<1>2. /\ Tail(w) \in Seq(T) /\ Head(w) = w[1] /\ 1 \in DOMAIN w
      /\ Len(w) \in Nat /\ DOMAIN w = 1..Len(w)
      /\ Len(Tail(w)) = Len(w) - 1 /\ DOMAIN Tail(w) = 1..(Len(w) - 1)
      /\ \A i \in 1..(Len(w) - 1) : Tail(w)[i] = w[i + 1]
  BY <1>1
<1>3. IsSequence(Tail(w))
  BY <1>2, SequenceOf
<1>4. ASSUME NEW i \in DOMAIN w, i # 1 PROVE w[i] \in Range(Tail(w))
  <2>1. i - 1 \in DOMAIN Tail(w) /\ Tail(w)[i - 1] = w[i]
    BY <1>2, <1>4
  <2> QED BY <2>1 DEF Range
<1>5. \A x \in Range(w) : \E i \in DOMAIN w : x = w[i]
  BY DEF Range
<1>6. Range(w) \subseteq {Head(w)} \cup Range(Tail(w))
  BY <1>2, <1>4, <1>5
<1> QED BY <1>2, <1>3, <1>6

LEMMA ConcatOf ==
  ASSUME NEW a, NEW b, IsSequence(a), IsSequence(b)
  PROVE  /\ IsSequence(a \o b) /\ Len(a) \in Nat /\ Len(b) \in Nat
         /\ DOMAIN a = 1..Len(a) /\ DOMAIN b = 1..Len(b)
         /\ Len(a \o b) = Len(a) + Len(b)
         /\ DOMAIN (a \o b) = 1..(Len(a) + Len(b))
         /\ \A i \in 1..Len(a) : (a \o b)[i] = a[i]
         /\ \A i \in 1..Len(b) : (a \o b)[Len(a) + i] = b[i]
<1> DEFINE T == Range(a) \cup Range(b)
<1>1. a \in Seq(T) /\ b \in Seq(T)
  <2>1. /\ a \in [1..Len(a) -> Range(a)] /\ Len(a) \in Nat
        /\ b \in [1..Len(b) -> Range(b)] /\ Len(b) \in Nat
    BY DEF IsSequence
  <2>2. a \in [1..Len(a) -> T] /\ b \in [1..Len(b) -> T]
    BY <2>1
  <2> QED BY <2>1, <2>2, SeqDef
<1> HIDE DEF T
<1>2. /\ a \o b \in Seq(T) /\ Len(a) \in Nat /\ Len(b) \in Nat
      /\ DOMAIN a = 1..Len(a) /\ DOMAIN b = 1..Len(b)
      /\ Len(a \o b) = Len(a) + Len(b)
      /\ \A i \in 1..Len(a) : (a \o b)[i] = a[i]
      /\ \A i \in 1..Len(b) : (a \o b)[Len(a) + i] = b[i]
  BY <1>1
<1> QED BY <1>2, SequenceOf

\* What a concatenation contains.
LEMMA ConcatRange ==
  ASSUME NEW a, NEW b, IsSequence(a), IsSequence(b)
  PROVE  Range(a \o b) = Range(a) \cup Range(b)
<1>1. \A i \in DOMAIN (a \o b) : (a \o b)[i] \in Range(a) \cup Range(b)
  <2> SUFFICES ASSUME NEW i \in DOMAIN (a \o b) PROVE (a \o b)[i] \in Range(a) \cup Range(b)
    OBVIOUS
  <2>1. CASE i <= Len(a)
    BY <2>1, ConcatOf DEF Range
  <2>2. CASE ~ (i <= Len(a))
    <3> DEFINE k == i - Len(a)
    <3>2. /\ Len(a) \in Nat /\ Len(b) \in Nat /\ i \in 1..(Len(a) + Len(b))
          /\ DOMAIN b = 1..Len(b)
      BY ConcatOf
    <3>3. k \in 1..Len(b) /\ Len(a) + k = i
      BY <2>2, <3>2
    <3>1. k \in DOMAIN b /\ (a \o b)[i] = b[k]
      BY <3>2, <3>3, ConcatOf
    <3> QED BY <3>1 DEF Range
  <2> QED BY <2>1, <2>2
<1>2. \A i \in DOMAIN a : a[i] \in Range(a \o b)
  <2> SUFFICES ASSUME NEW i \in DOMAIN a PROVE a[i] \in Range(a \o b)
    OBVIOUS
  <2>1. i \in DOMAIN (a \o b) /\ (a \o b)[i] = a[i]
    BY ConcatOf
  <2> QED BY <2>1 DEF Range
<1>3. \A i \in DOMAIN b : b[i] \in Range(a \o b)
  <2> SUFFICES ASSUME NEW i \in DOMAIN b PROVE b[i] \in Range(a \o b)
    OBVIOUS
  <2>1. Len(a) + i \in DOMAIN (a \o b) /\ (a \o b)[Len(a) + i] = b[i]
    BY ConcatOf
  <2> QED BY <2>1 DEF Range
<1>4. Range(a \o b) \subseteq Range(a) \cup Range(b)
  BY <1>1 DEF Range
<1>5. Range(a) \subseteq Range(a \o b) /\ Range(b) \subseteq Range(a \o b)
  BY <1>2, <1>3 DEF Range
<1> QED BY <1>4, <1>5

LEMMA LeastNumber ==
  ASSUME NEW S \in SUBSET Nat, S # {}
  PROVE  \E k \in S : \A l \in S : k <= l
<1>1. PICK k \in S : \A l \in S : ~ (<<l, k>> \in OpToRel(<, Nat))
  BY WFMin, NatLessThanWellFounded
<1>2. \A l \in S : ~ (l < k)
  BY <1>1 DEF OpToRel
<1> QED BY <1>2

\* f concatenates the first m sequences step by step.
Flattens(f, seqs, m, T) ==
  /\ f \in [1..m -> Seq(T)]
  /\ \A k \in 1..m : f[k] = IF k = 1 THEN seqs[k] ELSE f[k - 1] \o seqs[k]

LEMMA FlattensExists ==
  ASSUME NEW T, NEW seqs \in Seq(Seq(T)), NEW m \in 0..Len(seqs)
  PROVE  \E f : Flattens(f, seqs, m, T)
<1> DEFINE Bad == {k \in 0..Len(seqs) : ~ \E f : Flattens(f, seqs, k, T)}
<1> SUFFICES ASSUME Bad # {} PROVE FALSE
  OBVIOUS
<1>1. Bad \in SUBSET Nat
  OBVIOUS
<1>2. PICK k \in Bad : \A l \in Bad : k <= l
  BY <1>1, LeastNumber
<1>3. CASE k = 0
  <2>1. Flattens([j \in 1..0 |-> << >>], seqs, 0, T)
    BY DEF Flattens
  <2> QED BY <1>3, <2>1
<1>4. CASE k # 0
  <2>1. k - 1 \in 0..Len(seqs) /\ k \in 1..Len(seqs) /\ seqs[k] \in Seq(T) /\ k \in Nat
    BY <1>4
  <2>2. ~ (k <= k - 1)
    BY <2>1
  <2>3. PICK f : Flattens(f, seqs, k - 1, T)
    <3>1. k - 1 \notin Bad
      <4> HIDE DEF Bad
      <4> QED BY <1>2, <2>2
    <3> QED BY <2>1, <3>1
  <2> DEFINE last == IF k = 1 THEN seqs[k] ELSE f[k - 1] \o seqs[k]
             g == [j \in 1..k |-> IF j = k THEN last ELSE f[j]]
  <2>4. last \in Seq(T)
    BY <2>1, <2>3 DEF Flattens
  <2>5. g \in [1..k -> Seq(T)]
    BY <2>1, <2>3, <2>4 DEF Flattens
  <2>6. ASSUME NEW j \in 1..k PROVE g[j] = IF j = 1 THEN seqs[j] ELSE g[j - 1] \o seqs[j]
    <3>1. CASE j = k
      <4>1. j # 1 => j - 1 \in 1..k /\ j - 1 # k
        BY <2>1
      <4> QED BY <3>1, <4>1
    <3>2. CASE j # k
      <4>1. j \in 1..(k - 1) /\ (j # 1 => j - 1 \in 1..k /\ j - 1 # k)
        BY <2>1, <3>2
      <4>2. f[j] = IF j = 1 THEN seqs[j] ELSE f[j - 1] \o seqs[j]
        BY <2>3, <4>1 DEF Flattens
      <4> QED BY <3>2, <4>1, <4>2
    <3> QED BY <3>1, <3>2
  <2>7. Flattens(g, seqs, k, T)
    <3> HIDE DEF g
    <3> QED BY <2>5, <2>6 DEF Flattens
  <2> QED BY <2>7
<1> QED BY <1>3, <1>4

LEMMA FlattenIs ==
  ASSUME NEW T, NEW seqs \in Seq(Seq(T)), seqs # << >>
  PROVE  \E f : Flattens(f, seqs, Len(seqs), T) /\ FlattenSeq(seqs) = f[Len(seqs)]
<1> DEFINE n == Len(seqs)
<1>1. n \in Nat /\ n # 0 /\ n \in 0..n
  <2>1. n \in Nat
    OBVIOUS
  <2>2. n # 0
    BY EmptySeq
  <2> QED BY <2>1, <2>2
<1>2. PICK f : Flattens(f, seqs, n, T)
  BY <1>1, FlattensExists
<1> DEFINE flatten == CHOOSE g : g = [i \in 1..n |-> IF i = 1 THEN seqs[i] ELSE g[i - 1] \o seqs[i]]
<1>3. f = [i \in 1..n |-> IF i = 1 THEN seqs[i] ELSE f[i - 1] \o seqs[i]]
  BY <1>2 DEF Flattens
<1>4. flatten = [i \in 1..n |-> IF i = 1 THEN seqs[i] ELSE flatten[i - 1] \o seqs[i]]
  BY <1>3
<1>5. FlattenSeq(seqs) = flatten[n]
  BY <1>1 DEF FlattenSeq
<1> HIDE DEF flatten
<1>6. \A k \in 1..n : flatten[k] = IF k = 1 THEN seqs[k] ELSE flatten[k - 1] \o seqs[k]
  BY <1>4
<1>7. \A k \in 1..n : flatten[k] = f[k]
  <2> DEFINE Bad == {k \in 1..n : flatten[k] # f[k]}
  <2> SUFFICES ASSUME Bad # {} PROVE FALSE
    OBVIOUS
  <2>1. Bad \in SUBSET Nat
    OBVIOUS
  <2>2. PICK k \in Bad : \A l \in Bad : k <= l
    BY <2>1, LeastNumber
  <2>3. k # 1 => k - 1 \in 1..n /\ k - 1 \notin Bad
    BY <2>2
  <2>4. f[k] = IF k = 1 THEN seqs[k] ELSE f[k - 1] \o seqs[k]
    BY <1>2 DEF Flattens
  <2> QED BY <1>6, <2>2, <2>3, <2>4
<1> QED BY <1>1, <1>2, <1>5, <1>7

\* What flattening contains.
LEMMA FlattenOf ==
  ASSUME NEW T, NEW seqs \in Seq(Seq(T))
  PROVE  /\ FlattenSeq(seqs) \in Seq(T)
         /\ \A x \in Range(FlattenSeq(seqs)) : \E k \in DOMAIN seqs : x \in Range(seqs[k])
         /\ \A k \in DOMAIN seqs : Range(seqs[k]) \subseteq Range(FlattenSeq(seqs))
<1> DEFINE n == Len(seqs)
<1>1. n \in Nat /\ DOMAIN seqs = 1..n /\ \A k \in 1..n : seqs[k] \in Seq(T)
  OBVIOUS
<1>2. CASE seqs = << >>
  <2>1. FlattenSeq(seqs) = << >>
    BY <1>2 DEF FlattenSeq
  <2>2. DOMAIN << >> = {}
    OBVIOUS
  <2>3. Range(<< >>) = {}
    BY <2>2 DEF Range
  <2>4. << >> \in Seq(T)
    OBVIOUS
  <2>5. Len(seqs) = 0
    BY <1>2
  <2> QED BY <1>1, <2>1, <2>3, <2>4, <2>5
<1>3. CASE seqs # << >>
  <2>1. PICK f : Flattens(f, seqs, n, T) /\ FlattenSeq(seqs) = f[n]
    BY <1>3, FlattenIs
  <2> DEFINE Good(k) ==
        /\ \A x \in Range(f[k]) : \E l \in 1..n : x \in Range(seqs[l])
        /\ \A l \in 1..k : Range(seqs[l]) \subseteq Range(f[k])
      Bad == {k \in 1..n : ~ Good(k)}
  <2>2. Bad = {}
    <3> SUFFICES ASSUME Bad # {} PROVE FALSE
      OBVIOUS
    <3>1. Bad \in SUBSET Nat
      OBVIOUS
    <3>2. PICK k \in Bad : \A l \in Bad : k <= l
      BY <3>1, LeastNumber
    <3>3. k \in 1..n /\ f[k] = IF k = 1 THEN seqs[k] ELSE f[k - 1] \o seqs[k]
      BY <2>1 DEF Flattens
    <3>4. CASE k = 1
      BY <3>2, <3>3, <3>4
    <3>5. CASE k # 1
      <4>1. k - 1 \in 1..n /\ ~ (k <= k - 1) /\ \A l \in 1..k : l \in 1..(k - 1) \/ l = k
        BY <3>3, <3>5
      <4>2. Good(k - 1)
        BY <3>2, <4>1
      <4>6. f[k - 1] \in Seq(T) /\ seqs[k] \in Seq(T)
        BY <1>1, <2>1, <3>3, <4>1 DEF Flattens
      <4>3. IsSequence(f[k - 1]) /\ IsSequence(seqs[k])
        BY <4>6, SequenceOf
      <4>4. Range(f[k]) = Range(f[k - 1]) \cup Range(seqs[k])
        BY <3>3, <3>5, <4>3, ConcatRange
      <4>5. Good(k)
        BY <3>3, <4>1, <4>2, <4>4
      <4> QED BY <3>2, <4>5
    <3> QED BY <3>4, <3>5
  <2>3. n \in 1..n
    <3>1. n # 0
      BY <1>3, EmptySeq
    <3> QED BY <1>1, <3>1
  <2>4. Good(n)
    BY <2>2, <2>3
  <2>5. f[n] \in Seq(T)
    BY <2>1, <2>3 DEF Flattens
  <2>6. /\ \A x \in Range(f[n]) : \E l \in 1..n : x \in Range(seqs[l])
        /\ \A l \in 1..n : Range(seqs[l]) \subseteq Range(f[n])
    BY <2>4
  <2> HIDE DEF n
  <2> QED BY <1>1, <2>1, <2>5, <2>6
<1> QED BY <1>2, <1>3

LEMMA SetIsSequence ==
  ASSUME NEW Z, IsFiniteSet(Z)
  PROVE  IsSequence(SetToSeq(Z))
<1>1. Cardinality(Z) \in Nat
  BY FS_CardinalityType
<1>2. PICK f \in [1..Cardinality(Z) -> Z] : IsInjective(f)
  <2>1. PICK g : g \in Bijection(1..Cardinality(Z), Z)
    BY FS_CardinalityType, FS_NatBijection DEF ExistsBijection
  <2> QED BY <2>1 DEF Bijection, Injection, IsInjective
<1>3. SetToSeq(Z) \in [1..Cardinality(Z) -> Z]
  BY <1>2 DEF SetToSeq
<1>4. SetToSeq(Z) \in Seq(Z)
  BY <1>1, <1>3, SeqDef
<1> QED BY <1>4, SequenceOf

\* A finite set of numbers in ascending order
Ascending(f, S) ==
  /\ f \in [1..Cardinality(S) -> S]
  /\ \A i, j \in DOMAIN f : i < j => f[i] < f[j]

LEMMA AscendingExists ==
  ASSUME NEW Z \in SUBSET Nat, IsFiniteSet(Z)
  PROVE  \E f : Ascending(f, Z)
<1> DEFINE Bad == {n \in Nat : \E S \in SUBSET Nat : /\ IsFiniteSet(S) /\ Cardinality(S) = n
                                                     /\ ~ \E f : Ascending(f, S)}
<1> SUFFICES Bad = {}
  BY FS_CardinalityType
<1> SUFFICES ASSUME Bad # {} PROVE FALSE
  OBVIOUS
<1>1. PICK n \in Bad : \A m \in Bad : n <= m
  <2>1. Bad \in SUBSET Nat
    OBVIOUS
  <2> QED BY <2>1, LeastNumber
<1>2. PICK S \in SUBSET Nat : /\ IsFiniteSet(S) /\ Cardinality(S) = n
                              /\ ~ \E f : Ascending(f, S)
  BY <1>1
<1>3. n \in Nat
  BY <1>1
<1>4. CASE S = {}
  <2>1. Cardinality(S) = 0
    BY <1>4, FS_EmptySet
  <2>2. Ascending([i \in 1..0 |-> 0], S)
    BY <2>1 DEF Ascending
  <2> QED BY <1>2, <2>2
<1>5. CASE S # {}
  <2>1. PICK a \in S : \A b \in S : a <= b
    BY <1>5, LeastNumber
  <2> DEFINE R == S \ {a}
  <2>2. IsFiniteSet(R) /\ Cardinality(R) = n - 1 /\ R \in SUBSET Nat /\ n - 1 \in Nat
    <3>1. IsFiniteSet(R) /\ Cardinality(R) = n - 1
      BY <1>2, <2>1, FS_RemoveElement
    <3>2. Cardinality(R) \in Nat
      BY <3>1, FS_CardinalityType
    <3> QED BY <3>1, <3>2
  <2>3. n - 1 \notin Bad
    <3>1. ~ (n <= n - 1)
      BY <1>3
    <3> HIDE DEF Bad
    <3> QED BY <3>1, <1>1
  <2>4. PICK g : Ascending(g, R)
    BY <2>2, <2>3
  <2>5. /\ g \in [1..(n - 1) -> R]
        /\ \A i, j \in 1..(n - 1) : i < j => g[i] < g[j]
    BY <2>2, <2>4 DEF Ascending
  <2>6. \A b \in R : a < b /\ b \in S
    BY <2>1
  <2> DEFINE f == [i \in 1..n |-> IF i = 1 THEN a ELSE g[i - 1]]
  <2> HIDE DEF R
  <2>7. \A i \in 1..n : i # 1 => i - 1 \in 1..(n - 1)
    BY <1>3
  <2>8. f \in [1..n -> S]
    BY <2>1, <2>5, <2>6, <2>7
  <2>9. ASSUME NEW i \in 1..n, NEW j \in 1..n, i < j PROVE f[i] < f[j]
    <3>1. j # 1 /\ j - 1 \in 1..(n - 1) /\ f[j] = g[j - 1] /\ g[j - 1] \in R
      BY <2>5, <2>7, <2>9
    <3>2. CASE i = 1
      BY <3>1, <3>2, <2>6
    <3>3. CASE i # 1
      <4>1. i - 1 \in 1..(n - 1) /\ i - 1 < j - 1 /\ f[i] = g[i - 1]
        BY <3>3, <2>7, <2>9
      <4> QED BY <3>1, <4>1, <2>5
    <3> QED BY <3>2, <3>3
  <2>10. Ascending(f, S)
    <3> HIDE DEF f
    <3> QED BY <2>8, <2>9, <1>2 DEF Ascending
  <2> QED BY <1>2, <2>10
<1> QED BY <1>4, <1>5

\* An ascending listing leaves nothing out.
LEMMA AscendingLists ==
  ASSUME NEW Z \in SUBSET Nat, IsFiniteSet(Z), NEW f, Ascending(f, Z)
  PROVE  \A x \in Z : \E i \in DOMAIN f : f[i] = x
<1> DEFINE n == Cardinality(Z)
<1>1. n \in Nat
  BY FS_CardinalityType
<1>2. f \in [1..n -> Z] /\ \A i, j \in 1..n : i < j => f[i] < f[j]
  BY DEF Ascending
<1>3. ASSUME NEW i \in 1..n, NEW j \in 1..n, f[i] = f[j] PROVE i = j
  <2>1. ~ (f[i] < f[j]) /\ ~ (f[j] < f[i])
    <3>1. f[i] \in Z /\ Z \subseteq Nat
      <4> HIDE DEF n
      <4> QED BY <1>2
    <3> DEFINE a == f[i]
    <3>2. a \in Nat /\ f[j] = a
      BY <3>1, <1>3
    <3> HIDE DEF a
    <3>3. ~ (a < a)
      BY <3>2
    <3> QED BY <3>2, <3>3 DEF a
  <2>2. ~ (i < j) /\ ~ (j < i)
    BY <2>1, <1>2
  <2> QED BY <2>2
<1>4. f \in Injection(1..n, Z)
  <2> HIDE DEF n
  <2> QED BY <1>2, <1>3 DEF Injection, IsInjective
<1>5. IsFiniteSet(1..n) /\ Cardinality(1..n) = n
  BY <1>1, FS_Interval
<1>6. f \in Surjection(1..n, Z)
  BY <1>4, <1>5, FS_Injection
<1> QED BY <1>6, <1>2 DEF Surjection
-----------------------------------------------------------------------------
(* Recursion, and sequences without repetition. *)

\* What a recursion over the numbers up to n defines, where each step is a function.
Iterates(f, V, base, n, step) ==
  /\ f \in [0..n -> V] /\ f[0] = base
  /\ \A k \in 1..n : f[k] = step[k][f[k - 1]]

\* Such a recursion defines a function.
LEMMA Recursion ==
  ASSUME NEW V, NEW base \in V, NEW n \in Nat, NEW step \in [1..n -> [V -> V]]
  PROVE  \E f : Iterates(f, V, base, n, step)
<1> DEFINE Follows(f, m) == Iterates(f, V, base, m, step)
           Bad == {m \in 0..n : ~ \E f : Follows(f, m)}
<1> USE DEF Iterates
<1> SUFFICES ASSUME Bad # {} PROVE FALSE
  <2>1. n \in 0..n
    OBVIOUS
  <2> QED BY <2>1
<1>1. PICK m \in Bad : \A l \in Bad : m <= l
  <2>1. Bad \in SUBSET Nat
    OBVIOUS
  <2> QED BY <2>1, LeastNumber
<1>2. CASE m = 0
  <2>1. Follows([k \in 0..0 |-> base], 0)
    OBVIOUS
  <2> QED BY <1>1, <1>2, <2>1
<1>3. CASE m # 0
  <2>1. m \in 1..n /\ m - 1 \in 0..n /\ ~(m <= m - 1) /\ m \in Nat
    BY <1>1, <1>3
  <2>2. PICK f : Follows(f, m - 1)
    <3>1. m - 1 \notin Bad
      <4> HIDE DEF Bad
      <4> QED BY <1>1, <2>1
    <3> QED BY <2>1, <3>1
  <2> DEFINE last == step[m][f[m - 1]]
             g == [k \in 0..m |-> IF k = m THEN last ELSE f[k]]
  <2>3. f[m - 1] \in V /\ last \in V
    BY <2>1, <2>2
  <2>4. g \in [0..m -> V] /\ g[0] = base
    BY <1>3, <2>1, <2>2, <2>3
  <2>5. ASSUME NEW k \in 1..m PROVE g[k] = step[k][g[k - 1]]
    <3>1. k - 1 \in 0..(m - 1) /\ k - 1 # m /\ g[k - 1] = f[k - 1]
      BY <2>1
    <3>2. CASE k = m
      BY <3>1, <3>2
    <3>3. CASE k # m
      <4>1. k \in 1..(m - 1)
        BY <2>1, <3>3
      <4> QED BY <2>2, <3>1, <3>3, <4>1
    <3> QED BY <3>2, <3>3
  <2>6. Follows(g, m)
    <3> HIDE DEF g
    <3> QED BY <2>4, <2>5
  <2> QED BY <1>1, <2>6
<1> QED BY <1>2, <1>3

\* Nothing occurs twice.
Once(s) == \A i, j \in DOMAIN s : s[i] = s[j] => i = j

\* One more that does not occur yet.
LEMMA AppendOnce ==
  ASSUME NEW S, NEW b \in Seq(S), Once(b), NEW e \in S, e \notin ToSet(b)
  PROVE  Append(b, e) \in Seq(S) /\ Once(Append(b, e)) /\ Len(Append(b, e)) = Len(b) + 1
<1> DEFINE c == Append(b, e)
           n == Len(b)
<1>1. n \in Nat /\ DOMAIN b = 1..n
  OBVIOUS
<1>2. c \in Seq(S) /\ Len(c) = n + 1 /\ DOMAIN c = 1..(n + 1)
  OBVIOUS
<1>3. c[n + 1] = e /\ \A i \in 1..n : c[i] = b[i]
  OBVIOUS
<1>4. \A i \in 1..n : b[i] # e
  BY <1>1 DEF ToSet
<1> HIDE DEF c, n
<1>5. ASSUME NEW i \in 1..(n + 1), NEW j \in 1..(n + 1), c[i] = c[j] PROVE i = j
  <2>1. (i = n + 1 \/ i \in 1..n) /\ (j = n + 1 \/ j \in 1..n)
    BY <1>1
  <2>2. CASE i \in 1..n /\ j \in 1..n
    BY <1>1, <1>3, <1>5, <2>2 DEF Once
  <2>3. CASE i = n + 1 /\ j \in 1..n
    BY <1>3, <1>4, <1>5, <2>3
  <2>4. CASE i \in 1..n /\ j = n + 1
    BY <1>3, <1>4, <1>5, <2>4
  <2> QED BY <2>1, <2>2, <2>3, <2>4
<1>6. Once(c)
  BY <1>2, <1>5 DEF Once
<1> QED BY <1>2, <1>6 DEF c, n

\* Of two plans for different files, one goes behind the other.
LEMMA BehindOnce ==
  ASSUME NEW S, NEW a \in Seq(S), NEW b \in Seq(S), Once(a), Once(b),
         \A i \in DOMAIN a : \A j \in DOMAIN b : a[i] # b[j]
  PROVE  /\ a \o b \in Seq(S) /\ Once(a \o b) /\ Len(a \o b) = Len(a) + Len(b)
         /\ \A k \in DOMAIN (a \o b) : \/ \E i \in DOMAIN a : (a \o b)[k] = a[i]
                                       \/ \E j \in DOMAIN b : (a \o b)[k] = b[j]
<1> DEFINE c == a \o b
           n == Len(a)
           m == Len(b)
<1>1. n \in Nat /\ m \in Nat /\ DOMAIN a = 1..n /\ DOMAIN b = 1..m
  OBVIOUS
<1>2. c \in Seq(S) /\ Len(c) = n + m /\ DOMAIN c = 1..(n + m)
  OBVIOUS
<1>3. \A k \in 1..(n + m) : c[k] = IF k <= n THEN a[k] ELSE b[k - n]
  OBVIOUS
<1> HIDE DEF c, n, m
<1>4. \A k \in 1..(n + m) : \/ k \in 1..n /\ c[k] = a[k]
                            \/ k > n /\ k - n \in 1..m /\ c[k] = b[k - n]
  BY <1>1, <1>3
<1>5. ASSUME NEW k \in 1..(n + m), NEW l \in 1..(n + m), c[k] = c[l] PROVE k = l
  <2>1. CASE k \in 1..n /\ c[k] = a[k] /\ l \in 1..n /\ c[l] = a[l]
    BY <1>1, <1>5, <2>1 DEF Once
  <2>2. CASE k > n /\ k - n \in 1..m /\ c[k] = b[k - n] /\ l > n /\ l - n \in 1..m /\ c[l] = b[l - n]
    <3>1. k - n = l - n
      BY <1>1, <1>5, <2>2 DEF Once
    <3> QED BY <1>1, <3>1
  <2>3. CASE k \in 1..n /\ c[k] = a[k] /\ l > n /\ l - n \in 1..m /\ c[l] = b[l - n]
    BY <1>1, <1>5, <2>3
  <2>4. CASE k > n /\ k - n \in 1..m /\ c[k] = b[k - n] /\ l \in 1..n /\ c[l] = a[l]
    <3>1. a[l] # b[k - n]
      BY <1>1, <2>4
    <3> QED BY <1>5, <2>4, <3>1
  <2> QED BY <1>4, <2>1, <2>2, <2>3, <2>4
<1>6. Once(c)
  BY <1>2, <1>5 DEF Once
<1>7. \A k \in DOMAIN c : (\E i \in DOMAIN a : c[k] = a[i]) \/ (\E j \in DOMAIN b : c[k] = b[j])
  BY <1>1, <1>2, <1>4
<1> QED BY <1>2, <1>6, <1>7 DEF c, n, m
=============================================================================
