-------------------------- MODULE CollectionProofs --------------------------
(***************************************************************************)
(* Induction over the natural numbers in terms of sets, which needs no     *)
(* instance of an operator parameter; what Kept keeps; and the sum of a    *)
(* function over a finite set, one element at a time.                      *)
(***************************************************************************)
EXTENDS Subsequences, SequencesExt, FiniteSetTheorems, WellFoundedInduction, TLAPS

\* A nonempty set of natural numbers has a least one.
THEOREM LeastNumber ==
  ASSUME NEW S \in SUBSET Nat, S # {}
  PROVE  \E least \in S : \A n \in S : least <= n
<1> DEFINE Less == OpToRel(<, Nat)
<1>1. \E least \in S : \A n \in S : <<n, least>> \notin Less
  <2>1. IsWellFoundedOn(Less, Nat)
    BY NatLessThanWellFounded
  <2>2. QED
    BY <2>1, WFMin
<1>2. \A m, n \in Nat : <<n, m>> \notin Less => m <= n
  BY DEF OpToRel
<1>3. QED
  BY <1>1, <1>2

\* What holds of 0, and of the successor of a number it holds of, holds of every number.
THEOREM SetInduction ==
  ASSUME NEW S, 0 \in S, \A n \in Nat : n \in S => n + 1 \in S
  PROVE  Nat \subseteq S
<1>1. SUFFICES ASSUME Nat \ S # {}
              PROVE  FALSE
  OBVIOUS
<1>2. PICK least \in Nat \ S : \A n \in Nat \ S : least <= n
  BY <1>1, LeastNumber
<1>3. least - 1 \in Nat /\ least = (least - 1) + 1
  BY <1>2
<1>4. least - 1 \in S
  BY <1>2, <1>3
<1>5. QED
  BY <1>2, <1>3, <1>4

\* The equation of the recursion in Kept, for its first n elements.
KeptBy(f, n, sequence, wanted) ==
  f = [i \in 0 .. n |->
         IF i = 0 THEN <<>>
         ELSE IF sequence[i] \in wanted THEN Append(f[i - 1], sequence[i]) ELSE f[i - 1]]

\* The recursion defines a function.
LEMMA KeptExists ==
  ASSUME NEW sequence, NEW wanted, NEW n \in Nat
  PROVE  \E f : KeptBy(f, n, sequence, wanted)
<1> DEFINE S == {m \in Nat : \E f : KeptBy(f, m, sequence, wanted)}
<1>1. 0 \in S
  <2>1. KeptBy([i \in 0 .. 0 |-> <<>>], 0, sequence, wanted)
    BY DEF KeptBy
  <2>2. QED
    BY <2>1
<1>2. ASSUME NEW m \in Nat, m \in S
      PROVE  m + 1 \in S
  <2>1. PICK f : KeptBy(f, m, sequence, wanted)
    BY <1>2
  <2> DEFINE last == IF sequence[m + 1] \in wanted THEN Append(f[m], sequence[m + 1]) ELSE f[m]
             g == [i \in 0 .. m + 1 |-> IF i = m + 1 THEN last ELSE f[i]]
  <2>2. KeptBy(g, m + 1, sequence, wanted)
    <3>1. \A i \in 0 .. m : f[i] = IF i = 0 THEN <<>>
            ELSE IF sequence[i] \in wanted THEN Append(f[i - 1], sequence[i]) ELSE f[i - 1]
      BY <2>1 DEF KeptBy
    <3> DEFINE step(i) == IF i = 0 THEN <<>>
            ELSE IF sequence[i] \in wanted THEN Append(g[i - 1], sequence[i]) ELSE g[i - 1]
    <3>2. \A i \in 0 .. m + 1 : g[i] = step(i)
      <4>1. ASSUME NEW i \in 0 .. m + 1
            PROVE  g[i] = step(i)
        <5>1. CASE i = m + 1
          BY <5>1
        <5>2. CASE i # m + 1 /\ i # 0
          <6>1. i \in 0 .. m /\ i - 1 \in 0 .. m /\ i - 1 # m + 1
            BY <5>2
          <6>2. g[i] = f[i] /\ g[i - 1] = f[i - 1]
            BY <6>1
          <6>3. QED
            BY <6>1, <6>2, <5>2, <3>1
        <5>3. CASE i = 0
          BY <5>3, <3>1
        <5>4. QED
          BY <5>1, <5>2, <5>3
      <4>2. QED
        BY <4>1
    <3>3. g = [i \in 0 .. m + 1 |-> step(i)]
      BY <3>2
    <3>4. QED
      BY <3>3 DEF KeptBy
  <2>3. QED
    BY <2>2
<1>3. Nat \subseteq S
  BY <1>1, <1>2, SetInduction
<1>4. QED
  BY <1>3

\* It is the same function when one more element follows.
LEMMA KeptUnique ==
  ASSUME NEW one, NEW other, NEW wanted, NEW n \in Nat, NEW f, NEW g,
         KeptBy(f, n, one, wanted), KeptBy(g, n + 1, other, wanted),
         \A i \in 1 .. n : one[i] = other[i]
  PROVE  f[n] = g[n]
<1> DEFINE S == {i \in Nat : i <= n => f[i] = g[i]}
<1>1. 0 \in S
  BY DEF KeptBy
<1>2. ASSUME NEW i \in Nat, i \in S
      PROVE  i + 1 \in S
  <2>1. CASE i + 1 <= n
    <3>1. f[i] = g[i] /\ one[i + 1] = other[i + 1]
      BY <1>2, <2>1
    <3>2. i + 1 \in 0 .. n /\ i + 1 \in 0 .. n + 1 /\ i + 1 # 0 /\ (i + 1) - 1 = i
      BY <2>1
    <3>3. f[i + 1] = IF one[i + 1] \in wanted THEN Append(f[i], one[i + 1]) ELSE f[i]
      BY <3>2 DEF KeptBy
    <3>4. g[i + 1] = IF other[i + 1] \in wanted THEN Append(g[i], other[i + 1]) ELSE g[i]
      BY <3>2 DEF KeptBy
    <3>5. QED
      BY <3>1, <3>3, <3>4
  <2>2. QED
    BY <2>1
<1>3. Nat \subseteq S
  BY <1>1, <1>2, SetInduction
<1>4. QED
  BY <1>3

\* Kept is the last value of its recursion.
LEMMA KeptIs ==
  ASSUME NEW sequence, Len(sequence) \in Nat, NEW wanted
  PROVE  \E f : /\ KeptBy(f, Len(sequence), sequence, wanted)
                /\ Kept(sequence, wanted) = f[Len(sequence)]
<1> DEFINE f == CHOOSE f : KeptBy(f, Len(sequence), sequence, wanted)
<1>1. KeptBy(f, Len(sequence), sequence, wanted)
  BY KeptExists
<1>2. Kept(sequence, wanted) = f[Len(sequence)]
  BY DEF Kept, KeptBy
<1>3. QED
  BY <1>1, <1>2

\* Nothing is kept of an empty sequence.
THEOREM KeptOfNothing ==
  ASSUME NEW wanted
  PROVE  Kept(<<>>, wanted) = <<>>
<1>1. PICK f : KeptBy(f, 0, <<>>, wanted) /\ Kept(<<>>, wanted) = f[0]
  BY KeptIs
<1>2. QED
  BY <1>1 DEF KeptBy

\* What is kept of a sequence and one more element.
THEOREM KeptOfAppend ==
  ASSUME NEW E, NEW sequence \in Seq(E), NEW e \in E, NEW wanted
  PROVE  Kept(Append(sequence, e), wanted)
           = IF e \in wanted THEN Append(Kept(sequence, wanted), e) ELSE Kept(sequence, wanted)
<1> DEFINE longer == Append(sequence, e)
           n == Len(sequence)
<1>1. n \in Nat /\ Len(longer) = n + 1 /\ longer[n + 1] = e /\ \A i \in 1 .. n : longer[i] = sequence[i]
  OBVIOUS
<1> HIDE DEF longer, n
<1>2. PICK g : KeptBy(g, n + 1, longer, wanted) /\ Kept(longer, wanted) = g[n + 1]
  BY <1>1, KeptIs
<1>3. PICK f : KeptBy(f, n, sequence, wanted) /\ Kept(sequence, wanted) = f[n]
  BY <1>1, KeptIs DEF n
<1>4. f[n] = g[n]
  <2>1. \A i \in 1 .. n : sequence[i] = longer[i]
    BY <1>1
  <2>2. KeptBy(f, n, sequence, wanted) /\ KeptBy(g, n + 1, longer, wanted)
    BY <1>2, <1>3
  <2>3. QED
    BY <1>1, <2>1, <2>2, KeptUnique
<1>5. g[n + 1] = IF longer[n + 1] \in wanted THEN Append(g[n], longer[n + 1]) ELSE g[n]
  <2>1. n + 1 \in 0 .. n + 1 /\ n + 1 # 0 /\ (n + 1) - 1 = n
    BY <1>1
  <2>2. QED
    BY <1>2, <2>1 DEF KeptBy
<1>6. QED
  BY <1>1, <1>2, <1>3, <1>4, <1>5 DEF longer

\* What is kept are the wanted elements, all of them and nothing else.
THEOREM KeptElements ==
  ASSUME NEW E, NEW sequence \in Seq(E), NEW wanted
  PROVE  /\ Kept(sequence, wanted) \in Seq(E)
         /\ \A i \in 1 .. Len(Kept(sequence, wanted)) :
              /\ Kept(sequence, wanted)[i] \in wanted
              /\ \E j \in 1 .. Len(sequence) : Kept(sequence, wanted)[i] = sequence[j]
         /\ \A j \in 1 .. Len(sequence) : sequence[j] \in wanted =>
              \E i \in 1 .. Len(Kept(sequence, wanted)) : Kept(sequence, wanted)[i] = sequence[j]
<1> DEFINE n == Len(sequence)
<1>1. PICK f : KeptBy(f, n, sequence, wanted) /\ Kept(sequence, wanted) = f[n]
  BY KeptIs
<1> DEFINE Good(m) ==
             /\ f[m] \in Seq(E)
             /\ \A i \in 1 .. Len(f[m]) : f[m][i] \in wanted /\ \E j \in 1 .. m : f[m][i] = sequence[j]
             /\ \A j \in 1 .. m : sequence[j] \in wanted => \E i \in 1 .. Len(f[m]) : f[m][i] = sequence[j]
           S == {m \in Nat : m <= n => Good(m)}
<1>2. 0 \in S
  <2>1. f[0] = <<>>
    BY <1>1 DEF KeptBy
  <2>2. Good(0)
    BY <2>1
  <2>3. QED
    BY <2>2
<1>3. ASSUME NEW m \in Nat, m \in S
      PROVE  m + 1 \in S
  <2>1. CASE m + 1 <= n
    <3>1. Good(m) /\ sequence[m + 1] \in E
      BY <1>3, <2>1
    <3>2. f[m + 1] = IF sequence[m + 1] \in wanted THEN Append(f[m], sequence[m + 1]) ELSE f[m]
      <4>1. m + 1 \in 0 .. n /\ m + 1 # 0 /\ (m + 1) - 1 = m
        BY <2>1
      <4>2. QED
        BY <1>1, <4>1 DEF KeptBy
    <3>3. CASE sequence[m + 1] \in wanted
      <4> DEFINE before == f[m]
                 last == sequence[m + 1]
                 after == Append(before, last)
      <4>1. before \in Seq(E) /\ last \in E /\ f[m + 1] = after
        BY <3>1, <3>2, <3>3
      <4>2. /\ after \in Seq(E) /\ Len(after) = Len(before) + 1 /\ after[Len(before) + 1] = last
            /\ \A i \in 1 .. Len(before) : after[i] = before[i]
            /\ Len(before) \in Nat
        BY <4>1
      <4>3. /\ \A i \in 1 .. Len(before) : before[i] \in wanted /\ \E j \in 1 .. m : before[i] = sequence[j]
            /\ \A j \in 1 .. m : sequence[j] \in wanted => \E i \in 1 .. Len(before) : before[i] = sequence[j]
        BY <3>1
      <4> HIDE DEF before, after
      <4>4. \A i \in 1 .. Len(after) : after[i] \in wanted /\ \E j \in 1 .. m + 1 : after[i] = sequence[j]
        <5>1. ASSUME NEW i \in 1 .. Len(after)
              PROVE  after[i] \in wanted /\ \E j \in 1 .. m + 1 : after[i] = sequence[j]
          <6>1. CASE i = Len(before) + 1
            BY <6>1, <4>2, <3>3
          <6>2. CASE i \in 1 .. Len(before)
            <7>1. PICK j \in 1 .. m : before[i] = sequence[j]
              BY <6>2, <4>3
            <7>2. j \in 1 .. m + 1 /\ after[i] = sequence[j] /\ after[i] \in wanted
              BY <6>2, <7>1, <4>2, <4>3
            <7>3. QED
              BY <7>2
          <6>3. QED
            BY <6>1, <6>2, <4>2
        <5>2. QED
          BY <5>1
      <4>5. \A j \in 1 .. m + 1 : sequence[j] \in wanted => \E i \in 1 .. Len(after) : after[i] = sequence[j]
        <5>1. ASSUME NEW j \in 1 .. m + 1, sequence[j] \in wanted
              PROVE  \E i \in 1 .. Len(after) : after[i] = sequence[j]
          <6>1. CASE j = m + 1
            <7>1. Len(before) + 1 \in 1 .. Len(after)
              BY <4>2
            <7>2. QED
              BY <7>1, <6>1, <4>2
          <6>2. CASE j \in 1 .. m
            <7>1. PICK i \in 1 .. Len(before) : before[i] = sequence[j]
              BY <6>2, <5>1, <4>3
            <7>2. i \in 1 .. Len(after)
              BY <4>2
            <7>3. QED
              BY <7>1, <7>2, <4>2
          <6>3. QED
            BY <6>1, <6>2
        <5>2. QED
          BY <5>1
      <4>6. Good(m + 1)
        BY <4>1, <4>2, <4>4, <4>5
      <4>7. QED
        BY <4>6
    <3>4. CASE sequence[m + 1] \notin wanted
      <4>1. f[m + 1] = f[m]
        BY <3>2, <3>4
      <4>2. Good(m + 1)
        BY <4>1, <3>1, <3>4
      <4>3. QED
        BY <4>2
    <3>5. QED
      BY <3>3, <3>4
  <2>2. QED
    BY <2>1
<1>4. Nat \subseteq S
  BY <1>2, <1>3, SetInduction
<1>5. Good(n)
  BY <1>4
<1>6. QED
  BY <1>1, <1>5

\* The elements of a sequence and one more.
THEOREM RangeOfAppend ==
  ASSUME NEW E, NEW sequence \in Seq(E), NEW e \in E
  PROVE  Range(Append(sequence, e)) = Range(sequence) \cup {e}
<1> DEFINE longer == Append(sequence, e)
           n == Len(sequence)
<1>1. /\ n \in Nat /\ DOMAIN sequence = 1 .. n /\ DOMAIN longer = 1 .. n + 1
      /\ longer[n + 1] = e /\ \A i \in 1 .. n : longer[i] = sequence[i]
  OBVIOUS
<1> HIDE DEF longer, n
<1>2. 1 .. n + 1 = 1 .. n \cup {n + 1}
  BY <1>1
<1>3. Range(longer) = Range(sequence) \cup {e}
  BY <1>1, <1>2 DEF Range
<1>4. QED
  BY <1>3 DEF longer

\* The elements of a sequence, when it is taken apart, joined or mapped.
THEOREM RangeOfTail ==
  ASSUME NEW E, NEW sequence \in Seq(E), sequence # <<>>
  PROVE  /\ Head(sequence) \in E /\ Head(sequence) \in Range(sequence) /\ Tail(sequence) \in Seq(E)
         /\ Range(sequence) = {Head(sequence)} \cup Range(Tail(sequence))
<1> DEFINE n == Len(sequence)
           rest == Tail(sequence)
<1>1. /\ n \in Nat /\ n >= 1 /\ DOMAIN sequence = 1 .. n /\ Head(sequence) = sequence[1] /\ Head(sequence) \in E
      /\ rest \in Seq(E) /\ DOMAIN rest = 1 .. n - 1 /\ \A i \in 1 .. n - 1 : rest[i] = sequence[i + 1]
  OBVIOUS
<1> HIDE DEF n, rest
<1>2. \A i \in 1 .. n : i = 1 \/ (i - 1 \in 1 .. n - 1 /\ (i - 1) + 1 = i)
  BY <1>1
<1>3. \A i \in 1 .. n - 1 : i + 1 \in 1 .. n
  BY <1>1
<1>4. 1 \in 1 .. n
  BY <1>1
<1>5. Range(sequence) \subseteq {Head(sequence)} \cup Range(rest)
  <2>1. ASSUME NEW i \in 1 .. n
        PROVE  sequence[i] = Head(sequence) \/ sequence[i] \in Range(rest)
    <3>1. CASE i = 1
      BY <1>1, <3>1
    <3>2. CASE i - 1 \in 1 .. n - 1 /\ (i - 1) + 1 = i
      <4>1. rest[i - 1] = sequence[i]
        BY <1>1, <3>2
      <4>2. QED
        BY <1>1, <3>2, <4>1 DEF Range
    <3>3. QED
      BY <1>2, <3>1, <3>2
  <2>2. QED
    BY <1>1, <2>1 DEF Range
<1>6. {Head(sequence)} \cup Range(rest) \subseteq Range(sequence)
  BY <1>1, <1>3, <1>4 DEF Range
<1>7. QED
  BY <1>1, <1>5, <1>6 DEF rest

\* Two sequences one after the other have the elements of both.
THEOREM RangeOfJoin ==
  ASSUME NEW E, NEW one \in Seq(E), NEW other \in Seq(E)
  PROVE  one \o other \in Seq(E) /\ Range(one \o other) = Range(one) \cup Range(other)
<1> DEFINE both == one \o other
           m == Len(one)
           n == Len(other)
<1>1. /\ m \in Nat /\ n \in Nat /\ DOMAIN one = 1 .. m /\ DOMAIN other = 1 .. n
      /\ both \in Seq(E) /\ DOMAIN both = 1 .. m + n
      /\ \A i \in 1 .. m : both[i] = one[i]
      /\ \A i \in 1 .. n : both[m + i] = other[i]
  OBVIOUS
<1> HIDE DEF m, n, both
<1>2. /\ \A i \in 1 .. m : i \in 1 .. m + n
      /\ \A i \in 1 .. n : m + i \in 1 .. m + n
      /\ \A i \in 1 .. m + n : i \in 1 .. m \/ (i - m \in 1 .. n /\ m + (i - m) = i)
  BY <1>1
<1>3. Range(both) \subseteq Range(one) \cup Range(other)
  <2>1. ASSUME NEW i \in 1 .. m + n
        PROVE  both[i] \in Range(one) \cup Range(other)
    <3>1. CASE i \in 1 .. m
      BY <1>1, <3>1 DEF Range
    <3>2. CASE i - m \in 1 .. n /\ m + (i - m) = i
      <4>1. both[i] = other[i - m]
        BY <1>1, <3>2
      <4>2. QED
        BY <1>1, <3>2, <4>1 DEF Range
    <3>3. QED
      BY <1>2, <3>1, <3>2
  <2>2. QED
    BY <1>1, <2>1 DEF Range
<1>4. Range(one) \cup Range(other) \subseteq Range(both)
  <2>1. ASSUME NEW i \in 1 .. m
        PROVE  one[i] \in Range(both)
    <3>1. i \in DOMAIN both /\ one[i] = both[i]
      BY <1>1, <1>2
    <3>2. QED
      BY <3>1 DEF Range
  <2>2. ASSUME NEW i \in 1 .. n
        PROVE  other[i] \in Range(both)
    <3>1. m + i \in DOMAIN both /\ other[i] = both[m + i]
      BY <1>1, <1>2
    <3>2. QED
      BY <3>1 DEF Range
  <2>3. QED
    BY <1>1, <2>1, <2>2 DEF Range
<1>5. QED
  BY <1>1, <1>3, <1>4 DEF both

\* The elements of a sequence over a set are in the set.
THEOREM RangeIsIn ==
  ASSUME NEW E, NEW sequence \in Seq(E)
  PROVE  Range(sequence) \subseteq E /\ Range(<<>>) = {}
BY DEF Range


\* What is kept of a sequence.
THEOREM RangeOfKept ==
  ASSUME NEW E, NEW sequence \in Seq(E), NEW wanted
  PROVE  Range(Kept(sequence, wanted)) = Range(sequence) \cap wanted
<1> DEFINE kept == Kept(sequence, wanted)
<1>1. /\ kept \in Seq(E)
      /\ \A i \in 1 .. Len(kept) : kept[i] \in wanted /\ \E j \in 1 .. Len(sequence) : kept[i] = sequence[j]
      /\ \A j \in 1 .. Len(sequence) : sequence[j] \in wanted => \E i \in 1 .. Len(kept) : kept[i] = sequence[j]
  BY KeptElements
<1> HIDE DEF kept
<1>2. DOMAIN kept = 1 .. Len(kept) /\ DOMAIN sequence = 1 .. Len(sequence)
  BY <1>1
<1>3. ASSUME NEW e \in Range(kept)
      PROVE  e \in Range(sequence) \cap wanted
  <2>1. PICK i \in 1 .. Len(kept) : e = kept[i]
    BY <1>2 DEF Range
  <2>2. kept[i] \in wanted /\ \E j \in 1 .. Len(sequence) : kept[i] = sequence[j]
    BY <1>1
  <2>3. QED
    BY <2>1, <2>2, <1>2 DEF Range
<1>4. ASSUME NEW e \in Range(sequence) \cap wanted
      PROVE  e \in Range(kept)
  <2>1. PICK j \in 1 .. Len(sequence) : e = sequence[j]
    BY <1>2 DEF Range
  <2>2. \E i \in 1 .. Len(kept) : kept[i] = sequence[j]
    BY <1>1, <2>1
  <2>3. QED
    BY <2>1, <2>2, <1>2 DEF Range
<1>5. Range(kept) = Range(sequence) \cap wanted
  BY <1>3, <1>4
<1>6. QED
  BY <1>5 DEF kept

-----------------------------------------------------------------------------
\* Sums.

\* The value the recursion of SumFunctionOnSet gives a set of indices.
PartOf(F, f, s) == IF s = {} THEN 0 ELSE LET x == CHOOSE x \in s : TRUE IN f[x] + F[s \ {x}]

SumsBy(F, f, U) == F = [s \in SUBSET U |-> PartOf(F, f, s)]

\* Finite sets with one element less.
LEMMA OneLess ==
  ASSUME NEW U, IsFiniteSet(U), NEW s \in SUBSET U, NEW x \in s
  PROVE  /\ IsFiniteSet(s) /\ s \ {x} \in SUBSET U
         /\ Cardinality(s) \in Nat /\ Cardinality(s) >= 1 /\ Cardinality(s \ {x}) = Cardinality(s) - 1
<1>1. IsFiniteSet(s)
  BY FS_Subset
<1>2. Cardinality(s) \in Nat /\ Cardinality(s \ {x}) = Cardinality(s) - 1 /\ IsFiniteSet(s \ {x})
  BY <1>1, FS_CardinalityType, FS_RemoveElement
<1>3. Cardinality(s \ {x}) \in Nat
  BY <1>2, FS_CardinalityType
<1>4. QED
  BY <1>1, <1>2, <1>3

\* The recursion defines a function, to the integers.
LEMMA SumsExist ==
  ASSUME NEW U, IsFiniteSet(U), NEW f, \A x \in U : f[x] \in Int
  PROVE  \E F \in [SUBSET U -> Int] : SumsBy(F, f, U)
<1> DEFINE Upto(k, F) == \A s \in SUBSET U : Cardinality(s) <= k => F[s] = PartOf(F, f, s)
           P == {k \in Nat : \E F \in [SUBSET U -> Int] : Upto(k, F)}
<1>0. \A s \in SUBSET U : Cardinality(s) \in Nat /\ (Cardinality(s) = 0 => s = {})
  BY FS_Subset, FS_CardinalityType, FS_EmptySet
<1>1. 0 \in P
  <2> DEFINE F == [s \in SUBSET U |-> 0]
  <2>1. F \in [SUBSET U -> Int]
    OBVIOUS
  <2>2. \A s \in SUBSET U : Cardinality(s) <= 0 => s = {}
    BY <1>0
  <2>3. Upto(0, F)
    BY <2>2 DEF PartOf
  <2>4. QED
    BY <2>1, <2>3
<1>2. ASSUME NEW k \in Nat, k \in P
      PROVE  k + 1 \in P
  <2>1. PICK F \in [SUBSET U -> Int] : Upto(k, F)
    BY <1>2
  <2> DEFINE G == [s \in SUBSET U |-> IF Cardinality(s) <= k THEN F[s] ELSE PartOf(F, f, s)]
  <2>2. ASSUME NEW s \in SUBSET U, s # {}
        PROVE  LET x == CHOOSE x \in s : TRUE
               IN  x \in s /\ f[x] \in Int /\ s \ {x} \in SUBSET U /\ Cardinality(s \ {x}) = Cardinality(s) - 1
    <3> DEFINE x == CHOOSE x \in s : TRUE
    <3>1. x \in s
      BY <2>2
    <3>2. s \ {x} \in SUBSET U /\ Cardinality(s \ {x}) = Cardinality(s) - 1
      BY <3>1, OneLess
    <3>3. QED
      BY <3>1, <3>2
  <2>3. G \in [SUBSET U -> Int]
    <3>1. ASSUME NEW s \in SUBSET U
          PROVE  PartOf(F, f, s) \in Int
      <4>1. CASE s = {}
        BY <4>1 DEF PartOf
      <4>2. CASE s # {}
        BY <2>1, <2>2, <4>2 DEF PartOf
      <4>3. QED
        BY <4>1, <4>2
    <3>2. QED
      BY <3>1, <2>1
  <2>4. ASSUME NEW s \in SUBSET U, Cardinality(s) <= k + 1
        PROVE  G[s] = PartOf(G, f, s)
    <3>1. PartOf(G, f, s) = PartOf(F, f, s)
      <4>1. CASE s = {}
        BY <4>1 DEF PartOf
      <4>2. CASE s # {}
        <5> DEFINE x == CHOOSE x \in s : TRUE
        <5>1. s \ {x} \in SUBSET U /\ Cardinality(s \ {x}) = Cardinality(s) - 1
          BY <2>2, <4>2
        <5>2. Cardinality(s) \in Nat
          BY <1>0
        <5>3. G[s \ {x}] = F[s \ {x}]
          BY <5>1, <5>2, <2>4
        <5>4. PartOf(G, f, s) = f[x] + G[s \ {x}] /\ PartOf(F, f, s) = f[x] + F[s \ {x}]
          BY <4>2 DEF PartOf
        <5>5. QED
          BY <5>3, <5>4
      <4>3. QED
        BY <4>1, <4>2
    <3>2. CASE Cardinality(s) <= k
      BY <2>1, <3>1, <3>2
    <3>3. CASE ~ (Cardinality(s) <= k)
      BY <3>1, <3>3
    <3>4. QED
      BY <3>2, <3>3
  <2>5. Upto(k + 1, G)
    BY <2>4
  <2> HIDE DEF G
  <2>6. QED
    BY <2>3, <2>5
<1>3. Nat \subseteq P
  BY <1>1, <1>2, SetInduction
<1>4. Cardinality(U) \in Nat
  BY FS_CardinalityType
<1>5. PICK F \in [SUBSET U -> Int] : Upto(Cardinality(U), F)
  BY <1>3, <1>4
<1>6. \A s \in SUBSET U : Cardinality(s) <= Cardinality(U)
  BY FS_Subset
<1>7. \A s \in SUBSET U : F[s] = PartOf(F, f, s)
  BY <1>5, <1>6
<1>8. F = [s \in SUBSET U |-> PartOf(F, f, s)]
  BY <1>7
<1>9. QED
  BY <1>8 DEF SumsBy

\* It only looks at the values of the indices it sums over.
LEMMA SumsAgree ==
  ASSUME NEW U, NEW W, IsFiniteSet(U), NEW f, NEW g, NEW F, NEW G, SumsBy(F, f, U), SumsBy(G, g, W),
         NEW S \in SUBSET U, S \in SUBSET W, \A x \in S : f[x] = g[x]
  PROVE  F[S] = G[S]
<1> DEFINE P == {k \in Nat : \A s \in SUBSET S : Cardinality(s) = k => F[s] = G[s]}
<1>a. \A s \in SUBSET S : F[s] = PartOf(F, f, s) /\ G[s] = PartOf(G, g, s)
  BY DEF SumsBy
<1>b. \A s \in SUBSET S : Cardinality(s) \in Nat /\ (Cardinality(s) = 0 => s = {})
  BY FS_Subset, FS_CardinalityType, FS_EmptySet
<1>1. 0 \in P
  BY <1>a, <1>b DEF PartOf
<1>2. ASSUME NEW k \in Nat, k \in P
      PROVE  k + 1 \in P
  <2>1. ASSUME NEW s \in SUBSET S, Cardinality(s) = k + 1
        PROVE  F[s] = G[s]
    <3>1. s # {}
      BY <2>1, FS_EmptySet
    <3> DEFINE x == CHOOSE x \in s : TRUE
    <3>2. x \in s /\ s \in SUBSET U
      BY <3>1
    <3>a. Cardinality(s \ {x}) = Cardinality(s) - 1
      BY <3>2, OneLess
    <3>3. s \ {x} \in SUBSET S /\ Cardinality(s \ {x}) = k
      BY <2>1, <3>a
    <3>4. F[s \ {x}] = G[s \ {x}] /\ f[x] = g[x]
      BY <1>2, <3>2, <3>3
    <3>5. F[s] = f[x] + F[s \ {x}] /\ G[s] = g[x] + G[s \ {x}]
      BY <1>a, <3>1 DEF PartOf
    <3>6. QED
      BY <3>4, <3>5
  <2>2. QED
    BY <2>1
<1>3. Nat \subseteq P
  BY <1>1, <1>2, SetInduction
<1>4. QED
  BY <1>3, <1>b

\* The recursion may take its elements in any order.
IntegerSums(F, f, U) ==
  IsFiniteSet(U) /\ (\A x \in U : f[x] \in Int) /\ F \in [SUBSET U -> Int] /\ SumsBy(F, f, U)

InAnyOrder(F, f, U) == \A s \in SUBSET U : \A z \in s : F[s] = f[z] + F[s \ {z}]

LEMMA SumsTake ==
  ASSUME NEW U, NEW f, NEW F, IntegerSums(F, f, U)
  PROVE  InAnyOrder(F, f, U)
<1> USE DEF IntegerSums, InAnyOrder
<1> DEFINE P == {k \in Nat : \A s \in SUBSET U : Cardinality(s) = k => \A z \in s : F[s] = f[z] + F[s \ {z}]}
<1>a. \A s \in SUBSET U : F[s] = PartOf(F, f, s)
  BY DEF SumsBy
<1>b. \A s \in SUBSET U : Cardinality(s) \in Nat /\ (Cardinality(s) = 0 => s = {})
  BY FS_Subset, FS_CardinalityType, FS_EmptySet
<1>1. 0 \in P
  BY <1>b
<1>2. ASSUME NEW k \in Nat, k \in P
      PROVE  k + 1 \in P
  <2>1. ASSUME NEW s \in SUBSET U, Cardinality(s) = k + 1, NEW z \in s
        PROVE  F[s] = f[z] + F[s \ {z}]
    <3> DEFINE x == CHOOSE x \in s : TRUE
    <3>1. x \in s /\ F[s] = f[x] + F[s \ {x}]
      BY <1>a DEF PartOf
    <3>2. CASE x = z
      BY <3>1, <3>2
    <3>3. CASE x # z
      <4>a. Cardinality(s \ {x}) = Cardinality(s) - 1
        BY <3>1, OneLess
      <4>b. Cardinality(s \ {z}) = Cardinality(s) - 1
        BY OneLess
      <4>1. /\ s \ {x} \in SUBSET U /\ Cardinality(s \ {x}) = k
            /\ s \ {z} \in SUBSET U /\ Cardinality(s \ {z}) = k
        BY <2>1, <4>a, <4>b
      <4>2. z \in s \ {x} /\ x \in s \ {z}
        BY <3>1, <3>3
      <4>3. F[s \ {x}] = f[z] + F[(s \ {x}) \ {z}] /\ F[s \ {z}] = f[x] + F[(s \ {z}) \ {x}]
        BY <1>2, <4>1, <4>2
      <4>4. (s \ {x}) \ {z} = (s \ {z}) \ {x} /\ (s \ {x}) \ {z} \in SUBSET U
        OBVIOUS
      <4>5. f[x] \in Int /\ f[z] \in Int /\ F[(s \ {x}) \ {z}] \in Int
        BY <3>1, <4>4
      <4> HIDE DEF x
      <4> DEFINE a == f[x]
                 b == f[z]
                 r == F[(s \ {x}) \ {z}]
      <4>6. F[s] = a + (b + r)
        BY <3>1, <4>3
      <4>7. b + F[s \ {z}] = b + (a + r)
        BY <4>3, <4>4
      <4>8. a \in Int /\ b \in Int /\ r \in Int
        BY <4>5
      <4> HIDE DEF a, b, r
      <4>9. a + (b + r) = b + (a + r)
        BY <4>8
      <4>10. F[s] = b + F[s \ {z}]
        BY <4>6, <4>7, <4>9
      <4>11. QED
        BY <4>10 DEF b
    <3>4. QED
      BY <3>2, <3>3
  <2>2. QED
    BY <2>1
<1>3. Nat \subseteq P
  BY <1>1, <1>2, SetInduction
<1>4. QED
  BY <1>3, <1>b

\* The sum is the last value of its recursion.
LEMMA SumIs ==
  ASSUME NEW U, IsFiniteSet(U), NEW f, \A x \in U : f[x] \in Int
  PROVE  \E F \in [SUBSET U -> Int] : SumsBy(F, f, U) /\ SumFunctionOnSet(f, U) = F[U]
<1> DEFINE chosen == CHOOSE F : SumsBy(F, f, U)
<1>1. PICK F \in [SUBSET U -> Int] : SumsBy(F, f, U)
  BY SumsExist
<1>2. SumsBy(chosen, f, U)
  BY <1>1
<1>3. SumFunctionOnSet(f, U) = chosen[U]
  BY DEF SumFunctionOnSet, FoldFunctionOnSet, MapThenFoldSet, SumsBy, PartOf
<1> HIDE DEF chosen
<1>4. chosen[U] = F[U]
  BY <1>1, <1>2, SumsAgree
<1>5. QED
  BY <1>1, <1>3, <1>4

\* The value of SumFunctionOnSet is an integer.
THEOREM SumType ==
  ASSUME NEW U, IsFiniteSet(U), NEW f, \A x \in U : f[x] \in Int
  PROVE  SumFunctionOnSet(f, U) \in Int
<1>1. PICK F \in [SUBSET U -> Int] : SumFunctionOnSet(f, U) = F[U]
  BY SumIs
<1>2. U \in SUBSET U
  OBVIOUS
<1>3. QED
  BY <1>1, <1>2

\* No summands.
THEOREM SumOfNothing ==
  ASSUME NEW f
  PROVE  SumFunctionOnSet(f, {}) = 0
<1>1. IsFiniteSet({}) /\ \A x \in {} : f[x] \in Int
  BY FS_EmptySet
<1>2. PICK F \in [SUBSET {} -> Int] : SumsBy(F, f, {}) /\ SumFunctionOnSet(f, {}) = F[{}]
  BY <1>1, SumIs
<1>3. F[{}] = PartOf(F, f, {})
  BY <1>2 DEF SumsBy
<1>4. QED
  BY <1>2, <1>3 DEF PartOf

\* The sum depends on the summands alone.
THEOREM SumSame ==
  ASSUME NEW U, IsFiniteSet(U), NEW f, NEW g, \A x \in U : f[x] \in Int /\ f[x] = g[x]
  PROVE  SumFunctionOnSet(f, U) = SumFunctionOnSet(g, U)
<1>0. \A x \in U : g[x] \in Int
  OBVIOUS
<1>1. PICK F \in [SUBSET U -> Int] : SumsBy(F, f, U) /\ SumFunctionOnSet(f, U) = F[U]
  BY SumIs
<1>2. PICK G \in [SUBSET U -> Int] : SumsBy(G, g, U) /\ SumFunctionOnSet(g, U) = G[U]
  BY <1>0, SumIs
<1>3. F[U] = G[U]
  BY <1>1, <1>2, SumsAgree
<1>4. QED
  BY <1>1, <1>2, <1>3

\* Any summand can be taken out.
THEOREM SumTake ==
  ASSUME NEW U, IsFiniteSet(U), NEW f, \A x \in U : f[x] \in Int, NEW y \in U
  PROVE  SumFunctionOnSet(f, U) = f[y] + SumFunctionOnSet(f, U \ {y})
<1> DEFINE W == U \ {y}
<1>0. IsFiniteSet(W) /\ \A x \in W : f[x] \in Int
  BY FS_RemoveElement
<1>1. PICK F : F \in [SUBSET U -> Int] /\ SumsBy(F, f, U) /\ SumFunctionOnSet(f, U) = F[U]
  BY SumIs
<1>a. \A S \in SUBSET U : \A z \in S : F[S] = f[z] + F[S \ {z}]
  <2>1. IntegerSums(F, f, U)
    BY <1>1 DEF IntegerSums
  <2>2. InAnyOrder(F, f, U)
    BY <2>1, SumsTake
  <2>3. QED
    BY <2>2 DEF InAnyOrder
<1>2. PICK G \in [SUBSET W -> Int] : SumsBy(G, f, W) /\ SumFunctionOnSet(f, W) = G[W]
  BY <1>0, SumIs
<1>3. W \in SUBSET U /\ W \in SUBSET W
  OBVIOUS
<1>4. F[W] = G[W]
  BY <1>0, <1>1, <1>2, <1>3, SumsAgree
<1>5. F[U] = f[y] + F[U \ {y}]
  BY <1>a
<1>6. QED
  BY <1>1, <1>2, <1>4, <1>5

\* A sum of natural numbers is one.
THEOREM SumOfNaturals ==
  ASSUME NEW U, IsFiniteSet(U), NEW f, \A x \in U : f[x] \in Nat
  PROVE  SumFunctionOnSet(f, U) \in Nat
<1> DEFINE P == {k \in Nat : \A s \in SUBSET U : Cardinality(s) = k => SumFunctionOnSet(f, s) \in Nat}
<1>0. \A s \in SUBSET U : IsFiniteSet(s) /\ Cardinality(s) \in Nat /\ (Cardinality(s) = 0 => s = {})
  BY FS_Subset, FS_CardinalityType, FS_EmptySet
<1>1. 0 \in P
  BY <1>0, SumOfNothing
<1>2. ASSUME NEW k \in Nat, k \in P
      PROVE  k + 1 \in P
  <2>1. ASSUME NEW s \in SUBSET U, Cardinality(s) = k + 1
        PROVE  SumFunctionOnSet(f, s) \in Nat
    <3>1. s # {}
      BY <2>1, FS_EmptySet
    <3>2. PICK y : y \in s
      BY <3>1
    <3>3. SumFunctionOnSet(f, s) = f[y] + SumFunctionOnSet(f, s \ {y})
      <4>1. IsFiniteSet(s) /\ \A x \in s : f[x] \in Int
        BY <1>0
      <4>2. QED
        BY <3>2, <4>1, SumTake
    <3>4. s \ {y} \in SUBSET U /\ Cardinality(s \ {y}) = Cardinality(s) - 1
      BY <3>2, OneLess
    <3>5. SumFunctionOnSet(f, s \ {y}) \in Nat
      BY <1>2, <2>1, <3>4
    <3>6. f[y] \in Nat
      BY <3>2
    <3>7. QED
      BY <3>3, <3>5, <3>6
  <2>2. QED
    BY <2>1
<1>3. Nat \subseteq P
  BY <1>1, <1>2, SetInduction
<1>4. QED
  BY <1>0, <1>3

\* What a function contributes to its sum at one argument, nothing where it is undefined.
ShareOf(f, y) == IF y \in DOMAIN f THEN f[y] ELSE 0

\* Two functions that differ at one argument at most have sums that differ by what they
\* contribute there: an element added, removed or changed.
THEOREM SumApart ==
  ASSUME NEW f, NEW g, NEW y, IsFiniteSet(DOMAIN f), IsFiniteSet(DOMAIN g),
         \A x \in DOMAIN f : f[x] \in Int, \A x \in DOMAIN g : g[x] \in Int,
         (DOMAIN f) \ {y} = (DOMAIN g) \ {y},
         \A x \in (DOMAIN f) \ {y} : f[x] = g[x]
  PROVE  /\ SumFunction(f) \in Int /\ SumFunction(g) \in Int
         /\ SumFunction(g) - ShareOf(g, y) = SumFunction(f) - ShareOf(f, y)
<1> DEFINE U == DOMAIN f
           W == DOMAIN g
           R == U \ {y}
           rest == SumFunctionOnSet(f, R)
<1>1. IsFiniteSet(R) /\ R \subseteq U
  BY FS_Subset
<1>2. rest \in Int
  <2>1. \A x \in R : f[x] \in Int
    OBVIOUS
  <2>2. QED
    BY <1>1, <2>1, SumType
<1>3. rest = SumFunctionOnSet(g, R)
  <2>1. \A x \in R : f[x] \in Int /\ f[x] = g[x]
    OBVIOUS
  <2>2. QED
    BY <1>1, <2>1, SumSame
<1>4. SumFunctionOnSet(f, U) = ShareOf(f, y) + rest /\ ShareOf(f, y) \in Int
  <2>1. CASE y \in U
    BY <2>1, SumTake DEF ShareOf
  <2>2. CASE y \notin U
    <3>1. R = U
      BY <2>2
    <3>2. QED
      BY <1>2, <2>2, <3>1 DEF ShareOf
  <2>3. QED
    BY <2>1, <2>2
<1>5. SumFunctionOnSet(g, W) = ShareOf(g, y) + rest /\ ShareOf(g, y) \in Int
  <2>1. W \ {y} = R
    OBVIOUS
  <2>2. CASE y \in W
    BY <1>3, <2>1, <2>2, SumTake DEF ShareOf
  <2>3. CASE y \notin W
    <3>1. R = W
      BY <2>1, <2>3
    <3>2. QED
      BY <1>2, <1>3, <2>3, <3>1 DEF ShareOf
  <2>4. QED
    BY <2>2, <2>3
<1>6. SumFunction(f) = SumFunctionOnSet(f, U) /\ SumFunction(g) = SumFunctionOnSet(g, W)
  BY DEF SumFunction
<1> HIDE DEF rest, U, W
<1>7. QED
  BY <1>2, <1>4, <1>5, <1>6
=============================================================================
