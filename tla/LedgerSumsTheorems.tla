------------------------ MODULE LedgerSumsTheorems ------------------------
(***************************************************************************)
(* What the sums of LedgerSums satisfy, for every table, and that a finite *)
(* set of numbers has a largest one.  The inductions they need are over    *)
(* the length of the table and over the subsets of the set; the lemmas     *)
(* NatSetInduction and FiniteSetInduction turn the well-foundedness of <   *)
(* into facts about sets that can be cited.                                *)
(***************************************************************************)
EXTENDS LedgerSums, FiniteSetTheorems, TLAPS

\* Induction over the naturals, stated for a set so that it can be cited: a
\* set that holds 0 and is closed under successor holds every natural.
LEMMA NatSetInduction ==
  ASSUME NEW S, 0 \in S, \A m \in Nat : m \in S => m + 1 \in S
  PROVE  Nat \subseteq S
<1> DEFINE R == {ss \in Nat \X Nat : ss[1] < ss[2]}
           T == Nat \ S
<1>1. IsWellFoundedOn(R, Nat)
  <2>1. OpToRel(<, Nat) = R
    BY Zenon DEF OpToRel
  <2>2. QED
    BY <2>1, NatLessThanWellFounded, Zenon
<1>2. SUFFICES ASSUME T # {} PROVE FALSE
  OBVIOUS
<1>3. PICK x \in T : \A y \in T : ~ (<<y, x>> \in R)
  BY <1>1, <1>2, WFMin
<1>4. x \in Nat /\ x # 0 /\ x - 1 \in Nat /\ x - 1 < x /\ (x - 1) + 1 = x
  OBVIOUS
<1>5. x - 1 \in S
  BY <1>3, <1>4
<1>6. QED
  BY <1>4, <1>5

\* Induction over the subsets of a finite set: a family that holds the empty set and, with a set, what one more
\* element makes of it holds the whole set.
LEMMA FiniteSetInduction ==
  ASSUME NEW S, IsFiniteSet(S), NEW F, {} \in F,
         \A T \in SUBSET S : \A x \in S : T \in F => T \cup {x} \in F
  PROVE  S \in F
<1> DEFINE N == {m \in Nat : \A T \in SUBSET S : Cardinality(T) = m => T \in F}
<1>1. \A T \in SUBSET S : IsFiniteSet(T) /\ Cardinality(T) \in Nat
  BY FS_Subset, FS_CardinalityType
<1>2. 0 \in N
  BY <1>1, FS_EmptySet
<1>3. ASSUME NEW m \in Nat, m \in N PROVE m + 1 \in N
  <2> SUFFICES ASSUME NEW T \in SUBSET S, Cardinality(T) = m + 1 PROVE T \in F
    OBVIOUS
  <2>1. T # {}
    BY FS_EmptySet
  <2>2. PICK x \in T : TRUE
    BY <2>1
  <2>3. Cardinality(T \ {x}) = m
    BY <1>1, <2>2, FS_RemoveElement
  <2>4. T \ {x} \in F
    BY <1>3, <2>3
  <2>5. T = (T \ {x}) \cup {x}
    BY <2>2
  <2> QED BY <2>2, <2>4, <2>5
<1> HIDE DEF N
<1>4. Nat \subseteq N
  BY <1>2, <1>3, NatSetInduction
<1>5. S \in SUBSET S /\ Cardinality(S) \in N
  BY <1>1, <1>4
<1> QED BY <1>5 DEF N

\* What a function makes of a finite set is finite.
LEMMA FiniteImage ==
  ASSUME NEW S, IsFiniteSet(S), NEW f
  PROVE  IsFiniteSet({f[x] : x \in S})
<1> DEFINE g == [x \in S |-> f[x]]
           T == {f[x] : x \in S}
<1>1. g \in [S -> T] /\ \A t \in T : \E x \in S : g[x] = t
  OBVIOUS
<1>2. g \in Surjection(S, T)
  BY <1>1 DEF Surjection
<1> QED BY <1>2, FS_Surjection

\* A finite set of numbers that is not empty has a largest one.
LEMMA FiniteMax ==
  ASSUME NEW S \in SUBSET Int, IsFiniteSet(S), S # {}
  PROVE  \E m \in S : \A x \in S : x <= m
<1> DEFINE F == {T \in SUBSET S : T = {} \/ \E m \in T : \A x \in T : x <= m}
<1>1. {} \in F
  OBVIOUS
<1>2. ASSUME NEW T \in SUBSET S, NEW y \in S, T \in F PROVE T \cup {y} \in F
  <2>1. CASE T = {}
    BY <2>1
  <2>2. CASE T # {}
    <3>1. PICK m \in T : \A x \in T : x <= m
      BY <1>2, <2>2
    <3>2. CASE y <= m
      BY <3>1, <3>2
    <3>3. CASE ~(y <= m)
      <4>1. m < y /\ \A x \in T : x <= y
        BY <3>1, <3>3
      <4> QED BY <4>1
    <3> QED BY <3>2, <3>3
  <2> QED BY <2>1, <2>2
<1> HIDE DEF F
<1>3. S \in F
  BY <1>1, <1>2, FiniteSetInduction
<1> QED BY <1>3 DEF F

\* g is the running total of f up to n.
IsPrefixSum(g, f, n) == g = [i \in 0..n |-> IF i = 0 THEN 0 ELSE g[i - 1] + f[i]]

\* The recursive function behind SumTo has a solution on every prefix.
LEMMA PrefixExists ==
  ASSUME NEW f
  PROVE  \A n \in Nat : \E g : IsPrefixSum(g, f, n)
<1> DEFINE S == {m \in Nat : \E g : IsPrefixSum(g, f, m)}
<1>1. 0 \in S
  <2>1. IsPrefixSum([i \in 0..0 |-> 0], f, 0)
    BY DEF IsPrefixSum
  <2>2. QED BY <2>1
<1>2. ASSUME NEW m \in Nat, m \in S PROVE m + 1 \in S
  <2>1. PICK g : IsPrefixSum(g, f, m)
    BY <1>2
  <2> DEFINE h == [i \in 0..(m + 1) |-> IF i = m + 1 THEN g[m] + f[m + 1] ELSE g[i]]
  <2>2. ASSUME NEW i \in 0..(m + 1) PROVE h[i] = IF i = 0 THEN 0 ELSE h[i - 1] + f[i]
    <3>1. CASE i = m + 1
      BY <3>1
    <3>2. CASE i # m + 1
      <4>1. i \in 0..m /\ h[i] = g[i] /\ (i # 0 => h[i - 1] = g[i - 1])
        BY <3>2
      <4>2. QED BY <2>1, <4>1 DEF IsPrefixSum
    <3>3. QED BY <3>1, <3>2
  <2>3. h = [i \in 0..(m + 1) |-> h[i]]
    OBVIOUS
  <2> HIDE DEF h
  <2>4. IsPrefixSum(h, f, m + 1)
    BY <2>2, <2>3 DEF IsPrefixSum
  <2>5. QED BY <2>4
<1> HIDE DEF S
<1>3. Nat \subseteq S
  BY <1>1, <1>2, NatSetInduction
<1>4. QED BY <1>3 DEF S

\* SumTo reads off the last value of such a solution.
LEMMA SumToPrefix ==
  ASSUME NEW f, NEW n \in Nat
  PROVE  \E g : IsPrefixSum(g, f, n) /\ SumTo(f, n) = g[n]
<1> DEFINE g == CHOOSE g : IsPrefixSum(g, f, n)
<1>1. IsPrefixSum(g, f, n)
  BY PrefixExists, Zenon
<1>2. SumTo(f, n) = g[n]
  BY DEF SumTo, IsPrefixSum
<1>3. QED
  BY <1>1, <1>2, Zenon

\* The recurrence a solution satisfies.
LEMMA PrefixRecurrence ==
  ASSUME NEW f, NEW n \in Nat, NEW g, IsPrefixSum(g, f, n)
  PROVE  g[0] = 0 /\ \A i \in 1..n : g[i] = g[i - 1] + f[i]
  BY DEF IsPrefixSum

\* Two solutions agree where they are both defined.
LEMMA PrefixUnique ==
  ASSUME NEW f, NEW h, NEW n \in Nat, NEW m \in Nat, n <= m,
         \A i \in 1..n : f[i] = h[i],
         NEW g, IsPrefixSum(g, f, n), NEW k, IsPrefixSum(k, h, m)
  PROVE  g[n] = k[n]
<1> DEFINE S == {i \in Nat : i <= n => g[i] = k[i]}
<1>1. 0 \in S
  BY PrefixRecurrence
<1>2. ASSUME NEW i \in Nat, i \in S PROVE i + 1 \in S
  <2>1. SUFFICES ASSUME i + 1 <= n PROVE g[i + 1] = k[i + 1]
    OBVIOUS
  <2>2. i + 1 \in 1..n /\ i + 1 \in 1..m /\ (i + 1) - 1 = i /\ g[i] = k[i]
    BY <1>2, <2>1
  <2>3. g[i + 1] = g[(i + 1) - 1] + f[i + 1] /\ k[i + 1] = k[(i + 1) - 1] + h[i + 1]
    BY <2>2, PrefixRecurrence
  <2>4. QED BY <2>2, <2>3
<1> HIDE DEF S
<1>3. Nat \subseteq S
  BY <1>1, <1>2, NatSetInduction
<1>4. QED BY <1>3 DEF S

\* The empty sum.
LEMMA SumToZero ==
  ASSUME NEW f
  PROVE  SumTo(f, 0) = 0
<1>1. PICK g : IsPrefixSum(g, f, 0) /\ SumTo(f, 0) = g[0]
  BY SumToPrefix
<1>2. QED BY <1>1 DEF IsPrefixSum

\* One more term.
LEMMA SumToStep ==
  ASSUME NEW f, NEW n \in Nat
  PROVE  SumTo(f, n + 1) = SumTo(f, n) + f[n + 1]
<1>1. PICK g : IsPrefixSum(g, f, n) /\ SumTo(f, n) = g[n]
  BY SumToPrefix
<1>2. n + 1 \in Nat /\ n <= n + 1 /\ n + 1 \in 1..(n + 1) /\ (n + 1) - 1 = n
  OBVIOUS
<1>3. PICK k : IsPrefixSum(k, f, n + 1) /\ SumTo(f, n + 1) = k[n + 1]
  BY <1>2, SumToPrefix
<1>4. g[n] = k[n]
  BY <1>1, <1>2, <1>3, PrefixUnique
<1>5. k[n + 1] = k[(n + 1) - 1] + f[n + 1]
  BY <1>2, <1>3, PrefixRecurrence
<1>6. QED BY <1>1, <1>2, <1>3, <1>4, <1>5

\* A sum depends on its terms only.
LEMMA SumToExtensional ==
  ASSUME NEW n \in Nat, NEW f, NEW h, \A i \in 1..n : f[i] = h[i]
  PROVE  SumTo(f, n) = SumTo(h, n)
<1> DEFINE S == {m \in Nat : m <= n => SumTo(f, m) = SumTo(h, m)}
<1>1. 0 \in S
  BY SumToZero
<1>2. ASSUME NEW m \in Nat, m \in S PROVE m + 1 \in S
  <2>1. SumTo(f, m + 1) = SumTo(f, m) + f[m + 1] /\ SumTo(h, m + 1) = SumTo(h, m) + h[m + 1]
    BY SumToStep
  <2>2. m + 1 <= n => f[m + 1] = h[m + 1]
    OBVIOUS
  <2>3. QED BY <1>2, <2>1, <2>2
<1> HIDE DEF S
<1>3. Nat \subseteq S
  BY <1>1, <1>2, NatSetInduction
<1>4. QED BY <1>3 DEF S

\* A sum of integers is an integer.
LEMMA SumToType ==
  ASSUME NEW n \in Nat, NEW f, \A i \in 1..n : f[i] \in Int
  PROVE  SumTo(f, n) \in Int
<1> DEFINE S == {m \in Nat : m <= n => SumTo(f, m) \in Int}
<1>1. 0 \in S
  BY SumToZero
<1>2. ASSUME NEW m \in Nat, m \in S PROVE m + 1 \in S
  <2>1. SumTo(f, m + 1) = SumTo(f, m) + f[m + 1]
    BY SumToStep
  <2>2. QED BY <1>2, <2>1
<1> HIDE DEF S
<1>3. Nat \subseteq S
  BY <1>1, <1>2, NatSetInduction
<1>4. QED BY <1>3 DEF S

\* Changing one term moves the sum by as much: what voiding a row does.
LEMMA SumToChange ==
  ASSUME NEW n \in Nat, NEW f, NEW h, NEW p \in 1..n,
         \A i \in 1..n : f[i] \in Int /\ h[i] \in Int,
         \A i \in 1..n : i # p => h[i] = f[i]
  PROVE  SumTo(h, n) = SumTo(f, n) + h[p] - f[p]
<1> DEFINE S == {m \in Nat : m <= n => SumTo(h, m) = SumTo(f, m) + (IF p <= m THEN h[p] - f[p] ELSE 0)}
<1>1. 0 \in S
  BY SumToZero
<1>2. ASSUME NEW m \in Nat, m \in S PROVE m + 1 \in S
  <2>1. SumTo(f, m + 1) = SumTo(f, m) + f[m + 1] /\ SumTo(h, m + 1) = SumTo(h, m) + h[m + 1]
    BY SumToStep
  <2>2. m + 1 <= n => SumTo(f, m) \in Int /\ SumTo(h, m) \in Int
    BY SumToType
  <2>3. QED BY <1>2, <2>1, <2>2
<1> HIDE DEF S
<1>3. Nat \subseteq S
  BY <1>1, <1>2, NatSetInduction
<1>4. n \in S /\ SumTo(f, n) \in Int /\ SumTo(h, n) \in Int
  BY <1>3, SumToType
<1>5. QED BY <1>4 DEF S

\* A sum of naturals is a natural: no balance made of charges is negative.
LEMMA SumToNat ==
  ASSUME NEW n \in Nat, NEW f, \A i \in 1..n : f[i] \in Nat
  PROVE  SumTo(f, n) \in Nat
<1> DEFINE S == {m \in Nat : m <= n => SumTo(f, m) \in Nat}
<1>1. 0 \in S
  BY SumToZero
<1>2. ASSUME NEW m \in Nat, m \in S PROVE m + 1 \in S
  <2>1. SumTo(f, m + 1) = SumTo(f, m) + f[m + 1]
    BY SumToStep
  <2>2. QED BY <1>2, <2>1
<1> HIDE DEF S
<1>3. Nat \subseteq S
  BY <1>1, <1>2, NatSetInduction
<1>4. QED BY <1>3 DEF S

\* A sum of zeros is zero.
LEMMA SumToAllZero ==
  ASSUME NEW n \in Nat, NEW f, \A i \in 1..n : f[i] = 0
  PROVE  SumTo(f, n) = 0
<1> DEFINE S == {m \in Nat : m <= n => SumTo(f, m) = 0}
<1>1. 0 \in S
  BY SumToZero
<1>2. ASSUME NEW m \in Nat, m \in S PROVE m + 1 \in S
  <2>1. SumTo(f, m + 1) = SumTo(f, m) + f[m + 1]
    BY SumToStep
  <2>2. QED BY <1>2, <2>1
<1> HIDE DEF S
<1>3. Nat \subseteq S
  BY <1>1, <1>2, NatSetInduction
<1>4. QED BY <1>3 DEF S

\* The sum of the differences is the difference of the sums.
LEMMA SumToPointwise ==
  ASSUME NEW n \in Nat, NEW f, NEW g, NEW h,
         \A i \in 1..n : f[i] \in Int /\ g[i] \in Int /\ h[i] = f[i] - g[i]
  PROVE  SumTo(h, n) = SumTo(f, n) - SumTo(g, n)
<1> DEFINE S == {m \in Nat : m <= n => SumTo(h, m) = SumTo(f, m) - SumTo(g, m)}
<1>1. 0 \in S
  BY SumToZero
<1>2. ASSUME NEW m \in Nat, m \in S PROVE m + 1 \in S
  <2>1. /\ SumTo(f, m + 1) = SumTo(f, m) + f[m + 1]
        /\ SumTo(g, m + 1) = SumTo(g, m) + g[m + 1]
        /\ SumTo(h, m + 1) = SumTo(h, m) + h[m + 1]
    BY SumToStep
  <2>2. m + 1 <= n => SumTo(f, m) \in Int /\ SumTo(g, m) \in Int
    BY SumToType
  <2>3. QED BY <1>2, <2>1, <2>2
<1> HIDE DEF S
<1>3. Nat \subseteq S
  BY <1>1, <1>2, NatSetInduction
<1>4. QED BY <1>3 DEF S

\* Group(f, key, n, c): the part of f that carries key c.
Group(f, key, n, c) == [i \in 1..n |-> IF key[i] = c THEN f[i] ELSE 0]

\* The sums of the groups in keep, and the terms whose group is in keep.
GroupSums(f, key, n, m, keep) ==
  [c \in 1..m |-> IF c \in keep THEN SumTo(Group(f, key, n, c), n) ELSE 0]
KeptTerms(f, key, n, keep) == [i \in 1..n |-> IF key[i] \in keep THEN f[i] ELSE 0]

\* Summing a table group by group, over the groups in keep, is summing the
\* rows whose group is in keep: the two ways a ledger can be added up agree.
LEMMA SumByGroup ==
  ASSUME NEW n \in Nat, NEW m \in Nat, NEW f, NEW key, NEW keep,
         \A i \in 1..n : f[i] \in Int /\ key[i] \in 1..m
  PROVE  SumTo(GroupSums(f, key, n, m, keep), m) = SumTo(KeptTerms(f, key, n, keep), n)
<1> DEFINE inner == KeptTerms(f, key, n, keep)
<1> DEFINE Part(k) == [c \in 1..m |-> IF c \in keep THEN SumTo(Group(f, key, n, c), k) ELSE 0]
           S == {k \in Nat : k <= n => SumTo(Part(k), m) = SumTo(inner, k)}
<1>0. ASSUME NEW k \in 0..n, NEW c
      PROVE  SumTo(Group(f, key, n, c), k) \in Int
  <2>1. \A i \in 1..k : Group(f, key, n, c)[i] \in Int
    BY DEF Group
  <2>2. QED BY <2>1, SumToType
<1>1. 0 \in S
  <2>1. \A c \in 1..m : Part(0)[c] = 0
    BY SumToZero
  <2>2. SumTo(Part(0), m) = 0
    <3> HIDE DEF Part
    <3> QED BY <2>1, SumToAllZero
  <2>3. QED BY <2>2, SumToZero
<1>2. ASSUME NEW k \in Nat, k \in S PROVE k + 1 \in S
  <2>1. SUFFICES ASSUME k + 1 <= n PROVE SumTo(Part(k + 1), m) = SumTo(inner, k + 1)
    OBVIOUS
  <2>2. k + 1 \in 1..n /\ k \in 0..n /\ k + 1 \in 0..n /\ key[k + 1] \in 1..m /\ f[k + 1] \in Int
    BY <2>1
  <2>3. ASSUME NEW c \in 1..m
        PROVE  SumTo(Group(f, key, n, c), k + 1)
                 = SumTo(Group(f, key, n, c), k) + (IF key[k + 1] = c THEN f[k + 1] ELSE 0)
    <3>1. SumTo(Group(f, key, n, c), k + 1) = SumTo(Group(f, key, n, c), k) + Group(f, key, n, c)[k + 1]
      BY SumToStep
    <3>2. QED BY <2>2, <3>1 DEF Group
  <2>4. \A c \in 1..m : Part(k)[c] \in Int /\ Part(k + 1)[c] \in Int
    BY <1>0, <2>2
  <2>5. \A c \in 1..m : c # key[k + 1] => Part(k + 1)[c] = Part(k)[c]
    <3> TAKE c \in 1..m
    <3>1. HAVE c # key[k + 1]
    <3>2. SumTo(Group(f, key, n, c), k + 1) = SumTo(Group(f, key, n, c), k) + 0
      BY <2>3, <3>1
    <3>3. QED BY <1>0, <2>2, <3>2
  <2>6. Part(k + 1)[key[k + 1]] - Part(k)[key[k + 1]] = inner[k + 1]
    BY <1>0, <2>2, <2>3 DEF KeptTerms
  <2>7. SumTo(Part(k + 1), m) = SumTo(Part(k), m) + Part(k + 1)[key[k + 1]] - Part(k)[key[k + 1]]
    <3> HIDE DEF Part
    <3> QED BY <2>2, <2>4, <2>5, SumToChange
  <2>8. SumTo(Part(k), m) \in Int
    <3> HIDE DEF Part
    <3> QED BY <2>4, SumToType
  <2>9. SumTo(inner, k + 1) = SumTo(inner, k) + inner[k + 1]
    BY SumToStep
  <2>10. SumTo(Part(k), m) = SumTo(inner, k)
    BY <1>2, <2>1
  <2>11. Part(k + 1)[key[k + 1]] \in Int /\ Part(k)[key[k + 1]] \in Int
    BY <2>2, <2>4
  <2>12. QED
    <3> HIDE DEF Part
    <3> QED BY <2>6, <2>7, <2>8, <2>9, <2>10, <2>11
<1>3. GroupSums(f, key, n, m, keep) = Part(n)
  BY DEF GroupSums
<1> HIDE DEF S, Part
<1>4. Nat \subseteq S
  BY <1>1, <1>2, NatSetInduction
<1>5. QED BY <1>3, <1>4 DEF S
-----------------------------------------------------------------------------
(* Sums over finite sets: the SumFunction of the community modules.        *)

\* The element the fold over s takes next.
PickOf(s) == CHOOSE x \in s : TRUE
\* g sums f over each of the given subsets.
IsFold(g, f, S) == g = [s \in SUBSET S |-> IF s = {} THEN 0 ELSE f[PickOf(s)] + g[s \ {PickOf(s)}]]

\* The recursive function behind the sum has a solution when S is finite: by induction over the size of the
\* subsets it is defined on.
LEMMA FoldExists ==
  ASSUME NEW f, NEW S, IsFiniteSet(S)
  PROVE  \E g : IsFold(g, f, S)
<1> DEFINE Small(n) == {s \in SUBSET S : Cardinality(s) <= n}
           Solves(g, n) == g = [s \in Small(n) |-> IF s = {} THEN 0 ELSE f[PickOf(s)] + g[s \ {PickOf(s)}]]
           N == {n \in Nat : \E g : Solves(g, n)}
<1>1. \A s \in SUBSET S : IsFiniteSet(s) /\ Cardinality(s) \in Nat
  BY FS_Subset, FS_CardinalityType
<1>2. \A s \in SUBSET S : s # {} => /\ PickOf(s) \in s
                                    /\ s \ {PickOf(s)} \in SUBSET S
                                    /\ Cardinality(s \ {PickOf(s)}) = Cardinality(s) - 1
  <2> SUFFICES ASSUME NEW s \in SUBSET S, s # {}
               PROVE  PickOf(s) \in s /\ Cardinality(s \ {PickOf(s)}) = Cardinality(s) - 1
    OBVIOUS
  <2>1. PickOf(s) \in s
    BY Zenon DEF PickOf
  <2> QED BY <2>1, <1>1, FS_RemoveElement
<1>3. 0 \in N
  <2> DEFINE g == [s \in Small(0) |-> 0]
  <2>1. \A s \in Small(0) : s = {}
    BY <1>1, FS_EmptySet
  <2>2. Solves(g, 0)
    BY <2>1
  <2> QED BY <2>2
<1>4. ASSUME NEW n \in Nat, n \in N PROVE n + 1 \in N
  <2>1. PICK g : Solves(g, n)
    BY <1>4
  <2> DEFINE h == [s \in Small(n + 1) |-> IF Cardinality(s) = n + 1 THEN f[PickOf(s)] + g[s \ {PickOf(s)}] ELSE g[s]]
  <2>2. ASSUME NEW s \in Small(n + 1)
        PROVE  h[s] = IF s = {} THEN 0 ELSE f[PickOf(s)] + h[s \ {PickOf(s)}]
    <3>1. CASE Cardinality(s) = n + 1
      <4>1. s # {}
        BY <3>1, FS_EmptySet
      <4>2. s \ {PickOf(s)} \in Small(n) /\ s \ {PickOf(s)} \in Small(n + 1) /\ Cardinality(s \ {PickOf(s)}) = n
        BY <3>1, <4>1, <1>2
      <4>3. h[s \ {PickOf(s)}] = g[s \ {PickOf(s)}]
        BY <4>2
      <4> QED BY <3>1, <4>1, <4>3
    <3>2. CASE Cardinality(s) # n + 1
      <4>1. s \in Small(n) /\ h[s] = g[s]
        BY <3>2, <1>1
      <4>2. CASE s = {}
        BY <4>1, <4>2, <2>1
      <4>3. CASE s # {}
        <5>1. s \ {PickOf(s)} \in Small(n + 1) /\ Cardinality(s \ {PickOf(s)}) # n + 1
          BY <4>1, <4>3, <1>1, <1>2
        <5>2. h[s \ {PickOf(s)}] = g[s \ {PickOf(s)}]
          BY <5>1
        <5>3. g[s] = f[PickOf(s)] + g[s \ {PickOf(s)}]
          BY <4>1, <4>3, <2>1
        <5> QED BY <4>1, <4>3, <5>2, <5>3
      <4> QED BY <4>2, <4>3
    <3> QED BY <3>1, <3>2
  <2>3. h = [s \in Small(n + 1) |-> h[s]]
    OBVIOUS
  <2> HIDE DEF h, Small
  <2>4. Solves(h, n + 1)
    BY <2>2, <2>3
  <2> HIDE DEF Solves
  <2> QED BY <2>4
<1> HIDE DEF N
<1>5. Cardinality(S) \in N
  BY <1>1, <1>3, <1>4, NatSetInduction
<1>6. PICK g : Solves(g, Cardinality(S))
  BY <1>5 DEF N
<1>7. Small(Cardinality(S)) = SUBSET S
  BY FS_Subset, FS_CardinalityType
<1>8. IsFold(g, f, S)
  BY <1>6, <1>7 DEF IsFold
<1> QED BY <1>8

\* The sum reads off such a solution.
LEMMA SumOnFold ==
  ASSUME NEW f, NEW S, IsFiniteSet(S)
  PROVE  \E g : IsFold(g, f, S) /\ SumFunctionOnSet(f, S) = g[S]
<1> DEFINE g == CHOOSE g : IsFold(g, f, S)
<1>1. IsFold(g, f, S)
  BY FoldExists, Zenon
<1>2. SumFunctionOnSet(f, S) = g[S]
  BY DEF SumFunctionOnSet, FoldFunctionOnSet, MapThenFoldSet, IsFold, PickOf
<1> QED BY <1>1, <1>2, Zenon

\* f and h have the same terms over R.
Agree(f, h, R) == \A x \in R : f[x] = h[x]

\* Two solutions agree on the subsets both are defined on, if the terms agree there.
LEMMA FoldUnique ==
  ASSUME NEW f, NEW h, NEW S, NEW T, IsFiniteSet(S), NEW R, R \subseteq S, R \subseteq T,
         Agree(f, h, R),
         NEW g, IsFold(g, f, S), NEW k, IsFold(k, h, T)
  PROVE  g[R] = k[R]
<1> DEFINE N == {n \in Nat : \A s \in SUBSET R : Cardinality(s) = n => g[s] = k[s]}
<1>1. \A s \in SUBSET R : IsFiniteSet(s) /\ Cardinality(s) \in Nat
  BY FS_Subset, FS_CardinalityType
<1>2. \A s \in SUBSET R : /\ g[s] = IF s = {} THEN 0 ELSE f[PickOf(s)] + g[s \ {PickOf(s)}]
                          /\ k[s] = IF s = {} THEN 0 ELSE h[PickOf(s)] + k[s \ {PickOf(s)}]
  BY DEF IsFold
<1>3. 0 \in N
  BY <1>1, <1>2, FS_EmptySet
<1>4. ASSUME NEW n \in Nat, n \in N PROVE n + 1 \in N
  <2> SUFFICES ASSUME NEW s \in SUBSET R, Cardinality(s) = n + 1 PROVE g[s] = k[s]
    OBVIOUS
  <2>1. s # {}
    BY FS_EmptySet
  <2>2. PickOf(s) \in s
    BY <2>1, Zenon DEF PickOf
  <2>3. Cardinality(s \ {PickOf(s)}) = n /\ s \ {PickOf(s)} \in SUBSET R
    <3>1. IsFiniteSet(s)
      BY <1>1
    <3>2. Cardinality(s \ {PickOf(s)}) = Cardinality(s) - 1
      BY <2>2, <3>1, FS_RemoveElement
    <3> QED BY <3>2
  <2>4. g[s \ {PickOf(s)}] = k[s \ {PickOf(s)}] /\ f[PickOf(s)] = h[PickOf(s)]
    BY <1>4, <2>2, <2>3 DEF Agree
  <2> QED BY <1>2, <2>1, <2>4
<1> HIDE DEF N
<1>5. Cardinality(R) \in N /\ R \in SUBSET R
  BY <1>1, <1>3, <1>4, NatSetInduction
<1> QED BY <1>5 DEF N

\* The sum over no elements.
LEMMA SumOnEmpty ==
  ASSUME NEW f
  PROVE  SumFunctionOnSet(f, {}) = 0
<1>1. IsFiniteSet({})
  BY FS_EmptySet
<1>2. PICK g : IsFold(g, f, {}) /\ SumFunctionOnSet(f, {}) = g[{}]
  BY <1>1, SumOnFold
<1> QED BY <1>2 DEF IsFold

\* The sum depends on the terms only.
LEMMA SumOnExtensional ==
  ASSUME NEW f, NEW h, NEW S, IsFiniteSet(S), \A x \in S : f[x] = h[x]
  PROVE  SumFunctionOnSet(f, S) = SumFunctionOnSet(h, S)
<1>1. PICK g : IsFold(g, f, S) /\ SumFunctionOnSet(f, S) = g[S]
  BY SumOnFold
<1>2. PICK k : IsFold(k, h, S) /\ SumFunctionOnSet(h, S) = k[S]
  BY SumOnFold
<1>3. S \subseteq S /\ IsFold(g, f, S) /\ IsFold(k, h, S) /\ Agree(f, h, S)
  BY <1>1, <1>2 DEF Agree
<1>4. g[S] = k[S]
  BY <1>3, FoldUnique
<1> QED BY <1>1, <1>2, <1>4

\* What the fold takes first, it adds.
LEMMA SumOnPick ==
  ASSUME NEW f, NEW S, IsFiniteSet(S), S # {}
  PROVE  PickOf(S) \in S /\ SumFunctionOnSet(f, S) = f[PickOf(S)] + SumFunctionOnSet(f, S \ {PickOf(S)})
<1>1. PickOf(S) \in S
  BY Zenon DEF PickOf
<1> DEFINE R == S \ {PickOf(S)}
<1>2. IsFiniteSet(R)
  BY FS_Subset
<1>3. PICK g : IsFold(g, f, S) /\ SumFunctionOnSet(f, S) = g[S]
  BY SumOnFold
<1>4. PICK k : IsFold(k, f, R) /\ SumFunctionOnSet(f, R) = k[R]
  BY <1>2, SumOnFold
<1>5. k[R] = g[R]
  BY <1>2, <1>3, <1>4, FoldUnique DEF Agree
<1>6. g[S] = f[PickOf(S)] + g[R]
  BY <1>3 DEF IsFold
<1> QED BY <1>1, <1>3, <1>4, <1>5, <1>6

\* A sum of integers is an integer.
LEMMA SumOnInt ==
  ASSUME NEW f, NEW S, IsFiniteSet(S), \A x \in S : f[x] \in Int
  PROVE  SumFunctionOnSet(f, S) \in Int
<1> DEFINE N == {n \in Nat : \A s \in SUBSET S : Cardinality(s) = n => SumFunctionOnSet(f, s) \in Int}
<1>1. \A s \in SUBSET S : IsFiniteSet(s) /\ Cardinality(s) \in Nat
  BY FS_Subset, FS_CardinalityType
<1>2. 0 \in N
  BY <1>1, FS_EmptySet, SumOnEmpty
<1>3. ASSUME NEW n \in Nat, n \in N PROVE n + 1 \in N
  <2> SUFFICES ASSUME NEW s \in SUBSET S, Cardinality(s) = n + 1 PROVE SumFunctionOnSet(f, s) \in Int
    OBVIOUS
  <2>1. s # {}
    BY FS_EmptySet
  <2>2. PickOf(s) \in s /\ SumFunctionOnSet(f, s) = f[PickOf(s)] + SumFunctionOnSet(f, s \ {PickOf(s)})
    BY <1>1, <2>1, SumOnPick
  <2>3. PickOf(s) \in s
    BY <2>2
  <2>4. Cardinality(s \ {PickOf(s)}) = n /\ s \ {PickOf(s)} \in SUBSET S
    BY <1>1, <2>3, FS_RemoveElement
  <2> QED BY <1>3, <2>2, <2>4
<1> HIDE DEF N
<1>4. Cardinality(S) \in N /\ S \in SUBSET S
  BY <1>1, <1>2, <1>3, NatSetInduction
<1> QED BY <1>4 DEF N

\* Any element may be taken first.
LEMMA SumOnRemove ==
  ASSUME NEW f, NEW S, IsFiniteSet(S), \A x \in S : f[x] \in Int, NEW a \in S
  PROVE  SumFunctionOnSet(f, S) = f[a] + SumFunctionOnSet(f, S \ {a})
<1> DEFINE Sum(s) == SumFunctionOnSet(f, s)
           N == {n \in Nat : \A s \in SUBSET S : Cardinality(s) = n => \A y \in s : Sum(s) = f[y] + Sum(s \ {y})}
<1>1. \A s \in SUBSET S : IsFiniteSet(s) /\ Cardinality(s) \in Nat /\ Sum(s) \in Int
  BY FS_Subset, FS_CardinalityType, SumOnInt
<1>2. 0 \in N
  BY <1>1, FS_EmptySet
<1>3. ASSUME NEW n \in Nat, n \in N PROVE n + 1 \in N
  <2> SUFFICES ASSUME NEW s \in SUBSET S, Cardinality(s) = n + 1, NEW y \in s PROVE Sum(s) = f[y] + Sum(s \ {y})
    OBVIOUS
  <2> DEFINE p == PickOf(s)
  <2>1. p \in s /\ Sum(s) = f[p] + Sum(s \ {p})
    BY <1>1, SumOnPick
  <2>2. Cardinality(s \ {p}) = n /\ Cardinality(s \ {y}) = n /\ s \ {p} \in SUBSET S /\ s \ {y} \in SUBSET S
    BY <1>1, <2>1, FS_RemoveElement
  <2> HIDE DEF p, Sum
  <2>3. CASE p = y
    BY <2>1, <2>3
  <2>4. CASE p # y
    <3>1. y \in s \ {p} /\ p \in s \ {y}
      BY <2>1, <2>4
    <3> DEFINE R == (s \ {y}) \ {p}
    <3>2. (s \ {p}) \ {y} = R /\ R \in SUBSET S
      OBVIOUS
    <3>3. Sum(s \ {p}) = f[y] + Sum(R)
      BY <1>3, <2>2, <3>1, <3>2
    <3>4. Sum(s \ {y}) = f[p] + Sum(R)
      BY <1>3, <2>2, <3>1
    <3>5. f[p] \in Int /\ f[y] \in Int /\ Sum(R) \in Int
      BY <1>1, <2>1, <3>2
    <3> HIDE DEF R
    <3> QED BY <2>1, <3>3, <3>4, <3>5
  <2> QED BY <2>3, <2>4
<1>5. Cardinality(S) \in Nat /\ S \in SUBSET S
  BY <1>1
<1> HIDE DEF N
<1>6. Cardinality(S) \in N
  BY <1>2, <1>3, <1>5, NatSetInduction
<1> QED BY <1>5, <1>6 DEF N

\* One more element.
LEMMA SumOnAdd ==
  ASSUME NEW f, NEW S, IsFiniteSet(S), NEW a, a \notin S, f[a] \in Int, \A x \in S : f[x] \in Int
  PROVE  SumFunctionOnSet(f, S \cup {a}) = SumFunctionOnSet(f, S) + f[a]
<1> DEFINE T == S \cup {a}
<1>1. IsFiniteSet(T) /\ a \in T /\ (\A x \in T : f[x] \in Int) /\ T \ {a} = S
  BY FS_AddElement
<1>2. SumFunctionOnSet(f, S) \in Int
  BY SumOnInt
<1> HIDE DEF T
<1>3. SumFunctionOnSet(f, T) = f[a] + SumFunctionOnSet(f, T \ {a})
  BY <1>1, SumOnRemove
<1>4. SumFunctionOnSet(f, T) = f[a] + SumFunctionOnSet(f, S)
  BY <1>1, <1>3
<1>5. SumFunctionOnSet(f, T) = SumFunctionOnSet(f, S) + f[a]
  BY <1>2, <1>4
<1> QED BY <1>5 DEF T

\* A sum of naturals is a natural, and a part of it is not larger than the whole.
LEMMA SumOnNat ==
  ASSUME NEW f, NEW S, IsFiniteSet(S), \A x \in S : f[x] \in Nat
  PROVE  SumFunctionOnSet(f, S) \in Nat
<1> DEFINE F == {T \in SUBSET S : SumFunctionOnSet(f, T) \in Nat}
<1>1. {} \in F
  BY SumOnEmpty
<1>2. ASSUME NEW T \in SUBSET S, NEW x \in S, T \in F PROVE T \cup {x} \in F
  <2>1. CASE x \in T
    <3>1. T \cup {x} = T
      BY <2>1
    <3> QED BY <1>2, <3>1
  <2>2. CASE x \notin T
    <3>1. IsFiniteSet(T) /\ f[x] \in Int /\ \A y \in T : f[y] \in Int
      BY FS_Subset
    <3>2. SumFunctionOnSet(f, T \cup {x}) = SumFunctionOnSet(f, T) + f[x]
      BY <2>2, <3>1, SumOnAdd
    <3> QED BY <1>2, <3>2
  <2> QED BY <2>1, <2>2
<1> HIDE DEF F
<1>3. S \in F
  BY <1>1, <1>2, FiniteSetInduction
<1> QED BY <1>3 DEF F

\* A sum is the sum over a part and over the rest.
LEMMA SumOnSplit ==
  ASSUME NEW f, NEW S, IsFiniteSet(S), \A x \in S : f[x] \in Int, NEW R, R \subseteq S
  PROVE  SumFunctionOnSet(f, S) = SumFunctionOnSet(f, R) + SumFunctionOnSet(f, S \ R)
<1> DEFINE Q == S \ R
           F == {T \in SUBSET Q : SumFunctionOnSet(f, R \cup T) = SumFunctionOnSet(f, R) + SumFunctionOnSet(f, T)}
<1>1. IsFiniteSet(R) /\ IsFiniteSet(Q) /\ SumFunctionOnSet(f, R) \in Int
  BY FS_Subset, SumOnInt
<1>2. {} \in F
  <2>1. R \cup {} = R
    OBVIOUS
  <2> QED BY <1>1, <2>1, SumOnEmpty
<1>3. ASSUME NEW T \in SUBSET Q, NEW x \in Q, T \in F PROVE T \cup {x} \in F
  <2>1. CASE x \in T
    <3>1. T \cup {x} = T
      BY <2>1
    <3> QED BY <1>3, <3>1
  <2>2. CASE x \notin T
    <3> DEFINE W == R \cup T
    <3>1. IsFiniteSet(T) /\ IsFiniteSet(W) /\ f[x] \in Int /\ (\A y \in T : f[y] \in Int) /\ (\A y \in W : f[y] \in Int)
      <4>1. T \subseteq S /\ W \subseteq S
        OBVIOUS
      <4> QED BY <4>1, FS_Subset
    <3>2. x \notin W /\ R \cup (T \cup {x}) = W \cup {x}
      BY <2>2
    <3>3. SumFunctionOnSet(f, T) \in Int
      BY <3>1, SumOnInt
    <3>4. SumFunctionOnSet(f, T \cup {x}) = SumFunctionOnSet(f, T) + f[x]
      BY <2>2, <3>1, SumOnAdd
    <3>5. SumFunctionOnSet(f, W) = SumFunctionOnSet(f, R) + SumFunctionOnSet(f, T)
      BY <1>3
    <3> HIDE DEF W
    <3>6. SumFunctionOnSet(f, W \cup {x}) = SumFunctionOnSet(f, W) + f[x]
      BY <3>1, <3>2, SumOnAdd
    <3>7. f[x] \in Int
      BY <3>1
    <3>8. SumFunctionOnSet(f, W \cup {x}) = SumFunctionOnSet(f, R) + SumFunctionOnSet(f, T \cup {x})
      BY <1>1, <3>3, <3>4, <3>5, <3>6, <3>7
    <3>9. R \cup (T \cup {x}) = W \cup {x}
      BY <3>2
    <3> QED BY <3>8, <3>9
  <2> QED BY <2>1, <2>2
<1> HIDE DEF F
<1>4. Q \in F
  BY <1>1, <1>2, <1>3, FiniteSetInduction
<1>5. R \cup Q = S
  OBVIOUS
<1> QED BY <1>4, <1>5 DEF F

\* A part of a sum of naturals is not larger than the whole.
LEMMA SumOnPart ==
  ASSUME NEW f, NEW S, IsFiniteSet(S), \A x \in S : f[x] \in Nat, NEW R, R \subseteq S
  PROVE  SumFunctionOnSet(f, R) <= SumFunctionOnSet(f, S)
<1>1. IsFiniteSet(R) /\ IsFiniteSet(S \ R)
  BY FS_Subset
<1>2. SumFunctionOnSet(f, R) \in Nat /\ SumFunctionOnSet(f, S \ R) \in Nat
  BY <1>1, SumOnNat
<1>3. SumFunctionOnSet(f, S) = SumFunctionOnSet(f, R) + SumFunctionOnSet(f, S \ R)
  BY SumOnSplit
<1> QED BY <1>2, <1>3

\* Sums add up term by term.
LEMMA SumOnPlus ==
  ASSUME NEW S, IsFiniteSet(S), NEW f, NEW g, NEW h,
         \A x \in S : f[x] \in Int /\ g[x] \in Int /\ h[x] = f[x] + g[x]
  PROVE  SumFunctionOnSet(h, S) = SumFunctionOnSet(f, S) + SumFunctionOnSet(g, S)
<1> DEFINE Adds(T) == SumFunctionOnSet(h, T) = SumFunctionOnSet(f, T) + SumFunctionOnSet(g, T)
           F == {T \in SUBSET S : Adds(T)}
<1>1. {} \in F
  BY SumOnEmpty
<1>2. ASSUME NEW T \in SUBSET S, NEW x \in S, T \in F PROVE T \cup {x} \in F
  <2>1. CASE x \in T
    <3>1. T \cup {x} = T
      BY <2>1
    <3> QED BY <1>2, <3>1
  <2>2. CASE x \notin T
    <3>1. IsFiniteSet(T)
      BY FS_Subset
    <3>2. /\ f[x] \in Int /\ g[x] \in Int /\ h[x] \in Int /\ h[x] = f[x] + g[x]
          /\ \A y \in T : f[y] \in Int
          /\ \A y \in T : g[y] \in Int
          /\ \A y \in T : h[y] \in Int
      OBVIOUS
    <3>3. SumFunctionOnSet(f, T) \in Int /\ SumFunctionOnSet(g, T) \in Int
      BY <3>1, <3>2, SumOnInt
    <3>4. SumFunctionOnSet(f, T \cup {x}) = SumFunctionOnSet(f, T) + f[x]
      BY <2>2, <3>1, <3>2, SumOnAdd
    <3>5. SumFunctionOnSet(g, T \cup {x}) = SumFunctionOnSet(g, T) + g[x]
      BY <2>2, <3>1, <3>2, SumOnAdd
    <3>6. SumFunctionOnSet(h, T \cup {x}) = SumFunctionOnSet(h, T) + h[x]
      BY <2>2, <3>1, <3>2, SumOnAdd
    <3>7. Adds(T)
      BY <1>2
    <3>8. Adds(T \cup {x})
      BY <3>2, <3>3, <3>4, <3>5, <3>6, <3>7
    <3> HIDE DEF Adds
    <3> QED BY <3>8
  <2> QED BY <2>1, <2>2
<1> HIDE DEF F
<1>3. S \in F
  BY <1>1, <1>2, FiniteSetInduction
<1> QED BY <1>3 DEF F

\* Larger terms make a larger sum.
LEMMA SumOnMonotone ==
  ASSUME NEW S, IsFiniteSet(S), NEW f, NEW g,
         \A x \in S : f[x] \in Int /\ g[x] \in Int /\ f[x] <= g[x]
  PROVE  SumFunctionOnSet(f, S) <= SumFunctionOnSet(g, S)
<1> DEFINE d == [x \in S |-> g[x] - f[x]]
<1>1. \A x \in S : d[x] \in Nat /\ f[x] \in Int /\ d[x] \in Int /\ g[x] = f[x] + d[x]
  OBVIOUS
<1> HIDE DEF d
<1>2. SumFunctionOnSet(g, S) = SumFunctionOnSet(f, S) + SumFunctionOnSet(d, S)
  BY <1>1, SumOnPlus
<1>3. SumFunctionOnSet(d, S) \in Nat
  BY <1>1, SumOnNat
<1>4. SumFunctionOnSet(f, S) \in Int
  BY <1>1, SumOnInt
<1> QED BY <1>2, <1>3, <1>4

\* Terms that are zero do not count.
LEMMA SumOnZeros ==
  ASSUME NEW f, NEW S, IsFiniteSet(S), \A x \in S : f[x] = 0
  PROVE  SumFunctionOnSet(f, S) = 0
<1> DEFINE F == {T \in SUBSET S : SumFunctionOnSet(f, T) = 0}
<1>1. {} \in F
  BY SumOnEmpty
<1>2. ASSUME NEW T \in SUBSET S, NEW x \in S, T \in F PROVE T \cup {x} \in F
  <2>1. CASE x \in T
    <3>1. T \cup {x} = T
      BY <2>1
    <3> QED BY <1>2, <3>1
  <2>2. CASE x \notin T
    <3>1. IsFiniteSet(T) /\ f[x] \in Int /\ \A y \in T : f[y] \in Int
      BY FS_Subset
    <3>2. SumFunctionOnSet(f, T \cup {x}) = SumFunctionOnSet(f, T) + f[x]
      BY <2>2, <3>1, SumOnAdd
    <3> QED BY <1>2, <3>2
  <2> QED BY <2>1, <2>2
<1> HIDE DEF F
<1>3. S \in F
  BY <1>1, <1>2, FiniteSetInduction
<1> QED BY <1>3 DEF F

\* A sum of terms of at most m is at most m for each of them.
LEMMA SumOnBound ==
  ASSUME NEW f, NEW S, IsFiniteSet(S), NEW m \in Nat, \A x \in S : f[x] \in 0..m
  PROVE  SumFunctionOnSet(f, S) <= m * Cardinality(S)
<1> DEFINE F == {T \in SUBSET S : SumFunctionOnSet(f, T) <= m * Cardinality(T)}
<1>1. {} \in F
  BY SumOnEmpty, FS_EmptySet
<1>2. ASSUME NEW T \in SUBSET S, NEW x \in S, T \in F PROVE T \cup {x} \in F
  <2>1. CASE x \in T
    <3>1. T \cup {x} = T
      BY <2>1
    <3> QED BY <1>2, <3>1
  <2>2. CASE x \notin T
    <3>1. IsFiniteSet(T) /\ f[x] \in Int /\ \A y \in T : f[y] \in Int
      BY FS_Subset
    <3>2. SumFunctionOnSet(f, T \cup {x}) = SumFunctionOnSet(f, T) + f[x]
      BY <2>2, <3>1, SumOnAdd
    <3>3. Cardinality(T) \in Nat /\ Cardinality(T \cup {x}) = Cardinality(T) + 1
      BY <2>2, <3>1, FS_AddElement, FS_CardinalityType
    <3>4. m * (Cardinality(T) + 1) = m * Cardinality(T) + m /\ m * Cardinality(T) \in Nat
      BY <3>3
    <3>5. SumFunctionOnSet(f, T) \in Int /\ SumFunctionOnSet(f, T) <= m * Cardinality(T) /\ f[x] <= m
      BY <1>2, <3>1, SumOnInt
    <3>6. SumFunctionOnSet(f, T) + f[x] <= m * (Cardinality(T) + 1)
      BY <3>1, <3>4, <3>5
    <3> QED BY <3>2, <3>3, <3>6
  <2> QED BY <2>1, <2>2
<1> HIDE DEF F
<1>3. S \in F
  BY <1>1, <1>2, FiniteSetInduction
<1> QED BY <1>3 DEF F
=============================================================================
