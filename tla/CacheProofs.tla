---------------------------- MODULE CacheProofs -----------------------------
(***************************************************************************)
(* The properties of BlockCache for every number of threads, blocks and    *)
(* objects and every threshold, and of the arena that its objects come     *)
(* from.                                                                   *)
(*                                                                         *)
(* What the steps of cache_acquire do to the list is stated once, in       *)
(* FrontFacts: an object goes to the front and others leave, and the order *)
(* of those that stay does not change.                                     *)
(***************************************************************************)
EXTENDS BlockCache, Arena, FiniteSetTheorems, WellFoundedInduction, TLAPS

-----------------------------------------------------------------------------
(* Sequences.                                                               *)

Elems(s) == {s[i] : i \in DOMAIN s}

NoDup(s) == \A i, j \in DOMAIN s : s[i] = s[j] => i = j

Before(s, x, y) == \E i, j \in DOMAIN s : i < j /\ s[i] = x /\ s[j] = y

\* Every non-empty set of natural numbers has a least element.  It takes the place
\* of induction: a fact about all i holds when there is no least i without it.
LEMMA LeastNumber ==
  ASSUME NEW S \in SUBSET Nat, S # {}
  PROVE  \E x \in S : \A y \in S : x <= y
<1> DEFINE T == {0..x : x \in S}
<1>1. T \subseteq FiniteSubsetsOf(Nat)
  <2> SUFFICES ASSUME NEW x \in S PROVE 0..x \in FiniteSubsetsOf(Nat)
    BY Zenon
  <2>1. IsFiniteSet(0..x)
    BY FS_Interval
  <2> QED
    BY <2>1 DEF FiniteSubsetsOf
<1>2. PICK u \in T : \A v \in T : ~ (<<v, u>> \in StrictSubsetOrdering(Nat))
  <2>1. T # {}
    BY Zenon
  <2> HIDE DEF T
  <2> QED
    BY <1>1, <2>1, FS_StrictSubsetOrderingWellFounded, WFMin, Zenon
<1>3. PICK x \in S : u = 0..x
  BY Zenon
<1>4. \A y \in S : x <= y
  <2> SUFFICES ASSUME NEW y \in S, y < x PROVE FALSE
    OBVIOUS
  <2> DEFINE a == 0..y  b == 0..x
  <2>1. a \in SUBSET Nat /\ b \in SUBSET Nat /\ a \subseteq b /\ a # b
    <3>1. x \in 0..x /\ x \notin 0..y
      OBVIOUS
    <3> QED
      BY <3>1
  <2>2. a \in T
    BY Zenon
  <2> HIDE DEF a, T
  <2>3. <<a, b>> \in StrictSubsetOrdering(Nat)
    <3> HIDE DEF b
    <3> QED
      BY <2>1, Zenon DEF StrictSubsetOrdering
  <2> QED
    BY <1>2, <1>3, <2>2, <2>3, Zenon
<1> QED
  BY <1>4, Zenon

\* One stage of Without: F holds the results for the shorter prefixes of s.
Stage(s, E, F, i) ==
    IF i = 0 THEN << >>
    ELSE IF s[i] \in E THEN F[i - 1] ELSE Append(F[i - 1], s[i])

\* The stages of Without exist, up to any length.
LEMMA Stages ==
  ASSUME NEW s, NEW E, NEW n \in Nat
  PROVE  \E F : F = [i \in 0..n |-> Stage(s, E, F, i)]
<1> DEFINE Bad == {k \in Nat : ~ \E F : F = [i \in 0..k |-> Stage(s, E, F, i)]}
<1>1. SUFFICES ASSUME Bad # {} PROVE FALSE
  BY Zenon
<1>2. PICK k \in Bad : \A j \in Bad : k <= j
  BY <1>1, LeastNumber, Zenon
<1>3. CASE k = 0
  <2> DEFINE G == [i \in 0..0 |-> << >>]
  <2>1. G = [i \in 0..0 |-> Stage(s, E, G, i)]
    BY DEF Stage
  <2> QED
    BY <1>3, <2>1, Zenon
<1>4. CASE k > 0
  <2>1. k - 1 \in Nat /\ k - 1 \notin Bad
    BY <1>2, <1>4
  <2>2. PICK F : F = [i \in 0..(k - 1) |-> Stage(s, E, F, i)]
    BY <2>1, Zenon
  <2> DEFINE G == [i \in 0..k |-> IF i = k THEN Stage(s, E, F, k) ELSE F[i]]
  <2>3. ASSUME NEW i \in 0..k PROVE G[i] = Stage(s, E, G, i)
    <3>1. i # 0 => G[i - 1] = F[i - 1]
      OBVIOUS
    <3>2. Stage(s, E, G, i) = Stage(s, E, F, i)
      BY DEF Stage
    <3>3. CASE i = k
      BY <3>2, <3>3, Zenon
    <3>4. CASE i # k
      <4>1. i \in 0..(k - 1)
        BY <3>4
      <4> QED
        BY <2>2, <3>2
    <3> QED
      BY <3>3, <3>4, Zenon
  <2>4. G = [i \in 0..k |-> Stage(s, E, G, i)]
    BY <2>3, Zenon
  <2> QED
    BY <2>4, Zenon
<1> QED
  BY <1>3, <1>4

\* What stage k has: the elements of the first k that are not in E, in their order.
Selected(S, s, E, g, D) ==
    /\ g \in Seq(S)
    /\ \A i \in DOMAIN g : g[i] \notin E /\ \E p \in D : s[p] = g[i]
    /\ \A p \in D : s[p] \notin E => \E i \in DOMAIN g : g[i] = s[p]
    /\ \A i, j \in DOMAIN g : i < j =>
          \E p, q \in D : p < q /\ s[p] = g[i] /\ s[q] = g[j]

\* One more stage.
LEMMA SelectedStep ==
  ASSUME NEW S, NEW s \in Seq(S), NEW E, NEW k \in 1..Len(s), NEW g,
         Selected(S, s, E, g, 1..(k - 1))
  PROVE  Selected(S, s, E, IF s[k] \in E THEN g ELSE Append(g, s[k]), 1..k)
<1>1. /\ k \in Nat /\ s[k] \in S /\ g \in Seq(S) /\ DOMAIN g = 1..Len(g) /\ Len(g) \in Nat
      /\ \A p : p \in 1..k <=> p \in 1..(k - 1) \/ p = k
  BY DEF Selected
<1>2. CASE s[k] \in E
  <2>1. Selected(S, s, E, g, 1..k)
    <3>1. \A p \in 1..(k - 1) : p \in 1..k
      BY <1>1, Zenon
    <3>2. \A p \in 1..k : s[p] \notin E => p \in 1..(k - 1)
      BY <1>2
    <3> QED
      BY <3>2 DEF Selected
  <2> QED
    BY <1>2, <2>1, Zenon
<1>3. CASE s[k] \notin E
  <2> DEFINE h == Append(g, s[k])
  <2>1. /\ h \in Seq(S)
        /\ \A i : i \in DOMAIN h <=> i \in DOMAIN g \/ i = Len(g) + 1
        /\ h[Len(g) + 1] = s[k]
        /\ \A i \in DOMAIN g : h[i] = g[i] /\ i < Len(g) + 1
    BY <1>1
  <2> HIDE DEF h
  <2>2. ASSUME NEW i \in DOMAIN h
        PROVE  h[i] \notin E /\ \E p \in 1..k : s[p] = h[i]
    <3>1. CASE i \in DOMAIN g
      BY <2>1, <3>1 DEF Selected
    <3>2. CASE i = Len(g) + 1
      BY <1>3, <2>1, <3>2
    <3> QED
      BY <2>1, <3>1, <3>2, Zenon
  <2>3. \A p \in 1..k : s[p] \notin E => \E i \in DOMAIN h : h[i] = s[p]
    BY <2>1 DEF Selected
  <2>4. ASSUME NEW i \in DOMAIN h, NEW j \in DOMAIN h, i < j
        PROVE  \E p, q \in 1..k : p < q /\ s[p] = h[i] /\ s[q] = h[j]
    <3>1. i \in DOMAIN g /\ h[i] = g[i]
      BY <2>1, <2>4
    <3>2. CASE j \in DOMAIN g
      BY <2>1, <2>4, <3>1, <3>2 DEF Selected
    <3>3. CASE j = Len(g) + 1
      <4>1. PICK p \in 1..(k - 1) : s[p] = g[i]
        BY <3>1, Zenon DEF Selected
      <4>2. p \in 1..k /\ k \in 1..k /\ p < k
        BY <1>1
      <4> QED
        BY <2>1, <3>1, <3>3, <4>1
    <3> QED
      BY <2>1, <3>2, <3>3, Zenon
  <2>5. Selected(S, s, E, h, 1..k)
    BY <2>1, <2>2, <2>4 DEF Selected
  <2> QED
    BY <1>3, <2>5, Zenon DEF h
<1> QED
  BY <1>2, <1>3, Zenon

\* What Without computes: the elements that are not in E, in the order of s.
LEMMA WithoutFacts ==
  ASSUME NEW S, NEW s \in Seq(S), NEW E
  PROVE  /\ Without(s, E) \in Seq(S)
         /\ Elems(Without(s, E)) = Elems(s) \ E
         /\ \A x, y : Before(Without(s, E), x, y) => Before(s, x, y)
<1>1. PICK F : /\ Without(s, E) = F[Len(s)]
               /\ \A i \in 0..Len(s) : F[i] = Stage(s, E, F, i)
  <2>1. Without(s, E) =
          (CHOOSE F : F = [i \in 0..Len(s) |-> Stage(s, E, F, i)])[Len(s)]
    BY Zenon DEF Without, Stage
  <2>2. Len(s) \in Nat
    OBVIOUS
  <2>3. \E F : F = [i \in 0..Len(s) |-> Stage(s, E, F, i)]
    BY <2>2, Stages, Zenon
  <2>4. PICK F : /\ F = [i \in 0..Len(s) |-> Stage(s, E, F, i)]
                 /\ Without(s, E) = F[Len(s)]
    BY <2>1, <2>3, Zenon
  <2>5. \A i \in 0..Len(s) : F[i] = Stage(s, E, F, i)
    BY <2>4, Zenon
  <2> QED
    BY <2>4, Zenon
<1>0. \A i \in 0..Len(s) : F[i] = IF i = 0 THEN << >> ELSE
                                   IF s[i] \in E THEN F[i - 1] ELSE Append(F[i - 1], s[i])
  BY <1>1, Zenon DEF Stage
<1> DEFINE Bad == {k \in 0..Len(s) : ~ Selected(S, s, E, F[k], 1..k)}
<1>2. Bad = {}
  <2>1. SUFFICES ASSUME Bad # {} PROVE FALSE
    BY Zenon
  <2>2. PICK k \in Bad : \A j \in Bad : k <= j
    <3>1. Bad \in SUBSET Nat
      OBVIOUS
    <3> HIDE DEF Bad
    <3> QED
      BY <2>1, <3>1, LeastNumber, Zenon
  <2>3. CASE k = 0
    <3>1. F[0] = << >>
      BY <1>0
    <3>2. Selected(S, s, E, << >>, 1..0)
      BY DEF Selected
    <3> QED
      BY <2>3, <3>1, <3>2, Zenon
  <2>4. CASE k > 0
    <3>1. k \in 1..Len(s) /\ k - 1 \in 0..Len(s) /\ k # 0
      BY <2>4
    <3>2. Selected(S, s, E, F[k - 1], 1..(k - 1))
      BY <2>2, <3>1
    <3>3. F[k] = IF s[k] \in E THEN F[k - 1] ELSE Append(F[k - 1], s[k])
      BY <1>0, <3>1, Zenon
    <3>4. Selected(S, s, E, F[k], 1..k)
      BY <3>1, <3>2, <3>3, SelectedStep
    <3> QED
      BY <3>4, Zenon
  <2> QED
    BY <2>3, <2>4
<1>3. Selected(S, s, E, Without(s, E), DOMAIN s)
  <2>1. DOMAIN s = 1..Len(s) /\ Len(s) \in 0..Len(s)
    OBVIOUS
  <2> QED
    BY <1>1, <1>2
<1> HIDE DEF Bad
<1>4. Without(s, E) \in Seq(S)
  BY <1>3, Zenon DEF Selected
<1> DEFINE w == Without(s, E)
<1> HIDE DEF w
<1>5. /\ \A i \in DOMAIN w : w[i] \notin E /\ \E p \in DOMAIN s : s[p] = w[i]
      /\ \A p \in DOMAIN s : s[p] \notin E => \E i \in DOMAIN w : w[i] = s[p]
      /\ \A i, j \in DOMAIN w : i < j =>
            \E p, q \in DOMAIN s : p < q /\ s[p] = w[i] /\ s[q] = w[j]
  BY <1>3, Zenon DEF Selected, w
<1>6. Elems(w) = Elems(s) \ E
  BY <1>5 DEF Elems
<1>7. \A x, y : Before(w, x, y) => Before(s, x, y)
  BY <1>5 DEF Before
<1> QED
  BY <1>4, <1>6, <1>7, Zenon DEF w

\* An object moves or comes to the front, and E leaves: what the list is then.
LEMMA FrontFacts ==
  ASSUME NEW S, NEW s \in Seq(S), NEW E, NEW x \in S, NoDup(s), x \notin Elems(s) \ E
  PROVE  LET f == <<x>> \o Without(s, E) IN
         /\ f \in Seq(S)
         /\ Elems(f) = {x} \cup (Elems(s) \ E)
         /\ NoDup(f)
         /\ \A a, c : Before(f, a, c) <=> \/ a = x /\ c \in Elems(s) \ E
                                          \/ a \notin E /\ c \notin E /\ Before(s, a, c)
<1> DEFINE w == Without(s, E)
           f == <<x>> \o w
<1>1. /\ w \in Seq(S)
      /\ Elems(w) = Elems(s) \ E
      /\ \A a, c : Before(w, a, c) => Before(s, a, c)
  BY WithoutFacts, Zenon
<1> HIDE DEF w
<1>2. /\ f \in Seq(S)
      /\ \A i : i \in DOMAIN f <=> i = 1 \/ (i \in Nat /\ i - 1 \in DOMAIN w)
      /\ f[1] = x
      /\ \A i \in DOMAIN w : i \in Nat /\ i >= 1 /\ i + 1 \in DOMAIN f /\ f[i + 1] = w[i]
  BY <1>1
<1> HIDE DEF f
<1>3. \A i \in DOMAIN f : i \in Nat /\ i >= 1 /\ (i # 1 => i - 1 \in DOMAIN w /\ f[i] = w[i - 1])
  BY <1>2
<1>4. \A i \in DOMAIN w : w[i] \in Elems(w)
  BY Zenon DEF Elems
<1>5. NoDup(w)
  <2> SUFFICES ASSUME NEW i \in DOMAIN w, NEW j \in DOMAIN w, w[i] = w[j], i < j
               PROVE  FALSE
    BY DEF NoDup
  <2>1. Before(s, w[i], w[j])
    BY <1>1, Zenon DEF Before
  <2>2. \A k \in DOMAIN s : k \in Nat
    OBVIOUS
  <2> QED
    BY <2>1 DEF Before, NoDup
<1>6. NoDup(f)
  <2> SUFFICES ASSUME NEW i \in DOMAIN f, NEW j \in DOMAIN f, f[i] = f[j], i < j
               PROVE  FALSE
    BY DEF NoDup
  <2>1. j # 1 /\ j - 1 \in DOMAIN w /\ f[j] = w[j - 1]
    BY <1>3
  <2>2. CASE i = 1
    BY <1>1, <1>2, <1>4, <2>1, <2>2, Zenon
  <2>3. CASE i # 1
    <3>1. i - 1 \in DOMAIN w /\ f[i] = w[i - 1] /\ i - 1 # j - 1
      BY <1>3, <2>3
    <3> QED
      BY <1>5, <2>1, <3>1, Zenon DEF NoDup
  <2> QED
    BY <2>2, <2>3, Zenon
<1>7. Elems(f) = {x} \cup Elems(w)
  <2>1. \A c \in Elems(w) : c \in Elems(f)
    BY <1>2, Zenon DEF Elems
  <2>2. \A c \in Elems(f) : c = x \/ c \in Elems(w)
    BY <1>2, <1>3 DEF Elems
  <2>3. x \in Elems(f)
    BY <1>2, Zenon DEF Elems
  <2> QED
    BY <2>1, <2>2, <2>3, Zenon
<1>8. ASSUME NEW a, NEW c, Before(f, a, c)
      PROVE  \/ a = x /\ c \in Elems(w)
             \/ a \notin E /\ c \notin E /\ Before(s, a, c)
  <2>1. PICK i, j \in DOMAIN f : i < j /\ f[i] = a /\ f[j] = c
    BY <1>8, Zenon DEF Before
  <2>2. j # 1 /\ j - 1 \in DOMAIN w /\ c = w[j - 1]
    BY <1>3, <2>1
  <2>3. CASE i = 1
    BY <1>2, <1>4, <2>1, <2>3
  <2>4. CASE i # 1
    <3>1. i - 1 \in DOMAIN w /\ a = w[i - 1] /\ i - 1 < j - 1
      BY <1>3, <2>1, <2>4
    <3>2. Before(w, a, c)
      BY <2>2, <3>1, Zenon DEF Before
    <3> QED
      BY <1>1, <1>4, <2>2, <3>1, <3>2, Zenon
  <2> QED
    BY <2>3, <2>4, Zenon
<1>9. ASSUME NEW a, NEW c, a = x, c \in Elems(w)
      PROVE  Before(f, a, c)
  <2>1. PICK j \in DOMAIN w : w[j] = c
    BY <1>9, Zenon DEF Elems
  <2>2. 1 \in DOMAIN f /\ j + 1 \in DOMAIN f /\ 1 < j + 1 /\ f[j + 1] = c
    BY <1>2, <2>1
  <2> QED
    BY <1>2, <1>9, <2>2, Zenon DEF Before
<1>10. ASSUME NEW a, NEW c, a \notin E, c \notin E, Before(s, a, c)
       PROVE  Before(f, a, c)
  <2>1. PICK k, l \in DOMAIN s : k < l /\ s[k] = a /\ s[l] = c
    BY <1>10, Zenon DEF Before
  <2>2. a \in Elems(w) /\ c \in Elems(w)
    BY <1>1, <1>10, <2>1, Zenon DEF Elems
  <2>3. PICK i, j \in DOMAIN w : w[i] = a /\ w[j] = c
    BY <2>2, Zenon DEF Elems
  <2>4. k \in Nat /\ l \in Nat /\ a # c
    <3>1. k \in Nat /\ l \in Nat /\ k # l
      BY <2>1
    <3> QED
      BY <2>1 DEF NoDup
  <2>5. ~ Before(s, c, a)
    <3>1. \A p \in DOMAIN s : p \in Nat
      OBVIOUS
    <3> QED
      BY <2>1 DEF Before, NoDup
  <2>6. ~ (j < i)
    <3>1. ~ Before(w, c, a)
      BY <1>1, <2>5, Zenon
    <3> QED
      BY <2>3, <3>1, Zenon DEF Before
  <2>7. i < j
    BY <2>3, <2>4, <2>6
  <2>8. i + 1 \in DOMAIN f /\ j + 1 \in DOMAIN f /\ i + 1 < j + 1
        /\ f[i + 1] = a /\ f[j + 1] = c
    BY <1>2, <2>3, <2>7
  <2> QED
    BY <2>8, Zenon DEF Before
<1> QED
  <2>1. ASSUME NEW a, NEW c
        PROVE  Before(f, a, c) <=> \/ a = x /\ c \in Elems(s) \ E
                                   \/ a \notin E /\ c \notin E /\ Before(s, a, c)
    BY <1>1, <1>8, <1>9, <1>10, Zenon
  <2>2. f \in Seq(S)
    BY <1>2, Zenon
  <2>3. Elems(f) = {x} \cup (Elems(s) \ E)
    BY <1>1, <1>7, Zenon
  <2> QED
    BY <1>6, <2>1, <2>2, <2>3, Zenon DEF f, w

\* A new first element.
AddsFirst(S, s, x, r) ==
    /\ r \in Seq(S) /\ DOMAIN r = 1..(Len(s) + 1) /\ NoDup(r)
    /\ Elems(r) = {x} \cup Elems(s)
    /\ \A i \in 2..(Len(s) + 1) : i - 1 \in DOMAIN s /\ r[i] = s[i - 1]

LEMMA FirstAdded ==
  ASSUME NEW S, NEW s \in Seq(S), NEW x \in S, NoDup(s), x \notin Elems(s)
  PROVE  AddsFirst(S, s, x, <<x>> \o s)
<1> DEFINE r == <<x>> \o s
           n == Len(s)
<1>1. /\ n \in Nat /\ DOMAIN s = 1..n /\ r \in Seq(S) /\ DOMAIN r = 1..(n + 1) /\ r[1] = x
      /\ \A i \in 2..(n + 1) : i - 1 \in 1..n /\ r[i] = s[i - 1]
  OBVIOUS
<1> HIDE DEF n, r
<1>2. /\ 1 \in 1..(n + 1) /\ \A i \in 1..n : i + 1 \in 1..(n + 1) /\ r[i + 1] = s[i]
      /\ \A i \in 1..(n + 1) : i = 1 \/ i \in 2..(n + 1)
      /\ \A i, j \in 2..(n + 1) : i - 1 = j - 1 => i = j
  BY <1>1
<1>3. \A i \in 1..n : s[i] # x
  BY <1>1, Zenon DEF Elems
<1>4. NoDup(r)
  <2> SUFFICES ASSUME NEW i \in 1..(n + 1), NEW j \in 1..(n + 1), r[i] = r[j] PROVE i = j
    BY <1>1, Zenon DEF NoDup
  <2>1. CASE i = 1 \/ j = 1
    <3>1. \A k \in 2..(n + 1) : r[k] # x
      BY <1>1, <1>3, Zenon
    <3> QED
      BY <1>1, <1>2, <2>1, <3>1, Zenon
  <2>2. CASE i # 1 /\ j # 1
    <3>1. i \in 2..(n + 1) /\ j \in 2..(n + 1)
      BY <1>2, <2>2, Zenon
    <3>2. i - 1 \in DOMAIN s /\ j - 1 \in DOMAIN s /\ s[i - 1] = s[j - 1]
      BY <1>1, <3>1, Zenon
    <3> QED
      BY <1>2, <3>1, <3>2, Zenon DEF NoDup
  <2> QED
    BY <2>1, <2>2, Zenon
<1>5. Elems(r) = {x} \cup Elems(s)
  <2>1. ASSUME NEW i \in 1..(n + 1) PROVE r[i] \in {x} \cup Elems(s)
    <3>1. CASE i = 1
      BY <1>1, <3>1, Zenon
    <3>2. CASE i \in 2..(n + 1)
      BY <1>1, <3>2, Zenon DEF Elems
    <3> QED
      BY <1>2, <3>1, <3>2, Zenon
  <2>2. ASSUME NEW i \in 1..n PROVE s[i] \in Elems(r)
    BY <1>1, <1>2, Zenon DEF Elems
  <2>3. x \in Elems(r)
    BY <1>1, <1>2, Zenon DEF Elems
  <2>4. Elems(r) \subseteq {x} \cup Elems(s)
    <3> SUFFICES ASSUME NEW y \in Elems(r) PROVE y \in {x} \cup Elems(s)
      BY Zenon
    <3>1. PICK i \in 1..(n + 1) : y = r[i]
      BY <1>1, Zenon DEF Elems
    <3> QED
      BY <2>1, <3>1, Zenon
  <2>5. Elems(s) \subseteq Elems(r)
    BY <1>1, <2>2, Zenon DEF Elems
  <2> QED
    BY <2>3, <2>4, <2>5, Zenon
<1> QED
  BY <1>1, <1>4, <1>5, Zenon DEF n, r, AddsFirst

\* The first element goes to the end.
LEMMA FirstLast ==
  ASSUME NEW S, NEW r \in Seq(S), r # <<>>, NoDup(r)
  PROVE  LET n == Len(r)
             s == Append(Tail(r), Head(r))
         IN  /\ n \in Nat /\ s \in Seq(S) /\ DOMAIN r = 1..n /\ DOMAIN s = 1..n /\ NoDup(s)
             /\ Elems(s) = Elems(r) /\ s[n] = r[1] /\ r[1] = Head(r)
             /\ \A i \in 1..n : i # n => i + 1 \in 1..n /\ i + 1 # 1 /\ s[i] = r[i + 1]
<1> DEFINE n == Len(r)
           s == Append(Tail(r), Head(r))
<1>2. /\ n \in Nat \ {0} /\ DOMAIN r = 1..n /\ s \in Seq(S) /\ DOMAIN s = 1..n
      /\ \A i \in 1..n : s[i] = IF i = n THEN r[1] ELSE r[i + 1]
  OBVIOUS
<1> HIDE DEF n, s
<1>4. NoDup(s)
  <2> SUFFICES ASSUME NEW i \in 1..n, NEW j \in 1..n, s[i] = s[j] PROVE i = j
    BY Zenon, <1>2 DEF NoDup
  <2> DEFINE a == IF i = n THEN 1 ELSE i + 1
             b == IF j = n THEN 1 ELSE j + 1
  <2>1. a \in 1..n /\ b \in 1..n /\ s[i] = r[a] /\ s[j] = r[b] /\ (a = b => i = j)
    BY <1>2
  <2> HIDE DEF a, b
  <2> QED
    BY Zenon, <1>2, <2>1 DEF NoDup
<1>5. Elems(s) = Elems(r)
  <2>1. ASSUME NEW i \in 1..n PROVE s[i] \in Elems(r)
    <3>1. 1 \in 1..n /\ (s[i] = r[1] \/ (i + 1 \in 1..n /\ s[i] = r[i + 1]))
      BY <1>2
    <3> QED
      BY Zenon, <1>2, <3>1 DEF Elems
  <2>2. ASSUME NEW i \in 1..n PROVE r[i] \in Elems(s)
    <3>1. CASE i = 1
      <4>1. n \in 1..n /\ s[n] = r[1]
        BY <1>2
      <4> QED
        BY Zenon, <1>2, <3>1, <4>1 DEF Elems
    <3>2. CASE i # 1
      <4>1. i - 1 \in 1..n /\ s[i - 1] = r[i]
        BY <1>2, <3>2
      <4> QED
        BY Zenon, <1>2, <4>1 DEF Elems
    <3> QED
      BY Zenon, <3>1, <3>2
  <2> QED
    BY Zenon, <1>2, <2>1, <2>2 DEF Elems
<1>6. /\ n \in 1..n /\ r[1] = Head(r)
      /\ \A i \in 1..n : i # n => i + 1 \in 1..n /\ i + 1 # 1
  BY <1>2
<1> QED
  BY <1>2, <1>4, <1>5, <1>6, Zenon DEF n, s

\* A list without duplicates is as long as the set of its elements.
LEMMA LengthIsCardinality ==
  ASSUME NEW S, NEW s \in Seq(S), NoDup(s)
  PROVE  IsFiniteSet(Elems(s)) /\ Cardinality(Elems(s)) = Len(s)
<1>0. DOMAIN s = 1..Len(s) /\ s \in [1..Len(s) -> Elems(s)]
  BY DEF Elems
<1>1. s \in Bijection(1..Len(s), Elems(s))
  <2>1. s \in Surjection(1..Len(s), Elems(s))
    BY DEF Elems, Surjection
  <2>2. s \in Injection(1..Len(s), Elems(s))
    BY <1>0, Zenon DEF Injection, IsInjective, NoDup
  <2> QED
    BY <2>1, <2>2, Zenon DEF Bijection
<1>2. ExistsBijection(1..Len(s), Elems(s))
  BY <1>1, Zenon DEF ExistsBijection
<1>3. IsFiniteSet(1..Len(s)) /\ Cardinality(1..Len(s)) = Len(s)
  <2>1. Len(s) \in Nat
    OBVIOUS
  <2> QED
    BY <2>1, FS_Interval
<1> QED
  BY <1>2, <1>3, FS_Bijection, Zenon

-----------------------------------------------------------------------------
(* The inductive invariant.                                                 *)

Labels == {"idle", "lock_hit", "lock_miss", "reading", "held"}

Records ==
    [block_no : Blocks \cup {None}, acquired : BOOLEAN, pinned : BOOLEAN,
     valid : BOOLEAN, data : Values]

Types ==
    /\ disk \in [Blocks -> Values]
    /\ list \in Seq(Objects)
    /\ obj \in [Objects -> Records]
    /\ locked \in [Objects -> BOOLEAN]
    /\ pc \in [Threads -> Labels]
    /\ want \in [Threads -> Blocks \cup {None}]
    /\ ptr \in [Threads -> Objects \cup {None}]
    /\ readNo \in [Threads -> Blocks \cup {None}]
    /\ latest \in [Blocks -> Values]
    /\ recent \in Seq(Blocks)
    /\ unread \in BOOLEAN

\* No object is in use after it was freed: the states that have a next step.
AllKept == \A t \in Threads : Kept(t)

\* The list has an object once, and a block has one object in it.
ListInv ==
    /\ NoDup(list)
    /\ \A o \in Cached : obj[o].block_no \in Blocks
    /\ \A o, q \in Cached : obj[o].block_no = obj[q].block_no => o = q

\* The order of the list is the order of use.
OrderInv ==
    /\ NoDup(recent)
    /\ \A o \in Cached : obj[o].block_no \in Elems(recent)
    /\ \A o, q : Before(list, o, q) =>
                 Before(recent, obj[o].block_no, obj[q].block_no)

\* The sleeplock of an object is held by the one thread that reads or has it, the
\* thread that created an object is the only one to read it, and `acquired' is set
\* only while a thread has it.
LockInv ==
    /\ \A t \in Threads : pc[t] \in {"reading", "held"} => locked[ptr[t]]
    /\ \A t, u \in Threads :
         ( /\ pc[t] \in {"reading", "held"} /\ pc[u] \in {"reading", "held"}
           /\ ptr[t] = ptr[u] ) => t = u
    /\ \A t \in Threads : pc[t] \in {"lock_miss", "reading"} => ~obj[ptr[t]].valid
    /\ \A t, u \in Threads :
         ( /\ pc[t] \in {"lock_miss", "reading"} /\ pc[u] \in {"lock_miss", "reading"}
           /\ ptr[t] = ptr[u] ) => t = u
    /\ \A t \in Threads : pc[t] = "reading" => readNo[t] = obj[ptr[t]].block_no
    /\ \A o \in Cached : obj[o].acquired =>
         \E t \in Threads : pc[t] = "held" /\ ptr[t] = o

\* A block that was modified is in the cache and pinned.
PinInv ==
    \A b \in Blocks : latest[b] # InitValue =>
        \E o \in Cached : obj[o].block_no = b /\ obj[o].pinned

\* Where the last content of a block is: in its object once that is valid, and on the
\* disk until a thread modifies the block.
ContentInv ==
    ~unread =>
    /\ \A o \in Cached : obj[o].valid => obj[o].data = latest[obj[o].block_no]
    /\ \A o \in Cached : ~obj[o].valid \/ ~obj[o].pinned =>
                         disk[obj[o].block_no] = latest[obj[o].block_no]
    /\ \A b \in Blocks : Holding(b) = {} => disk[b] = latest[b]

\* A thread that has an object has a valid one.
ValidInv ==
    ~unread => \A t \in Threads : pc[t] = "held" => obj[ptr[t]].valid

CacheInv ==
    /\ Types /\ ListInv /\ OrderInv /\ PinInv /\ ContentInv
    /\ AllKept => LockInv /\ ValidInv
    /\ HeldExclusive /\ HeldContent /\ CacheBounded

-----------------------------------------------------------------------------
(* What the steps do.                                                       *)

\* In a state with a next step, a thread that is not idle has a cached object.
LEMMA InHand ==
  ASSUME Types, ListInv, AllKept, NEW t \in Threads, pc[t] # "idle"
  PROVE  /\ ptr[t] \in Cached /\ ptr[t] \in Objects
         /\ want[t] = obj[ptr[t]].block_no /\ want[t] \in Blocks
BY DEF Types, ListInv, AllKept, Kept, Cached

\* The objects in the list are objects, each with its block.
LEMMA CachedObjects ==
  ASSUME Types
  PROVE  Cached = Elems(list) /\ \A o \in Cached : o \in Objects /\ obj[o] \in Records
BY DEF Types, Cached, Elems

\* The history of use after an acquire.
LEMMA UseFacts ==
  ASSUME Types, OrderInv, NEW b \in Blocks, Use(b)
  PROVE  /\ recent' \in Seq(Blocks)
         /\ Elems(recent') = {b} \cup Elems(recent)
         /\ NoDup(recent')
         /\ \A x, y : Before(recent', x, y) <=>
              \/ x = b /\ y \in Elems(recent) /\ y # b
              \/ x # b /\ y # b /\ Before(recent, x, y)
<1> DEFINE f == <<b>> \o Without(recent, {b})
<1>1. recent \in Seq(Blocks) /\ NoDup(recent)
  BY Zenon DEF Types, OrderInv
<1>2. /\ f \in Seq(Blocks)
      /\ Elems(f) = {b} \cup (Elems(recent) \ {b})
      /\ NoDup(f)
      /\ \A x, y : Before(f, x, y) <=>
           \/ x = b /\ y \in Elems(recent) \ {b}
           \/ x \notin {b} /\ y \notin {b} /\ Before(recent, x, y)
  BY <1>1, FrontFacts
<1>3. recent' = f
  BY Zenon DEF Use
<1> HIDE DEF f
<1> QED
  BY <1>2, <1>3, Zenon

\* The list after a hit.
LEMMA HitFacts ==
  ASSUME Types, ListInv, NEW o \in Cached, list' = <<o>> \o Without(list, {o})
  PROVE  /\ list' \in Seq(Objects)
         /\ Cached' = Cached
         /\ NoDup(list')
         /\ \A x, y : Before(list', x, y) <=>
              \/ x = o /\ y \in Cached /\ y # o
              \/ x # o /\ y # o /\ Before(list, x, y)
<1> DEFINE f == <<o>> \o Without(list, {o})
<1>1. list \in Seq(Objects) /\ NoDup(list) /\ Cached = Elems(list) /\ o \in Objects
  BY CachedObjects, Zenon DEF Types, ListInv
<1>2. /\ f \in Seq(Objects)
      /\ Elems(f) = {o} \cup (Elems(list) \ {o})
      /\ NoDup(f)
      /\ \A x, y : Before(f, x, y) <=>
           \/ x = o /\ y \in Elems(list) \ {o}
           \/ x \notin {o} /\ y \notin {o} /\ Before(list, x, y)
  BY <1>1, FrontFacts
<1>3. list' = f /\ Cached' = Elems(list')
  BY Zenon DEF Cached, Elems
<1> HIDE DEF f
<1> QED
  BY <1>1, <1>2, <1>3, Zenon

\* The list after a miss.
LEMMA MissFacts ==
  ASSUME Types, ListInv, NEW E, NEW o \in Objects, o \notin Cached \ E,
         list' = <<o>> \o Without(list, E)
  PROVE  /\ list' \in Seq(Objects)
         /\ Cached' = {o} \cup (Cached \ E)
         /\ NoDup(list')
         /\ \A x, y : Before(list', x, y) <=>
              \/ x = o /\ y \in Cached \ E
              \/ x \notin E /\ y \notin E /\ Before(list, x, y)
<1> DEFINE f == <<o>> \o Without(list, E)
<1>1. list \in Seq(Objects) /\ NoDup(list) /\ Cached = Elems(list)
  BY CachedObjects, Zenon DEF Types, ListInv
<1>2. /\ f \in Seq(Objects)
      /\ Elems(f) = {o} \cup (Elems(list) \ E)
      /\ NoDup(f)
      /\ \A x, y : Before(f, x, y) <=>
           \/ x = o /\ y \in Elems(list) \ E
           \/ x \notin E /\ y \notin E /\ Before(list, x, y)
  BY <1>1, FrontFacts, Zenon
<1>3. list' = f /\ Cached' = Elems(list')
  BY Zenon DEF Cached, Elems
<1> HIDE DEF f
<1>4. Cached' = {o} \cup (Cached \ E)
  BY <1>1, <1>2, <1>3, Zenon
<1>5. ASSUME NEW x, NEW y
      PROVE  Before(list', x, y) <=>
              \/ x = o /\ y \in Cached \ E
              \/ x \notin E /\ y \notin E /\ Before(list, x, y)
  BY <1>1, <1>2, <1>3, Zenon
<1> QED
  BY <1>2, <1>3, <1>4, <1>5, Zenon

\* A step that leaves the list, the history of use and the block numbers alone.
LEMMA SameList ==
  ASSUME Types, ListInv, OrderInv, list' = list, recent' = recent,
         \A o \in Objects : obj'[o].block_no = obj[o].block_no
  PROVE  /\ Cached' = Cached
         /\ ListInv'
         /\ OrderInv'
         /\ \A b \in Blocks : Holding(b)' = Holding(b)
<1>1. Cached' = Cached
  BY Zenon DEF Cached
<1>2. \A o \in Cached : o \in Objects
  BY CachedObjects, Zenon
<1>3. ListInv'
  BY <1>1, <1>2 DEF ListInv
<1>4. \A o, q : Before(list, o, q) => o \in Cached /\ q \in Cached
  BY Zenon DEF Before, Cached
<1>5. OrderInv'
  BY <1>1, <1>2, <1>4 DEF OrderInv
<1>6. \A b \in Blocks : Holding(b)' = Holding(b)
  BY <1>1, <1>2, Zenon DEF Holding
<1> QED
  BY <1>1, <1>3, <1>5, <1>6, Zenon

\* The list gets no longer and no object loses its pin.
LEMMA SameBound ==
  ASSUME Types, ListInv, CacheBounded, Cached' = Cached, list' \in Seq(Objects),
         NoDup(list'), \A o \in Cached : obj[o].pinned => obj'[o].pinned
  PROVE  CacheBounded'
<1>1. IsFiniteSet(Cached) /\ Cardinality(Cached) = Len(list)
  BY Zenon, CachedObjects, LengthIsCardinality DEF Types, ListInv
<1>2. Cached' = Elems(list')
  BY Zenon DEF Cached, Elems
<1>3. Cardinality(Cached) = Len(list')
  BY <1>2, LengthIsCardinality, Zenon
<1>4. Pinned' \in SUBSET Cached /\ Pinned \in SUBSET Pinned'
  BY Zenon DEF Pinned
<1>5. /\ IsFiniteSet(Pinned') /\ Cardinality(Pinned) <= Cardinality(Pinned')
      /\ IsFiniteSet(Pinned)
  BY <1>1, <1>4, FS_Subset, Zenon
<1>6. PICK n \in Nat : n = Cardinality(Pinned')
  BY <1>5, FS_CardinalityType, Zenon
<1>7. Cardinality(Pinned) \in Nat /\ Cardinality(Threads) \in Nat /\ Len(list) \in Nat
  BY <1>1, <1>5, FS_CardinalityType, BlockCacheAssumption, Zenon
<1>8. Len(list') = Len(list)
  BY <1>1, <1>3, Zenon
<1> QED
  BY <1>5, <1>6, <1>7, <1>8 DEF CacheBounded

\* acquire_sleeplock on the path of a hit keeps the invariant: the object is free to
\* take, and one that is not valid sets `unread'.
LEMMA LockHitInv ==
  ASSUME CacheInv, AllKept, NEW t \in Threads, LockHit(t)
  PROVE  CacheInv'
<1> DEFINE p == ptr[t]
<1>1. /\ Types /\ ListInv /\ OrderInv /\ PinInv /\ ContentInv /\ LockInv /\ ValidInv
      /\ HeldExclusive /\ HeldContent /\ CacheBounded
  BY Zenon DEF CacheInv
<1>2. /\ pc[t] = "lock_hit" /\ ~locked[p] /\ unread' = (unread \/ ~obj[p].valid)
      /\ list' = list /\ obj' = obj /\ recent' = recent /\ disk' = disk
      /\ want' = want /\ ptr' = ptr /\ readNo' = readNo /\ latest' = latest
      /\ locked' = [locked EXCEPT ![p] = TRUE] /\ pc' = [pc EXCEPT ![t] = "held"]
  BY Zenon DEF LockHit, CanLock
<1>3. p \in Cached /\ p \in Objects /\ want[t] = obj[p].block_no /\ want[t] \in Blocks
  BY <1>1, <1>2, InHand, Zenon
<1>4. Types'
  BY <1>1, <1>2, <1>3, Zenon DEF Types, Labels
<1>5. Cached' = Cached /\ ListInv' /\ OrderInv' /\ \A b \in Blocks : Holding(b)' = Holding(b)
  BY <1>1, <1>2, SameList, Zenon
<1>6. PinInv'
  BY <1>1, <1>2, <1>5, Zenon DEF PinInv
<1>7. ContentInv'
  BY <1>1, <1>2, <1>5, Zenon DEF ContentInv
<1>8. LockInv'
  BY <1>1, <1>2, <1>3, <1>5 DEF LockInv, Types
<1>9. ValidInv'
  BY <1>1, <1>2, Zenon DEF ValidInv, Types
<1>10. HeldExclusive'
  <2>1. ASSUME NEW u \in Threads, pc[u] = "held" PROVE want[u] # want[t]
    <3>1. ptr[u] \in Cached /\ want[u] = obj[ptr[u]].block_no /\ locked[ptr[u]]
      BY <1>1, <2>1, InHand, Zenon DEF LockInv
    <3> QED
      BY <1>1, <1>2, <1>3, <3>1, Zenon DEF ListInv
  <2> QED
    BY <1>1, <1>2, <2>1 DEF HeldExclusive
<1>11. HeldContent'
  <2> SUFFICES ASSUME ~unread', NEW u \in Threads, pc'[u] = "held"
               PROVE  obj[ptr[u]].data = latest[want[u]]
    BY <1>2, Zenon DEF HeldContent
  <2>1. ~unread /\ obj[p].valid
    BY <1>2, Zenon
  <2>2. CASE u = t
    BY Zenon, <1>1, <1>3, <2>1, <2>2 DEF ContentInv
  <2>3. CASE u # t
    BY <1>1, <1>2, <2>1, <2>3 DEF HeldContent
  <2> QED
    BY <2>2, <2>3, Zenon
<1>12. CacheBounded'
  BY <1>1, <1>2, <1>5, SameBound, Zenon DEF ListInv, Types
<1> QED
  BY <1>4, <1>5, <1>6, <1>7, <1>8, <1>9, <1>10, <1>11, <1>12, Zenon DEF CacheInv

\* acquire_sleeplock on the path of a miss keeps it: nobody else reads this object.
LEMMA LockMissInv ==
  ASSUME CacheInv, AllKept, NEW t \in Threads, LockMiss(t)
  PROVE  CacheInv'
<1> DEFINE p == ptr[t]
<1>1. /\ Types /\ ListInv /\ OrderInv /\ PinInv /\ ContentInv /\ LockInv /\ ValidInv
      /\ HeldExclusive /\ HeldContent /\ CacheBounded
  BY Zenon DEF CacheInv
<1>2. /\ pc[t] = "lock_miss" /\ ~locked[p] /\ unread' = unread
      /\ list' = list /\ obj' = obj /\ recent' = recent /\ disk' = disk
      /\ want' = want /\ ptr' = ptr /\ latest' = latest
      /\ readNo' = [readNo EXCEPT ![t] = obj[p].block_no]
      /\ locked' = [locked EXCEPT ![p] = TRUE] /\ pc' = [pc EXCEPT ![t] = "reading"]
  BY Zenon DEF LockMiss, CanLock
<1>3. p \in Cached /\ p \in Objects /\ want[t] = obj[p].block_no /\ want[t] \in Blocks
  BY <1>1, <1>2, InHand, Zenon
<1>4. Types'
  BY <1>1, <1>2, <1>3, Zenon DEF Types, Labels
<1>5. Cached' = Cached /\ ListInv' /\ OrderInv' /\ \A b \in Blocks : Holding(b)' = Holding(b)
  BY <1>1, <1>2, SameList, Zenon
<1>6. PinInv'
  BY <1>1, <1>2, <1>5, Zenon DEF PinInv
<1>7. ContentInv'
  BY <1>1, <1>2, <1>5, Zenon DEF ContentInv
<1>8. LockInv'
  BY <1>1, <1>2, <1>3, <1>5 DEF LockInv, Types
<1>9. ValidInv'
  BY <1>1, <1>2 DEF ValidInv
<1>10. HeldExclusive'
  BY <1>1, <1>2 DEF HeldExclusive
<1>11. HeldContent'
  BY <1>1, <1>2 DEF HeldContent
<1>12. CacheBounded'
  BY <1>1, <1>2, <1>5, SameBound, Zenon DEF ListInv, Types
<1> QED
  BY Zenon, <1>4, <1>5, <1>6, <1>7, <1>8, <1>9, <1>10, <1>11, <1>12 DEF CacheInv

\* The end of device_read keeps it: what was on the disk is the last content of the
\* block, because the object was not valid until now.
LEMMA ReadDoneInv ==
  ASSUME CacheInv, AllKept, NEW t \in Threads, ReadDone(t)
  PROVE  CacheInv'
<1> DEFINE p == ptr[t]
<1>1. /\ Types /\ ListInv /\ OrderInv /\ PinInv /\ ContentInv /\ LockInv /\ ValidInv
      /\ HeldExclusive /\ HeldContent /\ CacheBounded
  BY Zenon DEF CacheInv
<1>2. /\ pc[t] = "reading" /\ unread' = unread
      /\ list' = list /\ recent' = recent /\ disk' = disk /\ locked' = locked
      /\ want' = want /\ ptr' = ptr /\ readNo' = readNo /\ latest' = latest
      /\ pc' = [pc EXCEPT ![t] = "held"]
  BY Zenon DEF ReadDone
<1>3. p \in Cached /\ p \in Objects /\ want[t] = obj[p].block_no /\ want[t] \in Blocks
  BY <1>1, <1>2, InHand, Zenon
<1>4. ~obj[p].valid /\ readNo[t] = obj[p].block_no
  BY <1>1, <1>2, Zenon DEF LockInv
<1>5. /\ obj' \in [Objects -> Records]
      /\ \A o \in Objects : o # p => obj'[o] = obj[o]
      /\ obj'[p].block_no = obj[p].block_no /\ obj'[p].pinned = obj[p].pinned
      /\ obj'[p].data = disk[want[t]] /\ obj'[p].valid /\ obj'[p].acquired
  BY <1>1, <1>3, <1>4 DEF ReadDone, Types, Records
<1>6. Types'
  BY <1>1, <1>2, <1>5, Zenon DEF Types, Labels
<1>7. Cached' = Cached /\ ListInv' /\ OrderInv' /\ \A b \in Blocks : Holding(b)' = Holding(b)
  BY <1>1, <1>2, <1>5, SameList, Zenon
<1>8. \A o \in Cached : o \in Objects
  BY <1>1, CachedObjects, Zenon
<1>9. PinInv'
  BY <1>1, <1>2, <1>5, <1>7, <1>8 DEF PinInv
<1>10. ContentInv'
  BY <1>1, <1>2, <1>3, <1>4, <1>5, <1>7, <1>8 DEF ContentInv
<1>11. \A u \in Threads : pc[u] # "idle" => ptr[u] \in Objects
  BY <1>1, InHand, Zenon
<1>12. LockInv'
  BY <1>1, <1>2, <1>5, <1>7, <1>8, <1>11 DEF LockInv, Types
<1>13. ValidInv'
  BY <1>1, <1>2, <1>5, <1>11 DEF ValidInv
<1>14. \A u \in Threads : pc[u] = "held" => ptr[u] # p /\ want[u] # want[t]
  BY <1>1, <1>2, InHand DEF LockInv, ListInv
<1>15. HeldExclusive'
  BY <1>1, <1>2, <1>14 DEF HeldExclusive
<1>16. HeldContent'
  BY <1>1, <1>2, <1>3, <1>4, <1>5, <1>11, <1>14 DEF HeldContent, ContentInv
<1>17. CacheBounded'
  BY <1>1, <1>2, <1>5, <1>7, <1>8, SameBound, Zenon DEF ListInv, Types
<1> QED
  BY Zenon, <1>6, <1>7, <1>9, <1>10, <1>12, <1>13, <1>15, <1>16, <1>17 DEF CacheInv

\* A modification keeps it: the object has the new content and is pinned.
LEMMA ModifyInv ==
  ASSUME CacheInv, AllKept, NEW t \in Threads, NEW v \in Values, Modify(t, v)
  PROVE  CacheInv'
<1> DEFINE p == ptr[t]
<1>1. /\ Types /\ ListInv /\ OrderInv /\ PinInv /\ ContentInv /\ LockInv /\ ValidInv
      /\ HeldExclusive /\ HeldContent /\ CacheBounded
  BY Zenon DEF CacheInv
<1>2. /\ pc[t] = "held" /\ unread' = unread /\ pc' = pc
      /\ list' = list /\ recent' = recent /\ disk' = disk /\ locked' = locked
      /\ want' = want /\ ptr' = ptr /\ readNo' = readNo
      /\ latest' = [latest EXCEPT ![want[t]] = v]
  BY Zenon DEF Modify
<1>3. p \in Cached /\ p \in Objects /\ want[t] = obj[p].block_no /\ want[t] \in Blocks
  BY <1>1, <1>2, InHand, Zenon
<1>4. ~unread => obj[p].valid
  BY <1>1, <1>2, Zenon DEF ValidInv
<1>5. /\ obj' \in [Objects -> Records]
      /\ \A o \in Objects : o # p => obj'[o] = obj[o]
      /\ obj'[p].block_no = obj[p].block_no /\ obj'[p].acquired = obj[p].acquired
      /\ obj'[p].data = v /\ obj'[p].valid = obj[p].valid /\ obj'[p].pinned
  BY <1>1, <1>3, Zenon DEF Modify, Types, Records
<1>6. Types'
  BY <1>1, <1>2, <1>3, <1>5, Zenon DEF Types
<1>7. Cached' = Cached /\ ListInv' /\ OrderInv' /\ \A b \in Blocks : Holding(b)' = Holding(b)
  BY <1>1, <1>2, <1>5, SameList, Zenon
<1>8. \A o \in Cached : o \in Objects /\ (o # p => obj[o].block_no # want[t])
  BY <1>1, <1>3, CachedObjects, Zenon DEF ListInv
<1>9. PinInv'
  <2> SUFFICES ASSUME NEW b \in Blocks, latest'[b] # InitValue
               PROVE  \E o \in Cached : obj'[o].block_no = b /\ obj'[o].pinned
    BY <1>7, Zenon DEF PinInv
  <2>1. CASE b = want[t]
    BY Zenon, <1>3, <1>5, <2>1
  <2>2. CASE b # want[t]
    <3>1. latest[b] # InitValue
      BY Zenon, <1>1, <1>2, <2>2 DEF Types
    <3>2. PICK o \in Cached : obj[o].block_no = b /\ obj[o].pinned
      BY <1>1, <3>1, Zenon DEF PinInv
    <3> QED
      BY Zenon, <1>3, <1>5, <1>8, <2>2, <3>2
  <2> QED
    BY Zenon, <2>1, <2>2
<1>10. ContentInv'
  <2>1. \A b \in Blocks : latest'[b] = IF b = want[t] THEN v ELSE latest[b]
    BY <1>1, <1>2, Zenon DEF Types
  <2>2. \A o \in Cached : obj[o].block_no \in Blocks
    BY <1>1, Zenon DEF ListInv
  <2>3. p \in Holding(want[t])
    BY <1>3, Zenon DEF Holding
  <2> QED
    BY <1>1, <1>2, <1>3, <1>4, <1>5, <1>7, <1>8, <2>1, <2>3 DEF ContentInv
<1>11. \A u \in Threads : pc[u] # "idle" => ptr[u] \in Objects
  BY <1>1, InHand, Zenon
<1>12. LockInv'
  BY <1>1, <1>2, <1>5, <1>7, <1>8, <1>11 DEF LockInv
<1>13. ValidInv'
  BY <1>1, <1>2, <1>5, <1>11, Zenon DEF ValidInv
<1>14. \A u \in Threads : u # t /\ pc[u] = "held"
             => ptr[u] # p /\ want[u] # want[t] /\ want[u] \in Blocks
  <2> SUFFICES ASSUME NEW u \in Threads, u # t, pc[u] = "held"
               PROVE  ptr[u] # p /\ want[u] # want[t] /\ want[u] \in Blocks
    BY Zenon
  <2>1. /\ ptr[u] \in Cached /\ ptr[u] \in Objects
        /\ want[u] = obj[ptr[u]].block_no /\ want[u] \in Blocks
    BY <1>1, InHand, Zenon
  <2>2. ptr[u] # p
    BY <1>1, <1>2, Zenon DEF LockInv
  <2> QED
    BY <1>8, <2>1, <2>2, Zenon
<1>15. HeldExclusive'
  BY <1>1, <1>2, Zenon DEF HeldExclusive
<1>16. HeldContent'
  BY <1>1, <1>2, <1>3, <1>5, <1>11, <1>14, Zenon DEF HeldContent, Types
<1>17. CacheBounded'
  BY <1>1, <1>2, <1>5, <1>7, <1>8, SameBound, Zenon DEF ListInv, Types
<1> QED
  BY <1>6, <1>7, <1>9, <1>10, <1>12, <1>13, <1>15, <1>16, <1>17, Zenon DEF CacheInv

\* device_write of a held block keeps it: what goes to the disk is the last content.
LEMMA WriteBackInv ==
  ASSUME CacheInv, AllKept, NEW t \in Threads, WriteBack(t)
  PROVE  CacheInv'
<1> DEFINE p == ptr[t]
<1>1. /\ Types /\ ListInv /\ OrderInv /\ PinInv /\ ContentInv /\ LockInv /\ ValidInv
      /\ HeldExclusive /\ HeldContent /\ CacheBounded
  BY Zenon DEF CacheInv
<1>2. /\ pc[t] = "held" /\ unread' = unread /\ pc' = pc
      /\ list' = list /\ obj' = obj /\ recent' = recent /\ locked' = locked
      /\ want' = want /\ ptr' = ptr /\ readNo' = readNo /\ latest' = latest
      /\ disk' = [disk EXCEPT ![obj[p].block_no] = obj[p].data]
  BY Zenon DEF WriteBack
<1>3. p \in Cached /\ p \in Objects /\ want[t] = obj[p].block_no /\ want[t] \in Blocks
  BY <1>1, <1>2, InHand, Zenon
<1>4. ~unread => obj[p].valid /\ obj[p].data = latest[want[t]]
  BY <1>1, <1>2, <1>3, Zenon DEF ValidInv, ContentInv
<1>5. obj[p].data \in Values
  BY <1>1, <1>3, Zenon DEF Types, Records
<1>6. Types'
  BY <1>1, <1>2, <1>3, <1>5, Zenon DEF Types
<1>7. Cached' = Cached /\ ListInv' /\ OrderInv' /\ \A b \in Blocks : Holding(b)' = Holding(b)
  BY <1>1, <1>2, SameList, Zenon
<1>8. PinInv'
  BY <1>1, <1>2, <1>7, Zenon DEF PinInv
<1>9. \A b \in Blocks : disk'[b] = IF b = want[t] THEN obj[p].data ELSE disk[b]
  BY <1>1, <1>2, <1>3, Zenon DEF Types
<1>10. \A o \in Cached : obj[o].block_no \in Blocks
  BY <1>1, Zenon DEF ListInv
<1>11. ContentInv'
  BY <1>1, <1>2, <1>4, <1>7, <1>9, <1>10 DEF ContentInv
<1>12. LockInv'
  BY <1>1, <1>2, <1>7, Zenon DEF LockInv
<1>13. ValidInv'
  BY <1>1, <1>2, Zenon DEF ValidInv
<1>14. HeldExclusive'
  BY <1>1, <1>2, Zenon DEF HeldExclusive
<1>15. HeldContent'
  BY <1>1, <1>2, Zenon DEF HeldContent
<1>16. CacheBounded'
  BY <1>1, <1>2, <1>7, SameBound, Zenon DEF ListInv, Types
<1> QED
  BY Zenon, <1>6, <1>7, <1>8, <1>11, <1>12, <1>13, <1>14, <1>15, <1>16 DEF CacheInv

\* cache_release keeps it: `acquired' and the sleeplock are given up together.
LEMMA ReleaseInv ==
  ASSUME CacheInv, AllKept, NEW t \in Threads, Release(t)
  PROVE  CacheInv'
<1> DEFINE p == ptr[t]
<1>1. /\ Types /\ ListInv /\ OrderInv /\ PinInv /\ ContentInv /\ LockInv /\ ValidInv
      /\ HeldExclusive /\ HeldContent /\ CacheBounded
  BY Zenon DEF CacheInv
<1>2. /\ pc[t] = "held" /\ unread' = unread
      /\ list' = list /\ recent' = recent /\ disk' = disk /\ latest' = latest
      /\ locked' = [locked EXCEPT ![p] = FALSE] /\ pc' = [pc EXCEPT ![t] = "idle"]
      /\ want' = [want EXCEPT ![t] = None] /\ ptr' = [ptr EXCEPT ![t] = None]
      /\ readNo' = [readNo EXCEPT ![t] = None]
  BY Zenon DEF Release
<1>3. p \in Cached /\ p \in Objects /\ want[t] = obj[p].block_no /\ want[t] \in Blocks
  BY <1>1, <1>2, InHand, Zenon
<1>4. /\ obj' \in [Objects -> Records]
      /\ \A o \in Objects : o # p => obj'[o] = obj[o]
      /\ obj'[p].block_no = obj[p].block_no /\ obj'[p].data = obj[p].data
      /\ obj'[p].pinned = obj[p].pinned /\ obj'[p].valid = obj[p].valid
      /\ ~obj'[p].acquired
  BY <1>1, <1>3, Zenon DEF Release, Types, Records
<1>5. Types'
  BY <1>1, <1>2, <1>4, Zenon DEF Types, Labels
<1>6. Cached' = Cached /\ ListInv' /\ OrderInv' /\ \A b \in Blocks : Holding(b)' = Holding(b)
  BY <1>1, <1>2, <1>4, SameList, Zenon
<1>7. \A o \in Cached : o \in Objects
  BY ZenonT(30), <1>1, CachedObjects
<1>8. PinInv'
  BY ZenonT(30), <1>1, <1>2, <1>4, <1>6, <1>7 DEF PinInv
<1>9. ContentInv'
  BY <1>1, <1>2, <1>4, <1>6, <1>7 DEF ContentInv
<1>10. \A u \in Threads : pc[u] # "idle" => ptr[u] \in Objects
  BY Zenon, <1>1, InHand
<1>11. \A u \in Threads : u # t /\ pc[u] \in {"reading", "held"} => ptr[u] # p
  BY <1>1, <1>2, Zenon DEF LockInv
<1>12. \A u \in Threads : u # t => pc'[u] = pc[u] /\ ptr'[u] = ptr[u] /\ want'[u] = want[u]
                                   /\ readNo'[u] = readNo[u]
  BY <1>2
<1>13. pc'[t] = "idle"
  BY <1>1, <1>2, Zenon DEF Types
<1>14. \A o \in Objects : o # p => locked'[o] = locked[o]
  BY <1>2
<1>15. LockInv'
  BY <1>1, <1>4, <1>6, <1>7, <1>10, <1>11, <1>12, <1>13, <1>14 DEF LockInv
<1>16. ValidInv'
  BY <1>1, <1>2, <1>4, <1>10, <1>13 DEF ValidInv
<1>17. HeldExclusive'
  BY <1>1, <1>12, <1>13 DEF HeldExclusive
<1>18. HeldContent'
  BY <1>1, <1>2, <1>4, <1>10, <1>13 DEF HeldContent
<1>19. CacheBounded'
  BY <1>1, <1>2, <1>4, <1>6, <1>7, SameBound, Zenon DEF ListInv, Types
<1> QED
  BY Zenon, <1>5, <1>6, <1>8, <1>9, <1>15, <1>16, <1>17, <1>18, <1>19 DEF CacheInv

\* A hit keeps it: the object and its block go to the front of their lists together.
LEMMA HitInv ==
  ASSUME CacheInv, AllKept, NEW t \in Threads, NEW b \in Blocks, AcquireHit(t, b)
  PROVE  CacheInv'
<1>1. /\ Types /\ ListInv /\ OrderInv /\ PinInv /\ ContentInv /\ LockInv /\ ValidInv
      /\ HeldExclusive /\ HeldContent /\ CacheBounded
  BY Zenon DEF CacheInv
<1>2. PICK o \in Holding(b) :
        /\ pc[t] = "idle"
        /\ list' = <<o>> \o Without(list, {o})
        /\ pc' = [pc EXCEPT ![t] = "lock_hit"]
        /\ want' = [want EXCEPT ![t] = b] /\ ptr' = [ptr EXCEPT ![t] = o]
        /\ Use(b)
        /\ disk' = disk /\ obj' = obj /\ locked' = locked /\ readNo' = readNo
        /\ latest' = latest /\ unread' = unread
  BY Zenon DEF AcquireHit
<1>3. o \in Cached /\ obj[o].block_no = b /\ o \in Objects
  BY <1>1, CachedObjects, Zenon DEF Holding
<1>4. /\ list' \in Seq(Objects) /\ Cached' = Cached /\ NoDup(list')
      /\ \A x, y : Before(list', x, y) <=>
              \/ x = o /\ y \in Cached /\ y # o
              \/ x # o /\ y # o /\ Before(list, x, y)
  BY <1>1, <1>2, <1>3, HitFacts, Zenon
<1>5. /\ recent' \in Seq(Blocks) /\ Elems(recent') = {b} \cup Elems(recent)
      /\ NoDup(recent')
      /\ \A x, y : Before(recent', x, y) <=>
              \/ x = b /\ y \in Elems(recent) /\ y # b
              \/ x # b /\ y # b /\ Before(recent, x, y)
  BY <1>1, <1>2, UseFacts, Zenon
<1>6. Types'
  BY <1>1, <1>2, <1>4, <1>5 DEF Types, Labels
<1>7. ListInv'
  BY <1>1, <1>2, <1>4, Zenon DEF ListInv
<1>8. \A x, y : Before(list, x, y) => x \in Cached /\ y \in Cached
  BY Zenon DEF Before, Cached
<1>9. OrderInv'
  <2>1. ASSUME NEW x, NEW y, Before(list', x, y)
        PROVE  Before(recent', obj[x].block_no, obj[y].block_no)
    BY <1>1, <1>3, <1>4, <1>5, <1>8, <2>1, Zenon DEF OrderInv, ListInv
  <2>2. \A x \in Cached : obj[x].block_no \in Elems(recent')
    BY <1>1, <1>5, Zenon DEF OrderInv
  <2> QED
    BY <1>2, <1>4, <1>5, <2>1, <2>2, Zenon DEF OrderInv
<1>10. PinInv'
  BY <1>1, <1>2, <1>4, Zenon DEF PinInv
<1>11. ContentInv'
  BY <1>1, <1>2, <1>4, Zenon DEF ContentInv, Holding
<1>12. \A u \in Threads : u # t => pc'[u] = pc[u] /\ ptr'[u] = ptr[u] /\ want'[u] = want[u]
  BY <1>2
<1>13. pc'[t] = "lock_hit"
  BY <1>1, <1>2, Zenon DEF Types
<1>14. LockInv'
  <2>1. \A u \in Threads : pc'[u] \in {"lock_miss", "reading", "held"} \/ pc[u] = "held"
          => pc'[u] = pc[u] /\ ptr'[u] = ptr[u]
    BY <1>2
  <2>2. /\ \A u \in Threads : pc'[u] \in {"reading", "held"} => locked[ptr'[u]]
        /\ \A u \in Threads : pc'[u] \in {"lock_miss", "reading"} => ~obj[ptr'[u]].valid
        /\ \A u \in Threads : pc'[u] = "reading" => readNo[u] = obj[ptr'[u]].block_no
    BY <1>1, <2>1, Zenon DEF LockInv
  <2>3. /\ \A u, v \in Threads :
             ( /\ pc'[u] \in {"reading", "held"} /\ pc'[v] \in {"reading", "held"}
               /\ ptr'[u] = ptr'[v] ) => u = v
        /\ \A u, v \in Threads :
             ( /\ pc'[u] \in {"lock_miss", "reading"} /\ pc'[v] \in {"lock_miss", "reading"}
               /\ ptr'[u] = ptr'[v] ) => u = v
    BY <1>1, <2>1 DEF LockInv
  <2>4. \A q \in Cached : obj[q].acquired =>
             \E u \in Threads : pc'[u] = "held" /\ ptr'[u] = q
    BY <1>1, <2>1 DEF LockInv
  <2> QED
    BY <1>2, <1>4, <2>2, <2>3, <2>4, Zenon DEF LockInv
<1>15. ValidInv'
  BY <1>1, <1>2 DEF ValidInv
<1>16. HeldExclusive'
  BY <1>1, <1>12, <1>13 DEF HeldExclusive
<1>17. HeldContent'
  BY <1>1, <1>2 DEF HeldContent
<1>18. CacheBounded'
  BY <1>1, <1>2, <1>4, SameBound, Zenon
<1> QED
  BY Zenon, <1>6, <1>7, <1>9, <1>10, <1>11, <1>14, <1>15, <1>16, <1>17, <1>18
     DEF CacheInv

\* The objects at some places of a list without duplicates are as many as the places.
LEMMA PlacesCount ==
  ASSUME NEW S, NEW s \in Seq(S), NoDup(s), NEW K \in SUBSET DOMAIN s
  PROVE  LET L == {s[k] : k \in K} IN
         IsFiniteSet(K) /\ IsFiniteSet(L) /\ Cardinality(L) = Cardinality(K)
<1> DEFINE L == {s[k] : k \in K}
           f == [k \in K |-> s[k]]
<1>1. IsFiniteSet(K)
  <2>1. Len(s) \in Nat /\ K \in SUBSET (1..Len(s))
    OBVIOUS
  <2> QED
    BY FS_Interval, FS_Subset
<1>2. f \in [K -> L] /\ \A k \in K : f[k] = s[k] /\ k \in DOMAIN s
  BY Zenon
<1>3. f \in Surjection(K, L)
  BY Zenon DEF Surjection
<1>4. f \in Injection(K, L)
  BY Zenon DEF Injection, IsInjective, NoDup
<1> HIDE DEF f, L
<1>5. ExistsBijection(K, L)
  BY <1>3, <1>4, Zenon DEF ExistsBijection, Bijection
<1>6. IsFiniteSet(L) /\ Cardinality(L) = Cardinality(K)
  BY <1>1, <1>5, FS_Bijection, Zenon
<1> QED
  BY <1>1, <1>6, Zenon DEF L

\* The eviction frees enough, or everything it may.
LEMMA EvictedFacts ==
  ASSUME Types, ListInv
  PROVE  /\ Evicted \in SUBSET Cached
         /\ \A x \in Evicted : Evictable(x)
         /\ \/ Cardinality(Cached \ Evicted) < EVICTION_THRESHOLD
            \/ \A x \in Cached : Evictable(x) => x \in Evicted
<1> DEFINE Later(j) == {k \in (j + 1)..Len(list) : Evictable(list[k])}
           X == {j \in DOMAIN list : Evictable(list[j]) /\ Cardinality(Later(j)) < Surplus}
           Left == {j \in DOMAIN list : Evictable(list[j]) /\ j \notin X}
<1>1. /\ list \in Seq(Objects) /\ NoDup(list) /\ Len(list) \in Nat
      /\ DOMAIN list = 1..Len(list)
  BY DEF Types, ListInv
<1>2. Evicted = {list[i] : i \in X}
  BY Zenon DEF Evicted
<1>3. Evicted \in SUBSET Cached /\ \A x \in Evicted : Evictable(x)
  BY <1>2, Zenon DEF Cached
<1>4. SUFFICES ASSUME NEW y \in Cached, Evictable(y), y \notin Evicted
               PROVE  Cardinality(Cached \ Evicted) < EVICTION_THRESHOLD
  BY <1>3, Zenon
<1>5. PICK j \in Left : \A k \in Left : k <= j
  <2> DEFINE D == {n \in Nat : Len(list) - n \in Left}
  <2>1. PICK i \in DOMAIN list : list[i] = y
    BY Zenon DEF Cached
  <2>2. i \in Left
    BY <1>2, <1>4, <2>1, Zenon
  <2>3. D # {}
    <3>1. Len(list) - i \in Nat /\ Len(list) - (Len(list) - i) = i
      BY <2>1
    <3> HIDE DEF Left
    <3> QED
      BY <2>2, <3>1, Zenon
  <2>4. PICK n \in D : \A m \in D : n <= m
    BY <2>3, LeastNumber, Zenon
  <2>5. \A k \in Left : k \in 1..Len(list)
    BY <1>1, Zenon
  <2> HIDE DEF Left
  <2>6. ASSUME NEW k \in Left PROVE k <= Len(list) - n
    <3>1. Len(list) - k \in D
      BY <2>5
    <3> QED
      BY <2>4, <2>5, <3>1
  <2> QED
    BY <2>6, Zenon
<1> DEFINE K == Later(j)
           L == {list[k] : k \in K}
<1>6. K \in SUBSET DOMAIN list /\ K \in SUBSET X
  <2>1. ASSUME NEW k \in K PROVE k \in DOMAIN list /\ Evictable(list[k]) /\ k > j
    BY <1>5
  <2>2. ASSUME NEW k \in K, k \notin X PROVE FALSE
    <3>1. k \in Left
      BY <2>2
    <3>2. k <= j
      BY <1>5, <3>1, Zenon
    <3> QED
      BY <3>2
  <2> QED
    BY <2>2, Zenon
<1>7. L \in SUBSET Evicted
  BY <1>2, <1>6, Zenon
<1>8. ~ (Cardinality(K) < Surplus)
  BY <1>5, Zenon
<1> HIDE DEF K, X, Left
<1>9. IsFiniteSet(K) /\ IsFiniteSet(L) /\ Cardinality(L) = Cardinality(K)
  BY <1>1, <1>6, PlacesCount, Zenon
<1> HIDE DEF L
<1>10. IsFiniteSet(Cached) /\ Cardinality(Cached) = Len(list)
  BY <1>1, CachedObjects, LengthIsCardinality, Zenon
<1>11. /\ IsFiniteSet(Cached \ L)
       /\ Cardinality(Cached \ L) = Cardinality(Cached) - Cardinality(Cached \cap L)
  BY <1>10, FS_Difference, Zenon
<1>12. Cached \cap L = L /\ Cached \ Evicted \in SUBSET (Cached \ L)
  BY <1>3, <1>7, Zenon
<1>13. Cardinality(Cached \ Evicted) <= Cardinality(Cached \ L) /\ IsFiniteSet(Cached \ Evicted)
  BY <1>11, <1>12, FS_Subset, Zenon
<1>14. Cardinality(K) \in Nat /\ Cardinality(Cached \ Evicted) \in Nat
  BY <1>9, <1>13, FS_CardinalityType, Zenon
<1>15. Cardinality(Cached \ L) = Len(list) - Cardinality(K)
  BY <1>9, <1>10, <1>11, <1>12, Zenon
<1> QED
  BY <1>8, <1>13, <1>14, <1>15, BlockCacheAssumption DEF Surplus

\* What a miss does, with the object it takes.
MissTo(t, b, o) ==
    /\ o \in Objects /\ o \notin Cached \ Evicted
    /\ pc[t] = "idle" /\ Holding(b) = {}
    /\ list' \in Seq(Objects) /\ Cached' = {o} \cup (Cached \ Evicted) /\ NoDup(list')
    /\ \A x, y : Before(list', x, y) <=>
         \/ x = o /\ y \in Cached \ Evicted
         \/ x \notin Evicted /\ y \notin Evicted /\ Before(list, x, y)
    /\ obj' \in [Objects -> Records]
    /\ obj'[o] = FreshBlock(b)
    /\ \A x \in Cached \ Evicted : obj'[x] = obj[x] /\ x # o
    /\ \A x \in Evicted : obj'[x].data = InitValue
    /\ locked' = [locked EXCEPT ![o] = FALSE]
    /\ pc' = [pc EXCEPT ![t] = "lock_miss"]
    /\ want' = [want EXCEPT ![t] = b] /\ ptr' = [ptr EXCEPT ![t] = o]
    /\ disk' = disk /\ readNo' = readNo /\ latest' = latest /\ unread' = unread

\* cache_acquire on a miss is MissTo with a free object.
LEMMA MissStep ==
  ASSUME Types, ListInv, NEW t \in Threads, NEW b \in Blocks, AcquireMiss(t, b)
  PROVE  Use(b) /\ \E o : MissTo(t, b, o)
<1> DEFINE rest == Without(list, Evicted)
<1>1. PICK o \in Objects \ {rest[i] : i \in DOMAIN rest} :
        /\ pc[t] = "idle" /\ Holding(b) = {}
        /\ list' = <<o>> \o rest
        /\ obj' = [x \in Objects |-> CASE x = o -> FreshBlock(b)
                                       [] x \in Evicted \ {o} -> FreshBlock(None)
                                       [] OTHER -> obj[x]]
        /\ locked' = [locked EXCEPT ![o] = FALSE]
        /\ pc' = [pc EXCEPT ![t] = "lock_miss"]
        /\ want' = [want EXCEPT ![t] = b] /\ ptr' = [ptr EXCEPT ![t] = o]
        /\ Use(b)
        /\ disk' = disk /\ readNo' = readNo /\ latest' = latest /\ unread' = unread
  BY Zenon DEF AcquireMiss
<1>2. o \notin Cached \ Evicted
  <2>1. Elems(rest) = Elems(list) \ Evicted
    BY WithoutFacts, Zenon DEF Types
  <2> QED
    BY <2>1, CachedObjects, Zenon DEF Elems
<1> HIDE DEF rest
<1>3. /\ list' \in Seq(Objects) /\ Cached' = {o} \cup (Cached \ Evicted) /\ NoDup(list')
      /\ \A x, y : Before(list', x, y) <=>
           \/ x = o /\ y \in Cached \ Evicted
           \/ x \notin Evicted /\ y \notin Evicted /\ Before(list, x, y)
  BY <1>1, <1>2, MissFacts, Zenon DEF rest
<1>4. FreshBlock(b) \in Records /\ FreshBlock(None) \in Records
  BY BlockCacheAssumption, Zenon DEF FreshBlock, Records
<1>5. \A x \in Objects : obj'[x] = IF x = o THEN FreshBlock(b)
                                   ELSE IF x \in Evicted THEN FreshBlock(None) ELSE obj[x]
  BY <1>1, Zenon
<1>6. obj' \in [Objects -> Records]
  BY <1>1, <1>4, Zenon DEF Types
<1>7. \A x \in Cached \ Evicted : obj'[x] = obj[x] /\ x # o
  BY <1>2, <1>5, CachedObjects, Zenon
<1>8. \A x \in Evicted : obj'[x].data = InitValue
  BY <1>5, EvictedFacts, CachedObjects DEF FreshBlock
<1>9. MissTo(t, b, o)
  BY <1>1, <1>2, <1>3, <1>5, <1>6, <1>7, <1>8, Zenon DEF MissTo
<1> QED
  BY <1>1, <1>9, Zenon

\* What the other blocks in the list have, a block that comes into it has not.
LEMMA MissNumbers ==
  ASSUME NEW t, NEW b, NEW o, MissTo(t, b, o)
  PROVE  /\ \A x \in Cached : obj[x].block_no # b
         /\ obj'[o].block_no = b /\ ~obj'[o].valid /\ ~obj'[o].pinned /\ ~obj'[o].acquired
         /\ obj'[o].data = InitValue
BY DEF MissTo, Holding, FreshBlock

\* A miss keeps the bound: the loop frees enough, or all that is not pinned and not in
\* use.
LEMMA MissBounded ==
  ASSUME CacheInv, AllKept, NEW t \in Threads, NEW b \in Blocks, NEW o, MissTo(t, b, o)
  PROVE  CacheBounded'
<1>1. Types /\ ListInv /\ LockInv
  BY Zenon DEF CacheInv
<1> DEFINE Stay == Cached \ Evicted
           n == Cardinality(Stay)
<1>2. IsFiniteSet(Cached) /\ Cardinality(Cached) = Len(list)
  BY <1>1, CachedObjects, LengthIsCardinality, Zenon DEF Types, ListInv
<1>3. IsFiniteSet(Stay) /\ n \in Nat
  BY <1>2, FS_Difference, FS_CardinalityType, Zenon
<1>4. Len(list') = n + 1
  <2>1. Cached' = Stay \cup {o} /\ o \notin Stay
    BY Zenon DEF MissTo
  <2>2. Cardinality(Cached') = n + 1
    BY <1>3, <2>1, FS_AddElement, Zenon
  <2>3. Cached' = Elems(list')
    BY Zenon DEF Cached, Elems
  <2> QED
    BY <2>2, <2>3, LengthIsCardinality, Zenon DEF MissTo
<1>5. CASE n < EVICTION_THRESHOLD
  BY <1>3, <1>4, <1>5, BlockCacheAssumption DEF CacheBounded
<1>6. CASE \A x \in Cached : Evictable(x) => x \in Evicted
  <2> DEFINE Others == Threads \ {t}
             f == [u \in Others |-> ptr[u]]
             A == {ptr[u] : u \in Others}
  <2>1. IsFiniteSet(Others) /\ Cardinality(Others) = Cardinality(Threads) - 1
    BY FS_RemoveElement, BlockCacheAssumption, Zenon
  <2>2. IsFiniteSet(A) /\ Cardinality(A) <= Cardinality(Others)
    <3>1. f \in Surjection(Others, A)
      BY Zenon DEF Surjection
    <3> HIDE DEF f, A, Others
    <3> QED
      BY <2>1, <3>1, FS_Surjection, Zenon
  <2>3. Pinned \in SUBSET Cached /\ IsFiniteSet(Pinned)
    BY <1>2, FS_Subset, Zenon DEF Pinned
  <2>4. Stay \in SUBSET (Pinned \cup A)
    <3> SUFFICES ASSUME NEW x \in Stay, x \notin Pinned PROVE x \in A
      BY Zenon
    <3>1. obj[x].acquired
      BY <1>6, Zenon DEF Pinned, Evictable
    <3>2. PICK u \in Threads : pc[u] = "held" /\ ptr[u] = x
      BY <1>1, <3>1, Zenon DEF LockInv
    <3>3. u # t
      BY <3>2, Zenon DEF MissTo
    <3> QED
      BY <3>2, <3>3, Zenon
  <2> HIDE DEF Stay, A, Others
  <2>5. /\ IsFiniteSet(Pinned \cup A)
        /\ Cardinality(Pinned \cup A) =
             Cardinality(Pinned) + Cardinality(A) - Cardinality(Pinned \cap A)
    BY <2>2, <2>3, FS_Union, Zenon
  <2>6. IsFiniteSet(Pinned \cap A)
    BY <2>3, FS_Subset, Zenon
  <2>7. n <= Cardinality(Pinned \cup A)
    BY <2>4, <2>5, FS_Subset, Zenon
  <2>8. /\ Cardinality(Pinned) \in Nat /\ Cardinality(A) \in Nat
        /\ Cardinality(Pinned \cap A) \in Nat /\ Cardinality(Threads) \in Nat
    BY <2>2, <2>3, <2>6, FS_CardinalityType, BlockCacheAssumption, Zenon
  <2>9. n + 1 <= Cardinality(Pinned) + Cardinality(Threads)
    BY <1>3, <2>1, <2>2, <2>5, <2>7, <2>8
  <2>10. Pinned \in SUBSET Pinned' /\ Pinned' \in SUBSET Cached'
    BY <1>1, EvictedFacts, Zenon DEF Pinned, MissTo, Evictable
  <2>11. IsFiniteSet(Cached')
    <3>1. Cached' = Stay \cup {o}
      BY Zenon DEF MissTo, Stay
    <3> QED
      BY <1>3, <3>1, FS_AddElement, Zenon
  <2>12. Cardinality(Pinned) <= Cardinality(Pinned') /\ IsFiniteSet(Pinned')
    BY <2>10, <2>11, FS_Subset, Zenon
  <2>13. PICK m \in Nat : m = Cardinality(Pinned')
    BY <2>12, FS_CardinalityType, Zenon
  <2>14. Len(list') <= m + Cardinality(Threads)
    <3>1. PICK l : l = Len(list')
      BY Zenon
    <3> HIDE DEF n
    <3> QED
      BY <1>4, <2>8, <2>9, <2>12, <2>13
  <2> QED
    BY <2>13, <2>14, Zenon DEF CacheBounded
<1> QED
  BY <1>1, <1>5, <1>6, EvictedFacts, Zenon

\* A miss keeps the invariant: the blocks it evicts are not pinned, so their last
\* content is on the disk.  What CacheInv says of the sleeplocks it keeps as long as
\* no thread has an object that was evicted.
LEMMA MissInv ==
  ASSUME CacheInv, AllKept, NEW t \in Threads, NEW b \in Blocks, AcquireMiss(t, b)
  PROVE  CacheInv'
<1>1. /\ Types /\ ListInv /\ OrderInv /\ PinInv /\ ContentInv /\ LockInv /\ ValidInv
      /\ HeldExclusive /\ HeldContent /\ CacheBounded
  BY Zenon DEF CacheInv
<1>2. PICK o : MissTo(t, b, o)
  BY <1>1, MissStep, Zenon
<1>3. /\ \A x \in Cached : obj[x].block_no # b
      /\ obj'[o].block_no = b /\ ~obj'[o].valid /\ ~obj'[o].pinned /\ ~obj'[o].acquired
      /\ obj'[o].data = InitValue
  BY <1>2, MissNumbers
<1>4. /\ Cached' = {o} \cup (Cached \ Evicted)
      /\ \A x \in Cached \ Evicted : obj'[x] = obj[x] /\ x # o
      /\ \A x \in Evicted : x \in Cached /\ Evictable(x)
  BY <1>1, <1>2, EvictedFacts, Zenon DEF MissTo
<1>5. /\ recent' \in Seq(Blocks) /\ Elems(recent') = {b} \cup Elems(recent)
      /\ NoDup(recent')
      /\ \A x, y : Before(recent', x, y) <=>
              \/ x = b /\ y \in Elems(recent) /\ y # b
              \/ x # b /\ y # b /\ Before(recent, x, y)
  BY <1>1, MissStep, UseFacts, Zenon
<1>6. disk' = disk /\ latest' = latest /\ unread' = unread /\ readNo' = readNo
  BY <1>2, Zenon DEF MissTo
<1>7. Types'
  BY <1>1, <1>2, <1>5, Zenon DEF Types, Labels, MissTo
<1>8. ListInv'
  BY <1>1, <1>2, <1>3 DEF ListInv, MissTo
<1>9. OrderInv'
  <2>1. \A x, y : Before(list, x, y) => x \in Cached /\ y \in Cached
    BY Zenon DEF Before, Cached
  <2>2. ASSUME NEW x, NEW y, Before(list', x, y)
        PROVE  Before(recent', obj'[x].block_no, obj'[y].block_no)
    <3>1. \/ x = o /\ y \in Cached \ Evicted
          \/ x \notin Evicted /\ y \notin Evicted /\ Before(list, x, y)
      BY <1>2, <2>2, Zenon DEF MissTo
    <3>2. CASE x = o /\ y \in Cached \ Evicted
      BY <1>1, <1>3, <1>4, <1>5, <3>2, Zenon DEF OrderInv
    <3>3. CASE x \notin Evicted /\ y \notin Evicted /\ Before(list, x, y)
      BY <1>1, <1>3, <1>4, <1>5, <2>1, <3>3, Zenon DEF OrderInv
    <3> QED
      BY <3>1, <3>2, <3>3, Zenon
  <2>3. \A x \in Cached' : obj'[x].block_no \in Elems(recent')
    BY <1>1, <1>3, <1>4, <1>5, Zenon DEF OrderInv
  <2> QED
    BY <1>5, <2>2, <2>3, Zenon DEF OrderInv
<1>10. \A x \in Evicted : ~obj[x].pinned /\ latest[obj[x].block_no] = InitValue
  <2>1. \A x \in Evicted : x \in Cached /\ ~obj[x].pinned /\ obj[x].block_no \in Blocks
    BY <1>1, <1>4, Zenon DEF Evictable, ListInv
  <2> QED
    BY <1>1, <2>1 DEF PinInv, ListInv
<1>11. PinInv'
  <2> SUFFICES ASSUME NEW c \in Blocks, latest[c] # InitValue
               PROVE  \E x \in Cached' : obj'[x].block_no = c /\ obj'[x].pinned
    BY <1>6, Zenon DEF PinInv
  <2>1. PICK x \in Cached : obj[x].block_no = c /\ obj[x].pinned
    BY <1>1, Zenon DEF PinInv
  <2> QED
    BY <1>4, <1>10, <2>1, Zenon
<1>12. ContentInv'
  <2> SUFFICES ASSUME ~unread PROVE ContentInv'
    BY <1>6, Zenon DEF ContentInv
  <2>1. disk[b] = latest[b]
    BY <1>1, <1>2, Zenon DEF ContentInv, MissTo
  <2>2. ASSUME NEW c \in Blocks, Holding(c)' = {} PROVE disk[c] = latest[c]
    <3>1. CASE Holding(c) = {}
      BY <1>1, <3>1, Zenon DEF ContentInv
    <3>2. CASE Holding(c) # {}
      <4>1. PICK x \in Cached : obj[x].block_no = c
        BY <3>2, Zenon DEF Holding
      <4>2. x \in Evicted
        BY <1>4, <2>2, <4>1, Zenon DEF Holding
      <4> QED
        BY <1>1, <1>10, <4>1, <4>2, Zenon DEF ContentInv
    <3> QED
      BY <3>1, <3>2, Zenon
  <2>3. ASSUME NEW x \in Cached'
        PROVE  /\ obj'[x].valid => obj'[x].data = latest[obj'[x].block_no]
               /\ ~obj'[x].valid \/ ~obj'[x].pinned =>
                    disk[obj'[x].block_no] = latest[obj'[x].block_no]
    <3>1. CASE x = o
      BY <1>3, <2>1, <3>1, Zenon
    <3>2. CASE x \in Cached \ Evicted
      <4>1. x \in Cached /\ obj'[x] = obj[x]
        BY <1>4, <3>2, Zenon
      <4>2. /\ obj[x].valid => obj[x].data = latest[obj[x].block_no]
            /\ ~obj[x].valid \/ ~obj[x].pinned =>
                 disk[obj[x].block_no] = latest[obj[x].block_no]
        BY <1>1, <4>1, Zenon DEF ContentInv
      <4> QED
        BY <4>1, <4>2, Zenon
    <3> QED
      BY <1>4, <3>1, <3>2, Zenon
  <2> QED
    BY <1>6, <2>2, <2>3, Zenon DEF ContentInv
<1>13. \A u \in Threads : u # t => pc'[u] = pc[u] /\ ptr'[u] = ptr[u] /\ want'[u] = want[u]
  BY <1>1, <1>2, Zenon DEF MissTo, Types
<1>14. pc[t] = "idle" /\ pc'[t] = "lock_miss" /\ ptr'[t] = o
  BY <1>1, <1>2, Zenon DEF Types, MissTo
<1>15. ASSUME AllKept' PROVE LockInv' /\ ValidInv'
  <2>1. ASSUME NEW u \in Threads, u # t, pc[u] # "idle"
        PROVE  ptr[u] \in Cached \ Evicted
    <3>1. ptr[u] \in Cached' /\ obj'[ptr[u]].block_no = want[u]
      BY <1>13, <1>15, <2>1, Zenon DEF AllKept, Kept
    <3>2. ptr[u] \in Cached /\ want[u] = obj[ptr[u]].block_no
      BY <1>1, <2>1, InHand, Zenon
    <3> QED
      BY <1>3, <1>4, <3>1, <3>2, Zenon
  <2>2. \A x \in Cached \ Evicted : locked'[x] = locked[x]
    BY <1>1, <1>2, CachedObjects, Zenon DEF MissTo, Types
  <2>3. LockInv'
    <3>1. \A u \in Threads : pc'[u] \in {"reading", "held"} \/ pc[u] = "held"
            => u # t /\ pc'[u] = pc[u] /\ ptr'[u] = ptr[u] /\ ptr[u] \in Cached \ Evicted
      BY <1>13, <1>14, <2>1, Zenon
    <3>2. \A u \in Threads : pc'[u] = "lock_miss" /\ u # t
            => pc'[u] = pc[u] /\ ptr'[u] = ptr[u] /\ ptr[u] \in Cached \ Evicted
      BY <1>13, <2>1, Zenon
    <3>3. \A u \in Threads : pc'[u] \in {"reading", "held"} => locked'[ptr'[u]]
      BY <1>1, <2>2, <3>1, Zenon DEF LockInv
    <3>4. \A u, w \in Threads :
            ( /\ pc'[u] \in {"reading", "held"} /\ pc'[w] \in {"reading", "held"}
              /\ ptr'[u] = ptr'[w] ) => u = w
      <4>1. \A u, w \in Threads :
              ( /\ pc[u] \in {"reading", "held"} /\ pc[w] \in {"reading", "held"}
                /\ ptr[u] = ptr[w] ) => u = w
        BY <1>1, Zenon DEF LockInv
      <4> QED
        BY <3>1, <4>1, Zenon
    <3>5. ASSUME NEW u \in Threads, pc'[u] \in {"lock_miss", "reading"}
          PROVE  ~obj'[ptr'[u]].valid
      <4>1. CASE u = t
        BY <1>3, <1>14, <4>1, Zenon
      <4>2. CASE u # t
        <5>1. /\ pc[u] \in {"lock_miss", "reading"} /\ ptr'[u] = ptr[u]
              /\ ptr[u] \in Cached \ Evicted
          BY <3>1, <3>2, <3>5, <4>2, Zenon
        <5>2. ~obj[ptr[u]].valid
          BY <1>1, <5>1, Zenon DEF LockInv
        <5>3. obj'[ptr[u]] = obj[ptr[u]]
          BY <1>4, <5>1, Zenon
        <5> QED
          BY <5>1, <5>2, <5>3, Zenon
      <4> QED
        BY <4>1, <4>2, Zenon
    <3>6. \A u, w \in Threads :
            ( /\ pc'[u] \in {"lock_miss", "reading"} /\ pc'[w] \in {"lock_miss", "reading"}
              /\ ptr'[u] = ptr'[w] ) => u = w
      <4>1. \A u \in Threads : pc'[u] \in {"lock_miss", "reading"} /\ u # t
              => /\ pc[u] \in {"lock_miss", "reading"} /\ ptr'[u] = ptr[u]
                 /\ ptr'[u] # ptr'[t]
        BY <1>4, <1>14, <3>1, <3>2, Zenon
      <4>2. \A u, w \in Threads :
              ( /\ pc[u] \in {"lock_miss", "reading"} /\ pc[w] \in {"lock_miss", "reading"}
                /\ ptr[u] = ptr[w] ) => u = w
        BY <1>1, Zenon DEF LockInv
      <4> QED
        BY <4>1, <4>2, Zenon
    <3>7. \A u \in Threads : pc'[u] = "reading" => readNo'[u] = obj'[ptr'[u]].block_no
      <4>1. \A u \in Threads : pc[u] = "reading" => readNo[u] = obj[ptr[u]].block_no
        BY <1>1, Zenon DEF LockInv
      <4> QED
        BY <1>4, <1>6, <3>1, <4>1, Zenon
    <3>8. \A x \in Cached' : obj'[x].acquired =>
            \E u \in Threads : pc'[u] = "held" /\ ptr'[u] = x
      <4>1. \A x \in Cached' : obj'[x].acquired => x \in Cached /\ obj[x].acquired
        BY <1>3, <1>4, Zenon
      <4>2. \A x \in Cached : obj[x].acquired =>
              \E u \in Threads : pc[u] = "held" /\ ptr[u] = x
        BY <1>1, Zenon DEF LockInv
      <4> QED
        BY <3>1, <4>1, <4>2, Zenon
    <3> QED
      BY <3>3, <3>4, <3>5, <3>6, <3>7, <3>8, Zenon DEF LockInv
  <2>4. ValidInv'
    <3>1. \A u \in Threads : pc'[u] = "held" =>
            /\ pc[u] = "held" /\ ptr'[u] = ptr[u] /\ obj'[ptr[u]] = obj[ptr[u]]
      BY <1>4, <1>13, <1>14, <2>1, Zenon
    <3> QED
      BY <1>1, <1>6, <3>1, Zenon DEF ValidInv
  <2> QED
    BY <2>3, <2>4, Zenon
<1>16. HeldExclusive'
  BY Zenon, <1>1, <1>13, <1>14 DEF HeldExclusive
<1>17. HeldContent'
  <2> SUFFICES ASSUME ~unread, NEW u \in Threads, u # t, pc[u] = "held"
               PROVE  obj'[ptr[u]].data = latest[want[u]]
    BY <1>6, <1>13, <1>14, Zenon DEF HeldContent
  <2>1. ptr[u] \in Cached /\ want[u] = obj[ptr[u]].block_no
    BY <1>1, InHand, Zenon
  <2>2. CASE ptr[u] \in Evicted
    BY <1>2, <1>10, <2>1, <2>2, Zenon DEF MissTo
  <2>3. CASE ptr[u] \notin Evicted
    BY Zenon, <1>1, <1>4, <2>1, <2>3 DEF HeldContent
  <2> QED
    BY <2>2, <2>3, Zenon
<1>18. CacheBounded'
  BY <1>2, MissBounded, Zenon
<1> QED
  BY Zenon, <1>7, <1>8, <1>9, <1>11, <1>12, <1>15, <1>16, <1>17, <1>18 DEF CacheInv

-----------------------------------------------------------------------------
(* The theorems.                                                            *)

\* The cache starts empty, and the disk has the last content of every block.
LEMMA CacheInit == Init => CacheInv
<1> SUFFICES ASSUME Init PROVE CacheInv
  BY Zenon
<1>1. list = << >> /\ Cached = {} /\ recent = << >>
  BY DEF Init, Cached
<1>2. FreshBlock(None) \in Records
  BY BlockCacheAssumption, Zenon DEF FreshBlock, Records
<1>3. Types
  <2>1. << >> \in Seq(Objects) /\ << >> \in Seq(Blocks)
    OBVIOUS
  <2>2. obj \in [Objects -> Records]
    BY <1>2, Zenon DEF Init
  <2>3. /\ locked \in [Objects -> BOOLEAN] /\ pc \in [Threads -> Labels]
        /\ want \in [Threads -> Blocks \cup {None}]
        /\ ptr \in [Threads -> Objects \cup {None}]
        /\ readNo \in [Threads -> Blocks \cup {None}]
    BY Zenon DEF Init, Labels
  <2>4. disk \in [Blocks -> Values] /\ latest \in [Blocks -> Values] /\ unread \in BOOLEAN
    BY BlockCacheAssumption, Zenon DEF Init
  <2> QED
    BY <1>1, <2>2, <2>3, <2>4 DEF Types
<1>4. ListInv /\ OrderInv
  BY <1>1 DEF ListInv, OrderInv, NoDup, Before
<1>5. PinInv /\ ContentInv
  BY <1>1, Zenon DEF Init, PinInv, ContentInv
<1>6. LockInv /\ ValidInv
  BY <1>1, Zenon DEF Init, LockInv, ValidInv
<1>7. HeldExclusive /\ HeldContent
  BY Zenon DEF Init, HeldExclusive, HeldContent
<1>8. CacheBounded
  <2>1. Len(list) = 0
    BY <1>1, Zenon
  <2> QED
    BY <2>1, BlockCacheAssumption DEF CacheBounded
<1> QED
  BY <1>3, <1>4, <1>5, <1>6, <1>7, <1>8, Zenon DEF CacheInv

\* A step that changes nothing keeps the invariant.
LEMMA CacheStutter == CacheInv /\ UNCHANGED vars => CacheInv'
<1> SUFFICES ASSUME CacheInv, UNCHANGED vars PROVE CacheInv'
  BY Zenon
<1>1. Types' /\ ListInv' /\ OrderInv' /\ PinInv' /\ ContentInv'
  <2>1. Cached' = Cached /\ \A b : Holding(b)' = Holding(b)
    BY Zenon DEF vars, Cached, Holding
  <2>2. Types'
    BY Zenon DEF CacheInv, vars, Types
  <2>3. ListInv' /\ OrderInv'
    BY <2>1, Zenon DEF CacheInv, vars, ListInv, OrderInv
  <2>4. PinInv' /\ ContentInv'
    BY <2>1, Zenon DEF CacheInv, vars, PinInv, ContentInv
  <2> QED
    BY <2>2, <2>3, <2>4, Zenon
<1>2. AllKept' => LockInv' /\ ValidInv'
  BY DEF CacheInv, vars, AllKept, Kept, LockInv, ValidInv, Cached
<1>3. HeldExclusive' /\ HeldContent' /\ CacheBounded'
  <2>1. HeldExclusive' /\ HeldContent'
    BY Zenon DEF CacheInv, vars, HeldExclusive, HeldContent
  <2>2. list' = list /\ Pinned' = Pinned
    BY Zenon DEF vars, Pinned, Cached
  <2>3. CacheBounded'
    BY <2>2, Zenon DEF CacheInv, CacheBounded
  <2> QED
    BY <2>1, <2>3, Zenon
<1> QED
  BY <1>1, <1>2, <1>3, Zenon DEF CacheInv

\* The inductive invariant holds in every state.
THEOREM CacheInvariant == Spec => []CacheInv
<1>1. CacheInv /\ [Next]_vars => CacheInv'
  <2> SUFFICES ASSUME CacheInv, Next PROVE CacheInv'
    BY CacheStutter, Zenon
  <2>1. AllKept
    BY Zenon DEF Next, AllKept
  <2>2. PICK t \in Threads :
          \/ \E b \in Blocks : AcquireHit(t, b) \/ AcquireMiss(t, b)
          \/ LockHit(t) \/ LockMiss(t) \/ ReadDone(t)
          \/ \E v \in Values : Modify(t, v)
          \/ WriteBack(t)
          \/ Release(t)
    BY Zenon DEF Next
  <2> QED
    BY <2>1, <2>2, HitInv, MissInv, LockHitInv, LockMissInv, ReadDoneInv, ModifyInv,
       WriteBackInv, ReleaseInv, Zenon
<1> QED
  BY CacheInit, <1>1, PTL DEF Spec

\* cache_acquire gives a block to one thread at a time, whatever the number of
\* threads, blocks and objects and the threshold.
THEOREM CacheHeldExclusive == Spec => []HeldExclusive
<1>1. CacheInv => HeldExclusive
  BY Zenon DEF CacheInv
<1> QED
  BY CacheInvariant, <1>1, PTL

\* What cache_acquire returns has the last content of the block, as long as no hit
\* overtakes the read of a new object.
THEOREM CacheHeldContent == Spec => []HeldContent
<1>1. CacheInv => HeldContent
  BY Zenon DEF CacheInv
<1> QED
  BY CacheInvariant, <1>1, PTL

\* The cache is longer than the threshold only for pinned blocks and blocks in use.
THEOREM CacheIsBounded == Spec => []CacheBounded
<1>1. CacheInv => CacheBounded
  BY Zenon DEF CacheInv
<1> QED
  BY CacheInvariant, <1>1, PTL

\* A block that leaves the cache was evicted by a miss.
LEMMA EvictedByMiss ==
  ASSUME CacheInv, Next, NEW q \in Cached, obj[q].block_no \notin CachedNos'
  PROVE  /\ q \in Evicted
         /\ \E b : /\ \A x \in Cached : obj[x].block_no # b
                   /\ CachedNos' = {b} \cup {obj[x].block_no : x \in Cached \ Evicted}
<1>1. Types /\ ListInv /\ OrderInv /\ AllKept
  BY Zenon DEF CacheInv, Next, AllKept
<1>2. PICK t \in Threads :
        \/ \E b \in Blocks : AcquireHit(t, b) \/ AcquireMiss(t, b)
        \/ LockHit(t) \/ LockMiss(t) \/ ReadDone(t)
        \/ \E v \in Values : Modify(t, v)
        \/ WriteBack(t)
        \/ Release(t)
  BY Zenon DEF Next
<1>3. \A x \in Cached : x \in Objects
  BY <1>1, CachedObjects, Zenon
<1>4. \A p \in Objects : obj[p] \in Records
  BY <1>1, Zenon DEF Types
<1>5. ASSUME Cached' = Cached, \A x \in Objects : obj'[x].block_no = obj[x].block_no
      PROVE  FALSE
  BY <1>3, <1>5, Zenon DEF CachedNos
<1>6. ~ \E b \in Blocks : AcquireHit(t, b)
  <2> SUFFICES ASSUME NEW b \in Blocks, AcquireHit(t, b) PROVE FALSE
    BY Zenon
  <2>1. PICK o \in Cached : list' = <<o>> \o Without(list, {o}) /\ obj' = obj
    BY Zenon DEF AcquireHit, Holding
  <2>2. Cached' = Cached
    BY <1>1, <2>1, HitFacts, Zenon
  <2> QED
    BY <1>5, <2>1, <2>2, Zenon
<1>7. ~ (LockHit(t) \/ LockMiss(t) \/ WriteBack(t))
  BY <1>5 DEF LockHit, LockMiss, WriteBack, Cached
<1>8. ~ (ReadDone(t) \/ Release(t) \/ \E v \in Values : Modify(t, v))
  <2> SUFFICES ASSUME ReadDone(t) \/ Release(t) \/ \E v \in Values : Modify(t, v)
               PROVE  FALSE
    BY Zenon
  <2>1. list' = list /\ pc[t] # "idle"
    BY Zenon DEF ReadDone, Release, Modify
  <2>2. ptr[t] \in Objects
    BY <1>1, <2>1, InHand, Zenon
  <2>3. \A x \in Objects : obj'[x].block_no = obj[x].block_no
    <3>1. obj \in [Objects -> Records]
      BY <1>1, Zenon DEF Types
    <3>2. CASE ReadDone(t)
      BY <2>2, <3>1, <3>2, Zenon DEF ReadDone, Records
    <3>3. CASE Release(t)
      BY <3>3 DEF Release
    <3>4. CASE \E v \in Values : Modify(t, v)
      BY <3>1, <3>4 DEF Modify, Records
    <3> QED
      BY <3>2, <3>3, <3>4, Zenon
  <2>4. Cached' = Cached
    BY <2>1, Zenon DEF Cached
  <2> QED
    BY <1>5, <2>3, <2>4, Zenon
<1>9. PICK b \in Blocks : AcquireMiss(t, b)
  BY <1>2, <1>6, <1>7, <1>8, Zenon
<1>10. PICK o : MissTo(t, b, o)
  BY <1>1, <1>9, MissStep, Zenon
<1>11. (\A x \in Cached : obj[x].block_no # b) /\ obj'[o].block_no = b
  BY <1>10, MissNumbers
<1>12. /\ Cached' = {o} \cup (Cached \ Evicted)
       /\ \A x \in Cached \ Evicted : obj'[x] = obj[x]
  BY <1>10, Zenon DEF MissTo
<1>13. CachedNos' = {b} \cup {obj[x].block_no : x \in Cached \ Evicted}
  BY Zenon, <1>11, <1>12 DEF CachedNos
<1> QED
  BY <1>11, <1>13, Zenon

\* Eviction is least recently used: a block that was used longer ago than one that
\* is evicted, and that may be evicted, is evicted with it.
THEOREM CacheEvictsLRU == Spec => EvictsLRU
<1> DEFINE LRU(o, q) ==
      ( /\ Older(obj[o].block_no, obj[q].block_no) /\ Evictable(o)
        /\ obj[q].block_no \notin CachedNos' ) => obj[o].block_no \notin CachedNos'
<1>1. ASSUME CacheInv, [Next]_vars, NEW o \in Cached, NEW q \in Cached
      PROVE  LRU(o, q)
  <2> SUFFICES ASSUME Older(obj[o].block_no, obj[q].block_no), Evictable(o),
                      obj[q].block_no \notin CachedNos'
               PROVE  obj[o].block_no \notin CachedNos'
    BY Zenon
  <2>1. Types /\ ListInv /\ OrderInv
    BY <1>1, Zenon DEF CacheInv
  <2>2. Next
    <3>1. ASSUME UNCHANGED vars PROVE FALSE
      BY <3>1, Zenon DEF vars, CachedNos, Cached
    <3> QED
      BY <1>1, <3>1, Zenon
  <2>3. PICK b : /\ q \in Evicted
                 /\ \A x \in Cached : obj[x].block_no # b
                 /\ CachedNos' = {b} \cup {obj[x].block_no : x \in Cached \ Evicted}
    BY <1>1, <2>2, EvictedByMiss, Zenon
  <2> DEFINE Later(j) == {k \in (j + 1)..Len(list) : Evictable(list[k])}
  <2>4. PICK i \in DOMAIN list :
          list[i] = q /\ Cardinality(Later(i)) < Surplus
    BY <2>3, Zenon DEF Evicted
  <2>5. PICK j \in DOMAIN list : list[j] = o
    BY Zenon DEF Cached
  <2>6. list \in Seq(Objects) /\ Len(list) \in Nat /\ DOMAIN list = 1..Len(list)
    BY <2>1 DEF Types
  <2>7. i < j
    <3> SUFFICES ASSUME j <= i PROVE FALSE
      BY <2>6
    <3>1. \A k \in DOMAIN recent : k \in Nat
      BY <2>1 DEF Types
    <3>2. obj[o].block_no # obj[q].block_no
      BY <2>1, <3>1 DEF Older, OrderInv, NoDup
    <3>3. j < i
      BY <2>4, <2>5, <2>6, <3>2
    <3>4. Before(list, o, q)
      BY <2>4, <2>5, <3>3, Zenon DEF Before
    <3>5. Before(recent, obj[o].block_no, obj[q].block_no)
      BY <2>1, <3>4, Zenon DEF OrderInv
    <3> QED
      BY <2>1, <3>1, <3>5 DEF Before, Older, OrderInv, NoDup
  <2>8. o \in Evicted
    <3>1. Later(j) \in SUBSET Later(i)
      BY <2>7
    <3>2. IsFiniteSet(Later(i))
      <4>1. Later(i) \in SUBSET (1..Len(list)) /\ IsFiniteSet(1..Len(list))
        BY FS_Interval
      <4> QED
        BY <4>1, FS_Subset, Zenon
    <3>3. Cardinality(Later(j)) <= Cardinality(Later(i)) /\ IsFiniteSet(Later(j))
      BY <3>1, <3>2, FS_Subset, Zenon
    <3>4. Cardinality(Later(i)) \in Nat /\ Cardinality(Later(j)) \in Nat /\ Surplus \in Int
      BY <3>2, <3>3, FS_CardinalityType, BlockCacheAssumption DEF Surplus
    <3>5. Cardinality(Later(j)) < Surplus
      <4> HIDE DEF Later
      <4> QED
        BY <2>4, <3>3, <3>4
    <3> QED
      BY <2>5, <3>5, Zenon DEF Evicted
  <2>9. \A x \in Cached \ Evicted : obj[x].block_no # obj[o].block_no
    BY <2>1, <2>8, Zenon DEF ListInv
  <2> QED
    BY <2>3, <2>9, Zenon
<1>2. CacheInv /\ [Next]_vars => [\A o, q \in Cached : LRU(o, q)]_vars
  BY <1>1, Zenon
<1> QED
  BY CacheInvariant, <1>2, PTL DEF Spec, EvictsLRU

-----------------------------------------------------------------------------
(* The arena that the objects come from.                                    *)

\* The pages of the list are different, objects are in its pages only, and the
\* pages with room come first.
ArenaInv ==
    /\ ring \in Seq(Pages) /\ NoDup(ring)
    /\ used \in [Pages -> SUBSET (1..MaxCount)]
    /\ \A p \in Pages : p \notin Elems(ring) => used[p] = {}
    /\ RoomFirst

\* A page without objects has room, and so has one that has lost an object.
LEMMA RoomLeft ==
  ASSUME NEW u, NEW p
  PROVE  /\ u[p] = {} => ~FullPage(p, u)
         /\ \A S \in SUBSET (1..MaxCount) : \A i \in S : u[p] = S \ {i} => ~FullPage(p, u)
<1>1. ASSUME u[p] = {} PROVE ~FullPage(p, u)
  BY <1>1, FS_EmptySet, ArenaAssumption DEF FullPage
<1>2. ASSUME NEW S \in SUBSET (1..MaxCount), NEW i \in S, u[p] = S \ {i}
      PROVE  ~FullPage(p, u)
  <2>1. IsFiniteSet(1..MaxCount) /\ Cardinality(1..MaxCount) = MaxCount
    BY FS_Interval, ArenaAssumption
  <2>2. IsFiniteSet(S) /\ Cardinality(S) \in Nat /\ Cardinality(S) <= MaxCount
    BY ZenonT(30), <2>1, FS_Subset, FS_CardinalityType
  <2>3. Cardinality(S \ {i}) = Cardinality(S) - 1
    BY Zenon, <2>2, FS_RemoveElement
  <2> QED
    BY <1>2, <2>2, <2>3, ArenaAssumption DEF FullPage
<1> QED
  BY Zenon, <1>1, <1>2

\* kalloc returns a page of the free list, or NULL.
LEMMA KallocFree ==
  ASSUME PoolSound, kalloc(pmem).ptr # NULL
  PROVE  kalloc(pmem).ptr \in Pages /\ kalloc(pmem).ptr \notin Elems(ring)
<1>1. pmem.free # {} /\ kalloc(pmem).ptr = Min(pmem.free)
  <2>1. CASE pmem.free = {}
    BY Zenon, <2>1 DEF kalloc
  <2>2. CASE pmem.free # {}
    BY Zenon, <2>2 DEF kalloc
  <2> QED
    BY Zenon, <2>1, <2>2
<1>2. pmem.free \in SUBSET Nat /\ pmem.free \subseteq Pages
  BY PhysicalMemoryAssumption DEF PoolSound, Pages
<1>3. \E x \in pmem.free : \A y \in pmem.free : x <= y
  BY Zenon, <1>1, <1>2, LeastNumber
<1>4. Min(pmem.free) \in pmem.free
  BY Zenon, <1>3 DEF Min
<1>5. Elems(ring) = Range(ring)
  BY Zenon DEF Elems, Range
<1> QED
  BY Zenon, <1>1, <1>2, <1>4, <1>5 DEF PoolSound

\* What alloc_object does to the list: the page it uses, the first one or a new
\* one, stays first or goes to the end.
LEMMA Rotation ==
  ASSUME NEW r \in Seq(Pages), r # <<>>, NoDup(r), NEW u,
         \A i, j \in DOMAIN r : i < j /\ i # 1 /\ FullPage(r[i], u) => FullPage(r[j], u)
  PROVE  /\ Rotated(r, u) \in Seq(Pages) /\ NoDup(Rotated(r, u))
         /\ Elems(Rotated(r, u)) = Elems(r)
         /\ LET s == Rotated(r, u) IN
            \A i, j \in DOMAIN s : i < j /\ FullPage(s[i], u) => FullPage(s[j], u)
<1>1. CASE ~FullPage(Head(r), u)
  <2>1. Rotated(r, u) = r
    BY Zenon, <1>1 DEF Rotated
  <2>2. ~FullPage(r[1], u)
    BY <1>1
  <2> QED
    BY Zenon, <2>1, <2>2
<1>2. CASE FullPage(Head(r), u)
  <2> DEFINE n == Len(r)
             s == Append(Tail(r), Head(r))
  <2>1. Rotated(r, u) = s
    BY Zenon, <1>2 DEF Rotated
  <2>2. /\ n \in Nat /\ s \in Seq(Pages) /\ DOMAIN r = 1..n /\ DOMAIN s = 1..n /\ NoDup(s)
        /\ Elems(s) = Elems(r) /\ s[n] = r[1] /\ r[1] = Head(r)
        /\ \A i \in 1..n : i # n => i + 1 \in 1..n /\ i + 1 # 1 /\ s[i] = r[i + 1]
    BY Zenon, FirstLast
  <2> HIDE DEF n, s
  <2>3. FullPage(r[1], u)
    BY Zenon, <1>2, <2>2
  <2>4. ASSUME NEW i \in 1..n, NEW j \in 1..n, i < j, FullPage(s[i], u)
        PROVE  FullPage(s[j], u)
    <3>1. CASE j = n
      BY Zenon, <2>2, <2>3, <3>1
    <3>2. CASE j # n
      <4>1. i # n /\ i + 1 < j + 1
        BY <2>4
      <4> QED
        BY Zenon, <2>2, <2>4, <3>2, <4>1
    <3> QED
      BY Zenon, <3>1, <3>2
  <2> QED
    BY Zenon, <2>1, <2>2, <2>4
<1> QED
  BY Zenon, <1>1, <1>2

\* alloc_object keeps the invariant.
LEMMA AllocKeeps ==
  ASSUME ArenaInv, PoolSound, AllocObject
  PROVE  ArenaInv'
<1> DEFINE full == ring = <<>> \/ FullPage(Head(ring), used)
           k == IF full THEN kalloc(pmem) ELSE [mem |-> pmem, ptr |-> NULL]
           r == Added(ring, k.ptr)
           u == IF k.ptr = NULL THEN used ELSE [used EXCEPT ![k.ptr] = {}]
<1>1. CASE UNCHANGED arenaVars
  BY Zenon, <1>1 DEF ArenaInv, RoomFirst, arenaVars, FullPage
<1>2. CASE ~UNCHANGED arenaVars
  <2>1. /\ r # <<>> /\ ~FullPage(Head(r), u)
        /\ used' = [u EXCEPT ![Head(r)] = @ \cup {Min(1..MaxCount \ u[Head(r)])}]
        /\ ring' = Rotated(r, used')
    BY Zenon, <1>2 DEF AllocObject
  <2>2. k.ptr # NULL => k.ptr \in Pages /\ k.ptr \notin Elems(ring)
    <3>1. CASE full
      BY Zenon, <3>1, KallocFree
    <3>2. CASE ~full
      BY Zenon, <3>2
    <3> QED
      BY Zenon, <3>1, <3>2
  <2> HIDE DEF k
  <2>3. /\ r \in Seq(Pages) /\ NoDup(r)
        /\ u \in [Pages -> SUBSET (1..MaxCount)]
        /\ \A p \in Pages : p \notin Elems(r) => u[p] = {}
        /\ \A i, j \in DOMAIN r : i < j /\ i # 1 /\ FullPage(r[i], u) => FullPage(r[j], u)
    <3>1. CASE k.ptr = NULL
      <4>1. r = ring /\ u = used
        BY Zenon, <3>1 DEF Added
      <4> HIDE DEF r, u
      <4> QED
        BY ZenonT(30), <4>1 DEF ArenaInv, RoomFirst
    <3>2. CASE k.ptr # NULL
      <4> DEFINE n == Len(ring)
      <4>1. r = <<k.ptr>> \o ring /\ u = [used EXCEPT ![k.ptr] = {}]
        BY Zenon, <3>2 DEF Added
      <4>2. ring \in Seq(Pages) /\ used \in [Pages -> SUBSET (1..MaxCount)] /\ k.ptr \in Pages
        BY Zenon, <2>2, <3>2 DEF ArenaInv
      <4> HIDE DEF r, u
      <4>3. /\ r \in Seq(Pages) /\ DOMAIN r = 1..(n + 1) /\ NoDup(r)
            /\ Elems(r) = {k.ptr} \cup Elems(ring)
            /\ \A i \in 2..(n + 1) : i - 1 \in DOMAIN ring /\ r[i] = ring[i - 1]
        <5>1. NoDup(ring) /\ k.ptr \notin Elems(ring)
          BY Zenon, <2>2, <3>2 DEF ArenaInv
        <5>2. AddsFirst(Pages, ring, k.ptr, r)
          BY Zenon, <4>1, <4>2, <5>1, FirstAdded
        <5> QED
          BY Zenon, <5>2 DEF AddsFirst
      <4>4. u \in [Pages -> SUBSET (1..MaxCount)] /\ \A p \in Pages \ {k.ptr} : u[p] = used[p]
        BY Zenon, <4>1, <4>2
      <4>5. n \in Nat /\ \A i \in DOMAIN ring : ring[i] \in Pages
        BY <4>2
      <4> HIDE DEF n
      <4>6. \A i \in DOMAIN ring : ring[i] \in Pages \ {k.ptr}
        BY Zenon, <2>2, <3>2, <4>5 DEF Elems
      <4>7. \A i, j \in 1..(n + 1) : i < j /\ i # 1 =>
              i \in 2..(n + 1) /\ j \in 2..(n + 1) /\ i - 1 < j - 1
        BY <4>5
      <4>8. \A p \in Pages : p \notin Elems(r) => u[p] = {}
        BY Zenon, <4>3, <4>4 DEF ArenaInv
      <4>9. ASSUME NEW i \in 1..(n + 1), NEW j \in 1..(n + 1), i < j, i # 1, FullPage(r[i], u)
            PROVE  FullPage(r[j], u)
        <5>1. /\ i - 1 \in DOMAIN ring /\ j - 1 \in DOMAIN ring /\ i - 1 < j - 1
              /\ r[i] = ring[i - 1] /\ r[j] = ring[j - 1]
          BY Zenon, <4>3, <4>7, <4>9
        <5>2. u[r[i]] = used[ring[i - 1]] /\ u[r[j]] = used[ring[j - 1]]
          BY Zenon, <4>4, <4>6, <5>1
        <5>3. FullPage(ring[i - 1], used)
          BY Zenon, <4>9, <5>2 DEF FullPage
        <5>4. FullPage(ring[j - 1], used)
          BY Zenon, <5>1, <5>3 DEF ArenaInv, RoomFirst
        <5> QED
          BY Zenon, <5>2, <5>4 DEF FullPage
      <4> QED
        BY Zenon, <4>3, <4>4, <4>8, <4>9
    <3> QED
      BY Zenon, <3>1, <3>2
  <2> HIDE DEF r, u
  <2> DEFINE h == Head(r)
             v == [u EXCEPT ![h] = @ \cup {Min(1..MaxCount \ u[h])}]
  <2>4. h = r[1] /\ h \in Pages /\ 1 \in DOMAIN r /\ DOMAIN r \subseteq Nat
    BY <2>1, <2>3
  <2>5. Min(1..MaxCount \ u[h]) \in 1..MaxCount
    <3>1. 1..MaxCount \ u[h] # {}
      <4> SUFFICES ASSUME 1..MaxCount \ u[h] = {} PROVE FALSE
        OBVIOUS
      <4>1. u[h] = 1..MaxCount
        BY Zenon, <2>3, <2>4
      <4>2. Cardinality(1..MaxCount) = MaxCount
        BY FS_Interval, ArenaAssumption
      <4> QED
        BY <2>1, <4>1, <4>2, ArenaAssumption DEF FullPage
    <3>2. 1..MaxCount \ u[h] \in SUBSET Nat
      BY ArenaAssumption
    <3>3. \E x \in 1..MaxCount \ u[h] : \A y \in 1..MaxCount \ u[h] : x <= y
      BY Zenon, <3>1, <3>2, LeastNumber
    <3> QED
      BY Zenon, <3>3 DEF Min
  <2>6. /\ v \in [Pages -> SUBSET (1..MaxCount)]
        /\ \A p \in Pages \ {h} : v[p] = u[p]
    BY Zenon, <2>3, <2>4, <2>5
  <2>7. used' = v /\ ring' = Rotated(r, v)
    BY Zenon, <2>1
  <2> HIDE DEF v, h
  <2>8. ASSUME NEW i \in DOMAIN r, NEW j \in DOMAIN r, i < j, i # 1, FullPage(r[i], v)
        PROVE  FullPage(r[j], v)
    <3>1. j # 1
      BY <2>3, <2>8
    <3>2. r[i] \in Pages \ {h} /\ r[j] \in Pages \ {h}
      <4>1. r[i] \in Pages /\ r[j] \in Pages
        BY <2>3
      <4> QED
        BY Zenon, <2>3, <2>4, <2>8, <3>1, <4>1 DEF NoDup
    <3>3. v[r[i]] = u[r[i]] /\ v[r[j]] = u[r[j]]
      BY Zenon, <2>6, <3>2
    <3> QED
      BY Zenon, <2>3, <2>8, <3>3 DEF FullPage
  <2>9. /\ ring' \in Seq(Pages) /\ NoDup(ring)' /\ Elems(ring)' = Elems(r)
        /\ \A i, j \in DOMAIN ring' : i < j /\ FullPage(ring'[i], v) => FullPage(ring'[j], v)
    <3>1. /\ Rotated(r, v) \in Seq(Pages) /\ NoDup(Rotated(r, v))
          /\ Elems(Rotated(r, v)) = Elems(r)
          /\ LET s == Rotated(r, v) IN
             \A i, j \in DOMAIN s : i < j /\ FullPage(s[i], v) => FullPage(s[j], v)
      BY Zenon, <2>1, <2>3, <2>8, Rotation
    <3> QED
      BY Zenon, <2>7, <3>1 DEF NoDup, Elems
  <2>10. h \in Elems(r)
    BY Zenon, <2>4 DEF Elems
  <2>11. \A p \in Pages : p \notin Elems(r) => v[p] = {}
    BY Zenon, <2>3, <2>6, <2>10
  <2> QED
    BY Zenon, <2>6, <2>7, <2>9, <2>11 DEF ArenaInv, RoomFirst, FullPage, Elems
<1> QED
  BY Zenon, <1>1, <1>2

\* free_object keeps the invariant: its page, which has room now, goes to the
\* front, and the others keep their order.
LEMMA FreeKeeps ==
  ASSUME ArenaInv, NEW p \in Pages, NEW i \in 1..MaxCount, FreeObject(p, i)
  PROVE  ArenaInv'
<1> DEFINE n == Len(ring)
           k == CHOOSE x \in DOMAIN ring : ring[x] = p
           old(x) == IF x = 1 THEN k ELSE IF x <= k THEN x - 1 ELSE x
           s == [x \in DOMAIN ring |->
                   IF x = 1 THEN p ELSE IF x <= k THEN ring[x - 1] ELSE ring[x]]
           v == [used EXCEPT ![p] = @ \ {i}]
<1>1. /\ ring \in Seq(Pages) /\ NoDup(ring) /\ used \in [Pages -> SUBSET (1..MaxCount)]
      /\ \A q \in Pages : q \notin Elems(ring) => used[q] = {}
      /\ \A a, b \in DOMAIN ring : a < b /\ FullPage(ring[a], used) => FullPage(ring[b], used)
  BY Zenon DEF ArenaInv, RoomFirst
<1>2. i \in used[p] /\ used' = v /\ ring' = s
  BY Zenon DEF FreeObject, Moved
<1>3. n \in Nat /\ DOMAIN ring = 1..n /\ \A x \in 1..n : ring[x] \in Pages
  BY <1>1
<1>4. k \in 1..n /\ ring[k] = p
  <2>1. \E x \in 1..n : ring[x] = p
    BY Zenon, <1>1, <1>2, <1>3 DEF Elems
  <2> QED
    BY Zenon, <1>3, <2>1
<1>5. v \in [Pages -> SUBSET (1..MaxCount)] /\ \A q \in Pages \ {p} : v[q] = used[q]
  BY Zenon, <1>1
<1>6. ~FullPage(p, v)
  <2>1. v[p] = used[p] \ {i} /\ used[p] \in SUBSET (1..MaxCount)
    BY Zenon, <1>1
  <2> HIDE DEF v
  <2> QED
    BY Zenon, <1>2, <2>1, RoomLeft
<1> HIDE DEF k, v, n
<1>7. \A x \in 1..n : old(x) \in 1..n /\ s[x] = ring[old(x)]
  BY <1>3, <1>4
<1>8. \A x, y \in 1..n : /\ old(x) = old(y) => x = y
                         /\ (x < y /\ x # 1) => old(x) < old(y)
  BY <1>3, <1>4
<1>9. \A y \in 1..n : \E x \in 1..n : old(x) = y
  <2> TAKE y \in 1..n
  <2> DEFINE x == IF y = k THEN 1 ELSE IF y < k THEN y + 1 ELSE y
  <2>1. x \in 1..n /\ old(x) = y
    BY <1>3, <1>4
  <2> QED
    BY Zenon, <2>1
<1>10. DOMAIN s = 1..n
  BY Zenon, <1>3
<1>11. (1 \in 1..n => old(1) = k) /\ \A x \in 1..n : x \in Nat /\ (1 < x \/ x = 1)
  BY <1>3
<1> HIDE DEF s, old
<1>12. s \in Seq(Pages)
  <2>1. \A x \in 1..n : s[x] \in Pages
    BY Zenon, <1>3, <1>7
  <2>2. s = [x \in 1..n |-> s[x]]
    BY Zenon, <1>3 DEF s
  <2> QED
    BY <1>3, <2>1, <2>2
<1>13. NoDup(s)
  <2> SUFFICES ASSUME NEW x \in 1..n, NEW y \in 1..n, s[x] = s[y] PROVE x = y
    BY Zenon, <1>10 DEF NoDup
  <2>1. old(x) = old(y)
    BY Zenon, <1>1, <1>3, <1>7 DEF NoDup
  <2> QED
    BY Zenon, <1>8, <2>1
<1>14. Elems(s) = Elems(ring)
  <2>1. ASSUME NEW x \in 1..n PROVE s[x] \in Elems(ring)
    BY Zenon, <1>3, <1>7 DEF Elems
  <2>2. ASSUME NEW y \in 1..n PROVE ring[y] \in Elems(s)
    <3>1. PICK x \in 1..n : old(x) = y
      BY Zenon, <1>9
    <3> QED
      BY Zenon, <1>7, <1>10, <3>1 DEF Elems
  <2> QED
    BY Zenon, <1>3, <1>10, <2>1, <2>2 DEF Elems
<1>15. \A q \in Pages : q \notin Elems(s) => v[q] = {}
  <2>1. p \in Elems(s)
    BY Zenon, <1>3, <1>4, <1>14 DEF Elems
  <2> QED
    BY Zenon, <1>1, <1>5, <1>14, <2>1
<1>16. ASSUME NEW x \in 1..n, NEW y \in 1..n, x < y, FullPage(s[x], v)
       PROVE  FullPage(s[y], v)
  <2>1. x # 1
    <3> SUFFICES ASSUME x = 1 PROVE FALSE
      OBVIOUS
    <3>1. s[x] = p
      BY Zenon, <1>4, <1>7, <1>11
    <3> QED
      BY Zenon, <1>6, <1>16, <3>1
  <2>2. y # 1 /\ 1 \in 1..n
    BY <1>3, <1>16
  <2>3. s[x] # p /\ s[y] # p
    <3>1. s[1] = p
      BY Zenon, <1>4, <1>7, <1>11, <2>2
    <3> QED
      BY Zenon, <1>10, <1>13, <2>1, <2>2, <3>1 DEF NoDup
  <2>4. v[s[x]] = used[s[x]] /\ v[s[y]] = used[s[y]]
    BY Zenon, <1>3, <1>5, <1>7, <2>3
  <2>5. FullPage(ring[old(x)], used)
    BY Zenon, <1>7, <1>16, <2>4 DEF FullPage
  <2>6. FullPage(ring[old(y)], used)
    BY Zenon, <1>1, <1>3, <1>7, <1>8, <1>16, <2>1, <2>5
  <2> QED
    BY Zenon, <1>7, <2>4, <2>6 DEF FullPage
<1> QED
  BY Zenon, <1>2, <1>5, <1>10, <1>12, <1>13, <1>14, <1>15, <1>16
  DEF ArenaInv, RoomFirst, FullPage, Elems, NoDup

\* In the arena (core/arena.c) the pages with room come first, for
\* every number of pages and of objects to a page, in whatever order objects are
\* allocated and freed and whatever the rest of the kernel does to memory, as long
\* as the free list never has a page of the arena: alloc_object, which looks at the
\* first page only, asks for memory only when all pages are full.
THEOREM ArenaRoomFirst == ArenaSpec /\ []PoolSound => []RoomFirst
<1>1. ArenaInit => ArenaInv
  <2> SUFFICES ASSUME ArenaInit PROVE ArenaInv
    OBVIOUS
  <2>1. ring \in Seq(Pages) /\ DOMAIN ring = {}
    BY DEF ArenaInit
  <2>2. used \in [Pages -> SUBSET (1..MaxCount)] /\ \A p \in Pages : used[p] = {}
    BY Zenon DEF ArenaInit
  <2> QED
    BY Zenon, <2>1, <2>2 DEF ArenaInv, NoDup, RoomFirst
<1>2. ArenaInv /\ PoolSound /\ [ArenaNext]_arenaVars => ArenaInv'
  <2> SUFFICES ASSUME ArenaInv, PoolSound, [ArenaNext]_arenaVars PROVE ArenaInv'
    OBVIOUS
  <2>1. CASE AllocObject
    BY Zenon, <2>1, AllocKeeps
  <2>2. ASSUME NEW p \in Pages, NEW i \in 1..MaxCount, FreeObject(p, i) PROVE ArenaInv'
    BY Zenon, <2>2, FreeKeeps
  <2>3. CASE UNCHANGED arenaVars
    BY Zenon, <2>3 DEF ArenaInv, RoomFirst, arenaVars, FullPage, NoDup, Elems
  <2> QED
    BY Zenon, <2>1, <2>2, <2>3 DEF ArenaNext
<1>3. ArenaInv => RoomFirst
  BY Zenon DEF ArenaInv
<1> QED
  BY <1>1, <1>2, <1>3, PTL DEF ArenaSpec
=============================================================================
