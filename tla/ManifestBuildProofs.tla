------------------------- MODULE ManifestBuildProofs -------------------------
(***************************************************************************)
(* Proofs about ManifestBuild, for any manifests, exports and processes:   *)
(* that ids determine trees, that what is stored is not built again, and   *)
(* that what a build needs is there.                                       *)
(***************************************************************************)
EXTENDS ManifestBuild, FiniteSetTheorems, SequenceTheorems, WellFoundedInduction, TLAPS

-----------------------------------------------------------------------------
(***************************************************************************)
(* Histories are defined by recursion over the stages of a pipeline and    *)
(* over the pipelines of a manifest.                                       *)
(***************************************************************************)

\* Complete induction, for a set of numbers.
LEMMA CompleteInduction ==
  ASSUME NEW A \in SUBSET Nat, \A n \in Nat : (\A m \in Nat : m < n => m \in A) => n \in A
  PROVE  A = Nat
<1> DEFINE B == Nat \ A
<1> SUFFICES ASSUME B # {} PROVE FALSE
  OBVIOUS
<1>1. PICK x \in B : \A y \in B : ~(<<y, x>> \in OpToRel(<, Nat))
  <2>1. B \subseteq Nat
    OBVIOUS
  <2> HIDE DEF B
  <2> QED
    BY <2>1, WFMin, NatLessThanWellFounded
<1>2. ASSUME NEW y \in Nat, y < x PROVE y \in A
  <2>1. <<y, x>> \in OpToRel(<, Nat)
    BY <1>1, <1>2 DEF OpToRel
  <2> QED
    BY <1>1, <2>1
<1> QED
  BY <1>1, <1>2

Before(m, devices, h, i, f, k) == Grown(m, devices, h, i, k, IF k = 1 THEN None ELSE f[k - 1])

\* The stages of a pipeline, one by one.
LEMMA StagesAre ==
  ASSUME NEW m, NEW devices, NEW h, NEW i, Len(m[i].stages) \in Nat
  PROVE  Stages(m, devices, h, i) =
            [k \in 1..Len(m[i].stages) |-> Before(m, devices, h, i, Stages(m, devices, h, i), k)]
<1> DEFINE G(f, k) == Before(m, devices, h, i, f, k)
           A == {n \in Nat : \E f : f = [k \in 1..n |-> G(f, k)]}
<1>1. ASSUME NEW n \in Nat, \A x \in Nat : x < n => x \in A PROVE n \in A
  <2>1. CASE n = 0
    <3> DEFINE f == [k \in 1..0 |-> None]
    <3>1. f = [k \in 1..n |-> G(f, k)]
      BY <2>1
    <3> QED
      BY <3>1
  <2>2. CASE n # 0
    <3>1. n - 1 \in Nat /\ n - 1 < n
      BY <2>2
    <3>2. PICK f : f = [k \in 1..(n - 1) |-> G(f, k)]
      BY <1>1, <3>1
    <3> DEFINE g == [k \in 1..n |-> IF k = n THEN G(f, n) ELSE f[k]]
    <3>3. ASSUME NEW k \in 1..n PROVE g[k] = G(g, k)
      <4>1. G(g, k) = G(f, k)
        <5>1. k # 1 => k - 1 \in 1..n /\ k - 1 # n
          BY <3>3
        <5>2. k # 1 => g[k - 1] = f[k - 1]
          BY <5>1
        <5> QED
          BY <5>2 DEF Before
      <4>2. k # n => k \in 1..(n - 1)
        BY <3>1
      <4>3. k # n => f[k] = G(f, k)
        <5> HIDE DEF G
        <5> QED
          BY <3>2, <4>2
      <4> QED
        BY <4>1, <4>3
    <3>4. g = [k \in 1..n |-> G(g, k)]
      <4>1. \A k \in 1..n : g[k] = G(g, k)
        BY <3>3
      <4>2. g = [k \in 1..n |-> g[k]]
        OBVIOUS
      <4> HIDE DEF g, G
      <4> QED
        BY <4>1, <4>2
    <3> QED
      BY <3>4
  <2> QED
    BY <2>1, <2>2
<1>2. A = Nat
  <2>1. A \in SUBSET Nat
    OBVIOUS
  <2> HIDE DEF A
  <2> QED
    BY <1>1, <2>1, CompleteInduction
<1>3. \E f : f = [k \in 1..Len(m[i].stages) |-> G(f, k)]
  BY <1>2
<1> DEFINE S == CHOOSE f : f = [k \in 1..Len(m[i].stages) |-> G(f, k)]
<1>4. S = [k \in 1..Len(m[i].stages) |-> G(S, k)]
  BY <1>3
<1>5. Stages(m, devices, h, i) = S
  <2>1. Stages(m, devices, h, i) = [k \in 1..Len(m[i].stages) |-> S[k]]
    BY DEF Stages, Before
  <2> HIDE DEF S, G
  <2> QED
    BY <1>4, <2>1
<1> HIDE DEF S
<1> QED
  BY <1>4, <1>5

\* What a pipeline refers to comes before it.
WellOrdered(m) ==
    /\ Len(m) \in Nat
    /\ \A i \in 1..Len(m) :
          /\ m[i].build \in 0..(i - 1) /\ Len(m[i].stages) \in Nat
          /\ \A k \in 1..Len(m[i].stages) : m[i].stages[k].deps \subseteq 1..(i - 1)

\* So its history depends on those of earlier pipelines only.
LEMMA GrownFromEarlier ==
  ASSUME NEW m, WellOrdered(m), NEW devices, NEW i \in 1..Len(m), NEW g, NEW h,
         \A j \in 1..(i - 1) : g[j] = h[j], NEW k \in 1..Len(m[i].stages), NEW base
  PROVE  Grown(m, devices, g, i, k, base) = Grown(m, devices, h, i, k, base)
<1>1. \A j \in 1..(i - 1) : Top(m, g, j) = Top(m, h, j)
  BY DEF Top
<1>2. m[i].stages[k].deps \subseteq 1..(i - 1) /\ m[i].build \in 0..(i - 1)
  BY DEF WellOrdered
<1>3. {Top(m, g, j) : j \in m[i].stages[k].deps} = {Top(m, h, j) : j \in m[i].stages[k].deps}
  BY <1>1, <1>2
<1>4. BuildOf(m, g, i) = BuildOf(m, h, i)
  BY <1>1, <1>2 DEF BuildOf, WellOrdered
<1> QED
  BY <1>3, <1>4 DEF Grown

LEMMA StagesFromEarlier ==
  ASSUME NEW m, WellOrdered(m), NEW devices, NEW i \in 1..Len(m), NEW g, NEW h,
         \A j \in 1..(i - 1) : g[j] = h[j]
  PROVE  Stages(m, devices, g, i) = Stages(m, devices, h, i)
<1> DEFINE N == Len(m[i].stages)
           sg == Stages(m, devices, g, i)
           sh == Stages(m, devices, h, i)
           A == {k \in Nat : k \in 1..N => sg[k] = sh[k]}
<1>1. N \in Nat
  BY DEF WellOrdered
<1>2. /\ sg = [k \in 1..N |-> Before(m, devices, g, i, sg, k)]
      /\ sh = [k \in 1..N |-> Before(m, devices, h, i, sh, k)]
  BY <1>1, StagesAre
<1> HIDE DEF N, sg, sh
<1>3. ASSUME NEW k \in Nat, \A x \in Nat : x < k => x \in A PROVE k \in A
  <2> SUFFICES ASSUME k \in 1..N PROVE sg[k] = sh[k]
    OBVIOUS
  <2> DEFINE base(s) == IF k = 1 THEN None ELSE s[k - 1]
  <2>1. base(sg) = base(sh)
    <3>1. k # 1 => k - 1 \in 1..N /\ k - 1 \in Nat /\ k - 1 < k
      BY <1>1
    <3> QED
      BY <1>3, <3>1
  <2>2. Grown(m, devices, g, i, k, base(sg)) = Grown(m, devices, h, i, k, base(sg))
    BY GrownFromEarlier DEF N
  <2>3. /\ sg[k] = Grown(m, devices, g, i, k, base(sg))
        /\ sh[k] = Grown(m, devices, h, i, k, base(sh))
    BY <1>2 DEF Before
  <2> HIDE DEF base
  <2> QED
    BY <2>1, <2>2, <2>3
<1>4. A = Nat
  <2>1. A \in SUBSET Nat
    OBVIOUS
  <2> HIDE DEF A
  <2> QED
    BY <1>3, <2>1, CompleteInduction
<1>5. \A k \in 1..N : sg[k] = sh[k]
  BY <1>1, <1>4
<1>6. sg = sh
  BY <1>2, <1>5
<1> QED
  BY <1>6 DEF sg, sh

\* The histories of all pipelines.
LEMMA HistoryIs ==
  ASSUME NEW m, WellOrdered(m), NEW devices
  PROVE  History(m, devices) =
            [i \in 1..Len(m) |-> Stages(m, devices, History(m, devices), i)]
<1> DEFINE G(h, i) == Stages(m, devices, h, i)
           A == {n \in Nat : n <= Len(m) => \E h : h = [i \in 1..n |-> G(h, i)]}
<1>0. Len(m) \in Nat
  BY DEF WellOrdered
<1>1. ASSUME NEW n \in Nat, \A x \in Nat : x < n => x \in A PROVE n \in A
  <2> SUFFICES ASSUME n <= Len(m) PROVE \E h : h = [i \in 1..n |-> G(h, i)]
    OBVIOUS
  <2>1. CASE n = 0
    <3> DEFINE h == [i \in 1..0 |-> None]
    <3>1. h = [i \in 1..n |-> G(h, i)]
      BY <2>1
    <3> QED
      BY <3>1
  <2>2. CASE n # 0
    <3>1. n - 1 \in Nat /\ n - 1 < n /\ n - 1 <= Len(m)
      BY <1>0, <2>2
    <3>2. PICK h : h = [i \in 1..(n - 1) |-> G(h, i)]
      BY <1>1, <3>1
    <3> DEFINE g == [i \in 1..n |-> IF i = n THEN G(h, n) ELSE h[i]]
    <3>3. ASSUME NEW i \in 1..n PROVE g[i] = G(g, i)
      <4>1. G(g, i) = G(h, i)
        <5>1. \A j \in 1..(i - 1) : j \in 1..n /\ j # n
          BY <3>3
        <5>2. \A j \in 1..(i - 1) : g[j] = h[j]
          BY <5>1
        <5>3. i \in 1..Len(m)
          BY <1>0
        <5> HIDE DEF g
        <5> QED
          BY <5>2, <5>3, StagesFromEarlier
      <4>2. i # n => i \in 1..(n - 1)
        BY <3>1
      <4>3. i # n => h[i] = G(h, i)
        <5> HIDE DEF G
        <5> QED
          BY <3>2, <4>2
      <4> QED
        BY <4>1, <4>3
    <3>4. g = [i \in 1..n |-> G(g, i)]
      <4>1. \A i \in 1..n : g[i] = G(g, i)
        BY <3>3
      <4>2. g = [i \in 1..n |-> g[i]]
        OBVIOUS
      <4> HIDE DEF g, G
      <4> QED
        BY <4>1, <4>2
    <3> QED
      BY <3>4
  <2> QED
    BY <2>1, <2>2
<1>2. A = Nat
  <2>1. A \in SUBSET Nat
    OBVIOUS
  <2> HIDE DEF A
  <2> QED
    BY <1>1, <2>1, CompleteInduction
<1>3. \E h : h = [i \in 1..Len(m) |-> G(h, i)]
  BY <1>0, <1>2
<1> DEFINE H == CHOOSE h : h = [i \in 1..Len(m) |-> G(h, i)]
<1>4. H = [i \in 1..Len(m) |-> G(H, i)]
  BY <1>3
<1>5. History(m, devices) = H
  <2>1. History(m, devices) = [i \in 1..Len(m) |-> H[i]]
    BY DEF History
  <2> HIDE DEF H, G
  <2> QED
    BY <1>4, <2>1
<1> HIDE DEF H
<1> QED
  BY <1>4, <1>5

-----------------------------------------------------------------------------
(***************************************************************************)
(* Ids determine trees                                                     *)
(***************************************************************************)

\* Stages that do the same use the same devices: what Stage.id does not hash does not
\* matter.
DevicesFixed ==
    \A n, m \in 1..Len(Manifests) :
        \A i \in 1..Len(Manifests[n]), j \in 1..Len(Manifests[m]) :
            \A k \in 1..Len(Manifests[n][i].stages), l \in 1..Len(Manifests[m][j].stages) :
                Manifests[n][i].stages[k].what = Manifests[m][j].stages[l].what =>
                    Manifests[n][i].stages[k].dev = Manifests[m][j].stages[l].dev

Pls(n) == 1..Len(Manifests[n])
Stgs(n, i) == 1..Len(Manifests[n][i].stages)
\* A stage of a pipeline of a manifest.
Place(n, i, k) == n \in 1..Len(Manifests) /\ i \in Pls(n) /\ k \in Stgs(n, i)

IdOf(n, i) == Top(Manifests[n], Ids[n], i)
TreeOf(n, i) == Top(Manifests[n], Trees[n], i)
OrHost(x) == IF x = None THEN Host ELSE x
BuildIdOf(n, i) == BuildOf(Manifests[n], Ids[n], i)
BuildTreeOf(n, i) == OrHost(BuildOf(Manifests[n], Trees[n], i))
Deps(n, i, k) == Manifests[n][i].stages[k].deps
\* What a stage starts from.
BaseId(n, i, k) == IF k = 1 THEN None ELSE Ids[n][i][k - 1]
BaseTree(n, i, k) == IF k = 1 THEN None ELSE Trees[n][i][k - 1]

LEMMA Ordered ==
  /\ Len(Manifests) \in Nat
  /\ \A n \in 1..Len(Manifests) : WellOrdered(Manifests[n])
  BY BuildAssumption DEF WellOrdered

\* Numbers of pipelines and stages.
LEMMA Indices ==
  ASSUME NEW n \in 1..Len(Manifests)
  PROVE  /\ n \in Nat /\ Len(Manifests[n]) \in Nat /\ Pls(n) \subseteq Nat
         /\ \A i \in Pls(n) : /\ i \in Nat /\ i >= 1 /\ Len(Manifests[n][i].stages) \in Nat
                              /\ Manifests[n][i].build \in 0..(i - 1)
                              /\ Stgs(n, i) \subseteq Nat
                              /\ \A k \in Stgs(n, i) : Deps(n, i, k) \subseteq 1..(i - 1)
                              /\ 1..(i - 1) \subseteq Pls(n)
<1>1. Len(Manifests) \in Nat /\ WellOrdered(Manifests[n])
  BY Ordered
<1> QED
  BY <1>1 DEF WellOrdered, Pls, Stgs, Deps

LEMMA HistoryOf ==
  ASSUME NEW m, WellOrdered(m), NEW devices, NEW h, h = History(m, devices),
         NEW i \in 1..Len(m), NEW k \in 1..Len(m[i].stages)
  PROVE  h[i][k] = Before(m, devices, h, i, h[i], k)
<1>1. h = [x \in 1..Len(m) |-> Stages(m, devices, h, x)]
  BY HistoryIs
<1>2. h[i] = Stages(m, devices, h, i)
  BY <1>1
<1>3. Len(m[i].stages) \in Nat
  BY DEF WellOrdered
<1>4. Stages(m, devices, h, i) =
         [x \in 1..Len(m[i].stages) |-> Before(m, devices, h, i, Stages(m, devices, h, i), x)]
  BY <1>3, StagesAre
<1> QED
  BY <1>2, <1>4

LEMMA IdIs ==
  ASSUME NEW n, NEW i, NEW k, Place(n, i, k)
  PROVE  Ids[n][i][k] = Made(Manifests[n][i].stages[k].what, Unhashed, BaseId(n, i, k),
                             OrHost(BuildIdOf(n, i)), {IdOf(n, j) : j \in Deps(n, i, k)})
<1> DEFINE m == Manifests[n]
           h == Ids[n]
<1>0. WellOrdered(m) /\ i \in 1..Len(m) /\ k \in 1..Len(m[i].stages)
  BY Ordered DEF Place, Pls, Stgs
<1>1. h = History(m, FALSE)
  BY DEF Ids, Place
<1> HIDE DEF h, m
<1>2. ASSUME NEW devices, h = History(m, devices)
      PROVE  h[i][k] = Before(m, devices, h, i, h[i], k)
  BY <1>0, <1>2, HistoryOf
<1>3. h[i][k] = Before(m, FALSE, h, i, h[i], k)
  BY <1>1, <1>2, Zenon
<1> QED
  BY <1>3 DEF Before, Grown, BaseId, BuildIdOf, OrHost, IdOf, Deps, h, m

LEMMA TreeIs ==
  ASSUME NEW n, NEW i, NEW k, Place(n, i, k)
  PROVE  Trees[n][i][k] = Made(Manifests[n][i].stages[k].what, Manifests[n][i].stages[k].dev,
                               BaseTree(n, i, k), BuildTreeOf(n, i),
                               {TreeOf(n, j) : j \in Deps(n, i, k)})
<1> DEFINE m == Manifests[n]
           h == Trees[n]
<1>0. WellOrdered(m) /\ i \in 1..Len(m) /\ k \in 1..Len(m[i].stages)
  BY Ordered DEF Place, Pls, Stgs
<1>1. h = History(m, TRUE)
  BY DEF Trees, Place
<1> HIDE DEF h, m
<1>2. ASSUME NEW devices, h = History(m, devices)
      PROVE  h[i][k] = Before(m, devices, h, i, h[i], k)
  BY <1>0, <1>2, HistoryOf
<1>3. h[i][k] = Before(m, TRUE, h, i, h[i], k)
  BY <1>1, <1>2, Zenon
<1> QED
  BY <1>3 DEF Before, Grown, BaseTree, BuildTreeOf, OrHost, TreeOf, Deps, h, m

LEMMA MadeOf ==
  ASSUME NEW w1, NEW d1, NEW b1, NEW t1, NEW i1, NEW w2, NEW d2, NEW b2, NEW t2, NEW i2,
         Made(w1, d1, b1, t1, i1) = Made(w2, d2, b2, t2, i2)
  PROVE  w1 = w2 /\ d1 = d2 /\ b1 = b2 /\ t1 = t2 /\ i1 = i2
<1> DEFINE r1 == Made(w1, d1, b1, t1, i1)
           r2 == Made(w2, d2, b2, t2, i2)
<1>1. r1.what = w1 /\ r1.dev = d1 /\ r1.base = b1 /\ r1.build = t1 /\ r1.inputs = i1
  BY DEF Made
<1>2. r2.what = w2 /\ r2.dev = d2 /\ r2.base = b2 /\ r2.build = t2 /\ r2.inputs = i2
  BY DEF Made
<1>3. r1 = r2
  OBVIOUS
<1> HIDE DEF r1, r2
<1> QED
  BY <1>1, <1>2, <1>3

\* Nothing is made without an id of its own.
LEMMA NotNone ==
  ASSUME NEW n, NEW i, NEW k, Place(n, i, k)
  PROVE  Ids[n][i][k] \notin {None, Host} /\ Trees[n][i][k] \notin {None, Host}
<1>1. {Ids[n][i][k], Trees[n][i][k]} \cap {None, Host} = {}
  BY HashAssumption DEF Place, Pls, Stgs
<1> QED
  BY <1>1

\* What a pipeline ends with is what its last stage makes.
LEMMA TopIs ==
  ASSUME NEW n \in 1..Len(Manifests), NEW i \in Pls(n)
  PROVE  LET k == Len(Manifests[n][i].stages)
         IN  \/ Place(n, i, k) /\ IdOf(n, i) = Ids[n][i][k] /\ TreeOf(n, i) = Trees[n][i][k]
             \/ k = 0 /\ IdOf(n, i) = None /\ TreeOf(n, i) = None
<1>1. Len(Manifests[n][i].stages) \in Nat
  BY Indices
<1> QED
  BY <1>1 DEF Place, Stgs, IdOf, TreeOf, Top

\* Ids that are equal stand for trees that are.
SameTree(n, i, k) ==
    \A m, j, l : Place(m, j, l) /\ Ids[n][i][k] = Ids[m][j][l] =>
        Trees[n][i][k] = Trees[m][j][l]

LEMMA TopsSame ==
  ASSUME NEW n \in 1..Len(Manifests), NEW i \in Pls(n),
         \A k \in Stgs(n, i) : SameTree(n, i, k),
         NEW m \in 1..Len(Manifests), NEW j \in Pls(m), IdOf(n, i) = IdOf(m, j)
  PROVE  TreeOf(n, i) = TreeOf(m, j)
<1> DEFINE k == Len(Manifests[n][i].stages)
           l == Len(Manifests[m][j].stages)
<1>1. \/ Place(n, i, k) /\ IdOf(n, i) = Ids[n][i][k] /\ TreeOf(n, i) = Trees[n][i][k]
      \/ IdOf(n, i) = None /\ TreeOf(n, i) = None
  BY TopIs
<1>2. \/ Place(m, j, l) /\ IdOf(m, j) = Ids[m][j][l] /\ TreeOf(m, j) = Trees[m][j][l]
      \/ IdOf(m, j) = None /\ TreeOf(m, j) = None
  BY TopIs
<1>3. Place(n, i, k) => Ids[n][i][k] # None
  BY NotNone
<1>4. Place(m, j, l) => Ids[m][j][l] # None
  BY NotNone
<1>5. Place(n, i, k) => k \in Stgs(n, i)
  BY DEF Place
<1> HIDE DEF k, l
<1> QED
  BY <1>1, <1>2, <1>3, <1>4, <1>5 DEF SameTree

LEMMA StageSame ==
  ASSUME DevicesFixed, NEW n, NEW i, NEW k, Place(n, i, k),
         \A x \in 1..(i - 1) : \A y \in Stgs(n, x) : SameTree(n, x, y),
         k # 1 => SameTree(n, i, k - 1)
  PROVE  SameTree(n, i, k)
<1> SUFFICES ASSUME NEW m, NEW j, NEW l, Place(m, j, l), Ids[n][i][k] = Ids[m][j][l]
             PROVE  Trees[n][i][k] = Trees[m][j][l]
  BY DEF SameTree
<1>a. n \in 1..Len(Manifests) /\ i \in Pls(n) /\ m \in 1..Len(Manifests) /\ j \in Pls(m)
      /\ k \in Stgs(n, i) /\ l \in Stgs(m, j)
  BY DEF Place
<1>b. /\ i \in Nat /\ i >= 1 /\ Manifests[n][i].build \in 0..(i - 1)
      /\ Deps(n, i, k) \subseteq 1..(i - 1) /\ 1..(i - 1) \subseteq Pls(n) /\ k \in Nat
      /\ Len(Manifests[n][i].stages) \in Nat
  BY <1>a, Indices
<1>c. /\ j \in Nat /\ j >= 1 /\ Manifests[m][j].build \in 0..(j - 1)
      /\ Deps(m, j, l) \subseteq 1..(j - 1) /\ 1..(j - 1) \subseteq Pls(m) /\ l \in Nat
      /\ Len(Manifests[m][j].stages) \in Nat
  BY <1>a, Indices
<1>1. /\ Manifests[n][i].stages[k].what = Manifests[m][j].stages[l].what
      /\ BaseId(n, i, k) = BaseId(m, j, l)
      /\ OrHost(BuildIdOf(n, i)) = OrHost(BuildIdOf(m, j))
      /\ {IdOf(n, x) : x \in Deps(n, i, k)} = {IdOf(m, x) : x \in Deps(m, j, l)}
  <2>1. Ids[n][i][k] = Made(Manifests[n][i].stages[k].what, Unhashed, BaseId(n, i, k),
                            OrHost(BuildIdOf(n, i)), {IdOf(n, x) : x \in Deps(n, i, k)})
    BY IdIs
  <2>2. Ids[m][j][l] = Made(Manifests[m][j].stages[l].what, Unhashed, BaseId(m, j, l),
                            OrHost(BuildIdOf(m, j)), {IdOf(m, x) : x \in Deps(m, j, l)})
    BY IdIs
  <2> DEFINE w1 == Manifests[n][i].stages[k].what
             b1 == BaseId(n, i, k)
             t1 == OrHost(BuildIdOf(n, i))
             i1 == {IdOf(n, x) : x \in Deps(n, i, k)}
             w2 == Manifests[m][j].stages[l].what
             b2 == BaseId(m, j, l)
             t2 == OrHost(BuildIdOf(m, j))
             i2 == {IdOf(m, x) : x \in Deps(m, j, l)}
  <2>3. Made(w1, Unhashed, b1, t1, i1) = Made(w2, Unhashed, b2, t2, i2)
    BY <2>1, <2>2
  <2> HIDE DEF w1, b1, t1, i1, w2, b2, t2, i2
  <2>4. w1 = w2 /\ b1 = b2 /\ t1 = t2 /\ i1 = i2
    BY <2>3, MadeOf
  <2> QED
    BY <2>4 DEF w1, b1, t1, i1, w2, b2, t2, i2
<1>2. Manifests[n][i].stages[k].dev = Manifests[m][j].stages[l].dev
  BY <1>1, <1>a DEF DevicesFixed, Pls, Stgs
<1>3. BaseTree(n, i, k) = BaseTree(m, j, l)
  <2>1. k # 1 => Place(n, i, k - 1)
    BY <1>a, <1>b DEF Place, Stgs
  <2>2. l # 1 => Place(m, j, l - 1)
    BY <1>a, <1>c DEF Place, Stgs
  <2>3. (k # 1 => Ids[n][i][k - 1] # None) /\ (l # 1 => Ids[m][j][l - 1] # None)
    BY <2>1, <2>2, NotNone
  <2> QED
    BY <1>1, <2>2, <2>3 DEF BaseId, BaseTree, SameTree
<1>t. ASSUME NEW x \in 1..(i - 1), NEW y \in 1..(j - 1), IdOf(n, x) = IdOf(m, y)
      PROVE  TreeOf(n, x) = TreeOf(m, y)
  BY <1>a, <1>b, <1>c, <1>t, TopsSame
<1>4. BuildTreeOf(n, i) = BuildTreeOf(m, j)
  <2> DEFINE b == Manifests[n][i].build
             c == Manifests[m][j].build
  <2>1. /\ b = 0 \/ b \in 1..(i - 1)
        /\ BuildIdOf(n, i) = (IF b = 0 THEN None ELSE IdOf(n, b))
        /\ BuildTreeOf(n, i) = OrHost(IF b = 0 THEN None ELSE TreeOf(n, b))
    BY <1>b DEF BuildIdOf, BuildTreeOf, BuildOf, IdOf, TreeOf
  <2>2. /\ c = 0 \/ c \in 1..(j - 1)
        /\ BuildIdOf(m, j) = (IF c = 0 THEN None ELSE IdOf(m, c))
        /\ BuildTreeOf(m, j) = OrHost(IF c = 0 THEN None ELSE TreeOf(m, c))
    BY <1>c DEF BuildIdOf, BuildTreeOf, BuildOf, IdOf, TreeOf
  <2> HIDE DEF b, c
  <2>3. b # 0 => /\ OrHost(IdOf(n, b)) = Host <=> IdOf(n, b) = None
                 /\ IdOf(n, b) = None <=> TreeOf(n, b) = None
    <3> SUFFICES ASSUME b \in 1..(i - 1)
                 PROVE  /\ OrHost(IdOf(n, b)) = Host <=> IdOf(n, b) = None
                        /\ IdOf(n, b) = None <=> TreeOf(n, b) = None
      BY <2>1
    <3> DEFINE z == Len(Manifests[n][b].stages)
    <3>1. b \in Pls(n)
      BY <1>b
    <3>2. \/ Place(n, b, z) /\ IdOf(n, b) = Ids[n][b][z] /\ TreeOf(n, b) = Trees[n][b][z]
          \/ IdOf(n, b) = None /\ TreeOf(n, b) = None
      BY <1>a, <3>1, TopIs
    <3>3. Place(n, b, z) => Ids[n][b][z] \notin {None, Host} /\ Trees[n][b][z] \notin {None, Host}
      BY NotNone
    <3> HIDE DEF z
    <3> QED
      BY <3>2, <3>3 DEF OrHost
  <2>4. c # 0 => /\ OrHost(IdOf(m, c)) = Host <=> IdOf(m, c) = None
                 /\ IdOf(m, c) = None <=> TreeOf(m, c) = None
    <3> SUFFICES ASSUME c \in 1..(j - 1)
                 PROVE  /\ OrHost(IdOf(m, c)) = Host <=> IdOf(m, c) = None
                        /\ IdOf(m, c) = None <=> TreeOf(m, c) = None
      BY <2>2
    <3> DEFINE z == Len(Manifests[m][c].stages)
    <3>1. c \in Pls(m)
      BY <1>c
    <3>2. \/ Place(m, c, z) /\ IdOf(m, c) = Ids[m][c][z] /\ TreeOf(m, c) = Trees[m][c][z]
          \/ IdOf(m, c) = None /\ TreeOf(m, c) = None
      BY <1>a, <3>1, TopIs
    <3>3. Place(m, c, z) => Ids[m][c][z] \notin {None, Host} /\ Trees[m][c][z] \notin {None, Host}
      BY NotNone
    <3> HIDE DEF z
    <3> QED
      BY <3>2, <3>3 DEF OrHost
  <2>5. CASE b = 0 \/ c = 0
    BY <1>1, <2>1, <2>2, <2>3, <2>4, <2>5 DEF OrHost
  <2>6. CASE b # 0 /\ c # 0
    <3>1. IdOf(n, b) = IdOf(m, c) => TreeOf(n, b) = TreeOf(m, c)
      BY <1>t, <2>1, <2>2, <2>6
    <3> QED
      BY <1>1, <2>1, <2>2, <2>3, <2>4, <2>6, <3>1 DEF OrHost
  <2> QED
    BY <2>5, <2>6
<1>5. {TreeOf(n, x) : x \in Deps(n, i, k)} = {TreeOf(m, y) : y \in Deps(m, j, l)}
  <2>1. ASSUME NEW x \in Deps(n, i, k)
        PROVE  TreeOf(n, x) \in {TreeOf(m, y) : y \in Deps(m, j, l)}
    <3>1. PICK y \in Deps(m, j, l) : IdOf(n, x) = IdOf(m, y)
      BY <1>1
    <3> QED
      BY <1>b, <1>c, <1>t, <3>1
  <2>2. ASSUME NEW y \in Deps(m, j, l)
        PROVE  TreeOf(m, y) \in {TreeOf(n, x) : x \in Deps(n, i, k)}
    <3>1. PICK x \in Deps(n, i, k) : IdOf(n, x) = IdOf(m, y)
      BY <1>1
    <3> QED
      BY <1>b, <1>c, <1>t, <3>1
  <2> QED
    BY <2>1, <2>2
<1>6. Trees[n][i][k] = Made(Manifests[n][i].stages[k].what, Manifests[n][i].stages[k].dev,
                            BaseTree(n, i, k), BuildTreeOf(n, i),
                            {TreeOf(n, x) : x \in Deps(n, i, k)})
  BY TreeIs
<1>7. Trees[m][j][l] = Made(Manifests[m][j].stages[l].what, Manifests[m][j].stages[l].dev,
                            BaseTree(m, j, l), BuildTreeOf(m, j),
                            {TreeOf(m, y) : y \in Deps(m, j, l)})
  BY TreeIs
<1> QED
  BY <1>1, <1>2, <1>3, <1>4, <1>5, <1>6, <1>7

LEMMA IdsDetermineTrees ==
  ASSUME DevicesFixed
  PROVE  \A n, i, k : Place(n, i, k) => SameTree(n, i, k)
<1> DEFINE A == {i \in Nat : \A n, k : Place(n, i, k) => SameTree(n, i, k)}
<1>1. ASSUME NEW i \in Nat, \A x \in Nat : x < i => x \in A PROVE i \in A
  <2> SUFFICES ASSUME NEW n, n \in 1..Len(Manifests), i \in Pls(n)
               PROVE  \A k : Place(n, i, k) => SameTree(n, i, k)
    BY DEF Place
  <2>1. /\ 1..(i - 1) \subseteq Pls(n) /\ Len(Manifests[n][i].stages) \in Nat
    BY Indices
  <2>2. \A x \in 1..(i - 1) : \A y \in Stgs(n, x) : SameTree(n, x, y)
    <3> SUFFICES ASSUME NEW x \in 1..(i - 1), NEW y \in Stgs(n, x) PROVE SameTree(n, x, y)
      OBVIOUS
    <3>1. x \in Nat /\ x < i
      OBVIOUS
    <3>2. x \in A
      BY <1>1, <3>1
    <3>3. Place(n, x, y)
      BY <2>1 DEF Place
    <3> QED
      BY <3>2, <3>3
  <2> DEFINE B == {k \in Nat : Place(n, i, k) => SameTree(n, i, k)}
  <2>3. ASSUME NEW k \in Nat, \A y \in Nat : y < k => y \in B PROVE k \in B
    <3> SUFFICES ASSUME Place(n, i, k) PROVE SameTree(n, i, k)
      OBVIOUS
    <3>1. k # 1 => k - 1 \in Nat /\ k - 1 < k /\ Place(n, i, k - 1)
      BY <2>1 DEF Place, Stgs
    <3>2. k # 1 => SameTree(n, i, k - 1)
      BY <2>3, <3>1
    <3> QED
      BY <2>2, <3>2, StageSame
  <2>4. B = Nat
    <3>1. B \in SUBSET Nat
      OBVIOUS
    <3> HIDE DEF B
    <3> QED
      BY <2>3, <3>1, CompleteInduction
  <2> QED
    BY <2>1, <2>4 DEF Place, Stgs
<1>2. A = Nat
  <2>1. A \in SUBSET Nat
    OBVIOUS
  <2> HIDE DEF A
  <2> QED
    BY <1>1, <2>1, CompleteInduction
<1> SUFFICES ASSUME NEW n, NEW i, NEW k, Place(n, i, k) PROVE SameTree(n, i, k)
  OBVIOUS
<1>3. i \in Nat
  BY Indices DEF Place
<1> QED
  BY <1>2, <1>3

\* An id says how many stages made it.
LEMMA IdsHaveDepth ==
  ASSUME NEW n, NEW i, NEW k, Place(n, i, k), NEW m, NEW j, NEW l, Place(m, j, l),
         Ids[n][i][k] = Ids[m][j][l]
  PROVE  k = l
<1> DEFINE A == {x \in Nat : \A y : Place(n, i, x) /\ Place(m, j, y) /\ Ids[n][i][x] = Ids[m][j][y]
                                => x = y}
<1>1. ASSUME NEW x \in Nat, \A z \in Nat : z < x => z \in A PROVE x \in A
  <2> SUFFICES ASSUME NEW y, Place(n, i, x), Place(m, j, y), Ids[n][i][x] = Ids[m][j][y]
               PROVE  x = y
    OBVIOUS
  <2> HIDE DEF A
  <2>1. BaseId(n, i, x) = BaseId(m, j, y)
    <3> DEFINE w1 == Manifests[n][i].stages[x].what
               b1 == BaseId(n, i, x)
               t1 == OrHost(BuildIdOf(n, i))
               i1 == {IdOf(n, z) : z \in Deps(n, i, x)}
               w2 == Manifests[m][j].stages[y].what
               b2 == BaseId(m, j, y)
               t2 == OrHost(BuildIdOf(m, j))
               i2 == {IdOf(m, z) : z \in Deps(m, j, y)}
    <3>1. Ids[n][i][x] = Made(w1, Unhashed, b1, t1, i1)
      BY IdIs
    <3>2. Ids[m][j][y] = Made(w2, Unhashed, b2, t2, i2)
      BY IdIs
    <3>3. Made(w1, Unhashed, b1, t1, i1) = Made(w2, Unhashed, b2, t2, i2)
      BY <3>1, <3>2
    <3> HIDE DEF w1, b1, t1, i1, w2, b2, t2, i2
    <3>4. b1 = b2
      BY <3>3, MadeOf
    <3> QED
      BY <3>4 DEF b1, b2
  <2>2. y \in Nat /\ x >= 1 /\ y >= 1
    <3>1. x \in 1..Len(Manifests[n][i].stages) /\ y \in 1..Len(Manifests[m][j].stages)
      BY DEF Place, Stgs
    <3>2. Len(Manifests[n][i].stages) \in Nat /\ Len(Manifests[m][j].stages) \in Nat
      BY Indices DEF Place
    <3> QED
      BY <3>1, <3>2
  <2>3. x # 1 => Place(n, i, x - 1) /\ x - 1 \in Nat /\ x - 1 < x
    <3>1. Len(Manifests[n][i].stages) \in Nat
      BY Indices DEF Place
    <3> QED
      BY <3>1 DEF Place, Stgs
  <2>4. y # 1 => Place(m, j, y - 1) /\ y - 1 \in Nat
    <3>1. Len(Manifests[m][j].stages) \in Nat
      BY Indices DEF Place
    <3> QED
      BY <2>2, <3>1 DEF Place, Stgs
  <2>5. (x # 1 => Ids[n][i][x - 1] # None) /\ (y # 1 => Ids[m][j][y - 1] # None)
    BY <2>3, <2>4, NotNone
  <2>6. CASE x = 1 \/ y = 1
    BY <2>1, <2>5, <2>6 DEF BaseId
  <2>7. CASE x # 1 /\ y # 1
    <3>1. Ids[n][i][x - 1] = Ids[m][j][y - 1]
      BY <2>1, <2>7 DEF BaseId
    <3>2. x - 1 = y - 1
      BY <1>1, <2>3, <2>4, <2>7, <3>1 DEF A
    <3> QED
      BY <2>2, <3>2
  <2> QED
    BY <2>6, <2>7
<1>2. A = Nat
  <2>1. A \in SUBSET Nat
    OBVIOUS
  <2> HIDE DEF A
  <2> QED
    BY <1>1, <2>1, CompleteInduction
<1>3. k \in Nat
  BY Indices DEF Place
<1> QED
  BY <1>2, <1>3

-----------------------------------------------------------------------------
(***************************************************************************)
(* The invariant                                                           *)
(***************************************************************************)

\* What the manifests say: pairs of the id of a stage and its tree.
Truth == UNION {UNION {{<<Ids[n][i][k], Trees[n][i][k]>> : k \in Stgs(n, i)} : i \in Pls(n)} :
                n \in 1..Len(Manifests)}
TreeSet == {None, Host} \cup
           UNION {UNION {{Trees[n][i][k] : k \in Stgs(n, i)} : i \in Pls(n)} :
                  n \in 1..Len(Manifests)}

Labels == {"depsolve", "next", "build", "base", "stage", "commit", "export"} \cup Ends
State == [pc : Labels, exports : SUBSET Nat, check : Seq(Nat), todo : Seq(Nat),
          floating : SUBSET Truth, held : SUBSET Truth, tree : TreeSet, build : TreeSet,
          stage : Nat, out : SUBSET (Nat \X TreeSet)]

Working == {"build", "base", "stage", "commit"}
AfterStage(n, i, k) == IF k = 0 THEN None ELSE Trees[n][i][k]

\* The state r of a process that builds manifest n: what it is to look at, to build and
\* to export are pipelines, and the trees it works with are those of the manifest.
Lists(n, r) ==
    /\ r.exports \subseteq Pls(n)
    /\ r.check \in Seq(Pls(n)) /\ r.todo \in Seq(Pls(n))
    /\ r.pc \in Working => r.todo # <<>>
Building(n, r) ==
    LET i == Last(r.todo) IN
    /\ r.pc \in Working => IdOf(n, i) # None
    /\ r.pc \in {"base", "stage", "commit"} => r.build = BuildTreeOf(n, i)
    /\ r.pc \in {"stage", "commit"} => /\ r.stage \in 0..Len(Manifests[n][i].stages)
                                       /\ r.tree = AfterStage(n, i, r.stage)
    /\ r.pc = "commit" => r.stage # 0
Exported(n, r) == \A o \in r.out : o[1] \in Pls(n) /\ o[2] = TreeOf(n, o[1])
Sound(n, r) == Lists(n, r) /\ Building(n, r) /\ Exported(n, r)

Typed == /\ mf \in [Proc -> 1..Len(Manifests)] /\ alone \in BOOLEAN
         /\ cache \subseteq Truth /\ proc \in [Proc -> State]

BInv == Typed /\ \A p \in Proc : Sound(mf[p], proc[p])

LEMMA TruthIs ==
  ASSUME NEW n, NEW i, NEW k, Place(n, i, k)
  PROVE  <<Ids[n][i][k], Trees[n][i][k]>> \in Truth /\ Trees[n][i][k] \in TreeSet
  BY DEF Place, Truth, TreeSet

LEMMA OfTruth ==
  ASSUME NEW o \in Truth
  PROVE  \E n, i, k : Place(n, i, k) /\ o = <<Ids[n][i][k], Trees[n][i][k]>>
  BY DEF Place, Truth

\* What is found under the id of a stage is what it makes, ...
LEMMA StageFound ==
  ASSUME DevicesFixed, NEW n, NEW i, NEW k, Place(n, i, k), NEW o \in Truth,
         o[1] = Ids[n][i][k]
  PROVE  o[2] = Trees[n][i][k]
<1>1. PICK m, j, l : Place(m, j, l) /\ o = <<Ids[m][j][l], Trees[m][j][l]>>
  BY OfTruth
<1>2. SameTree(n, i, k)
  BY IdsDetermineTrees
<1> QED
  BY <1>1, <1>2 DEF SameTree

\* ... and what is found under the id of a pipeline what that ends with.
LEMMA PipelineFound ==
  ASSUME DevicesFixed, NEW n \in 1..Len(Manifests), NEW i \in Pls(n), NEW o \in Truth,
         o[1] = IdOf(n, i)
  PROVE  o[2] = TreeOf(n, i) /\ TreeOf(n, i) # None /\ TreeOf(n, i) \in TreeSet
<1> DEFINE k == Len(Manifests[n][i].stages)
<1>1. PICK m, j, l : Place(m, j, l) /\ o = <<Ids[m][j][l], Trees[m][j][l]>>
  BY OfTruth
<1>2. o[1] # None
  BY <1>1, NotNone
<1>3. Place(n, i, k) /\ IdOf(n, i) = Ids[n][i][k] /\ TreeOf(n, i) = Trees[n][i][k]
  BY <1>2, TopIs
<1>4. o[2] = Trees[n][i][k]
  BY <1>3, StageFound
<1>5. Trees[n][i][k] # None /\ Trees[n][i][k] \in TreeSet
  BY <1>3, NotNone, TruthIs
<1> QED
  BY <1>3, <1>4, <1>5

\* The ends of a sequence.
LEMMA LastAndFront ==
  ASSUME NEW S, NEW s \in Seq(S), s # <<>>
  PROVE  Last(s) \in S /\ Front(s) \in Seq(S)
<1>1. Len(s) \in Nat /\ Len(s) > 0
  OBVIOUS
<1>2. Last(s) \in S
  BY <1>1 DEF Last
<1>3. SubSeq(s, 1, Len(s) - 1) \in Seq(S)
  BY <1>1
<1> QED
  BY <1>2, <1>3 DEF Front

LEMMA PipelineNumbers ==
  ASSUME NEW n \in 1..Len(Manifests)
  PROVE  Pls(n) \subseteq Nat /\ Seq(Pls(n)) \subseteq Seq(Nat)
<1>1. Pls(n) \subseteq Nat
  BY Indices
<1> QED
  BY <1>1

\* The state of one process.
LEMMA StateOf ==
  ASSUME BInv, NEW p \in Proc
  PROVE  /\ mf[p] \in 1..Len(Manifests) /\ proc[p] \in State /\ Sound(mf[p], proc[p])
         /\ cache \subseteq Truth /\ proc \in [Proc -> State]
  BY DEF BInv, Typed

LEMMA Reads ==
  ASSUME NEW p, NEW n, n = mf[p]
  PROVE  /\ Pipelines(p) = Manifests[n]
         /\ \A i : Id(p, i) = IdOf(n, i) /\ BuildId(p, i) = BuildIdOf(n, i)
         /\ \A i, k : StageId(p, i, k) = Ids[n][i][k]
  BY DEF Pipelines, Id, IdOf, BuildId, BuildIdOf, StageId

\* What a process may find.
LEMMA Finds ==
  ASSUME BInv, NEW p \in Proc, NEW seen \in Seen, NEW id, NEW o \in Found(p, id, seen)
  PROVE  o \in Truth /\ o[1] = id
<1>1. seen \subseteq cache
  BY DEF Seen
<1>2. cache \subseteq Truth /\ proc[p].floating \subseteq Truth
  BY StateOf DEF State
<1> QED
  BY <1>1, <1>2 DEF Found

\* So a step of p is a matter of p.
LEMMA StepOf ==
  ASSUME BInv, NEW p \in Proc, mf' = mf, alone' = alone, cache' \subseteq Truth,
         proc' \in [Proc -> State], \A q \in Proc \ {p} : proc'[q] = proc[q],
         Sound(mf[p], proc'[p])
  PROVE  BInv'
<1>1. ASSUME NEW q \in Proc PROVE Sound(mf'[q], proc'[q])
  BY DEF BInv
<1>2. Typed'
  BY DEF BInv, Typed
<1> QED
  BY <1>1, <1>2 DEF BInv

\* The end of a process.
LEMMA Ending ==
  ASSUME BInv, NEW p \in Proc, NEW l \in Ends, End(p, l), mf' = mf, alone' = alone,
         cache' = cache
  PROVE  BInv'
<1>0. proc \in [Proc -> State] /\ cache \subseteq Truth /\ Sound(mf[p], proc[p])
  BY StateOf
<1>1. proc' \in [Proc -> State] /\ \A q \in Proc \ {p} : proc'[q] = proc[q]
  <2>1. None \in TreeSet /\ l \in Labels
    BY DEF TreeSet, Labels
  <2> DEFINE r == [proc[p] EXCEPT !.pc = l, !.floating = {}, !.held = {}, !.tree = None,
                                  !.build = None]
  <2>2. proc[p] \in State
    BY <1>0
  <2>3. r \in State
    BY <2>1, <2>2 DEF State
  <2>4. proc' = [proc EXCEPT ![p] = r]
    BY DEF End
  <2> HIDE DEF r
  <2> QED
    BY <1>0, <2>3, <2>4
<1>2. /\ proc'[p].pc = l /\ proc'[p].exports = proc[p].exports
      /\ proc'[p].check = proc[p].check /\ proc'[p].todo = proc[p].todo
      /\ proc'[p].out = proc[p].out
  BY <1>0 DEF End, State
<1>3. Sound(mf[p], proc'[p])
  BY <1>0, <1>2 DEF Sound, Lists, Building, Exported, Working, Ends
<1> QED
  BY <1>0, <1>1, <1>3, StepOf

-----------------------------------------------------------------------------
\* Manifest.get finds a pipeline.
LEMMA GetIs ==
  ASSUME NEW p, NEW n \in 1..Len(Manifests), n = mf[p], NEW j \in Pls(n), NEW id,
         IdOf(n, j) = id
  PROVE  Get(p, id) \in Pls(n) /\ IdOf(n, Get(p, id)) = id
<1> DEFINE B == {i \in Pls(n) : IdOf(n, i) = id}
<1>1. B \subseteq Nat /\ B # {} /\ Len(Manifests[n]) \in Nat
  BY Indices
<1>2. PICK x \in B : \A y \in B : ~(<<y, x>> \in OpToRel(<, Nat))
  <2> HIDE DEF B
  <2> QED
    BY <1>1, WFMin, NatLessThanWellFounded
<1>3. ASSUME NEW y \in 1..(x - 1) PROVE IdOf(n, y) # id
  <2>1. x \in Nat /\ y \in Nat /\ y < x /\ y \in Pls(n)
    BY <1>1, Indices DEF Pls
  <2>2. <<y, x>> \in OpToRel(<, Nat)
    BY <2>1 DEF OpToRel
  <2> QED
    BY <1>2, <2>1, <2>2
<1>4. \E i \in 1..Len(Pipelines(p)) : Id(p, i) = id /\ \A y \in 1..(i - 1) : Id(p, y) # id
  <2>1. Pipelines(p) = Manifests[n] /\ \A y : Id(p, y) = IdOf(n, y)
    BY Reads
  <2>2. x \in 1..Len(Pipelines(p)) /\ Id(p, x) = id
    BY <1>2, <2>1 DEF Pls
  <2>3. \A y \in 1..(x - 1) : Id(p, y) # id
    BY <1>3, <2>1
  <2> QED
    BY <2>2, <2>3
<1>5. Get(p, id) \in 1..Len(Pipelines(p)) /\ Id(p, Get(p, id)) = id
  BY <1>4 DEF Get
<1> QED
  BY <1>5, Reads DEF Pls

\* The ordered set with the pipeline at its end.
LEMMA Requeued ==
  ASSUME NEW p, NEW S, proc[p].todo \in Seq(S), NEW i \in S
  PROVE  Requeue(p, i) \in Seq(S) /\ Requeue(p, i) # <<>>
<1> DEFINE todo == proc[p].todo
           at == {x \in DOMAIN todo : Id(p, todo[x]) = Id(p, i)}
           y == CHOOSE x \in at : TRUE
           rest == IF at = {} THEN todo ELSE RemoveAt(todo, y)
<1>1. rest \in Seq(S)
  <2>1. CASE at = {}
    BY <2>1
  <2>2. CASE at # {}
    <3>1. y \in 1..Len(todo) /\ Len(todo) \in Nat
      BY <2>2
    <3> HIDE DEF y, at
    <3>2. SubSeq(todo, 1, y - 1) \in Seq(S) /\ SubSeq(todo, y + 1, Len(todo)) \in Seq(S)
      BY <3>1
    <3>3. RemoveAt(todo, y) \in Seq(S)
      BY <3>2 DEF RemoveAt
    <3> QED
      BY <2>2, <3>3
  <2> QED
    BY <2>1, <2>2
<1>2. Requeue(p, i) = Append(rest, i)
  BY DEF Requeue
<1> HIDE DEF rest
<1> QED
  BY <1>1, <1>2

\* A set of pipelines in some order.
LEMMA Listed ==
  ASSUME NEW n \in 1..Len(Manifests), NEW S \in SUBSET Pls(n), NEW s \in SetToSeqs(S)
  PROVE  s \in Seq(Pls(n))
<1>1. Len(Manifests[n]) \in Nat
  BY Indices
<1>2. IsFiniteSet(Pls(n))
  BY <1>1, FS_Interval DEF Pls
<1>3. IsFiniteSet(S)
  BY <1>2, FS_Subset
<1>4. Cardinality(S) \in Nat
  BY <1>3, FS_CardinalityType
<1>5. s \in [1..Cardinality(S) -> S]
  BY DEF SetToSeqs
<1> QED
  BY <1>4, <1>5

\* What a round of the loop of depsolve does.
LEMMA Depsolved ==
  ASSUME NEW p, NEW n \in 1..Len(Manifests), n = mf[p], proc[p].check \in Seq(Pls(n)),
         proc[p].todo \in Seq(Pls(n)), Depsolve(p)
  PROVE  \E check \in Seq(Pls(n)), todo \in Seq(Pls(n)) :
            \/ proc' = [proc EXCEPT ![p].check = check]
            \/ proc' = [proc EXCEPT ![p].todo = todo, ![p].check = check]
<1> DEFINE i == Last(proc[p].check)
           rest == Front(proc[p].check)
<1>1. i \in Pls(n) /\ rest \in Seq(Pls(n)) /\ proc[p].check # <<>>
  BY LastAndFront DEF Depsolve
<1>2. PICK seen \in Seen :
         LET deps == UNION {Pipelines(p)[i].stages[k].deps : k \in Unstored(p, i, seen)}
         IN IF InStore(p, Id(p, i), seen)
            THEN proc' = [proc EXCEPT ![p].check = rest]
            ELSE \E inputs \in SetToSeqs({Get(p, Id(p, j)) : j \in deps}) :
                 proc' = [proc EXCEPT
                    ![p].todo = Requeue(p, i),
                    ![p].check = rest
                        \o (IF BuildId(p, i) = None THEN <<>>
                            ELSE <<Get(p, BuildId(p, i))>>)
                        \o inputs]
  BY DEF Depsolve
<1>3. CASE proc' = [proc EXCEPT ![p].check = rest]
  BY <1>1, <1>3
<1>4. CASE ~InStore(p, Id(p, i), seen)
  <2> DEFINE deps == UNION {Pipelines(p)[i].stages[k].deps : k \in Unstored(p, i, seen)}
             build == IF BuildId(p, i) = None THEN <<>> ELSE <<Get(p, BuildId(p, i))>>
  <2>1. PICK inputs \in SetToSeqs({Get(p, Id(p, j)) : j \in deps}) :
           proc' = [proc EXCEPT ![p].todo = Requeue(p, i),
                                ![p].check = rest \o build \o inputs]
    BY <1>2, <1>4
  <2>2. deps \subseteq Pls(n)
    <3>1. Unstored(p, i, seen) \subseteq Stgs(n, i)
      BY Reads DEF Unstored, Stgs
    <3>2. \A k \in Stgs(n, i) : Manifests[n][i].stages[k].deps \subseteq Pls(n)
      <4>1. \A k \in Stgs(n, i) : Deps(n, i, k) \subseteq Pls(n)
        <5> HIDE DEF i
        <5> QED
          BY <1>1, Indices
      <4> QED
        BY <4>1 DEF Deps
    <3>3. Pipelines(p) = Manifests[n]
      BY Reads
    <3> HIDE DEF i
    <3> QED
      BY <3>1, <3>2, <3>3, SMTT(30)
  <2>3. {Get(p, Id(p, j)) : j \in deps} \in SUBSET Pls(n)
    <3>1. \A j \in Pls(n) : Get(p, Id(p, j)) \in Pls(n)
      <4> SUFFICES ASSUME NEW j \in Pls(n) PROVE Get(p, Id(p, j)) \in Pls(n)
        OBVIOUS
      <4>1. Id(p, j) = IdOf(n, j)
        BY Reads
      <4> QED
        BY <4>1, GetIs
    <3> QED
      BY <2>2, <3>1
  <2>4. inputs \in Seq(Pls(n))
    <3> DEFINE S == {Get(p, Id(p, j)) : j \in deps}
    <3> HIDE DEF S
    <3>1. S \in SUBSET Pls(n) /\ inputs \in SetToSeqs(S)
      BY <2>3 DEF S
    <3> QED
      BY <3>1, Listed
  <2>5. build \in Seq(Pls(n))
    <3>0. CASE BuildId(p, i) = None
      BY <3>0
    <3> SUFFICES ASSUME BuildId(p, i) # None PROVE build \in Seq(Pls(n))
      BY <3>0
    <3> DEFINE b == Manifests[n][i].build
    <3>1. b \in Pls(n) /\ BuildId(p, i) = IdOf(n, b)
      <4>1. BuildIdOf(n, i) # None /\ BuildId(p, i) = BuildIdOf(n, i)
        BY Reads
      <4>2. b \in 0..(i - 1) /\ 1..(i - 1) \subseteq Pls(n) /\ i \in Nat
        BY <1>1, Indices
      <4>3. b # 0 /\ BuildIdOf(n, i) = IdOf(n, b)
        BY <4>1 DEF BuildIdOf, BuildOf, IdOf
      <4> HIDE DEF b, i
      <4> QED
        BY <4>1, <4>2, <4>3
    <3> HIDE DEF b
    <3>2. Get(p, BuildId(p, i)) \in Pls(n)
      BY <3>1, GetIs
    <3> QED
      BY <3>2
  <2>6. Requeue(p, i) \in Seq(Pls(n))
    BY <1>1, Requeued
  <2> HIDE DEF deps, build, rest
  <2>7. rest \o build \o inputs \in Seq(Pls(n))
    BY <1>1, <2>4, <2>5
  <2> QED
    BY <2>1, <2>6, <2>7
<1> QED
  BY <1>2, <1>3, <1>4

LEMMA Depsolves ==
  ASSUME BInv, NEW p \in Proc, Depsolve(p)
  PROVE  BInv'
<1> DEFINE n == mf[p]
<1>0. /\ n \in 1..Len(Manifests) /\ proc[p] \in State /\ Sound(n, proc[p])
      /\ cache \subseteq Truth /\ proc \in [Proc -> State]
  BY StateOf
<1>1. /\ proc[p].check \in Seq(Pls(n)) /\ proc[p].todo \in Seq(Pls(n))
      /\ proc[p].check # <<>> /\ proc[p].pc = "depsolve"
  BY <1>0 DEF Sound, Lists, Depsolve, At
<1>2. PICK check \in Seq(Pls(n)), todo \in Seq(Pls(n)) :
         \/ proc' = [proc EXCEPT ![p].check = check]
         \/ proc' = [proc EXCEPT ![p].todo = todo, ![p].check = check]
  BY <1>0, <1>1, Depsolved
<1>3. \E c \in Seq(Pls(n)), t \in Seq(Pls(n)) :
         proc' = [proc EXCEPT ![p].todo = t, ![p].check = c]
  <2>1. CASE proc' = [proc EXCEPT ![p].check = check]
    <3>1. proc' = [proc EXCEPT ![p].todo = proc[p].todo, ![p].check = check]
      BY <1>0, <2>1 DEF State
    <3> QED
      BY <1>1, <3>1
  <2> QED
    BY <1>2, <2>1
<1>4. PICK c \in Seq(Pls(n)), t \in Seq(Pls(n)) :
         proc' = [proc EXCEPT ![p].todo = t, ![p].check = c]
  BY <1>3
<1>5. c \in Seq(Nat) /\ t \in Seq(Nat)
  BY <1>0, PipelineNumbers
<1>6. proc' \in [Proc -> State] /\ \A q \in Proc \ {p} : proc'[q] = proc[q]
  BY <1>0, <1>4, <1>5 DEF State
<1>7. /\ proc'[p].pc = "depsolve" /\ proc'[p].exports = proc[p].exports
      /\ proc'[p].check = c /\ proc'[p].todo = t /\ proc'[p].out = proc[p].out
  BY <1>0, <1>1, <1>4 DEF State
<1>8. Sound(n, proc'[p])
  BY <1>0, <1>7 DEF Sound, Lists, Building, Exported, Working
<1>9. mf' = mf /\ alone' = alone /\ cache' \subseteq Truth
  BY <1>0 DEF Depsolve, setting
<1> QED
  BY <1>6, <1>8, <1>9, StepOf

LEMMA Downloads ==
  ASSUME BInv, NEW p \in Proc, Download(p)
  PROVE  BInv'
<1>0. cache \subseteq Truth /\ proc \in [Proc -> State] /\ Sound(mf[p], proc[p])
  BY StateOf
<1>1. mf' = mf /\ alone' = alone /\ cache' = cache
  BY DEF Download, setting
<1>2. CASE End(p, "failed")
  <2>1. "failed" \in Ends
    BY DEF Ends
  <2> QED
    BY <1>1, <1>2, <2>1, Ending
<1>3. CASE proc' = [proc EXCEPT ![p].pc = "next"]
  <2>1. proc' \in [Proc -> State] /\ \A q \in Proc \ {p} : proc'[q] = proc[q]
    <3>1. "next" \in Labels
      BY DEF Labels
    <3> DEFINE r == [proc[p] EXCEPT !.pc = "next"]
    <3>2. proc[p] \in State
      BY <1>0
    <3>3. r \in State /\ proc' = [proc EXCEPT ![p] = r]
      BY <1>3, <3>1, <3>2 DEF State
    <3> HIDE DEF r
    <3> QED
      BY <1>0, <3>3
  <2>2. /\ proc'[p].pc = "next" /\ proc'[p].exports = proc[p].exports
        /\ proc'[p].check = proc[p].check /\ proc'[p].todo = proc[p].todo
        /\ proc'[p].out = proc[p].out
    BY <1>0, <1>3 DEF State
  <2>3. Sound(mf[p], proc'[p])
    BY <1>0, <2>2 DEF Sound, Lists, Building, Exported, Working
  <2> QED
    BY <1>0, <1>1, <2>1, <2>3, StepOf
<1> QED
  BY <1>2, <1>3 DEF Download

LEMMA TakesNext ==
  ASSUME BInv, NEW p \in Proc, NextPipeline(p)
  PROVE  BInv'
<1> DEFINE n == mf[p]
<1>0. /\ n \in 1..Len(Manifests) /\ cache \subseteq Truth /\ proc \in [Proc -> State]
      /\ Sound(n, proc[p])
  BY StateOf
<1>1. mf' = mf /\ alone' = alone /\ cache' = cache /\ proc[p].pc = "next"
  BY DEF NextPipeline, setting, At
<1>2. proc[p].todo \in Seq(Pls(n))
  BY <1>0 DEF Sound, Lists
<1>3. proc[p].todo # <<>> => Remaining(p) \in Seq(Pls(n))
  BY <1>2, LastAndFront DEF Remaining
<1>4. PICK l \in {"next", "build", "export"}, todo \in Seq(Pls(n)) :
         /\ proc' = [proc EXCEPT ![p].pc = l, ![p].todo = todo]
         /\ l = "build" => todo # <<>> /\ IdOf(n, Last(todo)) # None
  <2>1. CASE proc' = [proc EXCEPT ![p].pc = "export"]
    <3>1. proc' = [proc EXCEPT ![p].pc = "export", ![p].todo = proc[p].todo]
      BY <1>0, <2>1 DEF State
    <3> QED
      BY <1>2, <3>1
  <2>2. CASE /\ proc[p].todo # <<>> /\ Id(p, Last(proc[p].todo)) # None
             /\ proc' = [proc EXCEPT ![p].pc = "build"]
    <3>1. proc' = [proc EXCEPT ![p].pc = "build", ![p].todo = proc[p].todo]
      BY <1>0, <2>2 DEF State
    <3>2. IdOf(n, Last(proc[p].todo)) # None
      BY <2>2, Reads
    <3> QED
      BY <1>2, <2>2, <3>1, <3>2
  <2>3. CASE proc[p].todo # <<>> /\ proc' = [proc EXCEPT ![p].todo = Remaining(p)]
    <3>1. proc' = [proc EXCEPT ![p].pc = "next", ![p].todo = Remaining(p)]
      BY <1>0, <1>1, <2>3 DEF State
    <3> QED
      BY <1>3, <2>3, <3>1
  <2> QED
    BY <2>1, <2>2, <2>3 DEF NextPipeline
<1>5. todo \in Seq(Nat)
  BY <1>0, PipelineNumbers
<1>6. proc' \in [Proc -> State] /\ \A q \in Proc \ {p} : proc'[q] = proc[q]
  <2>1. l \in Labels
    BY DEF Labels
  <2> DEFINE r == [proc[p] EXCEPT !.pc = l, !.todo = todo]
  <2>2. r \in State
    <3>1. proc[p] \in State
      BY <1>0
    <3> QED
      BY <1>5, <2>1, <3>1 DEF State
  <2>3. proc' = [proc EXCEPT ![p] = r]
    BY <1>0, <1>4 DEF State
  <2> HIDE DEF r
  <2> QED
    BY <1>0, <2>2, <2>3
<1>7. /\ proc'[p].pc = l /\ proc'[p].exports = proc[p].exports
      /\ proc'[p].check = proc[p].check /\ proc'[p].todo = todo /\ proc'[p].out = proc[p].out
  BY <1>0, <1>4 DEF State
<1>8. Sound(n, proc'[p])
  BY <1>0, <1>4, <1>7 DEF Sound, Lists, Building, Exported, Working
<1> QED
  BY <1>0, <1>1, <1>6, <1>8, StepOf

LEMMA FindsBuildTree ==
  ASSUME DevicesFixed, BInv, NEW p \in Proc, BuildTree(p)
  PROVE  BInv'
<1> DEFINE n == mf[p]
           i == Last(proc[p].todo)
           b == Manifests[n][i].build
<1>0. /\ n \in 1..Len(Manifests) /\ cache \subseteq Truth /\ proc \in [Proc -> State]
      /\ Sound(n, proc[p])
  BY StateOf
<1>1. mf' = mf /\ alone' = alone /\ cache' = cache /\ proc[p].pc = "build"
  BY DEF BuildTree, setting, At
<1>2. proc[p].todo \in Seq(Pls(n)) /\ proc[p].todo # <<>> /\ i \in Pls(n)
  <2>1. proc[p].todo \in Seq(Pls(n)) /\ proc[p].todo # <<>>
    BY <1>0, <1>1 DEF Sound, Lists, Working
  <2> QED
    BY <2>1, LastAndFront
<1>3. /\ b = 0 \/ b \in Pls(n)
      /\ BuildId(p, i) = IF b = 0 THEN None ELSE IdOf(n, b)
      /\ BuildTreeOf(n, i) = OrHost(IF b = 0 THEN None ELSE TreeOf(n, b))
  <2>1. b \in 0..(i - 1) /\ 1..(i - 1) \subseteq Pls(n) /\ i \in Nat
    BY <1>0, <1>2, Indices
  <2>2. BuildId(p, i) = BuildIdOf(n, i)
    BY Reads
  <2> QED
    BY <2>1, <2>2 DEF BuildIdOf, BuildTreeOf, BuildOf, IdOf, TreeOf
<1>4. CASE \E t \in TreeSet, held \in SUBSET Truth :
              /\ t = BuildTreeOf(n, i)
              /\ proc' = [proc EXCEPT ![p].pc = "base", ![p].build = t, ![p].held = held]
  <2>1. PICK t \in TreeSet, held \in SUBSET Truth :
              /\ t = BuildTreeOf(n, i)
              /\ proc' = [proc EXCEPT ![p].pc = "base", ![p].build = t, ![p].held = held]
    BY <1>4
  <2>2. proc' \in [Proc -> State] /\ \A q \in Proc \ {p} : proc'[q] = proc[q]
    <3>1. "base" \in Labels
      BY DEF Labels
    <3> DEFINE r == [proc[p] EXCEPT !.pc = "base", !.build = t, !.held = held]
    <3>2. r \in State
      BY <1>0, <3>1 DEF State
    <3>3. proc' = [proc EXCEPT ![p] = r]
      BY <1>0, <2>1 DEF State
    <3> HIDE DEF r
    <3> QED
      BY <1>0, <3>2, <3>3
  <2>3. /\ proc'[p].pc = "base" /\ proc'[p].exports = proc[p].exports
        /\ proc'[p].check = proc[p].check /\ proc'[p].todo = proc[p].todo
        /\ proc'[p].out = proc[p].out /\ proc'[p].build = t
    BY <1>0, <2>1 DEF State
  <2>4. Sound(n, proc'[p])
    <3>1. IdOf(n, i) # None
      BY <1>0, <1>1 DEF Sound, Building, Working
    <3>2. Building(n, proc'[p])
      BY <2>1, <2>3, <3>1 DEF Building
    <3>3. Lists(n, proc'[p]) /\ Exported(n, proc'[p])
      BY <1>0, <1>2, <2>3 DEF Sound, Lists, Exported
    <3> QED
      BY <3>2, <3>3 DEF Sound
  <2> QED
    BY <1>0, <1>1, <2>2, <2>4, StepOf
<1>5. CASE BuildId(p, i) = None /\ proc' = [proc EXCEPT ![p].pc = "base", ![p].build = Host]
  <2>1. BuildTreeOf(n, i) = Host
    <3>1. b # 0 => TreeOf(n, b) = None
      <4> DEFINE k == Len(Manifests[n][b].stages)
      <4>1. ASSUME b # 0 PROVE \/ Place(n, b, k) /\ IdOf(n, b) = Ids[n][b][k]
                               \/ TreeOf(n, b) = None
        BY <1>0, <1>3, <4>1, TopIs
      <4>2. Place(n, b, k) => Ids[n][b][k] # None
        BY NotNone
      <4> QED
        BY <1>3, <1>5, <4>1, <4>2
    <3> QED
      BY <1>3, <3>1 DEF OrHost
  <2>2. Host \in TreeSet
    BY DEF TreeSet
  <2>3. /\ proc' = [proc EXCEPT ![p].pc = "base", ![p].build = Host, ![p].held = proc[p].held]
        /\ proc[p].held \in SUBSET Truth
    BY <1>0, <1>5 DEF State
  <2> QED
    BY <1>4, <2>1, <2>2, <2>3
<1>6. CASE BuildId(p, i) # None
  <2>1. PICK seen \in Seen :
           \/ \E o \in Found(p, BuildId(p, i), seen) :
                 proc' = [proc EXCEPT ![p].pc = "base", ![p].build = o[2],
                            ![p].held = @ \cup ({o} \cap cache)]
           \/ End(p, "noBuildTree")
    BY <1>6 DEF BuildTree
  <2>2. CASE End(p, "noBuildTree")
    <3>1. "noBuildTree" \in Ends
      BY DEF Ends
    <3> QED
      BY <1>1, <2>2, <3>1, Ending
  <2>3. CASE \E o \in Found(p, BuildId(p, i), seen) :
                proc' = [proc EXCEPT ![p].pc = "base", ![p].build = o[2],
                           ![p].held = @ \cup ({o} \cap cache)]
    <3>1. PICK o \in Found(p, BuildId(p, i), seen) :
                proc' = [proc EXCEPT ![p].pc = "base", ![p].build = o[2],
                           ![p].held = @ \cup ({o} \cap cache)]
      BY <2>3
    <3>2. o \in Truth /\ o[1] = BuildId(p, i)
      BY Finds
    <3>3. b \in Pls(n) /\ o[1] = IdOf(n, b)
      BY <1>3, <1>6, <3>2
    <3>4. o[2] = TreeOf(n, b) /\ TreeOf(n, b) # None /\ TreeOf(n, b) \in TreeSet
      BY <1>0, <3>2, <3>3, PipelineFound
    <3>5. o[2] = BuildTreeOf(n, i)
      BY <1>3, <1>6, <3>4 DEF OrHost
    <3> DEFINE held == proc[p].held \cup ({o} \cap cache)
    <3>6. held \in SUBSET Truth
      BY <1>0 DEF State
    <3>7. proc' = [proc EXCEPT ![p].pc = "base", ![p].build = o[2], ![p].held = held]
      BY <1>0, <3>1 DEF State
    <3> HIDE DEF held
    <3> QED
      BY <1>4, <3>4, <3>5, <3>6, <3>7
  <2> QED
    BY <2>1, <2>2, <2>3
<1> QED
  BY <1>5, <1>6 DEF BuildTree

LEMMA FindsBase ==
  ASSUME DevicesFixed, BInv, NEW p \in Proc, Base(p)
  PROVE  BInv'
<1> DEFINE n == mf[p]
           i == Last(proc[p].todo)
<1>0. /\ n \in 1..Len(Manifests) /\ cache \subseteq Truth /\ proc \in [Proc -> State]
      /\ Sound(n, proc[p])
  BY StateOf
<1>1. mf' = mf /\ alone' = alone /\ cache' = cache /\ proc[p].pc = "base"
  BY DEF Base, setting, At
<1>2. proc[p].todo \in Seq(Pls(n)) /\ proc[p].todo # <<>> /\ i \in Pls(n)
  <2>1. proc[p].todo \in Seq(Pls(n)) /\ proc[p].todo # <<>>
    BY <1>0, <1>1 DEF Sound, Lists, Working
  <2> QED
    BY <2>1, LastAndFront
<1>3. Len(Manifests[n][i].stages) \in Nat
  BY <1>0, <1>2, Indices
<1>4. CASE \E t \in TreeSet, k \in 0..Len(Manifests[n][i].stages), held \in SUBSET Truth :
              /\ t = AfterStage(n, i, k)
              /\ proc' = [proc EXCEPT ![p].pc = "stage", ![p].tree = t, ![p].stage = k,
                                      ![p].held = held]
  <2>1. PICK t \in TreeSet, k \in 0..Len(Manifests[n][i].stages), held \in SUBSET Truth :
              /\ t = AfterStage(n, i, k)
              /\ proc' = [proc EXCEPT ![p].pc = "stage", ![p].tree = t, ![p].stage = k,
                                      ![p].held = held]
    BY <1>4
  <2>2. k \in Nat
    BY <1>3
  <2>3. proc' \in [Proc -> State] /\ \A q \in Proc \ {p} : proc'[q] = proc[q]
    <3>1. "stage" \in Labels
      BY DEF Labels
    <3> DEFINE r == [proc[p] EXCEPT !.pc = "stage", !.tree = t, !.stage = k, !.held = held]
    <3>2. r \in State
      <4>1. proc[p] \in State
        BY <1>0
      <4> QED
        BY <2>1, <2>2, <3>1, <4>1 DEF State
    <3>3. proc' = [proc EXCEPT ![p] = r]
      BY <1>0, <2>1 DEF State
    <3> HIDE DEF r
    <3> QED
      BY <1>0, <3>2, <3>3
  <2>4. /\ proc'[p].pc = "stage" /\ proc'[p].exports = proc[p].exports
        /\ proc'[p].check = proc[p].check /\ proc'[p].todo = proc[p].todo
        /\ proc'[p].out = proc[p].out /\ proc'[p].build = proc[p].build
        /\ proc'[p].tree = t /\ proc'[p].stage = k
    BY <1>0, <2>1 DEF State
  <2>5. Sound(n, proc'[p])
    BY <1>0, <1>1, <1>2, <2>1, <2>4 DEF Sound, Lists, Building, Exported, Working
  <2> QED
    BY <1>0, <1>1, <2>3, <2>5, StepOf
<1>5. CASE proc' = [proc EXCEPT ![p].pc = "stage", ![p].tree = None, ![p].stage = 0]
  <2>1. None \in TreeSet /\ None = AfterStage(n, i, 0) /\ 0 \in 0..Len(Manifests[n][i].stages)
    BY <1>3 DEF TreeSet, AfterStage
  <2>2. /\ proc' = [proc EXCEPT ![p].pc = "stage", ![p].tree = None, ![p].stage = 0,
                                ![p].held = proc[p].held]
        /\ proc[p].held \in SUBSET Truth
    BY <1>0, <1>5 DEF State
  <2> QED
    BY <1>4, <2>1, <2>2
<1>6. CASE \E seen \in Seen, k \in 1..Len(Pipelines(p)[i].stages) :
              \E o \in Found(p, StageId(p, i, k), seen) :
                 proc' = [proc EXCEPT ![p].pc = "stage", ![p].tree = o[2],
                            ![p].stage = Resume(k, Len(Pipelines(p)[i].stages)),
                            ![p].held = @ \cup ({o} \cap cache)]
  <2>0. PICK seen \in Seen, k \in 1..Len(Pipelines(p)[i].stages) :
              \E o \in Found(p, StageId(p, i, k), seen) :
                 proc' = [proc EXCEPT ![p].pc = "stage", ![p].tree = o[2], ![p].stage = k,
                            ![p].held = @ \cup ({o} \cap cache)]
    BY <1>6 DEF Resume
  <2>1. PICK o \in Found(p, StageId(p, i, k), seen) :
                 proc' = [proc EXCEPT ![p].pc = "stage", ![p].tree = o[2], ![p].stage = k,
                            ![p].held = @ \cup ({o} \cap cache)]
    BY <2>0
  <2>2. o \in Truth /\ o[1] = StageId(p, i, k)
    BY Finds
  <2>3. Place(n, i, k) /\ o[1] = Ids[n][i][k] /\ k \in 0..Len(Manifests[n][i].stages) /\ k # 0
    BY <1>0, <1>2, <1>3, <2>2, Reads DEF Place, Stgs
  <2>4. o[2] = AfterStage(n, i, k) /\ o[2] \in TreeSet
    <3>1. o[2] = Trees[n][i][k]
      BY <2>2, <2>3, StageFound
    <3>2. Trees[n][i][k] \in TreeSet
      BY <2>3, TruthIs
    <3> QED
      BY <2>3, <3>1, <3>2 DEF AfterStage
  <2> DEFINE held == proc[p].held \cup ({o} \cap cache)
  <2>5. held \in SUBSET Truth
    BY <1>0 DEF State
  <2>6. proc' = [proc EXCEPT ![p].pc = "stage", ![p].tree = o[2], ![p].stage = k,
                             ![p].held = held]
    BY <1>0, <2>1 DEF State
  <2> HIDE DEF held
  <2> QED
    BY <1>4, <2>3, <2>4, <2>5, <2>6
<1> QED
  BY <1>5, <1>6 DEF Base

\* What the inputs of a stage are, if all are found.
LEMMA InputsFound ==
  ASSUME DevicesFixed, NEW n \in 1..Len(Manifests), NEW deps \in SUBSET Pls(n),
         NEW objs \in SUBSET Truth, {o[1] : o \in objs} = {IdOf(n, j) : j \in deps}
  PROVE  {o[2] : o \in objs} = {TreeOf(n, j) : j \in deps}
<1>1. ASSUME NEW o \in objs PROVE o[2] \in {TreeOf(n, j) : j \in deps}
  <2>1. PICK j \in deps : o[1] = IdOf(n, j)
    OBVIOUS
  <2>2. j \in Pls(n) /\ o \in Truth
    OBVIOUS
  <2>3. o[2] = TreeOf(n, j)
    BY <2>1, <2>2, PipelineFound
  <2> QED
    BY <2>3
<1>2. ASSUME NEW j \in deps PROVE TreeOf(n, j) \in {o[2] : o \in objs}
  <2>1. PICK o \in objs : o[1] = IdOf(n, j)
    OBVIOUS
  <2>2. j \in Pls(n) /\ o \in Truth
    OBVIOUS
  <2>3. o[2] = TreeOf(n, j)
    BY <2>1, <2>2, PipelineFound
  <2> QED
    BY <2>3
<1> QED
  BY <1>1, <1>2

LEMMA RunsStage ==
  ASSUME DevicesFixed, BInv, NEW p \in Proc, RunStage(p)
  PROVE  BInv'
<1> DEFINE n == mf[p]
           i == Last(proc[p].todo)
           k == proc[p].stage + 1
           st == Manifests[n][i].stages[k]
<1>0. /\ n \in 1..Len(Manifests) /\ cache \subseteq Truth /\ proc \in [Proc -> State]
      /\ Sound(n, proc[p])
  BY StateOf
<1>1. mf' = mf /\ alone' = alone /\ cache' = cache /\ proc[p].pc = "stage"
  BY DEF RunStage, setting, At
<1>2. proc[p].todo \in Seq(Pls(n)) /\ proc[p].todo # <<>> /\ i \in Pls(n)
  <2>1. proc[p].todo \in Seq(Pls(n)) /\ proc[p].todo # <<>>
    BY <1>0, <1>1 DEF Sound, Lists, Working
  <2> QED
    BY <2>1, LastAndFront
<1>3. /\ Len(Manifests[n][i].stages) \in Nat /\ proc[p].stage < Len(Manifests[n][i].stages)
      /\ proc[p].stage \in Nat
  <2>1. Len(Manifests[n][i].stages) \in Nat
    BY <1>0, <1>2, Indices
  <2>2. proc[p].stage < Len(Pipelines(p)[i].stages)
    BY DEF RunStage
  <2>3. proc[p].stage \in 0..Len(Manifests[n][i].stages)
    BY <1>0, <1>1 DEF Sound, Building
  <2>4. Pipelines(p) = Manifests[n]
    BY Reads
  <2> QED
    BY <2>1, <2>2, <2>3, <2>4
<1>4. Place(n, i, k)
  BY <1>0, <1>2, <1>3 DEF Place, Stgs
<1>5. /\ proc[p].build = BuildTreeOf(n, i) /\ proc[p].tree = BaseTree(n, i, k)
  BY <1>0, <1>1, <1>3 DEF Sound, Building, AfterStage, BaseTree
<1>6. PICK seen \in Seen :
         LET ids == {Id(p, j) : j \in Pipelines(p)[i].stages[k].deps}
             objs == UNION {Found(p, id, seen) : id \in ids}
         IN \/ /\ {o[1] : o \in objs} = ids
               /\ proc' = [proc EXCEPT
                     ![p].pc = IF Pipelines(p)[i].stages[k].checkpoint THEN "commit" ELSE "stage",
                     ![p].stage = k,
                     ![p].held = @ \cup (objs \cap cache),
                     ![p].tree = Made(Pipelines(p)[i].stages[k].what, Pipelines(p)[i].stages[k].dev,
                                      @, proc[p].build, {o[2] : o \in objs})]
            \/ End(p, "noInput")
            \/ End(p, "failed")
  BY DEF RunStage
<1>7. CASE End(p, "noInput") \/ End(p, "failed")
  <2>1. "noInput" \in Ends /\ "failed" \in Ends
    BY DEF Ends
  <2> QED
    BY <1>1, <1>7, <2>1, Ending
<1> DEFINE ids == {Id(p, j) : j \in st.deps}
           objs == UNION {Found(p, id, seen) : id \in ids}
           l == IF st.checkpoint THEN "commit" ELSE "stage"
           held == proc[p].held \cup (objs \cap cache)
           t == Made(st.what, st.dev, proc[p].tree, proc[p].build, {o[2] : o \in objs})
<1>8. CASE /\ {o[1] : o \in objs} = ids
           /\ proc' = [proc EXCEPT ![p].pc = l, ![p].stage = k, ![p].held = held, ![p].tree = t]
  <2>1. objs \in SUBSET Truth
    BY Finds
  <2>2. st.deps \in SUBSET Pls(n)
    <3>1. Deps(n, i, k) \subseteq Pls(n)
      <4>1. i \in Pls(n) /\ k \in Stgs(n, i)
        BY <1>4 DEF Place
      <4> HIDE DEF i, k
      <4> QED
        BY <1>0, <4>1, Indices
    <3>2. Deps(n, i, k) = st.deps
      BY DEF Deps
    <3> HIDE DEF i, k, st
    <3> QED
      BY <3>1, <3>2
  <2>3. ids = {IdOf(n, j) : j \in st.deps}
    BY Reads
  <2>4. {o[2] : o \in objs} = {TreeOf(n, j) : j \in st.deps}
    <3> DEFINE D == st.deps
    <3> HIDE DEF D, objs, ids
    <3>1. D \in SUBSET Pls(n) /\ {o[1] : o \in objs} = {IdOf(n, j) : j \in D}
      BY <1>8, <2>2, <2>3 DEF D
    <3>2. {o[2] : o \in objs} = {TreeOf(n, j) : j \in D}
      BY <1>0, <2>1, <3>1, InputsFound
    <3> QED
      BY <3>2 DEF D
  <2>5. t = Trees[n][i][k] /\ t \in TreeSet
    <3>1. Trees[n][i][k] = Made(st.what, st.dev, BaseTree(n, i, k), BuildTreeOf(n, i),
                                {TreeOf(n, j) : j \in Deps(n, i, k)})
      BY <1>4, TreeIs
    <3>2. Deps(n, i, k) = st.deps
      BY DEF Deps
    <3>3. Trees[n][i][k] \in TreeSet
      BY <1>4, TruthIs
    <3> HIDE DEF objs
    <3>4. t = Trees[n][i][k]
      <4>1. proc[p].tree = BaseTree(n, i, k) /\ proc[p].build = BuildTreeOf(n, i)
        BY <1>5
      <4> DEFINE found == {o[2] : o \in objs}
                 meant == {TreeOf(n, j) : j \in Deps(n, i, k)}
      <4>2. found = meant
        BY <2>4, <3>2
      <4>3. Trees[n][i][k] = Made(st.what, st.dev, BaseTree(n, i, k), BuildTreeOf(n, i), meant)
        BY <3>1
      <4>4. t = Made(st.what, st.dev, proc[p].tree, proc[p].build, found)
        OBVIOUS
      <4> HIDE DEF st, i, k, t, found, meant
      <4> QED
        BY <4>1, <4>2, <4>3, <4>4
    <3> QED
      BY <3>3, <3>4
  <2>6. held \in SUBSET Truth /\ k \in Nat /\ proc[p] \in State
    <3>1. proc[p] \in State
      BY <1>0
    <3>2. proc[p].held \in SUBSET Truth
      BY <3>1 DEF State
    <3> HIDE DEF objs
    <3> QED
      BY <1>0, <1>3, <3>1, <3>2
  <2>7. l \in Labels /\ l \in {"stage", "commit"}
    BY DEF Labels
  <2> DEFINE r == [proc[p] EXCEPT !.pc = l, !.stage = k, !.held = held, !.tree = t]
  <2>8. /\ r.pc = l /\ r.exports = proc[p].exports /\ r.check = proc[p].check
        /\ r.todo = proc[p].todo /\ r.out = proc[p].out /\ r.build = proc[p].build
        /\ r.tree = t /\ r.stage = k /\ proc' = [proc EXCEPT ![p] = r] /\ r \in State
    <3> HIDE DEF l, k, held, t
    <3>1. r \in State
      BY <2>5, <2>6, <2>7 DEF State
    <3>2. proc' = [proc EXCEPT ![p] = r]
      BY <1>0, <1>8 DEF State
    <3> QED
      BY <2>6, <3>1, <3>2 DEF State
  <2> HIDE DEF r
  <2>9. Sound(n, r)
    <3>1. k # 0 /\ k \in 0..Len(Manifests[n][i].stages)
      BY <1>3
    <3> HIDE DEF l, k, held, t
    <3>2. Lists(n, r) /\ Exported(n, r)
      BY <1>0, <1>2, <2>8 DEF Sound, Lists, Exported
    <3>3. Building(n, r)
      <4>1. IdOf(n, i) # None
        BY <1>0, <1>1 DEF Sound, Building, Working
      <4> QED
        BY <1>5, <2>5, <2>7, <2>8, <3>1, <4>1 DEF Building, AfterStage
    <3> QED
      BY <3>2, <3>3 DEF Sound
  <2>10. proc' \in [Proc -> State] /\ proc'[p] = r /\ \A q \in Proc \ {p} : proc'[q] = proc[q]
    BY <1>0, <2>8
  <2> QED
    BY <1>0, <1>1, <2>9, <2>10, StepOf
<1>9. \/ {o[1] : o \in objs} = ids
         /\ proc' = [proc EXCEPT ![p].pc = l, ![p].stage = k, ![p].held = held, ![p].tree = t]
      \/ End(p, "noInput") \/ End(p, "failed")
  <2>1. Pipelines(p) = Manifests[n]
    BY Reads
  <2>2. CASE /\ {o[1] : o \in objs} = ids
             /\ proc' = [proc EXCEPT ![p].pc = l, ![p].stage = k,
                           ![p].held = @ \cup (objs \cap cache),
                           ![p].tree = Made(st.what, st.dev, @, proc[p].build,
                                            {o[2] : o \in objs})]
    <3> HIDE DEF l, k, objs, st
    <3> QED
      BY <1>0, <2>2 DEF State
  <2> HIDE DEF held, t
  <2> QED
    BY <1>6, <2>1, <2>2
<1> QED
  BY <1>7, <1>8, <1>9

LEMMA Commits ==
  ASSUME BInv, NEW p \in Proc, Commit(p)
  PROVE  BInv'
<1> DEFINE n == mf[p]
           i == Last(proc[p].todo)
           k == proc[p].stage
<1>0. /\ n \in 1..Len(Manifests) /\ cache \subseteq Truth /\ proc \in [Proc -> State]
      /\ Sound(n, proc[p])
  BY StateOf
<1>1. /\ mf' = mf /\ alone' = alone /\ proc[p].pc = "commit"
      /\ cache' = cache \/ cache' = cache \cup {<<StageId(p, i, k), proc[p].tree>>}
      /\ proc' = [proc EXCEPT ![p].pc = "stage"]
  BY DEF Commit, setting, At
<1>2. proc[p].todo \in Seq(Pls(n)) /\ proc[p].todo # <<>> /\ i \in Pls(n)
  <2>1. proc[p].todo \in Seq(Pls(n)) /\ proc[p].todo # <<>>
    BY <1>0, <1>1 DEF Sound, Lists, Working
  <2> QED
    BY <2>1, LastAndFront
<1>3. Place(n, i, k) /\ proc[p].tree = Trees[n][i][k]
  <2>1. Len(Manifests[n][i].stages) \in Nat
    BY <1>0, <1>2, Indices
  <2>2. k \in 0..Len(Manifests[n][i].stages) /\ k # 0 /\ proc[p].tree = AfterStage(n, i, k)
    BY <1>0, <1>1 DEF Sound, Building
  <2> QED
    BY <1>0, <1>2, <2>1, <2>2 DEF Place, Stgs, AfterStage
<1>4. cache' \subseteq Truth
  BY <1>0, <1>1, <1>3, TruthIs, Reads
<1>5. proc' \in [Proc -> State] /\ \A q \in Proc \ {p} : proc'[q] = proc[q]
  <2>1. "stage" \in Labels
    BY DEF Labels
  <2> DEFINE r == [proc[p] EXCEPT !.pc = "stage"]
  <2>2. proc[p] \in State
    BY <1>0
  <2>3. r \in State /\ proc' = [proc EXCEPT ![p] = r]
    BY <1>1, <2>1, <2>2 DEF State
  <2> HIDE DEF r
  <2> QED
    BY <1>0, <2>3
<1>6. /\ proc'[p].pc = "stage" /\ proc'[p].exports = proc[p].exports
      /\ proc'[p].check = proc[p].check /\ proc'[p].todo = proc[p].todo
      /\ proc'[p].out = proc[p].out /\ proc'[p].build = proc[p].build
      /\ proc'[p].tree = proc[p].tree /\ proc'[p].stage = k
  BY <1>0, <1>1 DEF State
<1>7. Sound(n, proc'[p])
  <2>1. IdOf(n, i) # None
    BY <1>0, <1>1 DEF Sound, Building, Working
  <2>2. Building(n, proc'[p])
    BY <1>0, <1>1, <1>6, <2>1 DEF Sound, Building
  <2>3. Lists(n, proc'[p]) /\ Exported(n, proc'[p])
    BY <1>0, <1>2, <1>6 DEF Sound, Lists, Exported
  <2> QED
    BY <2>2, <2>3 DEF Sound
<1> QED
  BY <1>1, <1>4, <1>5, <1>7, StepOf

LEMMA Finalizes ==
  ASSUME BInv, NEW p \in Proc, Finalize(p)
  PROVE  BInv'
<1> DEFINE n == mf[p]
           i == Last(proc[p].todo)
           k == proc[p].stage
           f == proc[p].floating \cup {<<Id(p, i), proc[p].tree>>}
<1>0. /\ n \in 1..Len(Manifests) /\ cache \subseteq Truth /\ proc \in [Proc -> State]
      /\ Sound(n, proc[p])
  BY StateOf
<1>1. /\ mf' = mf /\ alone' = alone /\ cache' = cache /\ proc[p].pc = "stage"
      /\ k = Len(Pipelines(p)[i].stages)
      /\ proc' = [proc EXCEPT ![p].pc = "next", ![p].todo = Remaining(p),
                     ![p].floating = @ \cup {<<Id(p, i), proc[p].tree>>},
                     ![p].tree = None, ![p].build = None]
  BY DEF Finalize, setting, At
<1>2. /\ proc[p].todo \in Seq(Pls(n)) /\ proc[p].todo # <<>> /\ i \in Pls(n)
      /\ Remaining(p) \in Seq(Pls(n))
  <2>1. proc[p].todo \in Seq(Pls(n)) /\ proc[p].todo # <<>>
    BY <1>0, <1>1 DEF Sound, Lists, Working
  <2> QED
    BY <2>1, LastAndFront DEF Remaining
<1>3. Place(n, i, k) /\ proc[p].tree = Trees[n][i][k] /\ Id(p, i) = Ids[n][i][k]
  <2>1. Len(Manifests[n][i].stages) \in Nat /\ k = Len(Manifests[n][i].stages)
    BY <1>0, <1>1, <1>2, Indices, Reads
  <2>2. k # 0
    <3>1. IdOf(n, i) # None
      BY <1>0, <1>1 DEF Sound, Building, Working
    <3> QED
      BY <2>1, <3>1 DEF IdOf, Top
  <2>3. proc[p].tree = AfterStage(n, i, k)
    BY <1>0, <1>1 DEF Sound, Building
  <2>4. Place(n, i, k)
    BY <1>0, <1>2, <2>1, <2>2 DEF Place, Stgs
  <2>5. Id(p, i) = IdOf(n, i)
    BY Reads
  <2> QED
    BY <2>1, <2>2, <2>3, <2>4, <2>5 DEF AfterStage, IdOf, Top
<1>4. f \in SUBSET Truth
  <2>1. <<Ids[n][i][k], Trees[n][i][k]>> \in Truth
    BY <1>3, TruthIs
  <2>2. proc[p].floating \in SUBSET Truth
    BY <1>0 DEF State
  <2>3. <<Id(p, i), proc[p].tree>> = <<Ids[n][i][k], Trees[n][i][k]>>
    BY <1>3
  <2> QED
    BY <2>1, <2>2, <2>3
<1>5. Remaining(p) \in Seq(Nat) /\ None \in TreeSet /\ "next" \in Labels /\ proc[p] \in State
  BY <1>0, <1>2, PipelineNumbers DEF TreeSet, Labels
<1> DEFINE r == [proc[p] EXCEPT !.pc = "next", !.todo = Remaining(p), !.floating = f,
                                !.tree = None, !.build = None]
<1>6. /\ r \in State /\ proc' = [proc EXCEPT ![p] = r]
      /\ r.pc = "next" /\ r.exports = proc[p].exports
      /\ r.check = proc[p].check /\ r.todo = Remaining(p) /\ r.out = proc[p].out
  <2>1. proc' = [proc EXCEPT ![p] = r]
    BY <1>0, <1>1 DEF State
  <2> HIDE DEF f
  <2>2. r \in State
    BY <1>4, <1>5 DEF State
  <2> QED
    BY <1>5, <2>1, <2>2 DEF State
<1> HIDE DEF r
<1>7. Sound(n, r)
  BY <1>0, <1>2, <1>6 DEF Sound, Lists, Building, Exported, Working
<1>8. proc' \in [Proc -> State] /\ proc'[p] = r /\ \A q \in Proc \ {p} : proc'[q] = proc[q]
  BY <1>0, <1>6
<1> QED
  BY <1>0, <1>1, <1>7, <1>8, StepOf

LEMMA Exporting ==
  ASSUME DevicesFixed, BInv, NEW p \in Proc, Export(p)
  PROVE  BInv'
<1> DEFINE n == mf[p]
<1>0. /\ n \in 1..Len(Manifests) /\ cache \subseteq Truth /\ proc \in [Proc -> State]
      /\ Sound(n, proc[p])
  BY StateOf
<1>1. mf' = mf /\ alone' = alone /\ cache' = cache /\ proc[p].pc = "export"
  BY DEF Export, setting, At
<1>2. CASE End(p, "done") \/ End(p, "noExport")
  <2>1. "done" \in Ends /\ "noExport" \in Ends
    BY DEF Ends
  <2> QED
    BY <1>1, <1>2, <2>1, Ending
<1>3. CASE \E i \in proc[p].exports, seen \in Seen : \E o \in Found(p, Id(p, i), seen) :
              proc' = [proc EXCEPT ![p].out = @ \cup {<<i, o[2]>>},
                                   ![p].held = @ \cup ({o} \cap cache)]
  <2>0. PICK i \in proc[p].exports, seen \in Seen : \E o \in Found(p, Id(p, i), seen) :
              proc' = [proc EXCEPT ![p].out = @ \cup {<<i, o[2]>>},
                                   ![p].held = @ \cup ({o} \cap cache)]
    BY <1>3
  <2>1. PICK o \in Found(p, Id(p, i), seen) :
              proc' = [proc EXCEPT ![p].out = @ \cup {<<i, o[2]>>},
                                   ![p].held = @ \cup ({o} \cap cache)]
    BY <2>0
  <2>2. i \in Pls(n) /\ i \in Nat /\ o \in Truth /\ o[1] = IdOf(n, i)
    BY <1>0, Finds, PipelineNumbers, Reads DEF Sound, Lists
  <2>3. o[2] = TreeOf(n, i) /\ o[2] \in TreeSet
    BY <1>0, <2>2, PipelineFound
  <2> DEFINE out == proc[p].out \cup {<<i, o[2]>>}
             held == proc[p].held \cup ({o} \cap cache)
             r == [proc[p] EXCEPT !.out = out, !.held = held]
  <2>4. out \in SUBSET (Nat \X TreeSet) /\ held \in SUBSET Truth /\ proc[p] \in State
    BY <1>0, <2>2, <2>3 DEF State
  <2>5. /\ r \in State /\ proc' = [proc EXCEPT ![p] = r]
        /\ r.pc = "export" /\ r.exports = proc[p].exports
        /\ r.check = proc[p].check /\ r.todo = proc[p].todo /\ r.out = out
    <3>1. proc' = [proc EXCEPT ![p] = r]
      BY <1>0, <2>1 DEF State
    <3> HIDE DEF out, held
    <3>2. r \in State
      BY <2>4 DEF State
    <3> QED
      BY <1>1, <2>4, <3>1, <3>2 DEF State
  <2> HIDE DEF r
  <2>6. Exported(n, r)
    BY <1>0, <2>2, <2>3, <2>5 DEF Sound, Exported
  <2>7. Sound(n, r)
    BY <1>0, <2>5, <2>6 DEF Sound, Lists, Building, Working
  <2>8. proc' \in [Proc -> State] /\ proc'[p] = r /\ \A q \in Proc \ {p} : proc'[q] = proc[q]
    BY <1>0, <2>5
  <2> QED
    BY <1>0, <1>1, <2>7, <2>8, StepOf
<1> QED
  BY <1>2, <1>3 DEF Export


LEMMA Evicts ==
  ASSUME BInv, Evict
  PROVE  BInv'
<1>1. mf' = mf /\ alone' = alone /\ proc' = proc /\ cache' \subseteq cache
  BY DEF Evict, setting
<1>2. Typed'
  BY <1>1 DEF BInv, Typed
<1> QED
  BY <1>1, <1>2 DEF BInv

LEMMA Steps ==
  ASSUME DevicesFixed, BInv, [Next]_vars
  PROVE  BInv'
<1>1. ASSUME NEW p \in Proc, Step(p) PROVE BInv'
  BY <1>1, Depsolves, Downloads, TakesNext, FindsBuildTree, FindsBase, RunsStage, Commits,
     Finalizes, Exporting DEF Step
<1>2. CASE UNCHANGED vars
  BY <1>2 DEF BInv, Typed, vars
<1> QED
  BY <1>1, <1>2, Evicts DEF Next, Finished

\* A process at its start.
LEMMA Starting ==
  ASSUME NEW n \in 1..Len(Manifests), NEW x \in Exports[n], NEW r,
         \/ r = Start(x)
         \/ r = [Start(x) EXCEPT !.pc = "done"]
  PROVE  r \in State /\ Sound(n, r)
<1>1. x \in Seq(Pls(n)) /\ x \in Seq(Nat) /\ Pls(n) \subseteq Nat
  BY BuildAssumption, PipelineNumbers DEF Pls
<1>2. ToSet(x) \subseteq Pls(n)
  BY <1>1 DEF ToSet
<1>3. "depsolve" \in Labels /\ "done" \in Labels /\ None \in TreeSet
  BY DEF Labels, Ends, TreeSet
<1>4. PICK l \in {"depsolve", "done"} :
         r = [pc |-> l, exports |-> ToSet(x), check |-> x, todo |-> <<>>, floating |-> {},
              held |-> {}, tree |-> None, build |-> None, stage |-> 0, out |-> {}]
  BY DEF Start
<1>5. r \in State
  <2>1. l \in Labels /\ ToSet(x) \in SUBSET Nat
    BY <1>1, <1>2, <1>3
  <2> QED
    BY <1>1, <1>3, <1>4, <2>1 DEF State
<1>6. /\ r.pc = l /\ r.exports = ToSet(x) /\ r.check = x /\ r.todo = <<>> /\ r.out = {}
  BY <1>4
<1> QED
  BY <1>1, <1>2, <1>5, <1>6 DEF Sound, Lists, Building, Exported, Working

LEMMA Begins ==
  ASSUME Init
  PROVE  BInv
<1>1. CASE \E x \in [Proc -> UNION {Exports[n] : n \in DOMAIN Exports}] :
              /\ mf \in [Proc -> 1..Len(Manifests)]
              /\ \A p \in Proc : x[p] \in Exports[mf[p]]
              /\ proc = [p \in Proc |-> Start(x[p])]
              /\ alone = FALSE /\ cache = {}
  <2>1. PICK x \in [Proc -> UNION {Exports[n] : n \in DOMAIN Exports}] :
              /\ mf \in [Proc -> 1..Len(Manifests)]
              /\ \A p \in Proc : x[p] \in Exports[mf[p]]
              /\ proc = [p \in Proc |-> Start(x[p])]
              /\ alone = FALSE /\ cache = {}
    BY <1>1
  <2>2. ASSUME NEW p \in Proc PROVE proc[p] \in State /\ Sound(mf[p], proc[p])
    <3>1. mf[p] \in 1..Len(Manifests) /\ x[p] \in Exports[mf[p]] /\ proc[p] = Start(x[p])
      BY <2>1
    <3> QED
      BY <3>1, Starting
  <2> QED
    BY <2>1, <2>2 DEF BInv, Typed
<1>2. CASE \E n \in 1..Len(Manifests) : \E x \in Exports[n] :
              /\ mf = [p \in Proc |-> n] /\ alone = TRUE
              /\ cache \in SUBSET Known(n)
              /\ \E p \in Proc : proc = [q \in Proc |->
                    IF q = p THEN Start(x) ELSE [Start(x) EXCEPT !.pc = "done"]]
  <2>1. PICK n \in 1..Len(Manifests) : \E x \in Exports[n] :
              /\ mf = [p \in Proc |-> n] /\ alone = TRUE
              /\ cache \in SUBSET Known(n)
              /\ \E p \in Proc : proc = [q \in Proc |->
                    IF q = p THEN Start(x) ELSE [Start(x) EXCEPT !.pc = "done"]]
    BY <1>2
  <2>2. PICK x \in Exports[n], p \in Proc :
              proc = [q \in Proc |->
                    IF q = p THEN Start(x) ELSE [Start(x) EXCEPT !.pc = "done"]]
    BY <2>1
  <2>3. ASSUME NEW q \in Proc PROVE proc[q] \in State /\ Sound(mf[q], proc[q])
    <3>1. mf[q] = n
      BY <2>1
    <3>2. proc[q] = Start(x) \/ proc[q] = [Start(x) EXCEPT !.pc = "done"]
      BY <2>2
    <3> QED
      BY <3>1, <3>2, Starting
  <2>4. Known(n) \subseteq Truth
    BY DEF Known, Truth, Pls, Stgs
  <2> QED
    BY <2>1, <2>2, <2>3, <2>4 DEF BInv, Typed
<1> QED
  BY <1>1, <1>2 DEF Init

LEMMA InvariantRight ==
  ASSUME DevicesFixed, BInv
  PROVE  ContentById
<1> SUFFICES ASSUME NEW p \in Proc
             PROVE  /\ Right(p, cache \cup proc[p].floating)
                    /\ \A o \in proc[p].out : o[2] = Top(Pipelines(p), Trees[mf[p]], o[1])
  BY DEF ContentById
<1> DEFINE n == mf[p]
<1>1. /\ n \in 1..Len(Manifests) /\ proc[p] \in State /\ Sound(n, proc[p])
      /\ cache \subseteq Truth
  BY StateOf
<1>2. Pipelines(p) = Manifests[n] /\ \A i, k : StageId(p, i, k) = Ids[n][i][k]
  BY Reads
<1>3. Right(p, cache \cup proc[p].floating)
  <2> SUFFICES ASSUME NEW i \in Pls(n), NEW k \in Stgs(n, i),
                      NEW o \in cache \cup proc[p].floating, o[1] = Ids[n][i][k]
               PROVE  o[2] = Trees[n][i][k]
    BY <1>2 DEF Right, TreeOfId, Pls, Stgs
  <2>1. o \in Truth
    BY <1>1 DEF State
  <2>2. Place(n, i, k)
    BY <1>1 DEF Place
  <2> QED
    BY <2>1, <2>2, StageFound
<1>4. \A o \in proc[p].out : o[2] = Top(Pipelines(p), Trees[n], o[1])
  BY <1>1, <1>2 DEF Sound, Exported, TreeOf
<1> QED
  BY <1>3, <1>4

\* An id stands for a tree: whatever the cache, the finished objects of a process or its
\* output directory hold under the id of a stage or a pipeline is the tree that the
\* manifest describes, for any number of processes with any manifests that share a cache,
\* whatever they find, miss, evict, or leave half built (Stage.id, Pipeline.build_stages,
\* ObjectStore.get and commit).  Stages with the same name and options have to use the same
\* devices, which Stage.id does not hash: run with others, this fails.
THEOREM TreesRight ==
  ASSUME DevicesFixed
  PROVE  Spec => []ContentById
<1>1. Init => BInv
  BY Begins
<1>2. BInv /\ [Next]_vars => BInv'
  BY Steps
<1>3. BInv => ContentById
  BY InvariantRight
<1> QED
  BY <1>1, <1>2, <1>3, PTL DEF Spec

-----------------------------------------------------------------------------
(***************************************************************************)
(* What is stored is not built again                                       *)
(***************************************************************************)
Fields == {"pc", "exports", "check", "todo", "floating", "held", "tree", "build", "stage",
           "out"}
Whole(r) == r = [f \in Fields |-> r[f]]

\* Where a process is in its manifest.
Located(n, r) ==
    /\ r.check \in Seq(Pls(n)) /\ r.todo \in Seq(Pls(n))
    /\ r.pc \in Working => r.todo # <<>>
    /\ r.pc \in {"stage", "commit"} => r.stage \in 0..Len(Manifests[n][Last(r.todo)].stages)
    /\ r.pc = "commit" => r.stage # 0

\* None of objs is made by a stage that is still to be run.
Undone(n, r, objs) ==
    r.pc \in {"stage", "commit"} =>
        \A k \in Stgs(n, Last(r.todo)) :
            k > r.stage => \A o \in objs : o[1] # Ids[n][Last(r.todo)][k]

\* The only user of the cache has not started from less than the cache has.
UInv ==
    /\ mf \in [Proc -> 1..Len(Manifests)] /\ alone \in BOOLEAN
    /\ proc = [p \in Proc |-> proc[p]]
    /\ \A p \in Proc : Whole(proc[p]) /\ Located(mf[p], proc[p])
    /\ alone => /\ \A p \in Proc : Undone(mf[p], proc[p], cache)
                /\ \A p, q \in Proc : p # q => proc[p].pc \in Ends \/ proc[q].pc \in Ends

\* A step is one of a process that has not ended, and changes its state to r.
LEMMA Moves ==
  ASSUME UInv, NEW p \in Proc, proc[p].pc \notin Ends, mf' = mf, alone' = alone, NEW r,
         proc' = [proc EXCEPT ![p] = r], Whole(r), Located(mf[p], r),
         alone => Undone(mf[p], r, cache')
  PROVE  UInv'
<1>1. /\ proc = [q \in Proc |-> proc[q]] /\ proc' = [q \in Proc |-> proc'[q]]
      /\ proc'[p] = r /\ \A q \in Proc \ {p} : proc'[q] = proc[q]
  BY DEF UInv
<1>2. \A q \in Proc : Whole(proc'[q]) /\ Located(mf[q], proc'[q])
  BY <1>1 DEF UInv
<1>3. ASSUME alone, NEW q \in Proc, q # p PROVE proc'[q].pc \in Ends
  BY <1>1, <1>3 DEF UInv
<1>4. ASSUME alone, NEW q \in Proc PROVE Undone(mf[q], proc'[q], cache')
  <2>1. CASE q = p
    BY <1>1, <1>4, <2>1
  <2>2. CASE q # p
    BY <1>3, <1>4, <2>2 DEF Undone, Ends
  <2> QED
    BY <2>1, <2>2
<1>5. alone => \A x, y \in Proc : x # y => proc'[x].pc \in Ends \/ proc'[y].pc \in Ends
  BY <1>3
<1> QED
  BY <1>1, <1>2, <1>4, <1>5 DEF UInv

\* A step after which p is not between stages.
LEMMA MovesOn ==
  ASSUME UInv, NEW p \in Proc, proc[p].pc \notin Ends, mf' = mf, alone' = alone, NEW r,
         proc' = [proc EXCEPT ![p] = r], Whole(r), r.pc \notin {"stage", "commit"},
         r.check \in Seq(Pls(mf[p])), r.todo \in Seq(Pls(mf[p])),
         r.pc \in Working => r.todo # <<>>
  PROVE  UInv'
<1>1. Located(mf[p], r) /\ Undone(mf[p], r, cache')
  BY DEF Located, Undone
<1> QED
  BY <1>1, Moves

\* The state of one process.
LEMMA PlaceOf ==
  ASSUME UInv, NEW p \in Proc
  PROVE  /\ mf[p] \in 1..Len(Manifests) /\ proc = [q \in Proc |-> proc[q]]
         /\ Whole(proc[p]) /\ Located(mf[p], proc[p])
         /\ proc[p].check \in Seq(Pls(mf[p])) /\ proc[p].todo \in Seq(Pls(mf[p]))
         /\ alone => Undone(mf[p], proc[p], cache)
  BY DEF UInv, Located

LEMMA EndsUndone ==
  ASSUME UInv, NEW p \in Proc, proc[p].pc \notin Ends, NEW l \in Ends, End(p, l),
         mf' = mf, alone' = alone
  PROVE  UInv'
<1> DEFINE r == [proc[p] EXCEPT !.pc = l, !.floating = {}, !.held = {}, !.tree = None,
                                !.build = None]
<1>1. /\ proc = [q \in Proc |-> proc[q]] /\ Whole(proc[p])
      /\ proc[p].check \in Seq(Pls(mf[p])) /\ proc[p].todo \in Seq(Pls(mf[p]))
  BY PlaceOf
<1>2. /\ proc' = [proc EXCEPT ![p] = r] /\ Whole(r) /\ r.pc = l /\ r.check = proc[p].check
      /\ r.todo = proc[p].todo
  BY <1>1 DEF End, Whole, Fields
<1> HIDE DEF r
<1>3. l \notin Working /\ l \notin {"stage", "commit"}
  BY DEF Ends, Working
<1> QED
  BY <1>1, <1>2, <1>3, MovesOn

LEMMA DepsolvesUndone ==
  ASSUME UInv, NEW p \in Proc, Depsolve(p)
  PROVE  UInv'
<1> DEFINE n == mf[p]
<1>1. /\ n \in 1..Len(Manifests) /\ proc = [q \in Proc |-> proc[q]] /\ Whole(proc[p])
      /\ proc[p].check \in Seq(Pls(n)) /\ proc[p].todo \in Seq(Pls(n))
  BY PlaceOf
<1>2. mf' = mf /\ alone' = alone /\ proc[p].pc = "depsolve"
  BY DEF Depsolve, setting, At
<1>3. PICK check \in Seq(Pls(n)), todo \in Seq(Pls(n)) :
         \/ proc' = [proc EXCEPT ![p].check = check]
         \/ proc' = [proc EXCEPT ![p].todo = todo, ![p].check = check]
  BY <1>1, Depsolved
<1>4. PICK t \in Seq(Pls(n)) :
         proc' = [proc EXCEPT ![p] = [proc[p] EXCEPT !.todo = t, !.check = check]]
  <2>1. CASE proc' = [proc EXCEPT ![p].check = check]
    <3>1. proc' = [proc EXCEPT ![p] = [proc[p] EXCEPT !.todo = proc[p].todo,
                                                      !.check = check]]
      BY <1>1, <2>1 DEF Whole, Fields
    <3> QED
      BY <1>1, <3>1
  <2>2. CASE proc' = [proc EXCEPT ![p].todo = todo, ![p].check = check]
    <3>1. proc' = [proc EXCEPT ![p] = [proc[p] EXCEPT !.todo = todo, !.check = check]]
      BY <1>1, <2>2 DEF Whole, Fields
    <3> QED
      BY <3>1
  <2> QED
    BY <1>3, <2>1, <2>2
<1> DEFINE r == [proc[p] EXCEPT !.todo = t, !.check = check]
<1>5. Whole(r) /\ r.pc = "depsolve" /\ r.check = check /\ r.todo = t
  BY <1>1, <1>2 DEF Whole, Fields
<1>6. proc' = [proc EXCEPT ![p] = r]
  BY <1>4
<1> HIDE DEF r
<1>7. "depsolve" \notin Working /\ "depsolve" \notin Ends
  BY DEF Working, Ends
<1> QED
  BY <1>1, <1>2, <1>5, <1>6, <1>7, MovesOn

LEMMA DownloadsUndone ==
  ASSUME UInv, NEW p \in Proc, Download(p)
  PROVE  UInv'
<1>1. /\ proc = [q \in Proc |-> proc[q]] /\ Whole(proc[p])
      /\ proc[p].check \in Seq(Pls(mf[p])) /\ proc[p].todo \in Seq(Pls(mf[p]))
  BY PlaceOf
<1>2. /\ mf' = mf /\ alone' = alone /\ proc[p].pc \notin Ends
      /\ "next" \notin Working /\ "failed" \in Ends
  BY DEF Download, setting, At, Ends, Working
<1>3. CASE proc' = [proc EXCEPT ![p].pc = "next"]
  <2> DEFINE r == [proc[p] EXCEPT !.pc = "next"]
  <2>1. /\ proc' = [proc EXCEPT ![p] = r] /\ Whole(r) /\ r.pc = "next"
        /\ r.check = proc[p].check /\ r.todo = proc[p].todo
    BY <1>1, <1>3 DEF Whole, Fields
  <2> HIDE DEF r
  <2> QED
    BY <1>1, <1>2, <2>1, MovesOn
<1>4. CASE End(p, "failed")
  BY <1>2, <1>4, EndsUndone
<1> QED
  BY <1>3, <1>4 DEF Download

LEMMA TakesNextUndone ==
  ASSUME UInv, NEW p \in Proc, NextPipeline(p)
  PROVE  UInv'
<1> DEFINE n == mf[p]
<1>1. /\ proc = [q \in Proc |-> proc[q]] /\ Whole(proc[p])
      /\ proc[p].check \in Seq(Pls(n)) /\ proc[p].todo \in Seq(Pls(n))
  BY PlaceOf
<1>2. mf' = mf /\ alone' = alone /\ proc[p].pc = "next" /\ "next" \notin Ends
  BY DEF NextPipeline, setting, At, Ends
<1>3. proc[p].todo # <<>> => Remaining(p) \in Seq(Pls(n))
  BY <1>1, LastAndFront DEF Remaining
<1>4. PICK l \in {"next", "build", "export"}, t \in Seq(Pls(n)) :
         /\ proc' = [proc EXCEPT ![p] = [proc[p] EXCEPT !.pc = l, !.todo = t]]
         /\ l = "build" => t # <<>>
  <2>1. CASE proc' = [proc EXCEPT ![p].pc = "export"]
    <3>1. proc' = [proc EXCEPT ![p] = [proc[p] EXCEPT !.pc = "export", !.todo = proc[p].todo]]
      BY <1>1, <2>1 DEF Whole, Fields
    <3> QED
      BY <1>1, <3>1
  <2>2. CASE proc[p].todo # <<>> /\ proc' = [proc EXCEPT ![p].pc = "build"]
    <3>1. proc' = [proc EXCEPT ![p] = [proc[p] EXCEPT !.pc = "build", !.todo = proc[p].todo]]
      BY <1>1, <2>2 DEF Whole, Fields
    <3> QED
      BY <1>1, <2>2, <3>1
  <2>3. CASE proc[p].todo # <<>> /\ proc' = [proc EXCEPT ![p].todo = Remaining(p)]
    <3>1. proc' = [proc EXCEPT ![p] = [proc[p] EXCEPT !.pc = "next", !.todo = Remaining(p)]]
      BY <1>1, <1>2, <2>3 DEF Whole, Fields
    <3> QED
      BY <1>3, <2>3, <3>1
  <2> QED
    BY <2>1, <2>2, <2>3 DEF NextPipeline
<1> DEFINE r == [proc[p] EXCEPT !.pc = l, !.todo = t]
<1>5. Whole(r) /\ r.pc = l /\ r.check = proc[p].check /\ r.todo = t
  BY <1>1 DEF Whole, Fields
<1>6. proc' = [proc EXCEPT ![p] = r]
  BY <1>4
<1> HIDE DEF r
<1>7. l \notin {"stage", "commit"} /\ (l \in Working => t # <<>>)
  BY <1>4 DEF Working
<1> QED
  BY <1>1, <1>2, <1>5, <1>6, <1>7, MovesOn

LEMMA FindsBuildTreeUndone ==
  ASSUME UInv, NEW p \in Proc, BuildTree(p)
  PROVE  UInv'
<1>1. /\ proc = [q \in Proc |-> proc[q]] /\ Whole(proc[p])
      /\ proc[p].check \in Seq(Pls(mf[p])) /\ proc[p].todo \in Seq(Pls(mf[p]))
  BY PlaceOf
<1>2. /\ mf' = mf /\ alone' = alone /\ proc[p].pc = "build" /\ "build" \notin Ends
      /\ "noBuildTree" \in Ends
  BY DEF BuildTree, setting, At, Ends
<1>3. proc[p].todo # <<>>
  BY <1>2, PlaceOf DEF Located, Working
<1>4. CASE \E t, held : proc' = [proc EXCEPT ![p] = [proc[p] EXCEPT !.pc = "base", !.build = t,
                                                                   !.held = held]]
  <2>1. PICK t, held : proc' = [proc EXCEPT ![p] = [proc[p] EXCEPT !.pc = "base", !.build = t,
                                                                   !.held = held]]
    BY <1>4
  <2> DEFINE r == [proc[p] EXCEPT !.pc = "base", !.build = t, !.held = held]
  <2>2. Whole(r) /\ r.pc = "base" /\ r.check = proc[p].check /\ r.todo = proc[p].todo
    BY <1>1 DEF Whole, Fields
  <2>3. proc' = [proc EXCEPT ![p] = r]
    BY <2>1
  <2> HIDE DEF r
  <2> QED
    BY <1>1, <1>2, <1>3, <2>2, <2>3, MovesOn
<1>5. ASSUME NEW t, proc' = [proc EXCEPT ![p].pc = "base", ![p].build = t]
      PROVE  UInv'
  <2>1. proc' = [proc EXCEPT ![p] = [proc[p] EXCEPT !.pc = "base", !.build = t,
                                                    !.held = proc[p].held]]
    BY <1>1, <1>5 DEF Whole, Fields
  <2> QED
    BY <1>4, <2>1
<1>6. ASSUME NEW o, proc' = [proc EXCEPT ![p].pc = "base", ![p].build = o[2],
                                         ![p].held = @ \cup ({o} \cap cache)]
      PROVE  UInv'
  <2> DEFINE t == o[2]
             x == {o} \cap cache
  <2>0. proc' = [proc EXCEPT ![p].pc = "base", ![p].build = t, ![p].held = @ \cup x]
    BY <1>6
  <2> HIDE DEF t, x
  <2>1. proc' = [proc EXCEPT ![p] = [proc[p] EXCEPT !.pc = "base", !.build = t,
                                                    !.held = proc[p].held \cup x]]
    BY <1>1, <2>0 DEF Whole, Fields
  <2> QED
    BY <1>4, <2>1
<1>7. CASE End(p, "noBuildTree")
  BY <1>2, <1>7, EndsUndone
<1> QED
  BY <1>5, <1>6, <1>7 DEF BuildTree

\* What a look-up of the id of a stage misses is not there.
LEMMA Missed ==
  ASSUME NEW p, NEW n, n = mf[p], NEW i, NEW k, Place(n, i, k), NEW seen,
         Found(p, StageId(p, i, k), seen) = {}
  PROVE  \A o \in seen : o[1] # Ids[n][i][k]
<1>1. StageId(p, i, k) = Ids[n][i][k] /\ Ids[n][i][k] # None
  BY Reads, NotNone
<1>2. CASE Floating(p, StageId(p, i, k))
  BY <1>2 DEF Found, Floating
<1>3. CASE ~Floating(p, StageId(p, i, k))
  BY <1>1, <1>3 DEF Found
<1> QED
  BY <1>2, <1>3

LEMMA FindsBaseUndone ==
  ASSUME UInv, NEW p \in Proc, Base(p)
  PROVE  UInv'
<1> DEFINE n == mf[p]
           i == Last(proc[p].todo)
           N == Len(Manifests[n][i].stages)
<1>1. /\ n \in 1..Len(Manifests) /\ proc = [q \in Proc |-> proc[q]] /\ Whole(proc[p])
      /\ proc[p].check \in Seq(Pls(n)) /\ proc[p].todo \in Seq(Pls(n))
      /\ Located(n, proc[p])
  BY PlaceOf
<1>2. mf' = mf /\ alone' = alone /\ cache' = cache /\ proc[p].pc = "base" /\ "base" \notin Ends
  BY DEF Base, setting, At, Ends
<1>3. proc[p].todo # <<>> /\ i \in Pls(n)
  <2>1. proc[p].todo # <<>>
    BY <1>1, <1>2 DEF Located, Working
  <2> QED
    BY <1>1, <2>1, LastAndFront
<1>4. N \in Nat
  BY <1>1, <1>3, Indices
<1>5. PICK seen \in Seen :
         LET stored == {k \in 1..N : Found(p, StageId(p, i, k), seen) # {}}
         IN \/ /\ stored = {}
               /\ proc' = [proc EXCEPT ![p].pc = "stage", ![p].tree = None, ![p].stage = 0]
            \/ \E k \in stored, o \in seen \cup proc[p].floating :
                 /\ \A l \in stored : l <= k
                 /\ proc' = [proc EXCEPT ![p].pc = "stage", ![p].tree = o[2], ![p].stage = k,
                               ![p].held = @ \cup ({o} \cap cache)]
  <2>1. Pipelines(p) = Manifests[n]
    BY Reads
  <2> QED
    BY <2>1 DEF Base, Resume
<1> DEFINE stored == {k \in 1..N : Found(p, StageId(p, i, k), seen) # {}}
\* The process goes on after stage k, the last one that it has found.
<1>6. ASSUME NEW k \in 0..N, \A l \in stored : l <= k, NEW t, NEW held,
             proc' = [proc EXCEPT ![p] = [proc[p] EXCEPT !.pc = "stage", !.tree = t,
                                                         !.stage = k, !.held = held]]
      PROVE  UInv'
  <2> DEFINE r == [proc[p] EXCEPT !.pc = "stage", !.tree = t, !.stage = k, !.held = held]
  <2>1. /\ Whole(r) /\ r.pc = "stage" /\ r.check = proc[p].check /\ r.todo = proc[p].todo
        /\ r.stage = k
    BY <1>1 DEF Whole, Fields
  <2>2. proc' = [proc EXCEPT ![p] = r]
    BY <1>6
  <2> HIDE DEF r
  <2>3. Located(n, r)
    BY <1>1, <1>3, <1>6, <2>1 DEF Located
  <2>4. ASSUME alone PROVE Undone(n, r, cache')
    <3> SUFFICES ASSUME NEW l \in Stgs(n, i), l > k PROVE \A o \in cache : o[1] # Ids[n][i][l]
      BY <1>2, <2>1 DEF Undone
    <3>1. seen = cache
      BY <2>4 DEF Seen
    <3>2. l \notin stored
      BY <1>4, <1>6 DEF Stgs
    <3>3. Found(p, StageId(p, i, l), seen) = {}
      BY <3>2 DEF Stgs
    <3>4. Place(n, i, l)
      BY <1>1, <1>3 DEF Place
    <3> QED
      BY <3>1, <3>3, <3>4, Missed
  <2> QED
    BY <1>1, <1>2, <2>1, <2>2, <2>3, <2>4, Moves
<1>7. CASE stored = {} /\ proc' = [proc EXCEPT ![p].pc = "stage", ![p].tree = None,
                                               ![p].stage = 0]
  <2>1. proc' = [proc EXCEPT ![p] = [proc[p] EXCEPT !.pc = "stage", !.tree = None, !.stage = 0,
                                                    !.held = proc[p].held]]
    BY <1>1, <1>7 DEF Whole, Fields
  <2>2. 0 \in 0..N /\ \A l \in stored : l <= 0
    BY <1>4, <1>7
  <2> HIDE DEF stored, N
  <2> QED
    BY <1>6, <2>1, <2>2
<1>8. ASSUME NEW k \in stored, NEW o, \A l \in stored : l <= k,
             proc' = [proc EXCEPT ![p].pc = "stage", ![p].tree = o[2], ![p].stage = k,
                                  ![p].held = @ \cup ({o} \cap cache)]
      PROVE  UInv'
  <2> DEFINE t == o[2]
             x == {o} \cap cache
  <2>0. proc' = [proc EXCEPT ![p].pc = "stage", ![p].tree = t, ![p].stage = k,
                             ![p].held = @ \cup x]
    BY <1>8
  <2>1. k \in 0..N
    BY <1>4
  <2> HIDE DEF t, x, stored, N
  <2>2. proc' = [proc EXCEPT ![p] = [proc[p] EXCEPT !.pc = "stage", !.tree = t, !.stage = k,
                                                    !.held = proc[p].held \cup x]]
    BY <1>1, <2>0 DEF Whole, Fields
  <2> QED
    BY <1>6, <1>8, <2>1, <2>2
<1> QED
  BY <1>5, <1>7, <1>8

LEMMA RunsStageUndone ==
  ASSUME UInv, NEW p \in Proc, RunStage(p)
  PROVE  UInv'
<1> DEFINE n == mf[p]
           i == Last(proc[p].todo)
           k == proc[p].stage + 1
           N == Len(Manifests[n][i].stages)
<1>1. /\ n \in 1..Len(Manifests) /\ proc = [q \in Proc |-> proc[q]] /\ Whole(proc[p])
      /\ proc[p].check \in Seq(Pls(n)) /\ proc[p].todo \in Seq(Pls(n))
      /\ Located(n, proc[p]) /\ (alone => Undone(n, proc[p], cache))
  BY PlaceOf
<1>2. /\ mf' = mf /\ alone' = alone /\ cache' = cache /\ proc[p].pc = "stage"
      /\ "stage" \notin Ends /\ "noInput" \in Ends /\ "failed" \in Ends
  BY DEF RunStage, setting, At, Ends
<1>3. proc[p].todo # <<>> /\ i \in Pls(n) /\ proc[p].stage \in 0..N
  <2>1. proc[p].todo # <<>> /\ proc[p].stage \in 0..N
    BY <1>1, <1>2 DEF Located, Working
  <2> QED
    BY <1>1, <2>1, LastAndFront
<1>4. N \in Nat /\ proc[p].stage \in Nat /\ k \in 0..N /\ k # 0
  <2>1. N \in Nat
    BY <1>1, <1>3, Indices
  <2>2. proc[p].stage < Len(Pipelines(p)[i].stages) /\ Pipelines(p) = Manifests[n]
    BY Reads DEF RunStage
  <2> QED
    BY <1>3, <2>1, <2>2
<1>5. ASSUME NEW l \in {"stage", "commit"}, NEW t, NEW x,
             proc' = [proc EXCEPT ![p].pc = l, ![p].stage = k, ![p].held = @ \cup x,
                                  ![p].tree = t]
      PROVE  UInv'
  <2> DEFINE r == [proc[p] EXCEPT !.pc = l, !.stage = k, !.held = proc[p].held \cup x,
                                  !.tree = t]
  <2>1. proc' = [proc EXCEPT ![p] = r]
    <3> HIDE DEF k
    <3> QED
      BY <1>1, <1>5 DEF Whole, Fields
  <2>2. Whole(r) /\ r.pc = l /\ r.check = proc[p].check /\ r.todo = proc[p].todo /\ r.stage = k
    <3> HIDE DEF k
    <3> QED
      BY <1>1 DEF Whole, Fields
  <2> HIDE DEF r
  <2>3. Located(n, r)
    BY <1>1, <1>3, <1>4, <2>2 DEF Located
  <2>4. ASSUME alone PROVE Undone(n, r, cache')
    <3>1. Undone(n, proc[p], cache)
      BY <1>1, <2>4
    <3>2. Stgs(n, i) \subseteq Nat
      BY <1>4 DEF Stgs
    <3> QED
      BY <1>2, <1>4, <2>2, <3>1, <3>2 DEF Undone
  <2> QED
    BY <1>1, <1>2, <2>1, <2>2, <2>3, <2>4, Moves
<1>6. CASE End(p, "noInput") \/ End(p, "failed")
  BY <1>2, <1>6, EndsUndone
<1>7. \/ \E c, x, t :
            proc' = [proc EXCEPT ![p].pc = IF c THEN "commit" ELSE "stage", ![p].stage = k,
                                 ![p].held = @ \cup x, ![p].tree = t]
      \/ End(p, "noInput") \/ End(p, "failed")
  BY DEF RunStage
<1>8. ASSUME NEW c, NEW x, NEW t,
             proc' = [proc EXCEPT ![p].pc = IF c THEN "commit" ELSE "stage", ![p].stage = k,
                                  ![p].held = @ \cup x, ![p].tree = t]
      PROVE  UInv'
  <2> DEFINE l == IF c THEN "commit" ELSE "stage"
  <2>1. l \in {"stage", "commit"}
    OBVIOUS
  <2> HIDE DEF k
  <2>2. proc' = [proc EXCEPT ![p].pc = l, ![p].stage = k, ![p].held = @ \cup x, ![p].tree = t]
    BY <1>8
  <2> HIDE DEF l
  <2> QED
    BY <1>5, <2>1, <2>2
<1> QED
  BY <1>6, <1>7, <1>8

LEMMA CommitsUndone ==
  ASSUME UInv, NEW p \in Proc, Commit(p)
  PROVE  UInv'
<1> DEFINE n == mf[p]
           i == Last(proc[p].todo)
           k == proc[p].stage
           id == StageId(p, i, k)
<1>1. /\ n \in 1..Len(Manifests) /\ proc = [q \in Proc |-> proc[q]] /\ Whole(proc[p])
      /\ proc[p].check \in Seq(Pls(n)) /\ proc[p].todo \in Seq(Pls(n))
      /\ Located(n, proc[p]) /\ (alone => Undone(n, proc[p], cache))
  BY PlaceOf
<1>2. /\ mf' = mf /\ alone' = alone /\ proc[p].pc = "commit" /\ "commit" \notin Ends
      /\ cache' \subseteq cache \cup {<<id, proc[p].tree>>}
      /\ proc' = [proc EXCEPT ![p].pc = "stage"]
  BY DEF Commit, setting, At, Ends
<1>3. proc[p].todo # <<>> /\ i \in Pls(n) /\ k # 0
      /\ k \in 0..Len(Manifests[n][i].stages)
  <2>1. proc[p].todo # <<>> /\ k # 0 /\ k \in 0..Len(Manifests[n][i].stages)
    BY <1>1, <1>2 DEF Located, Working
  <2> QED
    BY <1>1, <2>1, LastAndFront
<1>4. Place(n, i, k) /\ id = Ids[n][i][k] /\ k \in Nat
  <2>1. Len(Manifests[n][i].stages) \in Nat
    BY <1>1, <1>3, Indices
  <2>2. id = Ids[n][i][k]
    BY Reads
  <2> QED
    BY <1>1, <1>3, <2>1, <2>2 DEF Place, Stgs
<1> DEFINE r == [proc[p] EXCEPT !.pc = "stage"]
<1>5. /\ Whole(r) /\ r.pc = "stage" /\ r.check = proc[p].check /\ r.todo = proc[p].todo
      /\ r.stage = k /\ proc' = [proc EXCEPT ![p] = r]
  BY <1>1, <1>2 DEF Whole, Fields
<1> HIDE DEF r
<1>6. Located(n, r)
  BY <1>1, <1>3, <1>5 DEF Located
<1>7. ASSUME alone PROVE Undone(n, r, cache')
  <2> SUFFICES ASSUME NEW l \in Stgs(n, i), l > k, NEW o \in cache'
               PROVE  o[1] # Ids[n][i][l]
    BY <1>5 DEF Undone
  <2>1. CASE o \in cache
    BY <1>1, <1>2, <1>7, <2>1 DEF Undone
  <2>2. CASE o[1] = id
    <3>1. Place(n, i, l) /\ l # k
      BY <1>1, <1>3, <1>4 DEF Place, Stgs
    <3>2. Ids[n][i][k] # Ids[n][i][l]
      BY <1>4, <3>1, IdsHaveDepth
    <3> QED
      BY <1>4, <2>2, <3>2
  <2> QED
    BY <1>2, <2>1, <2>2
<1> QED
  BY <1>1, <1>2, <1>5, <1>6, <1>7, Moves

LEMMA FinalizesUndone ==
  ASSUME UInv, NEW p \in Proc, Finalize(p)
  PROVE  UInv'
<1> DEFINE n == mf[p]
           objs == {<<Id(p, Last(proc[p].todo)), proc[p].tree>>}
<1>1. /\ proc = [q \in Proc |-> proc[q]] /\ Whole(proc[p]) /\ Located(n, proc[p])
      /\ proc[p].check \in Seq(Pls(n)) /\ proc[p].todo \in Seq(Pls(n))
  BY PlaceOf
<1>2. /\ mf' = mf /\ alone' = alone /\ proc[p].pc = "stage" /\ "stage" \notin Ends
      /\ "next" \notin Working /\ "stage" \in Working
  BY DEF Finalize, setting, At, Ends, Working
<1>3. Remaining(p) \in Seq(Pls(n))
  BY <1>1, <1>2, LastAndFront DEF Remaining, Located
<1>4. proc' = [proc EXCEPT ![p].pc = "next", ![p].todo = Remaining(p),
                           ![p].floating = @ \cup objs, ![p].tree = None, ![p].build = None]
  BY DEF Finalize
<1> HIDE DEF objs
<1> DEFINE r == [proc[p] EXCEPT !.pc = "next", !.todo = Remaining(p),
                                !.floating = proc[p].floating \cup objs, !.tree = None,
                                !.build = None]
<1>5. /\ Whole(r) /\ r.pc = "next" /\ r.check = proc[p].check /\ r.todo = Remaining(p)
      /\ proc' = [proc EXCEPT ![p] = r]
  BY <1>1, <1>4 DEF Whole, Fields
<1> HIDE DEF r
<1> QED
  BY <1>1, <1>2, <1>3, <1>5, MovesOn

LEMMA ExportingUndone ==
  ASSUME UInv, NEW p \in Proc, Export(p)
  PROVE  UInv'
<1> DEFINE n == mf[p]
<1>1. /\ proc = [q \in Proc |-> proc[q]] /\ Whole(proc[p])
      /\ proc[p].check \in Seq(Pls(n)) /\ proc[p].todo \in Seq(Pls(n))
  BY PlaceOf
<1>2. /\ mf' = mf /\ alone' = alone /\ proc[p].pc = "export" /\ "export" \notin Ends
      /\ "export" \notin Working /\ {"done", "noExport"} \subseteq Ends
  BY DEF Export, setting, At, Ends, Working
<1>3. \/ \E x, y : proc' = [proc EXCEPT ![p].out = @ \cup x, ![p].held = @ \cup y]
      \/ End(p, "done") \/ End(p, "noExport")
  BY DEF Export
<1>4. CASE End(p, "done") \/ End(p, "noExport")
  BY <1>2, <1>4, EndsUndone
<1>5. ASSUME NEW x, NEW y, proc' = [proc EXCEPT ![p].out = @ \cup x, ![p].held = @ \cup y]
      PROVE  UInv'
  <2> DEFINE r == [proc[p] EXCEPT !.out = proc[p].out \cup x, !.held = proc[p].held \cup y]
  <2>1. /\ Whole(r) /\ r.pc = "export" /\ r.check = proc[p].check /\ r.todo = proc[p].todo
        /\ proc' = [proc EXCEPT ![p] = r]
    BY <1>1, <1>2, <1>5 DEF Whole, Fields
  <2> HIDE DEF r
  <2> QED
    BY <1>1, <1>2, <2>1, MovesOn
<1> QED
  BY <1>3, <1>4, <1>5

LEMMA StepsUndone ==
  ASSUME UInv, [Next]_vars
  PROVE  UInv'
<1>1. ASSUME NEW p \in Proc, Step(p) PROVE UInv'
  BY <1>1, DepsolvesUndone, DownloadsUndone, TakesNextUndone, FindsBuildTreeUndone,
     FindsBaseUndone, RunsStageUndone, CommitsUndone, FinalizesUndone, ExportingUndone
     DEF Step
<1>2. CASE Evict
  BY <1>2 DEF Evict, setting, UInv
<1>3. CASE UNCHANGED vars
  BY <1>3 DEF UInv, vars
<1> QED
  BY <1>1, <1>2, <1>3 DEF Next, Finished

LEMMA StartingUndone ==
  ASSUME NEW n \in 1..Len(Manifests), NEW x \in Exports[n], NEW r,
         \/ r = Start(x)
         \/ r = [Start(x) EXCEPT !.pc = "done"]
  PROVE  Whole(r) /\ Located(n, r) /\ Undone(n, r, cache)
<1>1. x \in Seq(Pls(n))
  BY BuildAssumption DEF Pls
<1>2. PICK l \in {"depsolve", "done"} :
         r = [pc |-> l, exports |-> ToSet(x), check |-> x, todo |-> <<>>, floating |-> {},
              held |-> {}, tree |-> None, build |-> None, stage |-> 0, out |-> {}]
  BY DEF Start
<1>3. Whole(r) /\ r.pc \notin Working /\ r.pc \notin {"stage", "commit"} /\ r.check = x
      /\ r.todo = <<>>
  BY <1>2 DEF Whole, Fields, Working
<1> QED
  BY <1>1, <1>3 DEF Located, Undone

LEMMA BeginsUndone ==
  ASSUME Init
  PROVE  UInv
<1>1. CASE \E x \in [Proc -> UNION {Exports[n] : n \in DOMAIN Exports}] :
              /\ mf \in [Proc -> 1..Len(Manifests)]
              /\ \A p \in Proc : x[p] \in Exports[mf[p]]
              /\ proc = [p \in Proc |-> Start(x[p])]
              /\ alone = FALSE /\ cache = {}
  <2>1. PICK x \in [Proc -> UNION {Exports[n] : n \in DOMAIN Exports}] :
              /\ mf \in [Proc -> 1..Len(Manifests)]
              /\ \A p \in Proc : x[p] \in Exports[mf[p]]
              /\ proc = [p \in Proc |-> Start(x[p])]
              /\ alone = FALSE /\ cache = {}
    BY <1>1
  <2>2. ASSUME NEW p \in Proc PROVE Whole(proc[p]) /\ Located(mf[p], proc[p])
    <3>1. mf[p] \in 1..Len(Manifests) /\ x[p] \in Exports[mf[p]] /\ proc[p] = Start(x[p])
      BY <2>1
    <3> QED
      BY <3>1, StartingUndone
  <2> QED
    BY <2>1, <2>2 DEF UInv
<1>2. CASE \E n \in 1..Len(Manifests) : \E x \in Exports[n] :
              /\ mf = [p \in Proc |-> n] /\ alone = TRUE
              /\ cache \in SUBSET Known(n)
              /\ \E p \in Proc : proc = [q \in Proc |->
                    IF q = p THEN Start(x) ELSE [Start(x) EXCEPT !.pc = "done"]]
  <2>1. PICK n \in 1..Len(Manifests) : \E x \in Exports[n] :
              /\ mf = [p \in Proc |-> n] /\ alone = TRUE
              /\ \E p \in Proc : proc = [q \in Proc |->
                    IF q = p THEN Start(x) ELSE [Start(x) EXCEPT !.pc = "done"]]
    BY <1>2
  <2>2. PICK x \in Exports[n], p \in Proc :
              proc = [q \in Proc |->
                    IF q = p THEN Start(x) ELSE [Start(x) EXCEPT !.pc = "done"]]
    BY <2>1
  <2>3. ASSUME NEW q \in Proc
        PROVE  Whole(proc[q]) /\ Located(mf[q], proc[q]) /\ Undone(mf[q], proc[q], cache)
    <3>1. mf[q] = n
      BY <2>1
    <3>2. proc[q] = Start(x) \/ proc[q] = [Start(x) EXCEPT !.pc = "done"]
      BY <2>2
    <3> QED
      BY <3>1, <3>2, StartingUndone
  <2>4. ASSUME NEW q \in Proc, q # p PROVE proc[q].pc \in Ends
    BY <2>2, <2>4 DEF Start, Ends
  <2>5. proc = [q \in Proc |-> proc[q]] /\ mf \in [Proc -> 1..Len(Manifests)]
    BY <2>1, <2>2
  <2> QED
    BY <2>1, <2>3, <2>4, <2>5 DEF UInv
<1> QED
  BY <1>1, <1>2 DEF Init

\* What a step of a stage does not do.
LEMMA NoStageAgain ==
  ASSUME UInv, [Next]_vars, alone, NEW p \in Proc, At(p, "stage"),
         proc'[p].stage = proc[p].stage + 1, NEW o \in cache
  PROVE  o[1] # StageId(p, Last(proc[p].todo), proc'[p].stage)
<1> DEFINE n == mf[p]
           i == Last(proc[p].todo)
           k == proc[p].stage
<1>1. /\ n \in 1..Len(Manifests) /\ proc = [q \in Proc |-> proc[q]] /\ Whole(proc[p])
      /\ proc[p].todo \in Seq(Pls(n)) /\ Located(n, proc[p]) /\ Undone(n, proc[p], cache)
  BY PlaceOf
<1>2. i \in Pls(n) /\ k \in 0..Len(Manifests[n][i].stages)
  BY <1>1, LastAndFront DEF Located, Working, At
<1>3. Len(Manifests[n][i].stages) \in Nat
  BY <1>1, <1>2, Indices
<1>4. proc'[p].stage # k
  BY <1>2, <1>3
<1>5. CASE RunStage(p)
  <2>1. k < Len(Manifests[n][i].stages)
    BY <1>5, Reads DEF RunStage
  <2>2. k + 1 \in Stgs(n, i) /\ k + 1 > k
    BY <1>2, <1>3, <2>1 DEF Stgs
  <2>3. o[1] # Ids[n][i][k + 1]
    BY <1>1, <2>2 DEF Undone, At
  <2> QED
    BY <2>3, Reads
<1>6. CASE Finalize(p)
  BY <1>1, <1>4, <1>6 DEF Finalize, Whole, Fields
<1>7. ASSUME NEW q \in Proc, q # p, Step(q) PROVE FALSE
  <2>1. proc'[p] = proc[p]
    BY <1>1, <1>7 DEF Step, Depsolve, Download, NextPipeline, BuildTree, Base, RunStage,
                      Commit, Finalize, Export, End
  <2> QED
    BY <1>4, <2>1
<1>8. CASE Evict \/ UNCHANGED vars
  BY <1>4, <1>8 DEF Evict, vars
<1>9. ASSUME Step(p) PROVE RunStage(p) \/ Finalize(p)
  BY <1>9 DEF Step, At, Depsolve, Download, NextPipeline, BuildTree, Base, Commit, Export
<1> QED
  BY <1>5, <1>6, <1>7, <1>8, <1>9 DEF Next, Finished

\* What is stored is not built again: when one process is the only user of the cache,
\* whatever part of its trees an earlier run has left there, no stage runs whose tree is
\* in the cache, for any manifest (Pipeline.build_stages goes on from the last stage that
\* is stored).
THEOREM NothingTwice == Spec => NoRebuild
<1>1. Init => UInv
  BY BeginsUndone
<1>2. UInv /\ [Next]_vars => UInv'
  BY StepsUndone
<1>3. UInv /\ [Next]_vars =>
        [alone => \A p \in Proc :
          (At(p, "stage") /\ proc'[p].stage = proc[p].stage + 1) =>
             \A o \in cache :
                o[1] # StageId(p, Last(proc[p].todo), proc'[p].stage)]_vars
  BY NoStageAgain
<1> QED
  BY <1>1, <1>2, <1>3, PTL DEF Spec, NoRebuild

-----------------------------------------------------------------------------
(***************************************************************************)
(* What a build needs is there                                             *)
(***************************************************************************)

\* Only a pipeline with stages is an input of a stage, or exported: one without has no
\* tree.
TreesOnly ==
    \A n \in 1..Len(Manifests) :
        /\ \A x \in Exports[n] : \A z \in DOMAIN x : Len(Manifests[n][x[z]].stages) # 0
        /\ \A i \in 1..Len(Manifests[n]) : \A k \in 1..Len(Manifests[n][i].stages) :
              \A j \in Manifests[n][i].stages[k].deps : Len(Manifests[n][j].stages) # 0

\* The ids under which something is stored, and those of a sequence of pipelines.
Stored(objs) == {o[1] : o \in objs}
IdsOf(n, s) == {IdOf(n, s[z]) : z \in 1..Len(s)}

\* The stages of a pipeline that depsolve goes through: none of them, and none after them,
\* is stored.  A build of the pipeline needs its build tree and their inputs.
Lacking(n, i, ids) ==
    {k \in Stgs(n, i) : \A l \in k..Len(Manifests[n][i].stages) : Ids[n][i][l] \notin ids}
Needs(n, i, ids) ==
    ({BuildIdOf(n, i)} \ {None})
    \cup UNION {{IdOf(n, j) : j \in Deps(n, i, k)} : k \in Lacking(n, i, ids)}

\* Whatever a pipeline of s needs is later in s, or one of avail.
Prepared(n, s, ids, avail) ==
    \A x \in 1..Len(s) : \A id \in Needs(n, s[x], ids) :
        id \in avail \/ \E y \in 1..Len(s) : y > x /\ IdOf(n, s[y]) = id

\* More may be stored and available.
LEMMA PreparedMore ==
  ASSUME NEW n, NEW s, NEW ids, NEW avail, Prepared(n, s, ids, avail),
         NEW ids2, ids \subseteq ids2, NEW avail2, avail \subseteq avail2
  PROVE  Prepared(n, s, ids2, avail2)
<1>1. \A i : Lacking(n, i, ids2) \subseteq Lacking(n, i, ids)
  BY DEF Lacking
<1>2. \A i : Needs(n, i, ids2) \subseteq Needs(n, i, ids)
  BY <1>1 DEF Needs
<1> QED
  BY <1>2 DEF Prepared

\* A pipeline whose needs are available may be put at the end.
LEMMA PreparedAppend ==
  ASSUME NEW n, NEW S, NEW s \in Seq(S), NEW i \in S, NEW ids, NEW avail,
         Prepared(n, s, ids, avail \cup {IdOf(n, i)}), Needs(n, i, ids) \subseteq avail
  PROVE  Prepared(n, Append(s, i), ids, avail)
<1> DEFINE t == Append(s, i)
<1>1. /\ Len(s) \in Nat /\ Len(t) = Len(s) + 1 /\ t[Len(t)] = i
      /\ \A x \in 1..Len(s) : t[x] = s[x]
  OBVIOUS
<1> HIDE DEF t
<1>2. ASSUME NEW x \in 1..Len(t), NEW id \in Needs(n, t[x], ids)
      PROVE  id \in avail \/ \E y \in 1..Len(t) : y > x /\ IdOf(n, t[y]) = id
  <2>1. CASE x = Len(t)
    BY <1>1, <1>2, <2>1
  <2>2. CASE x # Len(t)
    <3>1. x \in 1..Len(s) /\ t[x] = s[x]
      BY <1>1, <2>2
    <3>2. \/ id \in avail \cup {IdOf(n, i)}
          \/ \E y \in 1..Len(s) : y > x /\ IdOf(n, s[y]) = id
      BY <1>2, <3>1 DEF Prepared
    <3>3. CASE id = IdOf(n, i)
      <4>1. Len(t) \in 1..Len(t) /\ Len(t) > x /\ IdOf(n, t[Len(t)]) = id
        BY <1>1, <3>1, <3>3
      <4> QED
        BY <4>1
    <3>4. ASSUME NEW y \in 1..Len(s), y > x, IdOf(n, s[y]) = id
          PROVE  \E z \in 1..Len(t) : z > x /\ IdOf(n, t[z]) = id
      <4>1. y \in 1..Len(t) /\ t[y] = s[y]
        BY <1>1
      <4> QED
        BY <3>4, <4>1
    <3> QED
      BY <3>2, <3>3, <3>4
  <2> QED
    BY <2>1, <2>2
<1> QED
  BY <1>2 DEF Prepared, t

\* What is left of a sequence without its y-th element.
LEMMA Without ==
  ASSUME NEW S, NEW s \in Seq(S), NEW y \in 1..Len(s)
  PROVE  /\ RemoveAt(s, y) \in Seq(S) /\ Len(RemoveAt(s, y)) = Len(s) - 1
         /\ \A x \in 1..(Len(s) - 1) : RemoveAt(s, y)[x] = s[IF x < y THEN x ELSE x + 1]
<1> DEFINE a == SubSeq(s, 1, y - 1)
           b == SubSeq(s, y + 1, Len(s))
           t == RemoveAt(s, y)
<1>1. Len(s) \in Nat /\ y \in Nat /\ 1 <= y /\ y <= Len(s)
  OBVIOUS
<1>2. a \in Seq(S) /\ Len(a) = y - 1
  OBVIOUS
<1>3. \A x \in 1..(y - 1) : a[x] = s[x]
  OBVIOUS
<1>4. b \in Seq(S) /\ Len(b) = Len(s) - y
  OBVIOUS
<1>5. \A x \in 1..(Len(s) - y) : b[x] = s[y + x]
  OBVIOUS
<1>6. t = a \o b
  BY DEF RemoveAt
<1> HIDE DEF a, b, t
<1>7. t \in Seq(S) /\ Len(t) = Len(a) + Len(b)
  BY <1>2, <1>4, <1>6, ConcatProperties
<1>8. \A x \in 1..(Len(a) + Len(b)) : t[x] = IF x <= Len(a) THEN a[x] ELSE b[x - Len(a)]
  BY <1>2, <1>4, <1>6, ConcatProperties
<1>9. ASSUME NEW x \in 1..(Len(s) - 1)
      PROVE  t[x] = s[IF x < y THEN x ELSE x + 1]
  <2>0. x \in 1..(Len(a) + Len(b)) /\ x \in Nat
    BY <1>1, <1>2, <1>4
  <2>1. CASE x < y
    <3>1. x <= Len(a) /\ x \in 1..(y - 1)
      BY <1>1, <1>2, <2>1
    <3> QED
      BY <1>3, <1>8, <2>0, <2>1, <3>1
  <2>2. CASE ~(x < y)
    <3>1. ~(x <= Len(a)) /\ x - Len(a) \in 1..(Len(s) - y) /\ y + (x - Len(a)) = x + 1
      BY <1>1, <1>2, <2>0, <2>2
    <3>2. t[x] = b[x - Len(a)]
      BY <1>8, <2>0, <3>1
    <3>3. b[x - Len(a)] = s[y + (x - Len(a))]
      BY <1>5, <3>1
    <3> QED
      BY <2>2, <3>1, <3>2, <3>3
  <2> QED
    BY <2>1, <2>2
<1>10. Len(t) = Len(s) - 1
  BY <1>1, <1>2, <1>4, <1>7
<1> QED
  BY <1>7, <1>9, <1>10 DEF t

\* What is taken out has to be available otherwise; the ids are those of the others and
\* its own.
LEMMA PreparedRemove ==
  ASSUME NEW n, NEW S, NEW s \in Seq(S), NEW y \in 1..Len(s), NEW ids, NEW avail,
         Prepared(n, s, ids, avail)
  PROVE  /\ Prepared(n, RemoveAt(s, y), ids, avail \cup {IdOf(n, s[y])})
         /\ IdsOf(n, s) \subseteq IdsOf(n, RemoveAt(s, y)) \cup {IdOf(n, s[y])}
<1> DEFINE t == RemoveAt(s, y)
           old(x) == IF x < y THEN x ELSE x + 1
<1>1. Len(s) \in Nat /\ y \in Nat /\ y <= Len(s)
  OBVIOUS
<1>2. Len(t) = Len(s) - 1 /\ \A x \in 1..Len(t) : t[x] = s[old(x)]
  BY Without
<1> HIDE DEF t
<1>3. ASSUME NEW w \in 1..Len(s), w # y
      PROVE  \E z \in 1..Len(t) : t[z] = s[w] /\ \A x \in 1..Len(t) : w > old(x) => z > x
  <2> DEFINE z == IF w < y THEN w ELSE w - 1
  <2>1. z \in 1..Len(t) /\ old(z) = w /\ \A x \in 1..Len(t) : w > old(x) => z > x
    BY <1>1, <1>2, <1>3
  <2>2. t[z] = s[w]
    BY <1>2, <2>1
  <2> QED
    BY <2>1, <2>2
<1>4. ASSUME NEW x \in 1..Len(t), NEW id \in Needs(n, t[x], ids)
      PROVE  \/ id \in avail \cup {IdOf(n, s[y])}
             \/ \E z \in 1..Len(t) : z > x /\ IdOf(n, t[z]) = id
  <2>1. old(x) \in 1..Len(s) /\ t[x] = s[old(x)]
    BY <1>1, <1>2
  <2>2. \/ id \in avail
        \/ \E w \in 1..Len(s) : w > old(x) /\ IdOf(n, s[w]) = id
    <3> HIDE DEF old
    <3> QED
      BY <1>4, <2>1 DEF Prepared
  <2>3. ASSUME NEW w \in 1..Len(s), w > old(x), IdOf(n, s[w]) = id, w # y
        PROVE  \E z \in 1..Len(t) : z > x /\ IdOf(n, t[z]) = id
    <3> HIDE DEF old
    <3>1. PICK z \in 1..Len(t) : t[z] = s[w] /\ \A v \in 1..Len(t) : w > old(v) => z > v
      BY <1>3, <2>3
    <3> QED
      BY <2>3, <3>1
  <2> HIDE DEF old
  <2> QED
    BY <2>2, <2>3
<1>5. IdsOf(n, s) \subseteq IdsOf(n, t) \cup {IdOf(n, s[y])}
  <2> SUFFICES ASSUME NEW w \in 1..Len(s), w # y PROVE IdOf(n, s[w]) \in IdsOf(n, t)
    BY DEF IdsOf
  <2> HIDE DEF old
  <2>1. PICK z \in 1..Len(t) : t[z] = s[w]
    BY <1>3
  <2> QED
    BY <2>1 DEF IdsOf
<1>6. Prepared(n, t, ids, avail \cup {IdOf(n, s[y])})
  BY <1>4 DEF Prepared
<1> QED
  BY <1>5, <1>6 DEF t

\* The front of a sequence.
LEMMA FrontIs ==
  ASSUME NEW S, NEW s \in Seq(S), s # <<>>
  PROVE  /\ Len(s) \in Nat /\ Len(s) > 0 /\ Len(Front(s)) = Len(s) - 1
         /\ \A x \in 1..Len(Front(s)) : Front(s)[x] = s[x]
         /\ Last(s) = s[Len(s)]
<1>1. Len(s) \in Nat /\ Len(s) > 0
  OBVIOUS
<1>2. /\ Len(SubSeq(s, 1, Len(s) - 1)) = (IF 1 <= Len(s) - 1 THEN Len(s) - 1 - 1 + 1 ELSE 0)
      /\ \A x \in 1..(Len(s) - 1) : SubSeq(s, 1, Len(s) - 1)[x] = s[x]
  <2>1. \A x \in 1..(Len(s) - 1) : s[x] \in S
    BY <1>1
  <2>2. 1 \in Int /\ Len(s) - 1 \in Int
    BY <1>1
  <2> DEFINE e == Len(s) - 1
  <2>3. /\ Len(SubSeq(s, 1, e)) = (IF 1 <= e THEN e - 1 + 1 ELSE 0)
        /\ \A x \in 1..(e - 1 + 1) : SubSeq(s, 1, e)[x] = s[1 + x - 1]
    <3> HIDE DEF e
    <3> QED
      BY <2>1, <2>2, SubSeqProperties DEF e
  <2> QED
    BY <1>1, <2>3
<1>3. Len(SubSeq(s, 1, Len(s) - 1)) = Len(s) - 1
  <2> DEFINE N == Len(s)
             z == Len(SubSeq(s, 1, N - 1))
  <2>1. N \in Nat /\ N > 0 /\ z = IF 1 <= N - 1 THEN N - 1 - 1 + 1 ELSE 0
    BY <1>1, <1>2
  <2> HIDE DEF N, z
  <2>2. z = N - 1
    BY <2>1
  <2> QED
    BY <2>2 DEF N, z
<1>4. Front(s) = SubSeq(s, 1, Len(s) - 1) /\ Last(s) = s[Len(s)]
  BY DEF Front, Last
<1> QED
  BY <1>1, <1>2, <1>3, <1>4

\* Nor is the last pipeline needed any more once it is available.
LEMMA PreparedFront ==
  ASSUME NEW n, NEW S, NEW s \in Seq(S), s # <<>>, NEW ids, NEW avail,
         Prepared(n, s, ids, avail), IdOf(n, Last(s)) \in avail \cup {None},
         None \notin UNION {Needs(n, i, ids) : i \in S}
  PROVE  Prepared(n, Front(s), ids, avail)
<1> DEFINE t == Front(s)
<1>1. /\ Len(s) \in Nat /\ Len(s) > 0 /\ Len(t) = Len(s) - 1
      /\ \A x \in 1..Len(t) : t[x] = s[x]
  BY FrontIs
<1>2. Last(s) = s[Len(s)]
  BY DEF Last
<1> HIDE DEF t
<1>3. ASSUME NEW x \in 1..Len(t), NEW id \in Needs(n, t[x], ids)
      PROVE  id \in avail \/ \E z \in 1..Len(t) : z > x /\ IdOf(n, t[z]) = id
  <2>1. x \in 1..Len(s) /\ t[x] = s[x] /\ s[x] \in S
    BY <1>1
  <2>2. id # None
    BY <1>3, <2>1
  <2>3. id \in avail \/ \E y \in 1..Len(s) : y > x /\ IdOf(n, s[y]) = id
    BY <1>3, <2>1 DEF Prepared
  <2>4. ASSUME NEW y \in 1..Len(s), y > x, IdOf(n, s[y]) = id, y # Len(s)
        PROVE  \E z \in 1..Len(t) : z > x /\ IdOf(n, t[z]) = id
    <3>1. y \in 1..Len(t) /\ t[y] = s[y]
      BY <1>1, <2>4
    <3> QED
      BY <2>4, <3>1
  <2> QED
    BY <1>2, <2>2, <2>3, <2>4
<1> QED
  BY <1>3 DEF Prepared, t

\* The last pipeline has all it needs.
LEMMA PreparedLast ==
  ASSUME NEW n, NEW S, NEW s \in Seq(S), s # <<>>, NEW ids, NEW avail,
         Prepared(n, s, ids, avail)
  PROVE  Needs(n, Last(s), ids) \subseteq avail
<1>1. Len(s) \in 1..Len(s) /\ Last(s) = s[Len(s)]
  BY DEF Last
<1>2. \A y \in 1..Len(s) : ~(y > Len(s))
  OBVIOUS
<1> QED
  BY <1>1, <1>2 DEF Prepared

\* A process, with what is stored: what it is to build and to export is there, or will be
\* built first.
Underway(n, r, ids) ==
    /\ Prepared(n, r.todo, ids, ids \cup IdsOf(n, r.check))
    /\ \A e \in r.exports :
          /\ IdOf(n, e) # None
          /\ IdOf(n, e) \in ids \cup IdsOf(n, r.check) \cup IdsOf(n, r.todo)
    /\ r.pc # "depsolve" => r.check = <<>>
    /\ r.pc = "export" => r.todo = <<>>
    /\ r.pc \in {"stage", "commit"} =>
          \A k \in Stgs(n, Last(r.todo)) : k > r.stage =>
              \A j \in Deps(n, Last(r.todo), k) : IdOf(n, j) \in ids

Bad == {"noBuildTree", "noInput", "noExport"}
Resolved(n, r, c) ==
    /\ r.pc \notin Bad
    /\ r.pc \notin Ends => Underway(n, r, Stored(c \cup r.floating))

\* The only user of the cache misses nothing.
NInv == UInv /\ (alone => \A p \in Proc : Resolved(mf[p], proc[p], cache))

\* The state of one process.
LEMMA ResolvedOf ==
  ASSUME NInv, NEW p \in Proc
  PROVE  /\ mf[p] \in 1..Len(Manifests) /\ proc = [q \in Proc |-> proc[q]]
         /\ Whole(proc[p]) /\ Located(mf[p], proc[p])
         /\ proc[p].check \in Seq(Pls(mf[p])) /\ proc[p].todo \in Seq(Pls(mf[p]))
         /\ (alone /\ proc[p].pc \notin Ends) =>
               Underway(mf[p], proc[p], Stored(cache \cup proc[p].floating))
<1>1. UInv
  BY DEF NInv
<1> QED
  BY <1>1, PlaceOf DEF NInv, Resolved

\* A step is a matter of the process that takes it.
LEMMA Settles ==
  ASSUME NInv, UInv', NEW p \in Proc, proc[p].pc \notin Ends, mf' = mf, alone' = alone,
         NEW r, proc' = [proc EXCEPT ![p] = r],
         alone => Resolved(mf[p], r, cache')
  PROVE  NInv'
<1> SUFFICES ASSUME alone, NEW q \in Proc PROVE Resolved(mf[q], proc'[q], cache')
  BY DEF NInv
<1>1. proc = [x \in Proc |-> proc[x]]
  BY DEF NInv, UInv
<1>2. CASE q = p
  <2>1. proc'[p] = r
    BY <1>1
  <2> QED
    BY <1>2, <2>1
<1>3. CASE q # p
  <2>1. proc'[q] = proc[q] /\ proc[q].pc \in Ends
    BY <1>1, <1>3 DEF NInv, UInv
  <2>2. Resolved(mf[q], proc[q], cache)
    BY DEF NInv
  <2> QED
    BY <2>1, <2>2 DEF Resolved
<1> QED
  BY <1>2, <1>3

\* The end of a process that misses nothing.
LEMMA EndsWell ==
  ASSUME NInv, UInv', NEW p \in Proc, proc[p].pc \notin Ends, NEW l \in Ends, l \notin Bad,
         End(p, l), mf' = mf, alone' = alone
  PROVE  NInv'
<1> DEFINE r == [proc[p] EXCEPT !.pc = l, !.floating = {}, !.held = {}, !.tree = None,
                                !.build = None]
<1>1. proc' = [proc EXCEPT ![p] = r]
  BY DEF End
<1>2. r.pc = l
  BY ResolvedOf DEF Whole, Fields
<1> HIDE DEF r
<1>3. Resolved(mf[p], r, cache')
  BY <1>2 DEF Resolved
<1> QED
  BY <1>1, <1>3, Settles

\* A pipeline with stages has an id.
LEMMA SomeStages ==
  ASSUME NEW n \in 1..Len(Manifests), NEW j \in Pls(n), Len(Manifests[n][j].stages) # 0
  PROVE  IdOf(n, j) # None
<1>1. Place(n, j, Len(Manifests[n][j].stages))
      /\ IdOf(n, j) = Ids[n][j][Len(Manifests[n][j].stages)]
  BY TopIs
<1> QED
  BY <1>1, NotNone

\* A pipeline needs what is made.
LEMMA NeedsSome ==
  ASSUME TreesOnly, NEW n \in 1..Len(Manifests), NEW i \in Pls(n), NEW ids
  PROVE  None \notin Needs(n, i, ids)
<1> SUFFICES ASSUME NEW k \in Stgs(n, i), NEW j \in Deps(n, i, k) PROVE IdOf(n, j) # None
  BY DEF Needs, Lacking
<1>1. j \in Pls(n)
  BY Indices
<1>2. Len(Manifests[n][j].stages) # 0
  BY DEF TreesOnly, Pls, Stgs, Deps
<1> QED
  BY <1>1, <1>2, SomeStages

\* All of a set is listed.
LEMMA ListedAll ==
  ASSUME NEW n \in 1..Len(Manifests), NEW S \in SUBSET Pls(n), NEW s \in SetToSeqs(S)
  PROVE  /\ s \in Seq(Pls(n))
         /\ \A x \in S : \E z \in 1..Len(s) : s[z] = x
<1>1. Len(Manifests[n]) \in Nat
  BY Indices
<1>2. IsFiniteSet(S)
  <2>1. IsFiniteSet(Pls(n))
    BY <1>1, FS_Interval DEF Pls
  <2> QED
    BY <2>1, FS_Subset
<1> DEFINE c == Cardinality(S)
<1>3. c \in Nat
  BY <1>2, FS_CardinalityType
<1>4. s \in [1..c -> S] /\ \A i, j \in 1..c : i # j => s[i] # s[j]
  BY DEF SetToSeqs
<1> HIDE DEF c
<1>5. s \in Injection(1..c, S)
  BY <1>4 DEF Injection, IsInjective
<1>6. Cardinality(1..c) = c
  <2>1. Cardinality(1..c) = IF 1 > c THEN 0 ELSE c - 1 + 1
    BY <1>3, FS_Interval
  <2> QED
    BY <1>3, <2>1
<1>7. s \in Surjection(1..c, S)
  BY <1>2, <1>5, <1>6, FS_Injection DEF c
<1>8. \A x \in S : \E z \in 1..c : s[z] = x
  BY <1>7 DEF Surjection
<1>9. s \in Seq(Pls(n)) /\ Len(s) = c
  BY <1>3, <1>4
<1> QED
  BY <1>8, <1>9

\* The ids of sequences one after the other.
LEMMA IdsOfBoth ==
  ASSUME NEW n, NEW S, NEW s \in Seq(S), NEW t \in Seq(S)
  PROVE  IdsOf(n, s \o t) = IdsOf(n, s) \cup IdsOf(n, t)
<1> DEFINE u == s \o t
<1>1. Len(s) \in Nat /\ Len(t) \in Nat /\ Len(u) = Len(s) + Len(t)
  BY ConcatProperties
<1>2. \A x \in 1..(Len(s) + Len(t)) : u[x] = IF x <= Len(s) THEN s[x] ELSE t[x - Len(s)]
  BY ConcatProperties
<1> HIDE DEF u
<1>3. ASSUME NEW x \in 1..Len(s) PROVE x \in 1..Len(u) /\ u[x] = s[x]
  BY <1>1, <1>2
<1>4. ASSUME NEW x \in 1..Len(t) PROVE Len(s) + x \in 1..Len(u) /\ u[Len(s) + x] = t[x]
  <2>1. Len(s) + x \in 1..(Len(s) + Len(t)) /\ ~(Len(s) + x <= Len(s)) /\ Len(s) + x - Len(s) = x
    BY <1>1
  <2> QED
    BY <1>1, <1>2, <2>1
<1>5. ASSUME NEW x \in 1..Len(u) PROVE IdOf(n, u[x]) \in IdsOf(n, s) \cup IdsOf(n, t)
  <2>1. CASE x <= Len(s)
    <3>1. x \in 1..Len(s) /\ u[x] = s[x]
      BY <1>1, <1>2, <2>1
    <3> QED
      BY <3>1 DEF IdsOf
  <2>2. CASE ~(x <= Len(s))
    <3>1. x - Len(s) \in 1..Len(t) /\ u[x] = t[x - Len(s)]
      BY <1>1, <1>2, <2>2
    <3> QED
      BY <3>1 DEF IdsOf
  <2> QED
    BY <2>1, <2>2
<1>6. IdsOf(n, s) \subseteq IdsOf(n, u)
  BY <1>3 DEF IdsOf
<1>7. IdsOf(n, t) \subseteq IdsOf(n, u)
  BY <1>4 DEF IdsOf
<1>8. IdsOf(n, u) \subseteq IdsOf(n, s) \cup IdsOf(n, t)
  <2> HIDE <1>3, <1>4
  <2> SUFFICES ASSUME NEW x \in 1..Len(u) PROVE IdOf(n, u[x]) \in IdsOf(n, s) \cup IdsOf(n, t)
    BY DEF IdsOf
  <2> QED
    BY <1>5
<1> QED
  BY <1>6, <1>7, <1>8 DEF u

LEMMA IdsOfEnds ==
  ASSUME NEW n, NEW S, NEW s \in Seq(S), s # <<>>
  PROVE  /\ IdsOf(n, s) = IdsOf(n, Front(s)) \cup {IdOf(n, Last(s))}
         /\ IdsOf(n, <<>>) = {}
<1>1. /\ Len(s) \in Nat /\ Len(s) > 0 /\ Len(Front(s)) = Len(s) - 1
      /\ \A x \in 1..Len(Front(s)) : Front(s)[x] = s[x]
      /\ Last(s) = s[Len(s)]
  BY FrontIs
<1>2. ASSUME NEW x \in 1..Len(s)
      PROVE  IdOf(n, s[x]) \in IdsOf(n, Front(s)) \cup {IdOf(n, Last(s))}
  <2>1. CASE x = Len(s)
    BY <1>1, <2>1
  <2>2. CASE x # Len(s)
    <3>1. x \in 1..Len(Front(s)) /\ Front(s)[x] = s[x]
      BY <1>1, <2>2
    <3> QED
      BY <3>1 DEF IdsOf
  <2> QED
    BY <2>1, <2>2
<1>3. \A x \in 1..Len(Front(s)) : x \in 1..Len(s) /\ s[x] = Front(s)[x]
  BY <1>1
<1>4. Len(s) \in 1..Len(s)
  BY <1>1
<1>5. IdsOf(n, s) \subseteq IdsOf(n, Front(s)) \cup {IdOf(n, Last(s))}
  BY <1>2 DEF IdsOf
<1>6. IdsOf(n, Front(s)) \subseteq IdsOf(n, s)
  BY <1>3 DEF IdsOf
<1>7. IdOf(n, Last(s)) \in IdsOf(n, s)
  BY <1>1, <1>4 DEF IdsOf
<1>8. IdsOf(n, <<>>) = {}
  BY DEF IdsOf
<1> QED
  BY <1>5, <1>6, <1>7, <1>8

LEMMA IdsOfMore ==
  ASSUME NEW n, NEW S, NEW s \in Seq(S), NEW i \in S
  PROVE  IdsOf(n, Append(s, i)) = IdsOf(n, s) \cup {IdOf(n, i)}
<1> DEFINE t == Append(s, i)
<1>1. t \in Seq(S) /\ t # <<>> /\ Front(t) = s /\ Last(t) = i
  <2>1. t \in Seq(S) /\ Len(s) \in Nat /\ Len(t) = Len(s) + 1 /\ t[Len(t)] = i
        /\ \A x \in 1..Len(s) : t[x] = s[x]
    OBVIOUS
  <2>2. t # <<>>
    BY <2>1
  <2> HIDE DEF t
  <2>3. Front(t) \in Seq(S) /\ Len(Front(t)) = Len(s) /\ \A x \in 1..Len(s) : Front(t)[x] = s[x]
    <3>1. /\ Len(Front(t)) = Len(t) - 1 /\ \A x \in 1..Len(Front(t)) : Front(t)[x] = t[x]
      BY <2>1, <2>2, FrontIs
    <3>2. Front(t) \in Seq(S)
      BY <2>1, <2>2, LastAndFront
    <3> QED
      BY <2>1, <3>1, <3>2
  <2>4. Front(t) = s
    BY <2>3, SeqEqual
  <2> QED
    BY <2>1, <2>2, <2>4 DEF Last
<1> HIDE DEF t
<1> QED
  BY <1>1, IdsOfEnds DEF t

\* The ids of what is stored.
StoredBy(p) == Stored(cache \cup proc[p].floating)

LEMMA Looks ==
  ASSUME NEW p, NEW id
  PROVE  /\ InStore(p, id, cache) <=> (id # None /\ id \in StoredBy(p))
         /\ id # None /\ id \in StoredBy(p) => \E o \in Found(p, id, cache) : o[1] = id
         /\ id # None /\ id \notin StoredBy(p) => Found(p, id, cache) = {}
<1>1. id \in StoredBy(p) <=> (Floating(p, id) \/ \E o \in cache : o[1] = id)
  BY DEF StoredBy, Stored, Floating
<1>2. InStore(p, id, cache) <=> (id # None /\ id \in StoredBy(p))
  BY <1>1 DEF InStore
<1>3. ASSUME Floating(p, id) PROVE \E o \in Found(p, id, cache) : o[1] = id
  <2>1. Found(p, id, cache) = {o \in proc[p].floating : o[1] = id}
    BY <1>3 DEF Found
  <2> QED
    BY <1>3, <2>1 DEF Floating
<1>4. ASSUME ~Floating(p, id), id # None
      PROVE  Found(p, id, cache) = {o \in cache : o[1] = id}
  BY <1>4 DEF Found
<1> QED
  BY <1>1, <1>2, <1>3, <1>4

\* The pipeline goes to the end of the ordered set, for any other with its id.
LEMMA RequeuedFor ==
  ASSUME NEW p, NEW n, n = mf[p], NEW S, proc[p].todo \in Seq(S), NEW i \in S, NEW ids,
         NEW avail, Prepared(n, proc[p].todo, ids, avail \cup {IdOf(n, i)}),
         Needs(n, i, ids) \subseteq avail
  PROVE  /\ Prepared(n, Requeue(p, i), ids, avail)
         /\ IdsOf(n, proc[p].todo) \cup {IdOf(n, i)} \subseteq IdsOf(n, Requeue(p, i))
<1> DEFINE todo == proc[p].todo
           at == {x \in DOMAIN todo : Id(p, todo[x]) = Id(p, i)}
           y == CHOOSE x \in at : TRUE
           rest == IF at = {} THEN todo ELSE RemoveAt(todo, y)
<1>1. /\ rest \in Seq(S) /\ Prepared(n, rest, ids, avail \cup {IdOf(n, i)})
      /\ IdsOf(n, todo) \subseteq IdsOf(n, rest) \cup {IdOf(n, i)}
  <2>1. CASE at = {}
    BY <2>1
  <2>2. CASE at # {}
    <3>1. y \in 1..Len(todo) /\ Id(p, todo[y]) = Id(p, i)
      BY <2>2
    <3>2. IdOf(n, todo[y]) = IdOf(n, i)
      BY <3>1, Reads
    <3>3. rest = RemoveAt(todo, y)
      BY <2>2
    <3> HIDE DEF y, at, rest, todo
    <3>4. todo \in Seq(S) /\ Prepared(n, todo, ids, avail \cup {IdOf(n, i)})
      BY DEF todo
    <3>5. RemoveAt(todo, y) \in Seq(S)
      BY <3>1, <3>4, Without
    <3>6. /\ Prepared(n, RemoveAt(todo, y), ids, (avail \cup {IdOf(n, i)}) \cup {IdOf(n, todo[y])})
          /\ IdsOf(n, todo) \subseteq IdsOf(n, RemoveAt(todo, y)) \cup {IdOf(n, todo[y])}
      BY <3>1, <3>4, PreparedRemove
    <3>7. (avail \cup {IdOf(n, i)}) \cup {IdOf(n, i)} = avail \cup {IdOf(n, i)}
      OBVIOUS
    <3> QED
      BY <3>2, <3>3, <3>5, <3>6, <3>7
  <2> QED
    BY <2>1, <2>2
<1>2. Requeue(p, i) = Append(rest, i)
  BY DEF Requeue
<1> HIDE DEF rest
<1>3. Prepared(n, Append(rest, i), ids, avail)
  BY <1>1, PreparedAppend
<1>4. IdsOf(n, Append(rest, i)) = IdsOf(n, rest) \cup {IdOf(n, i)}
  BY <1>1, IdsOfMore
<1> QED
  BY <1>1, <1>2, <1>3, <1>4

\* What a round of the loop of depsolve looks at next.
LEMMA Asked ==
  ASSUME TreesOnly, NEW p, NEW n \in 1..Len(Manifests), n = mf[p], NEW i \in Pls(n),
         NEW inputs,
         inputs \in SetToSeqs({Get(p, Id(p, j)) :
                       j \in UNION {Pipelines(p)[i].stages[k].deps : k \in Unstored(p, i, cache)}}),
         NEW build,
         build = (IF BuildId(p, i) = None THEN <<>> ELSE <<Get(p, BuildId(p, i))>>)
  PROVE  /\ inputs \in Seq(Pls(n)) /\ build \in Seq(Pls(n))
         /\ Needs(n, i, StoredBy(p)) \subseteq IdsOf(n, build) \cup IdsOf(n, inputs)
<1> DEFINE deps == UNION {Pipelines(p)[i].stages[k].deps : k \in Unstored(p, i, cache)}
           S == {Get(p, Id(p, j)) : j \in deps}
           ids == StoredBy(p)
<1>1. \A k \in Stgs(n, i) : Deps(n, i, k) \subseteq Pls(n)
  BY Indices
<1>2. Unstored(p, i, cache) = Lacking(n, i, ids)
  <2>1. ASSUME NEW k \in Stgs(n, i), NEW l \in k..Len(Manifests[n][i].stages)
        PROVE  ~InStore(p, StageId(p, i, l), cache) <=> Ids[n][i][l] \notin ids
    <3>1. Len(Manifests[n][i].stages) \in Nat /\ k \in Nat
      BY Indices
    <3>2. Place(n, i, l)
      BY <3>1 DEF Place, Stgs
    <3>3. StageId(p, i, l) = Ids[n][i][l] /\ Ids[n][i][l] # None
      BY <3>2, Reads, NotNone
    <3>4. InStore(p, Ids[n][i][l], cache) <=> (Ids[n][i][l] # None /\ Ids[n][i][l] \in ids)
      BY Looks
    <3> QED
      BY <3>3, <3>4
  <2>2. Pipelines(p) = Manifests[n]
    BY Reads
  <2> HIDE DEF ids
  <2> QED
    BY <2>1, <2>2 DEF Unstored, Lacking, Stgs
<1> HIDE DEF ids
<1>3. deps = UNION {Deps(n, i, k) : k \in Lacking(n, i, ids)}
  <2>1. Pipelines(p) = Manifests[n]
    BY Reads
  <2>2. deps = UNION {Manifests[n][i].stages[k].deps : k \in Lacking(n, i, ids)}
    BY <1>2, <2>1, Zenon
  <2> HIDE DEF deps
  <2> QED
    BY <2>2, Zenon DEF Deps
<1> HIDE DEF deps
<1>4. deps \subseteq Pls(n)
  <2>1. \A k \in Lacking(n, i, ids) : Deps(n, i, k) \subseteq Pls(n)
    BY <1>1 DEF Lacking
  <2> QED
    BY <1>3, <2>1
<1>5. ASSUME NEW j \in deps
      PROVE  Get(p, Id(p, j)) \in Pls(n) /\ IdOf(n, Get(p, Id(p, j))) = IdOf(n, j)
  <2>1. Id(p, j) = IdOf(n, j) /\ j \in Pls(n)
    BY <1>4, Reads
  <2> QED
    BY <2>1, GetIs
<1>6. S \in SUBSET Pls(n)
  BY <1>5
<1>7. inputs \in SetToSeqs(S)
  BY DEF deps
<1>8. inputs \in Seq(Pls(n)) /\ \A x \in S : \E z \in 1..Len(inputs) : inputs[z] = x
  <2> HIDE DEF S
  <2> QED
    BY <1>6, <1>7, ListedAll
<1>9. ASSUME NEW j \in deps PROVE IdOf(n, j) \in IdsOf(n, inputs)
  <2>1. PICK z \in 1..Len(inputs) : inputs[z] = Get(p, Id(p, j))
    BY <1>8
  <2> QED
    BY <1>5, <2>1 DEF IdsOf
<1>10. build \in Seq(Pls(n)) /\ {BuildIdOf(n, i)} \ {None} \subseteq IdsOf(n, build)
  <2>0. BuildId(p, i) = BuildIdOf(n, i)
    BY Reads
  <2>1. CASE BuildIdOf(n, i) = None
    BY <2>0, <2>1
  <2>2. CASE BuildIdOf(n, i) # None
    <3> DEFINE b == Manifests[n][i].build
               g == Get(p, BuildId(p, i))
    <3>1. b \in Pls(n) /\ BuildIdOf(n, i) = IdOf(n, b)
      <4>1. b \in 0..(i - 1) /\ 1..(i - 1) \subseteq Pls(n) /\ i \in Nat
        BY Indices
      <4> QED
        BY <2>2, <4>1 DEF BuildIdOf, BuildOf, IdOf
    <3> HIDE DEF b
    <3>2. g \in Pls(n) /\ IdOf(n, g) = BuildIdOf(n, i)
      BY <2>0, <3>1, GetIs
    <3>3. build = <<g>>
      BY <2>0, <2>2
    <3> HIDE DEF g
    <3>4. build \in Seq(Pls(n)) /\ IdsOf(n, build) = {IdOf(n, g)}
      <4>1. <<g>> \in Seq(Pls(n))
        BY <3>2
      <4>2. IdsOf(n, <<g>>) = {IdOf(n, g)}
        <5>1. 1..Len(<<g>>) = {1} /\ <<g>>[1] = g
          OBVIOUS
        <5> QED
          BY <5>1 DEF IdsOf
      <4> QED
        BY <3>3, <4>1, <4>2
    <3> QED
      BY <3>2, <3>4
  <2> QED
    BY <2>1, <2>2
<1>11. UNION {{IdOf(n, j) : j \in Deps(n, i, k)} : k \in Lacking(n, i, ids)}
          \subseteq IdsOf(n, inputs)
  BY <1>3, <1>9
<1>12. Needs(n, i, ids) \subseteq IdsOf(n, build) \cup IdsOf(n, inputs)
  BY <1>10, <1>11 DEF Needs
<1> QED
  BY <1>8, <1>10, <1>12 DEF ids

LEMMA DepsolvesAll ==
  ASSUME TreesOnly, NInv, UInv', NEW p \in Proc, Depsolve(p)
  PROVE  NInv'
<1> DEFINE n == mf[p]
           i == Last(proc[p].check)
           rest == Front(proc[p].check)
           ids == StoredBy(p)
<1>1. /\ n \in 1..Len(Manifests) /\ proc = [q \in Proc |-> proc[q]] /\ Whole(proc[p])
      /\ proc[p].check \in Seq(Pls(n)) /\ proc[p].todo \in Seq(Pls(n))
      /\ (alone /\ proc[p].pc \notin Ends) => Underway(n, proc[p], ids)
  BY ResolvedOf DEF StoredBy
<1>2. /\ mf' = mf /\ alone' = alone /\ cache' = cache /\ proc[p].pc = "depsolve"
      /\ "depsolve" \notin Ends /\ "depsolve" \notin Bad /\ proc[p].check # <<>>
  BY DEF Depsolve, setting, At, Ends, Bad
<1> SUFFICES ASSUME alone PROVE NInv'
  BY <1>2 DEF NInv
<1>3. /\ Prepared(n, proc[p].todo, ids, ids \cup IdsOf(n, proc[p].check))
      /\ \A e \in proc[p].exports :
            /\ IdOf(n, e) # None
            /\ IdOf(n, e) \in ids \cup IdsOf(n, proc[p].check) \cup IdsOf(n, proc[p].todo)
  BY <1>1, <1>2 DEF Underway
<1>4. i \in Pls(n) /\ rest \in Seq(Pls(n))
      /\ IdsOf(n, proc[p].check) = IdsOf(n, rest) \cup {IdOf(n, i)}
  BY <1>1, <1>2, LastAndFront, IdsOfEnds
\* The state afterwards.
<1>5. ASSUME NEW c, NEW t, Prepared(n, t, ids, ids \cup IdsOf(n, c)),
             IdsOf(n, proc[p].check) \cup IdsOf(n, proc[p].todo)
                \subseteq ids \cup IdsOf(n, c) \cup IdsOf(n, t),
             proc' = [proc EXCEPT ![p] = [proc[p] EXCEPT !.todo = t, !.check = c]]
      PROVE  NInv'
  <2> DEFINE r == [proc[p] EXCEPT !.todo = t, !.check = c]
  <2>1. /\ r.pc = "depsolve" /\ r.check = c /\ r.todo = t /\ r.exports = proc[p].exports
        /\ r.floating = proc[p].floating
    BY <1>1, <1>2 DEF Whole, Fields
  <2>2. proc' = [proc EXCEPT ![p] = r]
    BY <1>5
  <2> HIDE DEF r
  <2>3. Stored(cache' \cup r.floating) = ids
    BY <1>2, <2>1 DEF StoredBy
  <2> HIDE DEF ids
  <2>4. Underway(n, r, ids)
    BY <1>3, <1>5, <2>1 DEF Underway
  <2>5. Resolved(n, r, cache')
    BY <1>2, <2>1, <2>3, <2>4 DEF Resolved
  <2> QED
    BY <1>2, <2>2, <2>5, Settles
<1>6. LET deps == UNION {Pipelines(p)[i].stages[k].deps : k \in Unstored(p, i, cache)}
      IN IF InStore(p, Id(p, i), cache)
         THEN proc' = [proc EXCEPT ![p].check = rest]
         ELSE \E inputs \in SetToSeqs({Get(p, Id(p, j)) : j \in deps}) :
              proc' = [proc EXCEPT
                    ![p].todo = Requeue(p, i),
                    ![p].check = rest
                        \o (IF BuildId(p, i) = None THEN <<>>
                            ELSE <<Get(p, BuildId(p, i))>>)
                        \o inputs]
  <2>1. Seen = {cache}
    BY DEF Seen
  <2> QED
    BY <2>1 DEF Depsolve
<1>7. CASE InStore(p, Id(p, i), cache)
  <2>1. IdOf(n, i) \in ids
    <3>1. Id(p, i) \in ids
      BY <1>7, Looks
    <3> QED
      BY <3>1, Reads
  <2>2. proc' = [proc EXCEPT ![p].check = rest]
    BY <1>6, <1>7
  <2> HIDE DEF rest, i, ids
  <2>3. proc' = [proc EXCEPT ![p] = [proc[p] EXCEPT !.todo = proc[p].todo, !.check = rest]]
    BY <1>1, <2>2 DEF Whole, Fields
  <2>4. ids \cup IdsOf(n, proc[p].check) = ids \cup IdsOf(n, rest)
    BY <1>4, <2>1
  <2>5. Prepared(n, proc[p].todo, ids, ids \cup IdsOf(n, rest))
    BY <1>3, <2>4
  <2>6. IdsOf(n, proc[p].check) \cup IdsOf(n, proc[p].todo)
           \subseteq ids \cup IdsOf(n, rest) \cup IdsOf(n, proc[p].todo)
    BY <2>4
  <2> QED
    BY <1>5, <2>3, <2>5, <2>6
<1>8. CASE ~InStore(p, Id(p, i), cache)
  <2> DEFINE build == IF BuildId(p, i) = None THEN <<>> ELSE <<Get(p, BuildId(p, i))>>
             S == {Get(p, Id(p, j)) :
                      j \in UNION {Pipelines(p)[i].stages[k].deps : k \in Unstored(p, i, cache)}}
  <2>1. PICK inputs \in SetToSeqs(S) :
           proc' = [proc EXCEPT ![p].todo = Requeue(p, i), ![p].check = rest \o build \o inputs]
    BY <1>6, <1>8
  <2>2. /\ inputs \in Seq(Pls(n)) /\ build \in Seq(Pls(n))
        /\ Needs(n, i, ids) \subseteq IdsOf(n, build) \cup IdsOf(n, inputs)
    <3> DEFINE j == i
               b == build
    <3>0. j \in Pls(n)
      BY <1>4
    <3> HIDE DEF j
    <3> QED
      BY <1>1, <3>0, <2>1, Asked DEF j
  <2> HIDE DEF build, S, rest, i, ids
  <2>3. rest \o build \in Seq(Pls(n))
    BY <1>4, <2>2
  <2> DEFINE c == rest \o build \o inputs
             t == Requeue(p, i)
  <2>4. IdsOf(n, c) = IdsOf(n, rest) \cup IdsOf(n, build) \cup IdsOf(n, inputs)
    <3>1. IdsOf(n, rest \o build) = IdsOf(n, rest) \cup IdsOf(n, build)
      BY <1>4, <2>2, IdsOfBoth
    <3>2. IdsOf(n, (rest \o build) \o inputs) = IdsOf(n, rest \o build) \cup IdsOf(n, inputs)
      <4> DEFINE d == rest \o build
      <4>1. d \in Seq(Pls(n))
        BY <2>3
      <4> HIDE DEF d
      <4>2. IdsOf(n, d \o inputs) = IdsOf(n, d) \cup IdsOf(n, inputs)
        BY <2>2, <4>1, IdsOfBoth
      <4> QED
        BY <4>2 DEF d
    <3> QED
      BY <3>1, <3>2
  <2> HIDE DEF c
  <2> DEFINE avail == ids \cup IdsOf(n, c)
  <2>5. Needs(n, i, ids) \subseteq avail
    BY <2>2, <2>4
  <2>6. Prepared(n, proc[p].todo, ids, avail \cup {IdOf(n, i)})
    <3>1. ids \cup IdsOf(n, proc[p].check) \subseteq avail \cup {IdOf(n, i)}
      BY <1>4, <2>4
    <3> HIDE DEF avail
    <3> QED
      BY <1>3, <3>1, PreparedMore
  <2> HIDE DEF avail
  <2>7. /\ Prepared(n, t, ids, avail)
        /\ IdsOf(n, proc[p].todo) \cup {IdOf(n, i)} \subseteq IdsOf(n, t)
    BY <1>1, <1>4, <2>5, <2>6, RequeuedFor
  <2>8. IdsOf(n, proc[p].check) \cup IdsOf(n, proc[p].todo)
           \subseteq ids \cup IdsOf(n, c) \cup IdsOf(n, t)
    BY <1>4, <2>4, <2>7
  <2>9. proc' = [proc EXCEPT ![p].todo = t, ![p].check = c]
    BY <2>1 DEF c
  <2> HIDE DEF t
  <2>10. proc' = [proc EXCEPT ![p] = [proc[p] EXCEPT !.todo = t, !.check = c]]
    BY <1>1, <2>9 DEF Whole, Fields
  <2>11. Prepared(n, t, ids, ids \cup IdsOf(n, c))
    BY <2>7 DEF avail
  <2> QED
    BY <1>5, <2>8, <2>10, <2>11
<1> QED
  BY <1>7, <1>8

LEMMA DownloadsAll ==
  ASSUME NInv, UInv', NEW p \in Proc, Download(p)
  PROVE  NInv'
<1> DEFINE n == mf[p]
           ids == StoredBy(p)
<1>1. /\ n \in 1..Len(Manifests) /\ proc = [q \in Proc |-> proc[q]] /\ Whole(proc[p])
      /\ (alone /\ proc[p].pc \notin Ends) => Underway(n, proc[p], ids)
  BY ResolvedOf DEF StoredBy
<1>2. /\ mf' = mf /\ alone' = alone /\ cache' = cache /\ proc[p].pc \notin Ends
      /\ "next" \notin Ends /\ "next" \notin Bad /\ "failed" \in Ends /\ "failed" \notin Bad
      /\ proc[p].check = <<>>
  BY DEF Download, setting, At, Ends, Bad
<1> SUFFICES ASSUME alone PROVE NInv'
  BY <1>2 DEF NInv
<1>3. CASE proc' = [proc EXCEPT ![p].pc = "next"]
  <2> DEFINE r == [proc[p] EXCEPT !.pc = "next"]
  <2>1. /\ proc' = [proc EXCEPT ![p] = r] /\ r.pc = "next" /\ r.check = proc[p].check
        /\ r.todo = proc[p].todo /\ r.exports = proc[p].exports
        /\ r.floating = proc[p].floating
    BY <1>1, <1>3 DEF Whole, Fields
  <2> HIDE DEF r
  <2>2. Stored(cache' \cup r.floating) = ids
    BY <1>2, <2>1 DEF StoredBy
  <2> HIDE DEF ids
  <2>3. Underway(n, r, ids)
    BY <1>1, <1>2, <2>1 DEF Underway
  <2>4. Resolved(n, r, cache')
    BY <1>2, <2>1, <2>2, <2>3 DEF Resolved
  <2> QED
    BY <1>2, <2>1, <2>4, Settles
<1>4. CASE End(p, "failed")
  BY <1>2, <1>4, EndsWell
<1> QED
  BY <1>3, <1>4 DEF Download

LEMMA TakesNextAll ==
  ASSUME TreesOnly, NInv, UInv', NEW p \in Proc, NextPipeline(p)
  PROVE  NInv'
<1> DEFINE n == mf[p]
           ids == StoredBy(p)
           todo == proc[p].todo
           i == Last(todo)
<1>1. /\ n \in 1..Len(Manifests) /\ proc = [q \in Proc |-> proc[q]] /\ Whole(proc[p])
      /\ todo \in Seq(Pls(n))
      /\ (alone /\ proc[p].pc \notin Ends) => Underway(n, proc[p], ids)
  BY ResolvedOf DEF StoredBy
<1>2. /\ mf' = mf /\ alone' = alone /\ cache' = cache /\ proc[p].pc = "next"
      /\ {"next", "build", "export"} \cap (Ends \cup Bad) = {} /\ proc[p].pc \notin Ends
  BY DEF NextPipeline, setting, At, Ends, Bad
<1> SUFFICES ASSUME alone PROVE NInv'
  BY <1>2 DEF NInv
<1>3. /\ Prepared(n, todo, ids, ids \cup IdsOf(n, proc[p].check)) /\ proc[p].check = <<>>
      /\ \A e \in proc[p].exports :
            /\ IdOf(n, e) # None
            /\ IdOf(n, e) \in ids \cup IdsOf(n, proc[p].check) \cup IdsOf(n, todo)
  BY <1>1, <1>2 DEF Underway
\* The state afterwards.
<1>4. ASSUME NEW l \in {"next", "build", "export"}, NEW t,
             Prepared(n, t, ids, ids \cup IdsOf(n, proc[p].check)),
             \A e \in proc[p].exports : IdOf(n, e) # None =>
                IdOf(n, e) \in ids \cup IdsOf(n, proc[p].check) \cup IdsOf(n, t),
             l = "export" => t = <<>>,
             proc' = [proc EXCEPT ![p] = [proc[p] EXCEPT !.pc = l, !.todo = t]]
      PROVE  NInv'
  <2> DEFINE r == [proc[p] EXCEPT !.pc = l, !.todo = t]
  <2>1. /\ r.pc = l /\ r.check = proc[p].check /\ r.todo = t /\ r.exports = proc[p].exports
        /\ r.floating = proc[p].floating
    BY <1>1 DEF Whole, Fields
  <2>2. proc' = [proc EXCEPT ![p] = r]
    BY <1>4
  <2> HIDE DEF r
  <2>3. Stored(cache' \cup r.floating) = ids
    BY <1>2, <2>1 DEF StoredBy
  <2>4. l \notin {"stage", "commit"} /\ l \notin Ends /\ l \notin Bad
    BY <1>2, <1>4
  <2> HIDE DEF ids, todo
  <2>5. Underway(n, r, ids)
    BY <1>3, <1>4, <2>1, <2>4 DEF Underway
  <2>6. Resolved(n, r, cache')
    BY <2>1, <2>3, <2>4, <2>5 DEF Resolved
  <2> QED
    BY <1>2, <2>2, <2>6, Settles
<1>5. CASE todo = <<>> /\ proc' = [proc EXCEPT ![p].pc = "export"]
  <2>1. proc' = [proc EXCEPT ![p] = [proc[p] EXCEPT !.pc = "export", !.todo = todo]]
    BY <1>1, <1>5 DEF Whole, Fields
  <2> HIDE DEF ids, todo
  <2> QED
    BY <1>3, <1>4, <1>5, <2>1
<1>6. CASE proc' = [proc EXCEPT ![p].pc = "build"]
  <2>1. proc' = [proc EXCEPT ![p] = [proc[p] EXCEPT !.pc = "build", !.todo = todo]]
    BY <1>1, <1>6 DEF Whole, Fields
  <2> HIDE DEF ids, todo
  <2> QED
    BY <1>3, <1>4, <2>1
<1>7. CASE /\ todo # <<>>
           /\ Id(p, i) = None \/ InStore(p, Id(p, i), cache)
           /\ proc' = [proc EXCEPT ![p].todo = Remaining(p)]
  <2> DEFINE t == Front(todo)
  <2>1. proc' = [proc EXCEPT ![p] = [proc[p] EXCEPT !.pc = "next", !.todo = t]]
    BY <1>1, <1>2, <1>7 DEF Whole, Fields, Remaining
  <2>2. Id(p, i) = IdOf(n, i)
    BY Reads
  <2>3. IdOf(n, i) = None \/ IdOf(n, i) \in ids
    <3>1. InStore(p, IdOf(n, i), cache) => IdOf(n, i) \in ids
      BY Looks
    <3> QED
      BY <1>7, <2>2, <3>1
  <2>4. todo # <<>>
    BY <1>7
  <2>5. None \notin UNION {Needs(n, j, ids) : j \in Pls(n)}
    BY <1>1, NeedsSome
  <2> HIDE DEF ids, todo
  <2>6. Prepared(n, Front(todo), ids, ids \cup IdsOf(n, proc[p].check))
    <3> DEFINE avail == ids \cup IdsOf(n, proc[p].check)
    <3>1. IdOf(n, Last(todo)) \in avail \cup {None} /\ Prepared(n, todo, ids, avail)
      BY <1>3, <2>3
    <3> HIDE DEF avail
    <3>2. Prepared(n, Front(todo), ids, avail)
      BY <1>1, <2>4, <2>5, <3>1, PreparedFront
    <3> QED
      BY <3>2 DEF avail
  <2>7. IdsOf(n, todo) = IdsOf(n, t) \cup {IdOf(n, i)}
    BY <1>1, <2>4, IdsOfEnds
  <2>8. \A e \in proc[p].exports : IdOf(n, e) # None =>
                IdOf(n, e) \in ids \cup IdsOf(n, proc[p].check) \cup IdsOf(n, t)
    BY <1>3, <2>3, <2>7
  <2> HIDE DEF i
  <2> QED
    BY <1>4, <2>1, <2>6, <2>8
<1>8. \/ todo = <<>> /\ proc' = [proc EXCEPT ![p].pc = "export"]
      \/ /\ todo # <<>>
         /\ \/ /\ Id(p, i) = None \/ InStore(p, Id(p, i), cache)
               /\ proc' = [proc EXCEPT ![p].todo = Remaining(p)]
            \/ proc' = [proc EXCEPT ![p].pc = "build"]
  <2>1. Seen = {cache}
    BY DEF Seen
  <2> QED
    BY <2>1 DEF NextPipeline
<1> QED
  BY <1>5, <1>6, <1>7, <1>8

\* What the pipeline that is built needs is stored.
LEMMA NeedsStored ==
  ASSUME NInv, alone, NEW p \in Proc, proc[p].pc \in {"build", "base"}
  PROVE  /\ proc[p].todo # <<>> /\ Last(proc[p].todo) \in Pls(mf[p])
         /\ Needs(mf[p], Last(proc[p].todo), StoredBy(p)) \subseteq StoredBy(p)
<1> DEFINE n == mf[p]
           ids == StoredBy(p)
           todo == proc[p].todo
<1>1. /\ todo \in Seq(Pls(n)) /\ Located(n, proc[p])
      /\ (alone /\ proc[p].pc \notin Ends) => Underway(n, proc[p], ids)
  BY ResolvedOf DEF StoredBy
<1>2. proc[p].pc \notin Ends /\ proc[p].pc \in Working /\ proc[p].pc # "depsolve"
  BY DEF Ends, Working
<1>3. todo # <<>>
  BY <1>1, <1>2 DEF Located
<1>4. Last(todo) \in Pls(n)
  BY <1>1, <1>3, LastAndFront
<1>5. Prepared(n, todo, ids, ids \cup IdsOf(n, proc[p].check)) /\ proc[p].check = <<>>
  BY <1>1, <1>2 DEF Underway
<1> HIDE DEF ids, todo
<1>6. Prepared(n, todo, ids, ids)
  <2>1. IdsOf(n, <<>>) = {}
    BY DEF IdsOf
  <2>2. ids \cup IdsOf(n, proc[p].check) = ids
    BY <1>5, <2>1
  <2> QED
    BY <1>5, <2>2
<1>7. Needs(n, Last(todo), ids) \subseteq ids
  BY <1>1, <1>3, <1>6, PreparedLast
<1> QED
  BY <1>3, <1>4, <1>7 DEF ids, todo

LEMMA FindsBuildTreeAll ==
  ASSUME NInv, UInv', NEW p \in Proc, BuildTree(p)
  PROVE  NInv'
<1> DEFINE n == mf[p]
           ids == StoredBy(p)
           i == Last(proc[p].todo)
<1>1. /\ n \in 1..Len(Manifests) /\ proc = [q \in Proc |-> proc[q]] /\ Whole(proc[p])
      /\ (alone /\ proc[p].pc \notin Ends) => Underway(n, proc[p], ids)
  BY ResolvedOf DEF StoredBy
<1>2. /\ mf' = mf /\ alone' = alone /\ cache' = cache /\ proc[p].pc = "build"
      /\ "build" \notin Ends /\ "base" \notin Ends /\ "base" \notin Bad
  BY DEF BuildTree, setting, At, Ends, Bad
<1> SUFFICES ASSUME alone PROVE NInv'
  BY <1>2 DEF NInv
<1>3. Underway(n, proc[p], ids)
  BY <1>1, <1>2
<1>4. Needs(n, i, ids) \subseteq ids
  BY <1>2, NeedsStored
<1>5. ASSUME NEW t, NEW held,
             proc' = [proc EXCEPT ![p] = [proc[p] EXCEPT !.pc = "base", !.build = t,
                                                         !.held = held]]
      PROVE  NInv'
  <2> DEFINE r == [proc[p] EXCEPT !.pc = "base", !.build = t, !.held = held]
  <2>1. /\ r.pc = "base" /\ r.check = proc[p].check /\ r.todo = proc[p].todo
        /\ r.exports = proc[p].exports /\ r.floating = proc[p].floating
    BY <1>1 DEF Whole, Fields
  <2>2. proc' = [proc EXCEPT ![p] = r]
    BY <1>5
  <2> HIDE DEF r
  <2>3. Stored(cache' \cup r.floating) = ids
    BY <1>2, <2>1 DEF StoredBy
  <2> HIDE DEF ids
  <2>4. Underway(n, r, ids)
    BY <1>2, <1>3, <2>1 DEF Underway
  <2>5. Resolved(n, r, cache')
    BY <1>2, <2>1, <2>3, <2>4 DEF Resolved
  <2> QED
    BY <1>2, <2>2, <2>5, Settles
<1>6. CASE proc' = [proc EXCEPT ![p].pc = "base", ![p].build = Host]
  <2>1. proc' = [proc EXCEPT ![p] = [proc[p] EXCEPT !.pc = "base", !.build = Host,
                                                    !.held = proc[p].held]]
    BY <1>1, <1>6 DEF Whole, Fields
  <2> QED
    BY <1>5, <2>1
<1>7. ASSUME NEW o, proc' = [proc EXCEPT ![p].pc = "base", ![p].build = o[2],
                                         ![p].held = @ \cup ({o} \cap cache)]
      PROVE  NInv'
  <2> DEFINE t == o[2]
             x == {o} \cap cache
  <2>0. proc' = [proc EXCEPT ![p].pc = "base", ![p].build = t, ![p].held = @ \cup x]
    BY <1>7
  <2> HIDE DEF t, x
  <2>1. proc' = [proc EXCEPT ![p] = [proc[p] EXCEPT !.pc = "base", !.build = t,
                                                    !.held = proc[p].held \cup x]]
    BY <1>1, <2>0 DEF Whole, Fields
  <2> QED
    BY <1>5, <2>1
\* The look-up does not miss.
<1>8. ASSUME BuildId(p, i) # None PROVE Found(p, BuildId(p, i), cache) # {}
  <2>1. BuildId(p, i) = BuildIdOf(n, i)
    BY Reads
  <2>2. BuildId(p, i) \in StoredBy(p)
    BY <1>4, <1>8, <2>1 DEF Needs
  <2>3. \E o \in Found(p, BuildId(p, i), cache) : o[1] = BuildId(p, i)
    BY <1>8, <2>2, Looks
  <2> QED
    BY <2>3
<1>9. \/ proc' = [proc EXCEPT ![p].pc = "base", ![p].build = Host]
      \/ \E o : proc' = [proc EXCEPT ![p].pc = "base", ![p].build = o[2],
                                     ![p].held = @ \cup ({o} \cap cache)]
  <2>1. Seen = {cache}
    BY DEF Seen
  <2> QED
    BY <1>8, <2>1 DEF BuildTree
<1> QED
  BY <1>6, <1>7, <1>9

LEMMA FindsBaseAll ==
  ASSUME NInv, UInv', NEW p \in Proc, Base(p)
  PROVE  NInv'
<1> DEFINE n == mf[p]
           ids == StoredBy(p)
           i == Last(proc[p].todo)
           N == Len(Manifests[n][i].stages)
           stored == {k \in 1..N : Found(p, StageId(p, i, k), cache) # {}}
<1>1. /\ n \in 1..Len(Manifests) /\ proc = [q \in Proc |-> proc[q]] /\ Whole(proc[p])
      /\ (alone /\ proc[p].pc \notin Ends) => Underway(n, proc[p], ids)
  BY ResolvedOf DEF StoredBy
<1>2. /\ mf' = mf /\ alone' = alone /\ cache' = cache /\ proc[p].pc = "base"
      /\ "base" \notin Ends /\ "stage" \notin Ends /\ "stage" \notin Bad
  BY DEF Base, setting, At, Ends, Bad
<1> SUFFICES ASSUME alone PROVE NInv'
  BY <1>2 DEF NInv
<1>3. Underway(n, proc[p], ids)
  BY <1>1, <1>2
<1>4. Needs(n, i, ids) \subseteq ids /\ i \in Pls(n)
  BY <1>2, NeedsStored
<1>5. N \in Nat
  BY <1>1, <1>4, Indices
\* The process goes on after stage k, the last one that it has found.
<1>6. ASSUME NEW k \in 0..N, \A l \in stored : l <= k, NEW t, NEW held,
             proc' = [proc EXCEPT ![p] = [proc[p] EXCEPT !.pc = "stage", !.tree = t,
                                                         !.stage = k, !.held = held]]
      PROVE  NInv'
  <2> DEFINE r == [proc[p] EXCEPT !.pc = "stage", !.tree = t, !.stage = k, !.held = held]
  <2>1. /\ r.pc = "stage" /\ r.check = proc[p].check /\ r.todo = proc[p].todo
        /\ r.exports = proc[p].exports /\ r.floating = proc[p].floating /\ r.stage = k
    BY <1>1 DEF Whole, Fields
  <2>2. proc' = [proc EXCEPT ![p] = r]
    BY <1>6
  <2> HIDE DEF r
  <2>3. Stored(cache' \cup r.floating) = ids
    BY <1>2, <2>1 DEF StoredBy
  <2>4. ASSUME NEW l \in Stgs(n, i), l > k, NEW j \in Deps(n, i, l) PROVE IdOf(n, j) \in ids
    <3>1. ASSUME NEW x \in l..N PROVE Ids[n][i][x] \notin ids
      <4>1. x \in 1..N /\ x > k
        BY <1>5, <1>6, <2>4 DEF Stgs
      <4>2. x \notin stored
        BY <1>5, <1>6, <4>1
      <4>3. Found(p, StageId(p, i, x), cache) = {}
        BY <4>1, <4>2
      <4>4. Place(n, i, x)
        BY <1>1, <1>4, <4>1 DEF Place, Stgs
      <4>5. StageId(p, i, x) = Ids[n][i][x] /\ Ids[n][i][x] # None
        BY <4>4, Reads, NotNone
      <4>6. Ids[n][i][x] # None /\ Ids[n][i][x] \in StoredBy(p) =>
               \E o \in Found(p, Ids[n][i][x], cache) : o[1] = Ids[n][i][x]
        BY Looks
      <4> QED
        BY <4>3, <4>5, <4>6
    <3>2. l \in Lacking(n, i, ids)
      BY <3>1 DEF Lacking
    <3>3. IdOf(n, j) \in Needs(n, i, ids)
      BY <2>4, <3>2 DEF Needs
    <3> QED
      BY <1>4, <3>3
  <2> HIDE DEF ids
  <2>5. Underway(n, r, ids)
    BY <1>2, <1>3, <2>1, <2>4 DEF Underway
  <2>6. Resolved(n, r, cache')
    BY <1>2, <2>1, <2>3, <2>5 DEF Resolved
  <2> QED
    BY <1>2, <2>2, <2>6, Settles
<1>7. CASE stored = {} /\ proc' = [proc EXCEPT ![p].pc = "stage", ![p].tree = None,
                                               ![p].stage = 0]
  <2>1. proc' = [proc EXCEPT ![p] = [proc[p] EXCEPT !.pc = "stage", !.tree = None, !.stage = 0,
                                                    !.held = proc[p].held]]
    BY <1>1, <1>7 DEF Whole, Fields
  <2>2. 0 \in 0..N /\ \A l \in stored : l <= 0
    BY <1>5, <1>7
  <2> HIDE DEF stored, N
  <2> QED
    BY <1>6, <2>1, <2>2
<1>8. ASSUME NEW k \in stored, NEW o, \A l \in stored : l <= k,
             proc' = [proc EXCEPT ![p].pc = "stage", ![p].tree = o[2], ![p].stage = k,
                                  ![p].held = @ \cup ({o} \cap cache)]
      PROVE  NInv'
  <2> DEFINE t == o[2]
             x == {o} \cap cache
  <2>0. proc' = [proc EXCEPT ![p].pc = "stage", ![p].tree = t, ![p].stage = k,
                             ![p].held = @ \cup x]
    BY <1>8
  <2>1. k \in 0..N
    BY <1>5
  <2> HIDE DEF t, x, stored, N
  <2>2. proc' = [proc EXCEPT ![p] = [proc[p] EXCEPT !.pc = "stage", !.tree = t, !.stage = k,
                                                    !.held = proc[p].held \cup x]]
    BY <1>1, <2>0 DEF Whole, Fields
  <2> QED
    BY <1>6, <1>8, <2>1, <2>2
<1>9. \/ stored = {} /\ proc' = [proc EXCEPT ![p].pc = "stage", ![p].tree = None,
                                             ![p].stage = 0]
      \/ \E k \in stored, o \in cache \cup proc[p].floating :
            /\ \A l \in stored : l <= k
            /\ proc' = [proc EXCEPT ![p].pc = "stage", ![p].tree = o[2], ![p].stage = k,
                                    ![p].held = @ \cup ({o} \cap cache)]
  <2>1. Pipelines(p) = Manifests[n] /\ Seen = {cache}
    BY Reads DEF Seen
  <2> QED
    BY <2>1 DEF Base, Resume
<1> QED
  BY <1>7, <1>8, <1>9

LEMMA RunsStageAll ==
  ASSUME TreesOnly, NInv, UInv', NEW p \in Proc, RunStage(p)
  PROVE  NInv'
<1> DEFINE n == mf[p]
           ids == StoredBy(p)
           i == Last(proc[p].todo)
           k == proc[p].stage + 1
           N == Len(Manifests[n][i].stages)
           asked == {Id(p, j) : j \in Pipelines(p)[i].stages[k].deps}
           objs == UNION {Found(p, id, cache) : id \in asked}
<1>1. /\ n \in 1..Len(Manifests) /\ proc = [q \in Proc |-> proc[q]] /\ Whole(proc[p])
      /\ proc[p].todo \in Seq(Pls(n)) /\ Located(n, proc[p])
      /\ (alone /\ proc[p].pc \notin Ends) => Underway(n, proc[p], ids)
  BY ResolvedOf DEF StoredBy
<1>2. /\ mf' = mf /\ alone' = alone /\ cache' = cache /\ proc[p].pc = "stage"
      /\ {"stage", "commit"} \cap (Ends \cup Bad) = {} /\ "failed" \in Ends \ Bad
  BY DEF RunStage, setting, At, Ends, Bad
<1> SUFFICES ASSUME alone PROVE NInv'
  BY <1>2 DEF NInv
<1>3. Underway(n, proc[p], ids)
  BY <1>1, <1>2
<1>4. proc[p].todo # <<>> /\ i \in Pls(n) /\ proc[p].stage \in 0..N
  <2>1. proc[p].todo # <<>> /\ proc[p].stage \in 0..N
    BY <1>1, <1>2 DEF Located, Working
  <2> QED
    BY <1>1, <2>1, LastAndFront
<1>5. N \in Nat /\ proc[p].stage \in Nat /\ k \in Stgs(n, i) /\ k > proc[p].stage
      /\ Stgs(n, i) \subseteq Nat
  <2>1. N \in Nat
    BY <1>1, <1>4, Indices
  <2>2. proc[p].stage < Len(Pipelines(p)[i].stages) /\ Pipelines(p) = Manifests[n]
    BY Reads DEF RunStage
  <2> QED
    BY <1>4, <2>1, <2>2 DEF Stgs
\* The inputs are all found.
<1>6. {o[1] : o \in objs} = asked
  <2>1. ASSUME NEW id \in asked
        PROVE  /\ \E o \in Found(p, id, cache) : o[1] = id
               /\ \A o \in Found(p, id, cache) : o[1] = id
    <3>1. PICK j \in Deps(n, i, k) : id = IdOf(n, j)
      BY Reads DEF Deps
    <3>2. j \in Pls(n) /\ Len(Manifests[n][j].stages) # 0
      <4>1. Deps(n, i, k) \subseteq Pls(n)
        BY <1>1, <1>4, <1>5, Indices
      <4> HIDE DEF k, i
      <4> QED
        BY <1>1, <1>4, <1>5, <3>1, <4>1 DEF TreesOnly, Pls, Stgs, Deps
    <3>3. id # None
      BY <1>1, <3>1, <3>2, SomeStages
    <3>4. id \in StoredBy(p)
      BY <1>2, <1>3, <1>5, <3>1 DEF Underway
    <3> QED
      BY <3>3, <3>4, Looks DEF Found
  <2> HIDE DEF asked
  <2> QED
    BY <2>1
<1>7. ASSUME NEW l \in {"stage", "commit"}, NEW t, NEW x,
             proc' = [proc EXCEPT ![p].pc = l, ![p].stage = k, ![p].held = @ \cup x,
                                  ![p].tree = t]
      PROVE  NInv'
  <2> DEFINE r == [proc[p] EXCEPT !.pc = l, !.stage = k, !.held = proc[p].held \cup x,
                                  !.tree = t]
  <2>1. proc' = [proc EXCEPT ![p] = r]
    <3> HIDE DEF k
    <3> QED
      BY <1>1, <1>7 DEF Whole, Fields
  <2>2. /\ r.pc = l /\ r.check = proc[p].check /\ r.todo = proc[p].todo /\ r.stage = k
        /\ r.exports = proc[p].exports /\ r.floating = proc[p].floating
    <3> HIDE DEF k
    <3> QED
      BY <1>1 DEF Whole, Fields
  <2> HIDE DEF r
  <2>3. Stored(cache' \cup r.floating) = ids
    BY <1>2, <2>2 DEF StoredBy
  <2>4. \A m \in Stgs(n, i) : m > k => m > proc[p].stage
    BY <1>5
  <2>5. l \notin Ends /\ l \notin Bad /\ l # "depsolve" /\ l # "export"
    BY <1>2
  <2> HIDE DEF ids, k
  <2>6. Underway(n, r, ids)
    BY <1>2, <1>3, <2>2, <2>4, <2>5 DEF Underway
  <2>7. Resolved(n, r, cache')
    BY <2>2, <2>3, <2>5, <2>6 DEF Resolved
  <2> QED
    BY <1>2, <2>1, <2>7, Settles
<1>8. CASE End(p, "failed")
  BY <1>2, <1>8, EndsWell
<1>9. \/ \E c, x, t :
            proc' = [proc EXCEPT ![p].pc = IF c THEN "commit" ELSE "stage", ![p].stage = k,
                                 ![p].held = @ \cup x, ![p].tree = t]
      \/ End(p, "failed")
  <2>1. \A seen \in Seen : seen = cache
    BY DEF Seen
  <2>2. PICK seen \in Seen :
           LET found == UNION {Found(p, id, seen) : id \in asked} IN
           \/ \E c, x, t :
                 proc' = [proc EXCEPT ![p].pc = IF c THEN "commit" ELSE "stage",
                                      ![p].stage = k, ![p].held = @ \cup x, ![p].tree = t]
           \/ {o[1] : o \in found} # asked
           \/ End(p, "failed")
    BY DEF RunStage
  <2> HIDE DEF asked
  <2> QED
    BY <1>6, <2>1, <2>2
<1>10. ASSUME NEW c, NEW x, NEW t,
             proc' = [proc EXCEPT ![p].pc = IF c THEN "commit" ELSE "stage", ![p].stage = k,
                                  ![p].held = @ \cup x, ![p].tree = t]
      PROVE  NInv'
  <2> DEFINE l == IF c THEN "commit" ELSE "stage"
  <2>1. l \in {"stage", "commit"}
    OBVIOUS
  <2> HIDE DEF k
  <2>2. proc' = [proc EXCEPT ![p].pc = l, ![p].stage = k, ![p].held = @ \cup x, ![p].tree = t]
    BY <1>10
  <2> HIDE DEF l
  <2> QED
    BY <1>7, <2>1, <2>2
<1> QED
  BY <1>8, <1>9, <1>10

\* More may be stored.
LEMMA UnderwayMore ==
  ASSUME NEW n, NEW r, NEW ids, Underway(n, r, ids), NEW more, ids \subseteq more
  PROVE  Underway(n, r, more)
<1>1. Prepared(n, r.todo, ids, ids \cup IdsOf(n, r.check))
  BY DEF Underway
<1>2. ids \cup IdsOf(n, r.check) \subseteq more \cup IdsOf(n, r.check)
  OBVIOUS
<1>3. Prepared(n, r.todo, more, more \cup IdsOf(n, r.check))
  BY <1>1, <1>2, PreparedMore
<1> QED
  BY <1>3 DEF Underway

LEMMA CommitsAll ==
  ASSUME NInv, UInv', NEW p \in Proc, Commit(p)
  PROVE  NInv'
<1> DEFINE n == mf[p]
           ids == StoredBy(p)
           r == [proc[p] EXCEPT !.pc = "stage"]
<1>1. /\ n \in 1..Len(Manifests) /\ proc = [q \in Proc |-> proc[q]] /\ Whole(proc[p])
      /\ (alone /\ proc[p].pc \notin Ends) => Underway(n, proc[p], ids)
  BY ResolvedOf DEF StoredBy
<1>2. /\ mf' = mf /\ alone' = alone /\ cache \subseteq cache' /\ proc[p].pc = "commit"
      /\ {"stage", "commit"} \cap (Ends \cup Bad) = {}
      /\ proc' = [proc EXCEPT ![p].pc = "stage"]
  BY DEF Commit, setting, At, Ends, Bad
<1> SUFFICES ASSUME alone PROVE NInv'
  BY <1>2 DEF NInv
<1>3. /\ r.pc = "stage" /\ r.check = proc[p].check /\ r.todo = proc[p].todo
      /\ r.exports = proc[p].exports /\ r.floating = proc[p].floating
      /\ r.stage = proc[p].stage /\ proc' = [proc EXCEPT ![p] = r]
  BY <1>1, <1>2 DEF Whole, Fields
<1> HIDE DEF r
<1>4. ids \subseteq Stored(cache' \cup r.floating)
  BY <1>2, <1>3 DEF StoredBy, Stored
<1> HIDE DEF ids
<1>5. Underway(n, r, ids)
  <2>1. Underway(n, proc[p], ids)
    BY <1>1, <1>2
  <2> QED
    BY <1>2, <1>3, <2>1 DEF Underway
<1>6. Underway(n, r, Stored(cache' \cup r.floating))
  BY <1>4, <1>5, UnderwayMore
<1>7. Resolved(n, r, cache')
  BY <1>2, <1>3, <1>6 DEF Resolved
<1> QED
  BY <1>2, <1>3, <1>7, Settles

LEMMA FinalizesAll ==
  ASSUME TreesOnly, NInv, UInv', NEW p \in Proc, Finalize(p)
  PROVE  NInv'
<1> DEFINE n == mf[p]
           ids == StoredBy(p)
           todo == proc[p].todo
           i == Last(todo)
           t == Front(todo)
           objs == {<<Id(p, i), proc[p].tree>>}
           r == [proc[p] EXCEPT !.pc = "next", !.todo = t,
                                !.floating = proc[p].floating \cup objs, !.tree = None,
                                !.build = None]
           more == Stored(cache' \cup r.floating)
<1>1. /\ n \in 1..Len(Manifests) /\ proc = [q \in Proc |-> proc[q]] /\ Whole(proc[p])
      /\ todo \in Seq(Pls(n)) /\ Located(n, proc[p])
      /\ (alone /\ proc[p].pc \notin Ends) => Underway(n, proc[p], ids)
  BY ResolvedOf DEF StoredBy
<1>2. /\ mf' = mf /\ alone' = alone /\ cache' = cache /\ proc[p].pc = "stage"
      /\ {"stage", "next"} \cap (Ends \cup Bad) = {} /\ "stage" \in Working
  BY DEF Finalize, setting, At, Ends, Bad, Working
<1> SUFFICES ASSUME alone PROVE NInv'
  BY <1>2 DEF NInv
<1>3. todo # <<>>
  BY <1>1, <1>2 DEF Located
<1>4. proc' = [proc EXCEPT ![p].pc = "next", ![p].todo = t,
                           ![p].floating = @ \cup objs, ![p].tree = None, ![p].build = None]
  BY DEF Finalize, Remaining
<1>5. /\ r.pc = "next" /\ r.check = proc[p].check /\ r.todo = t
      /\ r.exports = proc[p].exports /\ r.floating = proc[p].floating \cup objs
      /\ proc' = [proc EXCEPT ![p] = r]
  <2> HIDE DEF objs, t
  <2> QED
    BY <1>1, <1>4 DEF Whole, Fields
<1> HIDE DEF r
<1>6. ids \subseteq more /\ IdOf(n, i) \in more
  <2>1. Id(p, i) = IdOf(n, i)
    BY Reads
  <2>2. <<Id(p, i), proc[p].tree>> \in cache' \cup r.floating
    BY <1>5
  <2>3. <<Id(p, i), proc[p].tree>>[1] = IdOf(n, i)
    BY <2>1
  <2>4. cache \cup proc[p].floating \subseteq cache' \cup r.floating
    BY <1>2, <1>5
  <2> QED
    BY <2>2, <2>3, <2>4 DEF StoredBy, Stored
<1>7. Underway(n, proc[p], more)
  <2>1. Underway(n, proc[p], ids)
    BY <1>1, <1>2
  <2> HIDE DEF ids, more
  <2> QED
    BY <1>6, <2>1, UnderwayMore
<1> HIDE DEF ids, more, todo
<1>8. Prepared(n, Front(todo), more, more \cup IdsOf(n, proc[p].check))
  <2> DEFINE avail == more \cup IdsOf(n, proc[p].check)
  <2>1. Prepared(n, todo, more, avail)
    BY <1>7 DEF Underway, todo
  <2>2. IdOf(n, Last(todo)) \in avail \cup {None}
    BY <1>6
  <2>3. None \notin UNION {Needs(n, j, more) : j \in Pls(n)}
    BY <1>1, NeedsSome
  <2> HIDE DEF avail
  <2>4. Prepared(n, Front(todo), more, avail)
    BY <1>1, <1>3, <2>1, <2>2, <2>3, PreparedFront
  <2> QED
    BY <2>4 DEF avail
<1>9. IdsOf(n, todo) = IdsOf(n, t) \cup {IdOf(n, i)}
  BY <1>1, <1>3, IdsOfEnds
<1>10. \A e \in proc[p].exports :
          /\ IdOf(n, e) # None
          /\ IdOf(n, e) \in more \cup IdsOf(n, proc[p].check) \cup IdsOf(n, t)
  <2>1. \A e \in proc[p].exports :
          /\ IdOf(n, e) # None
          /\ IdOf(n, e) \in more \cup IdsOf(n, proc[p].check) \cup IdsOf(n, todo)
    BY <1>7 DEF Underway, todo
  <2> QED
    BY <1>6, <1>9, <2>1
<1>11. proc[p].check = <<>>
  BY <1>2, <1>7 DEF Underway
<1>12. Underway(n, r, more)
  BY <1>5, <1>8, <1>10, <1>11 DEF Underway
<1>13. Resolved(n, r, cache')
  BY <1>2, <1>5, <1>12 DEF Resolved, more
<1> QED
  BY <1>2, <1>5, <1>13, Settles

LEMMA ExportsAll ==
  ASSUME NInv, UInv', NEW p \in Proc, Export(p)
  PROVE  NInv'
<1> DEFINE n == mf[p]
           ids == StoredBy(p)
           left == proc[p].exports \ {o[1] : o \in proc[p].out}
<1>1. /\ n \in 1..Len(Manifests) /\ proc = [q \in Proc |-> proc[q]] /\ Whole(proc[p])
      /\ (alone /\ proc[p].pc \notin Ends) => Underway(n, proc[p], ids)
  BY ResolvedOf DEF StoredBy
<1>2. /\ mf' = mf /\ alone' = alone /\ cache' = cache /\ proc[p].pc = "export"
      /\ "export" \notin Ends \cup Bad /\ "done" \in Ends \ Bad
  BY DEF Export, setting, At, Ends, Bad
<1> SUFFICES ASSUME alone PROVE NInv'
  BY <1>2 DEF NInv
<1>3. Underway(n, proc[p], ids)
  BY <1>1, <1>2
\* The look-up does not miss.
<1>4. ASSUME NEW e \in left PROVE Found(p, Id(p, e), cache) # {}
  <2>1. Id(p, e) = IdOf(n, e)
    BY Reads
  <2>2. IdsOf(n, <<>>) = {}
    BY DEF IdsOf
  <2>3. IdOf(n, e) # None /\ IdOf(n, e) \in StoredBy(p)
    BY <1>2, <1>3, <1>4, <2>2 DEF Underway
  <2>4. \E o \in Found(p, IdOf(n, e), cache) : o[1] = IdOf(n, e)
    BY <2>3, Looks
  <2> QED
    BY <2>1, <2>4
<1>5. \/ End(p, "done")
      \/ \E x, y : proc' = [proc EXCEPT ![p].out = @ \cup x, ![p].held = @ \cup y]
  <2>1. Seen = {cache}
    BY DEF Seen
  <2> QED
    BY <1>4, <2>1 DEF Export
<1>6. CASE End(p, "done")
  BY <1>2, <1>6, EndsWell
<1>7. ASSUME NEW x, NEW y, proc' = [proc EXCEPT ![p].out = @ \cup x, ![p].held = @ \cup y]
      PROVE  NInv'
  <2> DEFINE r == [proc[p] EXCEPT !.out = proc[p].out \cup x, !.held = proc[p].held \cup y]
  <2>1. /\ r.pc = proc[p].pc /\ r.check = proc[p].check /\ r.todo = proc[p].todo
        /\ r.exports = proc[p].exports /\ r.floating = proc[p].floating
        /\ proc' = [proc EXCEPT ![p] = r]
    BY <1>1, <1>7 DEF Whole, Fields
  <2> HIDE DEF r
  <2>2. Stored(cache' \cup r.floating) = ids
    BY <1>2, <2>1 DEF StoredBy
  <2> HIDE DEF ids
  <2>3. Underway(n, r, ids)
    BY <1>2, <1>3, <2>1 DEF Underway
  <2>4. Resolved(n, r, cache')
    BY <1>2, <2>1, <2>2, <2>3 DEF Resolved
  <2> QED
    BY <1>2, <2>1, <2>4, Settles
<1> QED
  BY <1>5, <1>6, <1>7

LEMMA StepsAll ==
  ASSUME TreesOnly, NInv, [Next]_vars
  PROVE  NInv'
<1>1. UInv'
  BY StepsUndone DEF NInv
<1>2. ASSUME NEW p \in Proc, Step(p) PROVE NInv'
  BY <1>1, <1>2, DepsolvesAll, DownloadsAll, TakesNextAll, FindsBuildTreeAll, FindsBaseAll,
     RunsStageAll, CommitsAll, FinalizesAll, ExportsAll
     DEF Step
<1>3. CASE Evict
  BY <1>1, <1>3 DEF Evict, setting, NInv
<1>4. CASE UNCHANGED vars
  BY <1>1, <1>4 DEF NInv, vars
<1> QED
  BY <1>2, <1>3, <1>4 DEF Next, Finished

LEMMA BeginsAll ==
  ASSUME TreesOnly, Init
  PROVE  NInv
<1>1. UInv
  BY BeginsUndone
<1> SUFFICES ASSUME alone, NEW q \in Proc PROVE Resolved(mf[q], proc[q], cache)
  BY <1>1 DEF NInv
<1>2. PICK n \in 1..Len(Manifests) : \E x \in Exports[n] :
              /\ mf = [p \in Proc |-> n]
              /\ \E p \in Proc : proc = [y \in Proc |->
                    IF y = p THEN Start(x) ELSE [Start(x) EXCEPT !.pc = "done"]]
  BY DEF Init
<1>3. PICK x \in Exports[n] :
              /\ mf = [p \in Proc |-> n]
              /\ \E p \in Proc : proc = [y \in Proc |->
                    IF y = p THEN Start(x) ELSE [Start(x) EXCEPT !.pc = "done"]]
  BY <1>2
<1>4. mf[q] = n /\ (proc[q] = Start(x) \/ proc[q] = [Start(x) EXCEPT !.pc = "done"])
  BY <1>3
<1>5. CASE proc[q] = [Start(x) EXCEPT !.pc = "done"]
  <2>1. proc[q].pc = "done"
    BY <1>5 DEF Start
  <2> QED
    BY <2>1 DEF Resolved, Ends, Bad
<1>6. CASE proc[q] = Start(x)
  <2> DEFINE r == proc[q]
             ids == Stored(cache \cup r.floating)
  <2>1. r.pc = "depsolve" /\ r.exports = ToSet(x) /\ r.check = x /\ r.todo = <<>>
    BY <1>6 DEF Start
  <2>2. x \in Seq(Pls(n)) /\ Len(x) \in Nat /\ DOMAIN x = 1..Len(x)
    <3>1. x \in Seq(Pls(n))
      BY BuildAssumption DEF Pls
    <3> QED
      BY <3>1
  <2> HIDE DEF r, ids
  <2>3. Prepared(n, r.todo, ids, ids \cup IdsOf(n, r.check))
    <3>1. \A y \in 1..Len(<<>>) : FALSE
      OBVIOUS
    <3> QED
      BY <2>1, <3>1 DEF Prepared
  <2>4. ASSUME NEW e \in r.exports PROVE IdOf(n, e) # None /\ IdOf(n, e) \in IdsOf(n, r.check)
    <3>1. PICK z \in 1..Len(x) : e = x[z]
      BY <2>1, <2>2 DEF ToSet
    <3>2. e \in Pls(n)
      BY <2>2, <3>1
    <3>3. Len(Manifests[n][e].stages) # 0
      BY <2>2, <3>1 DEF TreesOnly
    <3>4. IdOf(n, e) # None
      BY <3>2, <3>3, SomeStages
    <3>5. IdOf(n, e) \in IdsOf(n, x)
      BY <3>1 DEF IdsOf
    <3> QED
      BY <2>1, <3>4, <3>5
  <2>5. Underway(n, r, ids)
    BY <2>1, <2>3, <2>4 DEF Underway
  <2>6. "depsolve" \notin Bad
    BY DEF Bad
  <2> QED
    BY <1>4, <2>1, <2>5, <2>6 DEF Resolved, r, ids
<1> QED
  BY <1>4, <1>5, <1>6

\* Whatever a stage or an export asks for is there when one process is the only user of
\* the cache, from any part of the trees of the manifest that an earlier run left there,
\* for any manifest whose inputs and exports have stages (Manifest.depsolve puts every
\* pipeline after those that it needs and leaves out only what is stored).
THEOREM NeedsMet ==
  ASSUME TreesOnly
  PROVE  Spec => []NothingMissing
<1>1. Init => NInv
  BY BeginsAll
<1>2. NInv /\ [Next]_vars => NInv'
  BY StepsAll
<1>3. NInv => NothingMissing
  BY DEF NInv, Resolved, Bad, NothingMissing
<1> QED
  BY <1>1, <1>2, <1>3, PTL DEF Spec
=============================================================================
