---------------------------- MODULE Parts_proofs -----------------------------
(***************************************************************************)
(* Two of the parts that compute: the table of a region-of-interest map, for  *)
(* any picture, regions, order and qualities, and the two passes, for any     *)
(* pictures and rate controls.  The table is filled by a loop over the         *)
(* regions and the plan of a sequence by loops over its pictures, so the        *)
(* proofs are inductions on how far the loops have come.                       *)
(***************************************************************************)
EXTENDS RoiMap, TwoPass, FiniteSetTheorems, SequenceTheorems, WellFoundedInduction, TLAPS

(***************************************************************************)
(* Induction without an operator to instantiate: the numbers a property      *)
(* holds for are a set.                                                      *)
(***************************************************************************)
\* a set of natural numbers has a least one
LEMMA Least ==
  ASSUME NEW T \in SUBSET Nat, T # {}
  PROVE  \E n \in T : \A m \in T : n <= m
<1> DEFINE R == OpToRel(<, Nat)
<1>1. IsWellFoundedOn(R, Nat)
  BY NatLessThanWellFounded
<1>2. \A n \in T, m \in T : m < n => <<m, n>> \in R
  BY DEF OpToRel
<1> HIDE DEF R
<1>3. PICK n \in T : \A m \in T : ~(<<m, n>> \in R)
  BY <1>1, WFMin
<1>4. \A m \in T : ~(m < n)
  BY <1>2, <1>3
<1>5. QED
  BY <1>4

\* the numbers from 0 on, one after the other
LEMMA Induction ==
  ASSUME NEW P, 0 \in P, NEW N \in Nat, \A n \in 0 .. N - 1 : n \in P => n + 1 \in P
  PROVE  \A n \in 0 .. N : n \in P
<1> SUFFICES ASSUME (0 .. N) \ P # {} PROVE FALSE
  OBVIOUS
<1>1. PICK n \in (0 .. N) \ P : \A m \in (0 .. N) \ P : n <= m
  <2>1. (0 .. N) \ P \in SUBSET Nat
    OBVIOUS
  <2>2. QED
    BY <2>1, Least
<1>2. n # 0 /\ n - 1 \in 0 .. N - 1
  BY <1>1
<1>3. n - 1 \in P
  BY <1>1, <1>2
<1>4. QED
  BY <1>1, <1>2, <1>3

\* each value is computed from the one before it
Steps(S, N) == [S \X (1 .. N) -> S]
Follows(f, base, N, step) == f[0] = base /\ \A n \in 1 .. N : f[n] = step[<<f[n - 1], n>>]

\* what is computed from the value before exists
LEMMA Recursion ==
  ASSUME NEW S, NEW base \in S, NEW N \in Nat, NEW step \in Steps(S, N)
  PROVE  \E f \in [0 .. N -> S] : Follows(f, base, N, step)
<1> USE DEF Steps, Follows
<1> DEFINE Starts(f, m) == f[0] = base /\ \A n \in 1 .. m : f[n] = step[<<f[n - 1], n>>]
           P == {m \in 0 .. N : \E f \in [0 .. N -> S] : Starts(f, m)}
<1>1. 0 \in P
  <2> DEFINE g == [n \in 0 .. N |-> base]
  <2>1. g \in [0 .. N -> S]
    OBVIOUS
  <2>2. Starts(g, 0)
    OBVIOUS
  <2>3. \E f \in [0 .. N -> S] : Starts(f, 0)
    BY <2>1, <2>2
  <2>4. QED
    BY <2>3
<1>2. ASSUME NEW m \in 0 .. N - 1, m \in P PROVE m + 1 \in P
  <2>1. PICK f \in [0 .. N -> S] : Starts(f, m)
    BY <1>2
  <2> DEFINE next == step[<<f[m], m + 1>>]
             g == [n \in 0 .. N |-> IF n = m + 1 THEN next ELSE f[n]]
  <2>2. m \in 0 .. N /\ m + 1 \in 1 .. N /\ m + 1 \in 0 .. N
    OBVIOUS
  <2>3. next \in S
    <3>1. <<f[m], m + 1>> \in S \X (1 .. N)
      BY <2>2
    <3>2. QED
      BY <3>1
  <2>4. next = step[<<f[m], m + 1>>]
    OBVIOUS
  <2> HIDE DEF next
  <2>5. g \in [0 .. N -> S] /\ \A n \in 0 .. N : g[n] = IF n = m + 1 THEN next ELSE f[n]
    BY <2>3
  <2> HIDE DEF g
  <2>6. g[0] = base
    BY <2>1, <2>5
  <2>7. ASSUME NEW n \in 1 .. m + 1 PROVE g[n] = step[<<g[n - 1], n>>]
    <3>1. n \in 0 .. N /\ n - 1 \in 0 .. N /\ n - 1 # m + 1
      BY <2>2
    <3>2. g[n - 1] = f[n - 1]
      BY <3>1, <2>5
    <3>3. CASE n = m + 1
      <4>1. g[n] = next /\ n - 1 = m
        BY <3>1, <3>3, <2>5, <2>2
      <4>2. QED
        BY <3>2, <3>3, <4>1, <2>4
    <3>4. CASE n # m + 1
      <4>1. n \in 1 .. m
        BY <3>4, <2>2
      <4>2. g[n] = f[n] /\ f[n] = step[<<f[n - 1], n>>]
        BY <3>1, <3>4, <4>1, <2>1, <2>5
      <4>3. QED
        BY <3>2, <4>2
    <3>5. QED
      BY <3>3, <3>4
  <2>8. Starts(g, m + 1)
    BY <2>6, <2>7
  <2>9. QED
    BY <2>2, <2>5, <2>8
<1>3. \A m \in 0 .. N - 1 : m \in P => m + 1 \in P
  BY <1>2
<1>4. N \in P
  <2> HIDE DEF P
  <2>1. \A n \in 0 .. N : n \in P
    BY <1>1, <1>3, Induction
  <2>2. QED
    BY <2>1
<1>5. QED
  BY <1>4

(***************************************************************************)
(* The entries and the regions.                                             *)
(***************************************************************************)
Entries == {e \in [qp : MinQP .. MaxQP, intra : BOOLEAN, static : BOOLEAN] : ~(e.intra /\ e.static)}
Tables == [Lcus -> Entries]
Nodes == [x : Int, y : Int, width : Int, height : Int, dqp : Entries]

LEMMA DeltaQPIsEntry ==
  ASSUME NEW q \in RoiQualities \cup {Background}
  PROVE  DeltaQP(q) \in Entries
BY RoiAssumption DEF DeltaQP, Entries

LEMMA SizesOfPicture ==
  Width \in Int /\ Height \in Int /\ \A n \in Nat : InLcus(n) \in Int
BY RoiAssumption DEF InLcus, Width, Height

LEMMA NodeIsNode ==
  ASSUME NEW r \in Rectangles, NEW q \in RoiQualities
  PROVE  Node(r, q) \in Nodes
<1>1. r.x \in Nat /\ r.y \in Nat /\ r.width \in Nat /\ r.height \in Nat /\ LcuSize \in Nat \ {0}
  BY RoiAssumption
<1>2. r.x \div LcuSize \in Int /\ r.y \div LcuSize \in Int
  BY <1>1
<1>3. QED
  BY <1>1, <1>2, SizesOfPicture, DeltaQPIsEntry DEF Node, Nodes

\* a coding unit next to a region is mixed with one of the picture
LEMMA FurtherInside ==
  ASSUME NEW node \in Nodes, NEW p \in Lcus, Around(node, p)
  PROVE  Further(node, p) \in Lcus
BY SizesOfPicture DEF Further, Lcus, Nodes, Around

\* a mean is between the two, and the limits change nothing about it
LEMMA MeanBetween ==
  ASSUME NEW low \in MinQP .. MaxQP, NEW high \in MinQP .. MaxQP,
         NEW a \in low .. high, NEW b \in low .. high
  PROVE  Clip3(Half(a + b), MinQP, MaxQP) \in low .. high
BY RoiAssumption DEF Clip3, Half

LEMMA SetLCUQualityIsEntry ==
  ASSUME NEW e \in Entries, NEW d \in Entries
  PROVE  SetLCUQuality(e, d) \in Entries
BY DEF SetLCUQuality, Entries

LEMMA MeanQualityIsEntry ==
  ASSUME NEW e \in Entries, NEW a \in MinQP .. MaxQP, NEW b \in MinQP .. MaxQP
  PROVE  /\ MeanQuality(e, a, b) \in Entries
         /\ MeanQuality(e, a, b).intra = e.intra /\ MeanQuality(e, a, b).static = e.static
         /\ MeanQuality(e, a, b).qp = Clip3(Half(a + b), MinQP, MaxQP)
<1>1. Clip3(Half(a + b), MinQP, MaxQP) \in MinQP .. MaxQP
  BY MeanBetween, RoiAssumption
<1>2. QED
  BY <1>1 DEF MeanQuality, Entries

LEMMA ComputeROIIsTable ==
  ASSUME NEW t \in Tables, NEW node \in Nodes
  PROVE  ComputeROI(t, node) \in Tables
<1>1. node.dqp \in Entries
  BY DEF Nodes
<1>2. ASSUME NEW p \in Lcus PROVE t[p] \in Entries /\ SetLCUQuality(t[p], node.dqp) \in Entries
  BY <1>1, SetLCUQualityIsEntry DEF Tables
<1>3. ASSUME NEW p \in Lcus, Around(node, p)
      PROVE  MeanQuality(t[p], t[Further(node, p)].qp, node.dqp.qp) \in Entries
  <2>1. t[p] \in Entries /\ t[Further(node, p)] \in Entries
    BY <1>3, FurtherInside DEF Tables
  <2>2. t[Further(node, p)].qp \in MinQP .. MaxQP /\ node.dqp.qp \in MinQP .. MaxQP
    BY <2>1, <1>1 DEF Entries
  <2>3. QED
    BY <2>1, <2>2, MeanQualityIsEntry
<1>4. QED
  BY <1>2, <1>3 DEF ComputeROI, Tables

(***************************************************************************)
(* The loop over the regions.                                                *)
(***************************************************************************)
BackgroundTable == [p \in Lcus |-> DeltaQP(Background)]
FillStep(f, list) ==
  f = [n \in 0 .. Len(list) |->
         IF n = 0 THEN BackgroundTable ELSE ComputeROI(f[n - 1], list[n])]

\* the tables from the background to the last region
LEMMA FillingExists ==
  ASSUME NEW list \in Seq(Nodes)
  PROVE  \E f \in [0 .. Len(list) -> Tables] : FillStep(f, list)
<1> DEFINE N == Len(list)
           step == [x \in Tables \X (1 .. N) |-> ComputeROI(x[1], list[x[2]])]
<1>1. N \in Nat /\ \A n \in 1 .. N : list[n] \in Nodes
  OBVIOUS
<1>2. BackgroundTable \in Tables
  BY DeltaQPIsEntry DEF BackgroundTable, Tables
<1>3. step \in Steps(Tables, N)
  <2>1. ASSUME NEW x \in Tables \X (1 .. N) PROVE ComputeROI(x[1], list[x[2]]) \in Tables
    BY <1>1, ComputeROIIsTable
  <2>2. QED
    BY <2>1 DEF Steps
<1>4. \A t \in Tables, n \in 1 .. N : step[<<t, n>>] = ComputeROI(t, list[n])
  OBVIOUS
<1> HIDE DEF step, N
<1>5. PICK f \in [0 .. N -> Tables] : Follows(f, BackgroundTable, N, step)
  BY <1>1, <1>2, <1>3, Recursion
<1>6. ASSUME NEW n \in 0 .. N, n # 0 PROVE f[n] = ComputeROI(f[n - 1], list[n])
  <2>1. n \in 1 .. N /\ n - 1 \in 0 .. N
    BY <1>1, <1>6
  <2>2. QED
    BY <2>1, <1>4, <1>5 DEF Follows
<1>7. f = [n \in 0 .. N |-> IF n = 0 THEN BackgroundTable ELSE ComputeROI(f[n - 1], list[n])]
  BY <1>5, <1>6 DEF Follows
<1>8. QED
  BY <1>7 DEF FillStep, N

(* Filled is the last of a sequence of tables that begins with the background  *)
(* and in which each region changes the table before it.                       *)
LEMMA FilledUnfolds ==
  ASSUME NEW list \in Seq(Nodes)
  PROVE  \E f \in [0 .. Len(list) -> Tables] :
           /\ f[0] = BackgroundTable
           /\ \A n \in 1 .. Len(list) : f[n] = ComputeROI(f[n - 1], list[n])
           /\ Filled(list) = f[Len(list)]
<1> DEFINE f == CHOOSE f : FillStep(f, list)
           N == Len(list)
<1>1. FillStep(f, list)
  BY FillingExists
<1>2. Filled(list) = f[N]
  BY DEF Filled, FillStep, BackgroundTable
<1> HIDE DEF f
<1>3. N \in Nat /\ \A n \in 1 .. N : list[n] \in Nodes
  OBVIOUS
<1>4. f[0] = BackgroundTable /\ \A n \in 1 .. N : f[n] = ComputeROI(f[n - 1], list[n])
  BY <1>1, <1>3 DEF FillStep
<1>5. \A n \in 0 .. N : f[n] \in Tables
  <2> DEFINE P == {n \in 0 .. N : f[n] \in Tables}
  <2>1. 0 \in P
    BY <1>3, <1>4, DeltaQPIsEntry DEF BackgroundTable, Tables
  <2>2. ASSUME NEW n \in 0 .. N - 1, n \in P PROVE n + 1 \in P
    <3>1. n + 1 \in 1 .. N /\ n = (n + 1) - 1
      BY <1>3
    <3>2. f[n + 1] = ComputeROI(f[n], list[n + 1]) /\ list[n + 1] \in Nodes /\ f[n] \in Tables
      BY <1>3, <1>4, <2>2, <3>1
    <3>3. QED
      BY <3>1, <3>2, ComputeROIIsTable
  <2> HIDE DEF P
  <2>3. \A n \in 0 .. N : n \in P
    BY <1>3, <2>1, <2>2, Induction
  <2>4. QED
    BY <2>3 DEF P
<1>6. f = [n \in 0 .. N |-> f[n]]
  BY <1>1 DEF FillStep
<1>7. f \in [0 .. N -> Tables]
  BY <1>5, <1>6
<1>8. QED
  BY <1>2, <1>4, <1>7

(***************************************************************************)
(* What a table with the first n regions in it honours, unit by unit.          *)
(***************************************************************************)
Covering(list, n, p) == {i \in 1 .. n : Covers(list[i], p)}
Giving(list, n, p) == {i \in Covering(list, n, p) : ~list[i].dqp.intra}
Mixing(list, n, p) == {i \in 1 .. n : Around(list[i], p) /\ ~Forces(list[i].dqp)}
IntraOf(list, n, p) == {i \in Covering(list, n, p) : list[i].dqp.intra}
StaticOf(list, n, p) == {i \in Covering(list, n, p) : list[i].dqp.static}

IntraHonoured(list, n, p, entry) ==
  entry.intra <=> (IntraOf(list, n, p) # {}
                     /\ \A i \in StaticOf(list, n, p) : \E j \in IntraOf(list, n, p) : i < j)
QualityHonoured(list, n, p, entry) ==
  \A i \in Giving(list, n, p) :
    (\A j \in Giving(list, n, p) \cup Mixing(list, n, p) : j <= i) => entry.qp = list[i].dqp.qp
BackgroundHonoured(list, n, p, entry) ==
  Giving(list, n, p) \cup Mixing(list, n, p) = {} => entry.qp = DeltaQP(Background).qp

\* the n-th region at a unit: on it, around it, or elsewhere
Here(list, n, p) == Covers(list[n], p)
Beside(list, n, p) == Around(list[n], p) /\ ~Forces(list[n].dqp)

LEMMA SetsGrow ==
  ASSUME NEW list, NEW n \in Nat \ {0}, NEW p
  PROVE  /\ Giving(list, n, p) = Giving(list, n - 1, p)
              \cup (IF Here(list, n, p) /\ ~list[n].dqp.intra THEN {n} ELSE {})
         /\ Mixing(list, n, p) = Mixing(list, n - 1, p) \cup (IF Beside(list, n, p) THEN {n} ELSE {})
         /\ IntraOf(list, n, p) = IntraOf(list, n - 1, p)
              \cup (IF Here(list, n, p) /\ list[n].dqp.intra THEN {n} ELSE {})
         /\ StaticOf(list, n, p) = StaticOf(list, n - 1, p)
              \cup (IF Here(list, n, p) /\ list[n].dqp.static THEN {n} ELSE {})
         /\ Beside(list, n, p) => ~Here(list, n, p)
         /\ ~(Here(list, n, p) /\ ~list[n].dqp.intra) => Giving(list, n, p) = Giving(list, n - 1, p)
         /\ ~Beside(list, n, p) => Mixing(list, n, p) = Mixing(list, n - 1, p)
         /\ ~(Here(list, n, p) /\ list[n].dqp.intra) => IntraOf(list, n, p) = IntraOf(list, n - 1, p)
         /\ ~(Here(list, n, p) /\ list[n].dqp.static) => StaticOf(list, n, p) = StaticOf(list, n - 1, p)
<1>1. 1 .. n = (1 .. n - 1) \cup {n}
  OBVIOUS
<1>2. QED
  BY <1>1 DEF Covering, Giving, Mixing, IntraOf, StaticOf, Here, Beside, Around

LEMMA SetsBefore ==
  ASSUME NEW list, NEW n \in Nat \ {0}, NEW p
  PROVE  /\ Giving(list, n - 1, p) \subseteq 1 .. n - 1 /\ Mixing(list, n - 1, p) \subseteq 1 .. n - 1
         /\ IntraOf(list, n - 1, p) \subseteq 1 .. n - 1 /\ StaticOf(list, n - 1, p) \subseteq 1 .. n - 1
BY DEF Covering, Giving, Mixing, IntraOf, StaticOf

LEMMA SetLCUQualityFacts ==
  ASSUME NEW e \in Entries, NEW d \in Entries
  PROVE  /\ SetLCUQuality(e, d).intra <=> d.intra \/ (e.intra /\ ~d.static)
         /\ d.intra => SetLCUQuality(e, d).qp = e.qp
         /\ ~d.intra => SetLCUQuality(e, d).qp = d.qp
BY DEF SetLCUQuality, Entries

\* what the n-th region does to the entry of a unit
LEMMA EntryOf ==
  ASSUME NEW t \in Tables, NEW node \in Nodes, NEW p \in Lcus,
         NEW new, new = ComputeROI(t, node)[p]
  PROVE  /\ t[p] \in Entries /\ new \in Entries
         /\ Covers(node, p) =>
              /\ new.intra <=> node.dqp.intra \/ (t[p].intra /\ ~node.dqp.static)
              /\ new.qp = IF node.dqp.intra THEN t[p].qp ELSE node.dqp.qp
         /\ Around(node, p) /\ ~Forces(node.dqp) =>
              /\ new.intra = t[p].intra
              /\ Further(node, p) \in Lcus
              /\ new.qp = Clip3(Half(t[Further(node, p)].qp + node.dqp.qp), MinQP, MaxQP)
         /\ ~Covers(node, p) /\ ~(Around(node, p) /\ ~Forces(node.dqp)) => new = t[p]
<1>1. ComputeROI(t, node) \in Tables
  BY ComputeROIIsTable
<1>2. t[p] \in Entries /\ new \in Entries /\ node.dqp \in Entries
  BY <1>1 DEF Tables, Nodes
<1>3. CASE Covers(node, p)
  <2>1. new = SetLCUQuality(t[p], node.dqp)
    BY <1>3 DEF ComputeROI
  <2>2. ~Around(node, p)
    BY <1>3 DEF Around
  <2>3. QED
    BY <1>2, <1>3, <2>1, <2>2, SetLCUQualityFacts
<1>4. CASE ~Covers(node, p) /\ Around(node, p) /\ ~Forces(node.dqp)
  <2>1. Further(node, p) \in Lcus
    BY <1>4, FurtherInside
  <2>2. t[Further(node, p)].qp \in MinQP .. MaxQP /\ node.dqp.qp \in MinQP .. MaxQP
    BY <1>2, <2>1 DEF Tables, Entries
  <2>3. new = MeanQuality(t[p], t[Further(node, p)].qp, node.dqp.qp)
    BY <1>4 DEF ComputeROI
  <2>4. /\ new.intra = t[p].intra
        /\ new.qp = Clip3(Half(t[Further(node, p)].qp + node.dqp.qp), MinQP, MaxQP)
    <3> DEFINE e == t[p]
               a == t[Further(node, p)].qp
               b == node.dqp.qp
    <3>1. e \in Entries /\ a \in MinQP .. MaxQP /\ b \in MinQP .. MaxQP /\ new = MeanQuality(e, a, b)
      BY <1>2, <2>2, <2>3
    <3> HIDE DEF e, a, b
    <3>2. new.intra = e.intra /\ new.qp = Clip3(Half(a + b), MinQP, MaxQP)
      BY <3>1, MeanQualityIsEntry
    <3>3. QED
      BY <3>2 DEF e, a, b
  <2>5. QED
    BY <1>2, <1>4, <2>1, <2>4
<1>5. CASE ~Covers(node, p) /\ ~(Around(node, p) /\ ~Forces(node.dqp))
  BY <1>2, <1>5 DEF ComputeROI
<1>6. QED
  BY <1>3, <1>4, <1>5 DEF Around

LEMMA IntraStep ==
  ASSUME NEW t \in Tables, NEW list, NEW n \in Nat \ {0}, list[n] \in Nodes, NEW p \in Lcus,
         IntraHonoured(list, n - 1, p, t[p])
  PROVE  IntraHonoured(list, n, p, ComputeROI(t, list[n])[p])
<1> DEFINE new == ComputeROI(t, list[n])[p]
           d == list[n].dqp
<1>1. d \in Entries
  BY DEF Nodes
<1>2. d.intra \in BOOLEAN /\ d.static \in BOOLEAN /\ ~(d.intra /\ d.static)
  BY <1>1 DEF Entries
<1>3. /\ Here(list, n, p) => (new.intra <=> d.intra \/ (t[p].intra /\ ~d.static))
      /\ ~Here(list, n, p) => new.intra = t[p].intra
  BY EntryOf DEF Here
<1>4. t[p].intra \in BOOLEAN /\ new.intra \in BOOLEAN
  BY EntryOf DEF Entries
<1> HIDE DEF new, d
<1>5. CASE Here(list, n, p) /\ d.intra
  <2>1. StaticOf(list, n, p) \subseteq 1 .. n - 1 /\ n \in IntraOf(list, n, p)
    BY <1>2, <1>5, SetsGrow, SetsBefore DEF d
  <2>2. new.intra
    BY <1>3, <1>4, <1>5
  <2>3. QED
    BY <2>1, <2>2 DEF IntraHonoured, new
<1>6. CASE Here(list, n, p) /\ d.static
  <2>1. n \in StaticOf(list, n, p) /\ IntraOf(list, n, p) \subseteq 1 .. n - 1
    BY <1>2, <1>6, SetsGrow, SetsBefore DEF d
  <2>2. ~new.intra
    BY <1>2, <1>3, <1>4, <1>6
  <2>3. QED
    BY <2>1, <2>2 DEF IntraHonoured, new
<1>7. CASE ~Here(list, n, p) \/ (~d.intra /\ ~d.static)
  <2>1. IntraOf(list, n, p) = IntraOf(list, n - 1, p)
    BY <1>7, SetsGrow DEF d
  <2>2. StaticOf(list, n, p) = StaticOf(list, n - 1, p)
    BY <1>7, SetsGrow DEF d
  <2>3. new.intra <=> t[p].intra
    BY <1>2, <1>3, <1>4, <1>7
  <2>4. QED
    BY <2>1, <2>2, <2>3 DEF IntraHonoured, new
<1>8. QED
  BY <1>2, <1>5, <1>6, <1>7

LEMMA QualityStep ==
  ASSUME NEW t \in Tables, NEW list, NEW n \in Nat \ {0}, list[n] \in Nodes, NEW p \in Lcus,
         QualityHonoured(list, n - 1, p, t[p]), BackgroundHonoured(list, n - 1, p, t[p])
  PROVE  /\ QualityHonoured(list, n, p, ComputeROI(t, list[n])[p])
         /\ BackgroundHonoured(list, n, p, ComputeROI(t, list[n])[p])
<1> DEFINE new == ComputeROI(t, list[n])[p]
           d == list[n].dqp
<1>1. d.intra \in BOOLEAN
  BY DEF Nodes, Entries
<1>2. CASE Here(list, n, p) /\ ~d.intra
  <2>1. new.qp = d.qp
    BY <1>2, EntryOf DEF Here
  <2>2. n \in Giving(list, n, p) /\ \A i \in Giving(list, n, p) : i \in 1 .. n
    <3>1. Giving(list, n, p) = Giving(list, n - 1, p) \cup {n}
      BY <1>2, SetsGrow
    <3>2. Giving(list, n - 1, p) \subseteq 1 .. n - 1
      BY SetsBefore
    <3>3. QED
      BY <3>1, <3>2
  <2>3. \A i \in Giving(list, n, p) : n <= i => i = n
    BY <2>2
  <2> HIDE DEF new
  <2>4. QED
    BY <2>1, <2>2, <2>3 DEF QualityHonoured, BackgroundHonoured, new
<1>3. CASE Beside(list, n, p)
  <2>1. n \in Mixing(list, n, p)
    BY <1>3, SetsGrow
  <2>2. Giving(list, n, p) \subseteq 1 .. n - 1
    BY <1>3, SetsGrow, SetsBefore
  <2>3. QED
    BY <2>1, <2>2 DEF QualityHonoured, BackgroundHonoured
<1>4. CASE ~Beside(list, n, p) /\ (Here(list, n, p) => d.intra)
  <2>1. new.qp = t[p].qp
    BY <1>4, EntryOf DEF Here, Beside
  <2>2. Giving(list, n, p) = Giving(list, n - 1, p)
    BY <1>4, SetsGrow
  <2>3. Mixing(list, n, p) = Mixing(list, n - 1, p)
    BY <1>4, SetsGrow
  <2> HIDE DEF new
  <2>4. QED
    BY <2>1, <2>2, <2>3 DEF QualityHonoured, BackgroundHonoured, new
<1>5. QED
  BY <1>1, <1>2, <1>3, <1>4

LEMMA BetweenStep ==
  ASSUME NEW t \in Tables, NEW list, NEW n, list[n] \in Nodes, NEW p \in Lcus,
         NEW low \in MinQP .. MaxQP, NEW high \in MinQP .. MaxQP, list[n].dqp.qp \in low .. high,
         \A q \in Lcus : t[q].qp \in low .. high
  PROVE  ComputeROI(t, list[n])[p].qp \in low .. high
<1> DEFINE new == ComputeROI(t, list[n])[p]
           d == list[n].dqp
<1>1. CASE Here(list, n, p)
  <2>1. new.qp \in {t[p].qp, d.qp}
    BY <1>1, EntryOf DEF Here
  <2>2. QED
    BY <2>1
<1>2. CASE Beside(list, n, p)
  <2>1. /\ Further(list[n], p) \in Lcus
        /\ new.qp = Clip3(Half(t[Further(list[n], p)].qp + d.qp), MinQP, MaxQP)
    BY <1>2, EntryOf DEF Beside
  <2>2. t[Further(list[n], p)].qp \in low .. high
    BY <2>1
  <2>3. QED
    BY <2>1, <2>2, MeanBetween
<1>3. CASE ~Here(list, n, p) /\ ~Beside(list, n, p)
  <2>1. new = t[p]
    BY <1>3, EntryOf DEF Here, Beside
  <2>2. QED
    BY <2>1
<1>4. QED
  BY <1>1, <1>2, <1>3

(***************************************************************************)
(* All regions.                                                             *)
(***************************************************************************)
Honoured(list, n, p, entry) ==
  /\ IntraHonoured(list, n, p, entry)
  /\ QualityHonoured(list, n, p, entry)
  /\ BackgroundHonoured(list, n, p, entry)

LEMMA BackgroundIsHonoured ==
  ASSUME NEW list, NEW p \in Lcus, DeltaQP(Background).intra = FALSE
  PROVE  Honoured(list, 0, p, BackgroundTable[p])
BY DEF Honoured, IntraHonoured, QualityHonoured, BackgroundHonoured, BackgroundTable,
       Covering, Giving, Mixing, IntraOf, StaticOf

LEMMA FilledHonours ==
  ASSUME DeltaQP(Background).intra = FALSE, NEW list \in Seq(Nodes),
         NEW low \in MinQP .. MaxQP, NEW high \in MinQP .. MaxQP,
         DeltaQP(Background).qp \in low .. high,
         \A i \in 1 .. Len(list) : list[i].dqp.qp \in low .. high
  PROVE  \A p \in Lcus : /\ Honoured(list, Len(list), p, Filled(list)[p])
                         /\ Filled(list)[p].qp \in low .. high
<1> DEFINE N == Len(list)
<1>1. N \in Nat /\ \A n \in 1 .. N : list[n] \in Nodes
  OBVIOUS
<1>2. PICK f \in [0 .. N -> Tables] :
        /\ f[0] = BackgroundTable
        /\ \A n \in 1 .. N : f[n] = ComputeROI(f[n - 1], list[n])
        /\ Filled(list) = f[N]
  BY FilledUnfolds
<1> DEFINE P == {n \in 0 .. N : \A p \in Lcus : Honoured(list, n, p, f[n][p]) /\ f[n][p].qp \in low .. high}
<1>3. 0 \in P
  <2>1. \A p \in Lcus : f[0][p] = DeltaQP(Background)
    BY <1>2 DEF BackgroundTable
  <2>2. \A p \in Lcus : Honoured(list, 0, p, f[0][p])
    BY <1>2, BackgroundIsHonoured
  <2>3. QED
    BY <1>1, <2>1, <2>2
<1>4. ASSUME NEW n \in 0 .. N - 1, n \in P PROVE n + 1 \in P
  <2> DEFINE m == n + 1
  <2>1. m \in 1 .. N /\ n = m - 1 /\ m \in Nat \ {0} /\ n \in 0 .. N
    BY <1>1
  <2>2. f[m] = ComputeROI(f[n], list[m]) /\ f[n] \in Tables /\ list[m] \in Nodes
    BY <1>1, <1>2, <2>1
  <2>3. \A p \in Lcus : Honoured(list, m - 1, p, f[n][p]) /\ f[n][p].qp \in low .. high
    BY <1>4, <2>1
  <2>4. list[m].dqp.qp \in low .. high
    BY <2>1
  <2> HIDE DEF m, P
  <2>5. ASSUME NEW p \in Lcus PROVE Honoured(list, m, p, f[m][p])
    BY <2>1, <2>2, <2>3, IntraStep, QualityStep DEF Honoured
  <2>6. ASSUME NEW p \in Lcus PROVE f[m][p].qp \in low .. high
    BY <2>1, <2>2, <2>3, <2>4, BetweenStep
  <2>7. m \in P
    BY <1>1, <2>1, <2>5, <2>6 DEF P
  <2>8. QED
    BY <2>7 DEF m
<1>5. N \in P
  <2> HIDE DEF P
  <2>1. \A n \in 0 .. N : n \in P
    BY <1>1, <1>3, <1>4, Induction
  <2>2. QED
    BY <1>1, <2>1
<1>6. QED
  BY <1>2, <1>5

-----------------------------------------------------------------------------
LEMMA Extremes ==
  ASSUME NEW a \in Int, NEW b \in Int, NEW Q \in SUBSET (a .. b), Q # {}
  PROVE  /\ Min(Q) \in Q /\ \A q \in Q : Min(Q) <= q
         /\ Max(Q) \in Q /\ \A q \in Q : q <= Max(Q)
<1>1. \E x \in Q : \A y \in Q : x <= y
  <2> DEFINE T == {n \in Nat : n + a \in Q}
  <2>1. \A q \in Q : q - a \in T /\ q = (q - a) + a
    OBVIOUS
  <2>2. PICK n \in T : \A m \in T : n <= m
    <3>1. T \in SUBSET Nat /\ T # {}
      BY <2>1
    <3> HIDE DEF T
    <3>2. QED
      BY <3>1, Least
  <2>3. \A y \in Q : n + a <= y
    BY <2>1, <2>2
  <2>4. QED
    BY <2>2, <2>3
<1>2. \E x \in Q : \A y \in Q : x >= y
  <2> DEFINE T == {n \in Nat : b - n \in Q}
  <2>1. \A q \in Q : b - q \in T /\ q = b - (b - q)
    OBVIOUS
  <2>2. PICK n \in T : \A m \in T : n <= m
    <3>1. T \in SUBSET Nat /\ T # {}
      BY <2>1
    <3> HIDE DEF T
    <3>2. QED
      BY <3>1, Least
  <2>3. ASSUME NEW y \in Q PROVE b - n >= y
    <3>1. n <= b - y /\ n \in Int /\ y \in Int
      BY <2>1, <2>2
    <3>2. QED
      BY <3>1
  <2>4. b - n \in Q
    BY <2>2
  <2>5. QED
    BY <2>3, <2>4
<1>3. Min(Q) \in Q /\ \A y \in Q : Min(Q) <= y
  BY <1>1 DEF Min
<1>4. Max(Q) \in Q /\ \A y \in Q : Max(Q) >= y
  BY <1>2 DEF Max
<1>5. QED
  BY <1>3, <1>4

RegionsTypeOK == nodes \in Seq(Nodes)

\* a list of regions gives a table that honours them
LEMMA RegionsAreHonoured ==
  ASSUME RegionsTypeOK
  PROVE  RegionsHonoured
<1> DEFINE N == Len(nodes)
           qps == {n.dqp.qp : n \in Range(nodes)} \cup {DeltaQP(Background).qp}
           low == Min(qps)
           high == Max(qps)
<1>1. N \in Nat /\ DOMAIN nodes = 1 .. N /\ \A i \in 1 .. N : nodes[i] \in Nodes
  BY DEF RegionsTypeOK
<1>2. DeltaQP(Background) \in Entries /\ DeltaQP(Background).intra = FALSE
  BY DeltaQPIsEntry, RoiAssumption DEF DeltaQP
<1>3. qps \in SUBSET (MinQP .. MaxQP) /\ qps # {}
  BY <1>1, <1>2 DEF Range, Nodes, Entries
<1>4. \A i \in 1 .. N : nodes[i].dqp.qp \in qps
  BY <1>1 DEF Range
<1>5. DeltaQP(Background).qp \in qps
  OBVIOUS
<1> HIDE DEF qps
<1>6. low \in qps /\ high \in qps /\ \A q \in qps : low <= q /\ q <= high
  BY <1>3, Extremes, RoiAssumption
<1> HIDE DEF low, high
<1>7. low \in MinQP .. MaxQP /\ high \in MinQP .. MaxQP /\ \A q \in qps : q \in low .. high
  <2>1. MinQP \in Int /\ MaxQP \in Int
    BY RoiAssumption
  <2>2. low \in MinQP .. MaxQP /\ high \in MinQP .. MaxQP
    BY <1>3, <1>6
  <2>3. \A q \in qps : q \in Int
    BY <1>3, <2>1
  <2>4. QED
    BY <1>6, <2>1, <2>2, <2>3
<1>8. \A p \in Lcus : Honoured(nodes, N, p, Filled(nodes)[p]) /\ Filled(nodes)[p].qp \in low .. high
  BY <1>2, <1>4, <1>5, <1>7, FilledHonours DEF RegionsTypeOK
<1>9. ASSUME NEW p \in Lcus
      PROVE  LET table == AL_RoiMngr_FillBuff
                 covering == {i \in DOMAIN nodes : Covers(nodes[i], p)}
                 giving == {i \in covering : ~nodes[i].dqp.intra}
                 mixing == {i \in DOMAIN nodes : Around(nodes[i], p) /\ ~Forces(nodes[i].dqp)}
                 intra == {i \in covering : nodes[i].dqp.intra}
                 static == {i \in covering : nodes[i].dqp.static}
             IN /\ table[p].intra <=> (intra # {} /\ \A i \in static : \E j \in intra : i < j)
                /\ \A i \in giving : (\A j \in giving \cup mixing : j <= i) => table[p].qp = nodes[i].dqp.qp
                /\ giving \cup mixing = {} => table[p].qp = DeltaQP(Background).qp
  BY <1>1, <1>8, <1>9 DEF AL_RoiMngr_FillBuff, Honoured, IntraHonoured, QualityHonoured,
     BackgroundHonoured, Covering, Giving, Mixing, IntraOf, StaticOf
<1>10. \A p \in Lcus : AL_RoiMngr_FillBuff[p].qp \in Min(qps) .. Max(qps)
  BY <1>8 DEF AL_RoiMngr_FillBuff, low, high
<1>11. QED
  BY <1>9, <1>10 DEF RegionsHonoured, qps

\* a region goes between two others, or to an end
LEMMA InsertKeepsType ==
  ASSUME NEW list \in Seq(Nodes), NEW node \in Nodes
  PROVE  Insert(list, node) \in Seq(Nodes)
<1> DEFINE passed == {n \in 0 .. Len(list) : \A i \in 1 .. n : ShouldInsertAfter(list[i].dqp, node.dqp)}
           i == Max(passed) + 1
<1>1. passed \in SUBSET (0 .. Len(list)) /\ 0 \in passed
  OBVIOUS
<1> HIDE DEF passed
<1>2. Max(passed) \in 0 .. Len(list)
  <2>1. Len(list) \in Int /\ 0 \in Int /\ passed # {}
    BY <1>1
  <2>2. Max(passed) \in passed
    BY <1>1, <2>1, Extremes
  <2>3. QED
    BY <1>1, <2>2
<1>3. i \in 1 .. Len(list) + 1
  BY <1>2
<1> HIDE DEF i
<1>4. SubSeq(list, 1, i - 1) \in Seq(Nodes) /\ SubSeq(list, i, Len(list)) \in Seq(Nodes)
  BY <1>3, SubSeqProperties
<1>5. <<node>> \in Seq(Nodes)
  OBVIOUS
<1>6. Insert(list, node) = SubSeq(list, 1, i - 1) \o <<node>> \o SubSeq(list, i, Len(list))
  BY DEF Insert, InsertAt, i, passed
<1>7. QED
  BY <1>4, <1>5, <1>6, ConcatProperties

(* The table of quality: a unit is intra exactly where the last region that     *)
(* decides it says so, its quality is the last region's that has one for it,    *)
(* and a transition stays between what it joins, for any picture, any list of     *)
(* regions and either order (ComputeROI, UpdateTransitionHorz,                    *)
(* UpdateTransitionVert, SetLCUQuality).                                          *)
THEOREM RegionsHonouredHolds == RoiSpec => []RegionsHonoured
<1>1. RoiInit => RegionsTypeOK
  BY DEF RoiInit, RegionsTypeOK
<1>2. RegionsTypeOK /\ [RoiNext]_nodes => RegionsTypeOK'
  <2> SUFFICES ASSUME RegionsTypeOK, [RoiNext]_nodes PROVE RegionsTypeOK'
    OBVIOUS
  <2>1. ASSUME NEW r \in Rectangles, NEW q \in RoiQualities, AL_RoiMngr_AddROI(r, q) PROVE RegionsTypeOK'
    <3>1. Node(r, q) \in Nodes
      BY NodeIsNode
    <3>2. Append(nodes, Node(r, q)) \in Seq(Nodes) /\ Insert(nodes, Node(r, q)) \in Seq(Nodes)
      BY <3>1, InsertKeepsType DEF RegionsTypeOK
    <3>3. QED
      BY <2>1, <3>2 DEF AL_RoiMngr_AddROI, RegionsTypeOK
  <2>2. CASE AL_RoiMngr_Clear
    BY <2>2 DEF AL_RoiMngr_Clear, RegionsTypeOK
  <2>3. CASE UNCHANGED nodes
    BY <2>3 DEF RegionsTypeOK
  <2>4. QED
    BY <2>1, <2>2, <2>3 DEF RoiNext
<1>3. RegionsTypeOK => RegionsHonoured
  BY RegionsAreHonoured
<1>4. QED
  BY <1>1, <1>2, <1>3, PTL DEF RoiSpec

-----------------------------------------------------------------------------
(***************************************************************************)
(* Sums over sets of indices: a fold takes the elements in an order of its   *)
(* own, and the order does not matter.                                       *)
(***************************************************************************)
Additive(T, f, N) ==
  T[{}] = 0 /\ \A s \in SUBSET (1 .. N) : \A x \in s : T[s] = f[x] + T[s \ {x}]

\* the sums over all sets of indices exist
LEMMA SumsExist ==
  ASSUME NEW N \in Nat, NEW f \in [1 .. N -> Int]
  PROVE  \E T \in [SUBSET (1 .. N) -> Int] : Additive(T, f, N)
<1> DEFINE P == {m \in 0 .. N : \E T \in [SUBSET (1 .. m) -> Int] : Additive(T, f, m)}
<1>1. 0 \in P
  <2> DEFINE T == [s \in SUBSET (1 .. 0) |-> 0]
  <2>1. T \in [SUBSET (1 .. 0) -> Int] /\ Additive(T, f, 0)
    BY DEF Additive
  <2>2. QED
    BY <2>1
<1>2. ASSUME NEW m \in 0 .. N - 1, m \in P PROVE m + 1 \in P
  <2>1. PICK T \in [SUBSET (1 .. m) -> Int] : Additive(T, f, m)
    BY <1>2
  <2> DEFINE k == m + 1
             U == [s \in SUBSET (1 .. k) |-> IF k \in s THEN f[k] + T[s \ {k}] ELSE T[s]]
  <2>2. k \in 1 .. N /\ k \notin 1 .. m /\ 1 .. k = (1 .. m) \cup {k} /\ f[k] \in Int
    OBVIOUS
  <2> HIDE DEF k
  <2>3. ASSUME NEW s \in SUBSET (1 .. k)
        PROVE  /\ s \ {k} \in SUBSET (1 .. m)
               /\ k \notin s => s \in SUBSET (1 .. m)
    BY <2>2
  <2>4. U \in [SUBSET (1 .. k) -> Int]
    BY <2>2, <2>3
  <2>5. U[{}] = 0
    BY <2>1 DEF Additive
  <2>6. ASSUME NEW s \in SUBSET (1 .. k), NEW x \in s PROVE U[s] = f[x] + U[s \ {x}]
    <3>1. s \ {x} \in SUBSET (1 .. k)
      OBVIOUS
    <3>2. CASE x = k
      BY <3>1, <3>2, <2>3
    <3>3. CASE x # k /\ k \in s
      <4> DEFINE r == s \ {k}
      <4>1. x \in r /\ r \ {x} = (s \ {x}) \ {k} /\ x \in 1 .. N /\ f[x] \in Int
        BY <3>3, <2>2
      <4>5. r \in SUBSET (1 .. m) /\ r \ {x} \in SUBSET (1 .. m)
        BY <2>3
      <4> HIDE DEF r
      <4>6. T[r] = f[x] + T[r \ {x}] /\ T[r \ {x}] \in Int
        BY <2>1, <4>1, <4>5 DEF Additive
      <4>2. T[s \ {k}] = f[x] + T[(s \ {x}) \ {k}] /\ T[(s \ {x}) \ {k}] \in Int
        BY <4>1, <4>6 DEF r
      <4>3. U[s] = f[k] + T[s \ {k}] /\ U[s \ {x}] = f[k] + T[(s \ {x}) \ {k}]
        BY <3>1, <3>3
      <4> DEFINE v == T[(s \ {x}) \ {k}]
      <4>7. v \in Int /\ U[s] = f[k] + (f[x] + v) /\ U[s \ {x}] = f[k] + v
        BY <4>2, <4>3
      <4> HIDE DEF v
      <4>4. QED
        BY <4>1, <4>7, <2>2
    <3>4. CASE x # k /\ k \notin s
      <4>1. U[s] = T[s] /\ U[s \ {x}] = T[s \ {x}]
        BY <3>1, <3>4
      <4>2. T[s] = f[x] + T[s \ {x}]
        BY <2>1, <2>3, <3>4 DEF Additive
      <4>3. QED
        BY <4>1, <4>2
    <3>5. QED
      BY <3>2, <3>3, <3>4
  <2> HIDE DEF U
  <2>7. \E V \in [SUBSET (1 .. k) -> Int] : Additive(V, f, k)
    BY <2>4, <2>5, <2>6 DEF Additive
  <2>8. QED
    BY <2>2, <2>7 DEF k
<1>3. N \in P
  <2> HIDE DEF P
  <2>1. \A n \in 0 .. N : n \in P
    BY <1>1, <1>2, Induction
  <2>2. QED
    BY <2>1
<1>4. QED
  BY <1>3

LEMMA OneLess ==
  ASSUME NEW s, IsFiniteSet(s), NEW k \in Nat, Cardinality(s) = k + 1
  PROVE  s # {} /\ \A x \in s : Cardinality(s \ {x}) = k
<1>1. s # {}
  BY FS_EmptySet
<1>2. ASSUME NEW x \in s PROVE Cardinality(s \ {x}) = k
  <2>1. Cardinality(s \ {x}) = Cardinality(s) - 1
    BY FS_RemoveElement
  <2>2. QED
    BY <2>1
<1>3. QED
  BY <1>1, <1>2

\* the sums of the values f over all sets of indices
IsSum(T, f, N) == T \in [SUBSET (1 .. N) -> Int] /\ Additive(T, f, N)

\* the table that a fold over S fills
Folded(iter, S, f) ==
  iter = [s \in SUBSET S |-> IF s = {} THEN 0
                             ELSE f[CHOOSE x \in s : TRUE] + iter[s \ {CHOOSE x \in s : TRUE}]]

LEMMA FoldIsSum ==
  ASSUME NEW N \in Nat, NEW f \in [1 .. N -> Int], NEW T, IsSum(T, f, N), NEW S \in SUBSET (1 .. N)
  PROVE  /\ \E iter : Folded(iter, S, f)
         /\ \A iter : Folded(iter, S, f) => iter[S] = T[S]
<1> USE DEF IsSum
<1>1. ASSUME NEW s \in SUBSET S, s # {}
      PROVE  /\ (CHOOSE x \in s : TRUE) \in s
             /\ T[s] = f[CHOOSE x \in s : TRUE] + T[s \ {CHOOSE x \in s : TRUE}]
  <2>1. (CHOOSE x \in s : TRUE) \in s
    BY <1>1
  <2>2. s \in SUBSET (1 .. N)
    OBVIOUS
  <2>3. QED
    BY <2>1, <2>2 DEF Additive
<1>2. Folded([s \in SUBSET S |-> T[s]], S, f)
  <2> DEFINE U == [s \in SUBSET S |-> T[s]]
  <2>1. ASSUME NEW s \in SUBSET S
        PROVE  U[s] = IF s = {} THEN 0 ELSE f[CHOOSE x \in s : TRUE] + U[s \ {CHOOSE x \in s : TRUE}]
    <3>1. CASE s = {}
      BY <3>1 DEF Additive
    <3>2. CASE s # {}
      <4>1. s \ {CHOOSE x \in s : TRUE} \in SUBSET S
        OBVIOUS
      <4>2. QED
        BY <3>2, <4>1, <1>1
    <3>3. QED
      BY <3>1, <3>2
  <2>2. U = [s \in SUBSET S |-> U[s]]
    OBVIOUS
  <2> HIDE DEF U
  <2>3. U = [s \in SUBSET S |-> IF s = {} THEN 0
                             ELSE f[CHOOSE x \in s : TRUE] + U[s \ {CHOOSE x \in s : TRUE}]]
    BY <2>1, <2>2
  <2>4. QED
    BY <2>3 DEF U, Folded
<1>3. ASSUME NEW iter, Folded(iter, S, f) PROVE iter[S] = T[S]
  <2>1. IsFiniteSet(S) /\ Cardinality(S) \in Nat
    <3>1. IsFiniteSet(1 .. N)
      BY FS_Interval
    <3>2. QED
      BY <3>1, FS_Subset, FS_CardinalityType
  <2> DEFINE P == {k \in 0 .. Cardinality(S) : \A s \in SUBSET S : Cardinality(s) = k => iter[s] = T[s]}
  <2>2. \A s \in SUBSET S : IsFiniteSet(s)
    BY <2>1, FS_Subset
  <2>3. 0 \in P
    <3>1. ASSUME NEW s \in SUBSET S, Cardinality(s) = 0 PROVE iter[s] = T[s]
      <4>1. s = {}
        BY <2>2, <3>1, FS_EmptySet
      <4>2. iter[s] = 0
        BY <1>3, <4>1 DEF Folded
      <4>3. QED
        BY <4>1, <4>2 DEF Additive
    <3>2. QED
      BY <2>1, <3>1
  <2>4. ASSUME NEW k \in 0 .. Cardinality(S) - 1, k \in P PROVE k + 1 \in P
    <3>1. ASSUME NEW s \in SUBSET S, Cardinality(s) = k + 1 PROVE iter[s] = T[s]
      <4> DEFINE x == CHOOSE x \in s : TRUE
      <4>0. k \in Nat /\ IsFiniteSet(s)
        BY <2>1, <2>2
      <4>1. s # {} /\ \A y \in s : Cardinality(s \ {y}) = k
        BY <3>1, <4>0, OneLess
      <4>2. x \in s /\ T[s] = f[x] + T[s \ {x}]
        BY <4>1, <1>1
      <4>3. iter[s] = f[x] + iter[s \ {x}]
        BY <1>3, <4>1 DEF Folded
      <4> HIDE DEF x
      <4>4. Cardinality(s \ {x}) = k
        BY <4>1, <4>2
      <4>5. iter[s \ {x}] = T[s \ {x}]
        BY <2>4, <4>4
      <4>6. QED
        BY <4>2, <4>3, <4>5
    <3>2. QED
      BY <2>1, <3>1
  <2>5. Cardinality(S) \in P
    <3> HIDE DEF P
    <3>1. \A n \in 0 .. Cardinality(S) : n \in P
      BY <2>1, <2>3, <2>4, Induction
    <3>2. QED
      BY <2>1, <3>1
  <2>6. QED
    BY <2>5
<1>4. QED
  BY <1>2, <1>3

\* a sum of numbers from 1 on is no less than their number
LEMMA SumAtLeastCardinality ==
  ASSUME NEW N \in Nat, NEW f \in [1 .. N -> Nat \ {0}], NEW T, IsSum(T, f, N), NEW S \in SUBSET (1 .. N)
  PROVE  T[S] >= Cardinality(S) /\ IsFiniteSet(S) /\ Cardinality(S) \in Nat
<1> USE DEF IsSum
<1>1. IsFiniteSet(S) /\ Cardinality(S) \in Nat
  <2>1. IsFiniteSet(1 .. N)
    BY FS_Interval
  <2>2. QED
    BY <2>1, FS_Subset, FS_CardinalityType
<1> DEFINE P == {k \in 0 .. Cardinality(S) : \A s \in SUBSET S : Cardinality(s) = k => T[s] >= k}
<1>2. \A s \in SUBSET S : IsFiniteSet(s)
  BY <1>1, FS_Subset
<1>3. 0 \in P
  <2>1. ASSUME NEW s \in SUBSET S, Cardinality(s) = 0 PROVE T[s] >= 0
    <3>1. s = {}
      BY <1>2, <2>1, FS_EmptySet
    <3>2. QED
      BY <3>1 DEF Additive
  <2>2. QED
    BY <1>1, <2>1
<1>4. ASSUME NEW k \in 0 .. Cardinality(S) - 1, k \in P PROVE k + 1 \in P
  <2>1. ASSUME NEW s \in SUBSET S, Cardinality(s) = k + 1 PROVE T[s] >= k + 1
    <3>0. k \in Nat /\ IsFiniteSet(s)
      BY <1>1, <1>2
    <3>1. s # {} /\ \A y \in s : Cardinality(s \ {y}) = k
      BY <2>1, <3>0, OneLess
    <3>2. PICK x \in s : TRUE
      BY <3>1
    <3>3. T[s] = f[x] + T[s \ {x}] /\ f[x] \in Nat \ {0} /\ T[s \ {x}] \in Int
      <4>1. s \in SUBSET (1 .. N) /\ x \in 1 .. N /\ s \ {x} \in SUBSET (1 .. N)
        OBVIOUS
      <4>2. QED
        BY <4>1 DEF Additive
    <3>4. Cardinality(s \ {x}) = k
      BY <3>1, <3>2
    <3>5. T[s \ {x}] >= k
      BY <1>4, <3>4
    <3>6. QED
      BY <3>3, <3>5
  <2>2. QED
    BY <1>1, <2>1
<1>5. Cardinality(S) \in P
  <2> HIDE DEF P
  <2>1. \A n \in 0 .. Cardinality(S) : n \in P
    BY <1>1, <1>3, <1>4, Induction
  <2>2. QED
    BY <1>1, <2>1
<1>6. QED
  BY <1>1, <1>5

\* what each fold over S gives, when there is a table for it
LEMMA FoldAtLeastCardinality ==
  ASSUME NEW N, N \in Nat, NEW f, f \in [1 .. N -> Int], NEW S, S \in SUBSET (1 .. N)
  PROVE  /\ \E iter : Folded(iter, S, f)
         /\ \A iter : Folded(iter, S, f) => iter[S] \in Int
         /\ Cardinality(S) \in Nat /\ (S # {} => Cardinality(S) > 0)
         /\ (\A j \in 1 .. N : f[j] >= 1) =>
              \A iter : Folded(iter, S, f) => iter[S] >= Cardinality(S)
<1>1. PICK T : IsSum(T, f, N)
  BY SumsExist DEF IsSum
<1>8. \E iter : Folded(iter, S, f)
  BY <1>1, FoldIsSum
<1>2. ASSUME NEW iter, Folded(iter, S, f) PROVE iter[S] = T[S]
  BY <1>1, <1>2, FoldIsSum
<1>3. T[S] \in Int
  BY <1>1 DEF IsSum
<1>4. IsFiniteSet(S) /\ Cardinality(S) \in Nat
  <2>1. IsFiniteSet(1 .. N)
    BY FS_Interval
  <2>2. QED
    BY <2>1, FS_Subset, FS_CardinalityType
<1>5. S # {} => Cardinality(S) > 0
  BY <1>4, FS_EmptySet
<1>6. ASSUME \A j \in 1 .. N : f[j] >= 1 PROVE T[S] >= Cardinality(S)
  <2>1. f \in [1 .. N -> Nat \ {0}]
    BY <1>6
  <2>2. QED
    BY <1>1, <2>1, SumAtLeastCardinality
<1>7. QED
  BY <1>2, <1>3, <1>4, <1>5, <1>6, <1>8

\* the fold over the sizes of pictures
Sized == [size : Nat \ {0}, intra : 0 .. 100]
LEMMA SizesOfFrames ==
  ASSUME NEW frames \in Seq(Sized)
  PROVE  Len(frames) \in Nat /\ \A j \in 1 .. Len(frames) : frames[j] \in Sized
OBVIOUS

LEMMA SizesSum ==
  ASSUME NEW frames \in Seq(Sized), NEW S \in SUBSET (1 .. Len(frames))
  PROVE  /\ MapThenSumSet(LAMBDA j : frames[j].size, S) \in Int
         /\ MapThenSumSet(LAMBDA j : frames[j].size, S) >= Cardinality(S)
         /\ Cardinality(S) \in Nat /\ (S # {} => Cardinality(S) > 0)
<1> DEFINE N == Len(frames)
           f == [j \in 1 .. N |-> frames[j].size]
           Fills(iter) == iter = [s \in SUBSET S |->
             IF s = {} THEN 0
             ELSE frames[CHOOSE x \in s : TRUE].size + iter[s \ {CHOOSE x \in s : TRUE}]]
           c == CHOOSE iter : Fills(iter)
<1>0. MapThenSumSet(LAMBDA j : frames[j].size, S) = c[S]
  BY DEF MapThenSumSet, MapThenFoldSet
<1> HIDE DEF c, Fills
<1>1. N \in Nat /\ S \in SUBSET (1 .. N) /\ \A j \in 1 .. N : frames[j].size \in Nat \ {0}
  BY SizesOfFrames DEF Sized
<1> HIDE DEF N
<1>2. f \in [1 .. N -> Int] /\ \A j \in 1 .. N : f[j] = frames[j].size /\ f[j] >= 1
  BY <1>1
<1> HIDE DEF f
<1>3. ASSUME NEW iter PROVE Fills(iter) <=> Folded(iter, S, f)
  <2>1. ASSUME NEW s \in SUBSET S, s # {} PROVE frames[CHOOSE x \in s : TRUE].size = f[CHOOSE x \in s : TRUE]
    <3>1. (CHOOSE x \in s : TRUE) \in 1 .. N
      BY <2>1, <1>1
    <3>2. QED
      BY <3>1, <1>2
  <2>2. [s \in SUBSET S |->
           IF s = {} THEN 0
           ELSE frames[CHOOSE x \in s : TRUE].size + iter[s \ {CHOOSE x \in s : TRUE}]]
        = [s \in SUBSET S |->
           IF s = {} THEN 0
           ELSE f[CHOOSE x \in s : TRUE] + iter[s \ {CHOOSE x \in s : TRUE}]]
    BY <2>1
  <2>3. QED
    BY <2>2 DEF Folded, Fills
<1>4. Fills(c)
  <2>1. \E iter : Fills(iter)
    BY <1>1, <1>2, <1>3, FoldAtLeastCardinality
  <2>2. QED
    BY <2>1 DEF c
<1>5. QED
  BY <1>0, <1>1, <1>2, <1>3, <1>4, FoldAtLeastCardinality

(***************************************************************************)
(* The plan of a sequence: the complexities, and the level they lead to.      *)
(***************************************************************************)
SizeSum(frames, S) == MapThenSumSet(LAMBDA j : frames[j].size, S)
IndexSum(f, S) == MapThenSumSet(LAMBDA i : f[i], S)
GroupOf(frames, start, i) == {j \in 1 .. Len(frames) : start[j] = start[i]}
GroupStarts(frames, start) == {i \in 1 .. Len(frames) : start[i] = i}
GroupSizes(frames, start) ==
  [i \in 1 .. Len(frames) |-> SizeSum(frames, GroupOf(frames, start, i)) \div Cardinality(GroupOf(frames, start, i))]
MeanSize(frames, start) ==
  IndexSum(GroupSizes(frames, start), GroupStarts(frames, start)) \div Cardinality(GroupStarts(frames, start))
Relative(frames, start) ==
  [i \in 1 .. Len(frames) |-> (GroupSizes(frames, start)[i] * 1000) \div MeanSize(frames, start) - 1000]
LevelsReached(n, relative, rate) == {BufferLevels(relative, rate)[i] : i \in 0 .. n}
Damping(n, relative, c) ==
  Coefficient(Max(LevelsReached(n, relative, c.rate)), Min(LevelsReached(n, relative, c.rate)), c)

\* the plan, in the terms above
LEMMA PlanOf ==
  ASSUME NEW frames, NEW change, NEW c, NEW i \in 1 .. Len(frames)
  PROVE  ComputeComplexity(frames, change, c)[i].complexity =
           LET relative == Relative(frames, GroupStart(change, c.gop))
           IN Quotient(relative[i] * Damping(Len(frames), relative, c), 1000) + 1000
BY DEF ComputeComplexity, Relative, Damping, LevelsReached, MeanSize, GroupSizes, GroupStarts, GroupOf,
       SizeSum, IndexSum

\* the first picture begins a group
LEMMA FirstStarts ==
  ASSUME NEW n \in Nat \ {0}, NEW change \in [1 .. n -> BOOLEAN], NEW gop \in Nat
  PROVE  GroupStart(change, gop)[1] = 1
<1> DEFINE Begins(i, v) == i = 1 \/ change[i - 1] \/ i - v = gop
           Starts(start) == start = [i \in 1 .. n |-> IF i = 1 \/ change[i - 1] \/ i - start[i - 1] = gop
                                                      THEN i ELSE start[i - 1]]
           step == [x \in Nat \X (1 .. n) |-> IF Begins(x[2], x[1]) THEN x[2] ELSE x[1]]
           c == CHOOSE start : Starts(start)
<1>1. step \in Steps(Nat, n) /\ \A v \in Nat, i \in 1 .. n : step[<<v, i>>] = IF Begins(i, v) THEN i ELSE v
  BY DEF Steps
<1> HIDE DEF step
<1>2. PICK f \in [0 .. n -> Nat] : Follows(f, 0, n, step)
  BY <1>1, Recursion
<1>3. Starts([i \in 1 .. n |-> f[i]])
  <2> DEFINE g == [i \in 1 .. n |-> f[i]]
  <2>1. ASSUME NEW i \in 1 .. n
        PROVE  g[i] = IF i = 1 \/ change[i - 1] \/ i - g[i - 1] = gop THEN i ELSE g[i - 1]
    <3>1. f[i] = IF Begins(i, f[i - 1]) THEN i ELSE f[i - 1]
      <4>1. f[i - 1] \in Nat /\ f[i] = step[<<f[i - 1], i>>]
        BY <1>2 DEF Follows
      <4> HIDE DEF Begins
      <4>2. QED
        BY <1>1, <4>1
    <3>2. CASE i = 1
      BY <3>1, <3>2
    <3>3. CASE i # 1
      <4>1. g[i - 1] = f[i - 1] /\ g[i] = f[i]
        BY <3>3
      <4>2. QED
        BY <3>1, <3>3, <4>1
    <3>4. QED
      BY <3>2, <3>3
  <2>2. g = [i \in 1 .. n |-> g[i]]
    OBVIOUS
  <2> HIDE DEF g
  <2>3. g = [i \in 1 .. n |-> IF i = 1 \/ change[i - 1] \/ i - g[i - 1] = gop THEN i ELSE g[i - 1]]
    BY <2>1, <2>2
  <2>4. Starts(g)
    BY <2>3
  <2>5. QED
    BY <2>4 DEF g
<1>4. GroupStart(change, gop) = c
  <2>1. DOMAIN change = 1 .. n
    OBVIOUS
  <2>2. QED
    BY <2>1 DEF GroupStart
<1>5. Starts(c)
  BY <1>3
<1> HIDE DEF c
<1>6. c[1] = 1
  BY <1>5
<1>7. QED
  BY <1>4, <1>6

LEMMA IndexSumOf ==
  ASSUME NEW N \in Nat, NEW f \in [1 .. N -> Int], NEW S \in SUBSET (1 .. N)
  PROVE  /\ IndexSum(f, S) \in Int /\ Cardinality(S) \in Nat /\ (S # {} => Cardinality(S) > 0)
         /\ (\A j \in 1 .. N : f[j] >= 1) => IndexSum(f, S) >= Cardinality(S)
<1> DEFINE c == CHOOSE iter : Folded(iter, S, f)
<1>1. IndexSum(f, S) = c[S]
  BY DEF IndexSum, MapThenSumSet, MapThenFoldSet, Folded
<1>2. Folded(c, S, f)
  BY FoldAtLeastCardinality
<1> HIDE DEF c
<1>3. QED
  BY <1>1, <1>2, FoldAtLeastCardinality

\* a quotient of two numbers, the first no less than the second
LEMMA QuotientPositive ==
  ASSUME NEW a \in Int, NEW b \in Nat, b > 0, a >= b
  PROVE  a \div b \in Nat \ {0}
OBVIOUS

LEMMA RelativeIsInt ==
  ASSUME NEW frames \in Seq(Sized), frames # <<>>, NEW start, start[1] = 1
  PROVE  Relative(frames, start) \in [1 .. Len(frames) -> Int]
<1> DEFINE n == Len(frames)
           starts == GroupStarts(frames, start)
           sizes == GroupSizes(frames, start)
           mean == MeanSize(frames, start)
<1>1. n \in Nat /\ n >= 1
  BY SizesOfFrames
<1>2. sizes \in [1 .. n -> Int] /\ \A i \in 1 .. n : sizes[i] >= 1
  <2>1. ASSUME NEW i \in 1 .. n
        PROVE  SizeSum(frames, GroupOf(frames, start, i)) \div Cardinality(GroupOf(frames, start, i)) \in Nat \ {0}
    <3> DEFINE S == GroupOf(frames, start, i)
    <3>1. S \in SUBSET (1 .. n) /\ S # {}
      BY DEF GroupOf
    <3> HIDE DEF S
    <3>2. /\ SizeSum(frames, S) \in Int /\ SizeSum(frames, S) >= Cardinality(S)
          /\ Cardinality(S) \in Nat /\ Cardinality(S) > 0
      BY <3>1, SizesSum DEF SizeSum
    <3>3. SizeSum(frames, S) \div Cardinality(S) \in Nat \ {0}
      BY <3>2, QuotientPositive
    <3>4. QED
      BY <3>3 DEF S
  <2>2. QED
    BY <2>1 DEF GroupSizes
<1>3. starts \in SUBSET (1 .. n) /\ 1 \in starts
  BY <1>1 DEF GroupStarts
<1>4. mean \in Nat \ {0}
  <2> HIDE DEF starts, sizes, n
  <2>1. /\ IndexSum(sizes, starts) \in Int /\ IndexSum(sizes, starts) >= Cardinality(starts)
        /\ Cardinality(starts) \in Nat /\ Cardinality(starts) > 0
    BY <1>1, <1>2, <1>3, IndexSumOf
  <2>2. mean = IndexSum(sizes, starts) \div Cardinality(starts)
    BY DEF MeanSize, starts, sizes
  <2>3. QED
    BY <2>1, <2>2, QuotientPositive
<1>5. Relative(frames, start) = [i \in 1 .. n |-> (sizes[i] * 1000) \div mean - 1000]
  BY DEF Relative
<1> HIDE DEF sizes, mean, n
<1>6. ASSUME NEW i \in 1 .. n PROVE (sizes[i] * 1000) \div mean - 1000 \in Int
  BY <1>2, <1>4
<1>7. Relative(frames, start) \in [1 .. n -> Int]
  BY <1>5, <1>6
<1>8. QED
  BY <1>7 DEF n

LEMMA LengthOfFunction ==
  ASSUME NEW n \in Nat, NEW S, NEW f \in [1 .. n -> S]
  PROVE  f \in Seq(S) /\ Len(f) = n
<1>1. f \in Seq(S)
  BY SeqDef
<1>2. Len(f) \in Nat /\ DOMAIN f = 1 .. Len(f) /\ DOMAIN f = 1 .. n
  BY <1>1, LenProperties
<1>3. QED
  BY <1>1, <1>2

LEMMA QuotientFacts ==
  ASSUME NEW a \in Int, NEW b \in Nat \ {0}
  PROVE  Quotient(a, b) \in Int /\ a - b * Quotient(a, b) \in -(b - 1) .. b - 1
<1>1. ASSUME NEW x \in Nat PROVE x \div b \in Int /\ x - b * (x \div b) \in 0 .. b - 1
  OBVIOUS
<1>2. CASE a < 0
  <2> DEFINE x == -a
             y == x \div b
  <2>1. x \in Nat /\ a = -x /\ Quotient(a, b) = -y
    BY <1>2 DEF Quotient
  <2>2. y \in Int /\ x - b * y \in 0 .. b - 1
    BY <1>1, <2>1
  <2> HIDE DEF x, y
  <2>3. a - b * (-y) = -(x - b * y)
    BY <2>1, <2>2
  <2>4. QED
    BY <2>1, <2>2, <2>3
<1>3. CASE ~(a < 0)
  BY <1>1, <1>3 DEF Quotient
<1>4. QED
  BY <1>2, <1>3

Row(n) == [1 .. n -> Int]

\* the level goes down by what a picture has more than the mean
LEMMA LevelsFacts ==
  ASSUME NEW n \in Nat, NEW relative \in Row(n), NEW rate \in Nat \ {0}
  PROVE  /\ BufferLevels(relative, rate) \in [0 .. n -> Int]
         /\ BufferLevels(relative, rate)[0] = 0
         /\ \A i \in 1 .. n :
              BufferLevels(relative, rate)[i] = BufferLevels(relative, rate)[i - 1] - Quotient(relative[i], rate)
<1> USE DEF Row
<1> DEFINE Falls(level) ==
             level = [i \in 0 .. n |-> IF i = 0 THEN 0 ELSE level[i - 1] - Quotient(relative[i], rate)]
           c == CHOOSE level : Falls(level)
           step == [x \in Int \X (1 .. n) |-> x[1] - Quotient(relative[x[2]], rate)]
<1>1. Len(relative) = n
  BY LengthOfFunction
<1>2. BufferLevels(relative, rate) = c
  BY <1>1 DEF BufferLevels
<1>3. \A i \in 1 .. n : Quotient(relative[i], rate) \in Int
  BY QuotientFacts
<1>4. step \in Steps(Int, n) /\ \A v \in Int, i \in 1 .. n : step[<<v, i>>] = v - Quotient(relative[i], rate)
  BY <1>3 DEF Steps
<1> HIDE DEF step
<1>5. PICK f \in [0 .. n -> Int] : Follows(f, 0, n, step)
  <2> DEFINE Z == Int
  <2>1. 0 \in Z /\ step \in Steps(Z, n)
    BY <1>4
  <2> HIDE DEF Z
  <2>2. \E f \in [0 .. n -> Z] : Follows(f, 0, n, step)
    BY <2>1, Recursion
  <2>3. QED
    BY <2>2 DEF Z
<1>6. ASSUME NEW i \in 1 .. n PROVE f[i] = f[i - 1] - Quotient(relative[i], rate)
  <2>1. f[i - 1] \in Int /\ f[i] = step[<<f[i - 1], i>>]
    BY <1>5 DEF Follows
  <2>2. QED
    BY <1>4, <2>1
<1>7. Falls(f)
  <2>1. f = [i \in 0 .. n |-> f[i]]
    OBVIOUS
  <2>2. ASSUME NEW i \in 0 .. n PROVE f[i] = IF i = 0 THEN 0 ELSE f[i - 1] - Quotient(relative[i], rate)
    BY <1>5, <1>6 DEF Follows
  <2>3. QED
    BY <2>1, <2>2
<1>8. Falls(c)
  BY <1>7
<1> HIDE DEF c
<1>9. c[0] = 0 /\ \A i \in 1 .. n : c[i] = c[i - 1] - Quotient(relative[i], rate)
  BY <1>8
<1>10. \A i \in 0 .. n : c[i] \in Int
  <2> DEFINE P == {i \in 0 .. n : c[i] \in Int}
  <2>1. 0 \in P
    BY <1>9
  <2>2. ASSUME NEW i \in 0 .. n - 1, i \in P PROVE i + 1 \in P
    <3>1. i + 1 \in 1 .. n /\ (i + 1) - 1 = i /\ c[i] \in Int
      BY <2>2
    <3>2. QED
      BY <1>3, <1>9, <3>1
  <2> HIDE DEF P
  <2>3. \A i \in 0 .. n : i \in P
    BY <2>1, <2>2, Induction
  <2>4. QED
    BY <2>3 DEF P
<1>11. c \in [0 .. n -> Int]
  <2>1. c = [i \in 0 .. n |-> c[i]]
    BY <1>8
  <2>2. QED
    BY <1>10, <2>1
<1>12. QED
  BY <1>2, <1>9, <1>11

\* finitely many numbers have a greatest and a least
LEMMA ExtremesOf ==
  ASSUME NEW n \in Nat, NEW g \in [0 .. n -> Int]
  PROVE  LET S == {g[i] : i \in 0 .. n}
         IN /\ Min(S) \in Int /\ Max(S) \in Int
            /\ \A i \in 0 .. n : Min(S) <= g[i] /\ g[i] <= Max(S)
<1> DEFINE P == {m \in 0 .. n : \E a \in Int, b \in Int : \A i \in 0 .. m : a <= g[i] /\ g[i] <= b}
           S == {g[i] : i \in 0 .. n}
<1>1. 0 \in P
  OBVIOUS
<1>2. ASSUME NEW m \in 0 .. n - 1, m \in P PROVE m + 1 \in P
  <2>1. PICK a \in Int, b \in Int : \A i \in 0 .. m : a <= g[i] /\ g[i] <= b
    BY <1>2
  <2> DEFINE v == g[m + 1]
             low == IF v < a THEN v ELSE a
             high == IF v > b THEN v ELSE b
  <2>2. v \in Int
    OBVIOUS
  <2>3. low \in Int /\ high \in Int
    BY <2>2
  <2>4. \A i \in 0 .. m + 1 : low <= g[i] /\ g[i] <= high
    <3>1. ASSUME NEW i \in 0 .. m + 1, i # m + 1 PROVE low <= g[i] /\ g[i] <= high
      <4>1. i \in 0 .. m /\ g[i] \in Int
        BY <3>1
      <4>2. QED
        BY <4>1, <2>1, <2>2
    <3>2. QED
      BY <2>2, <3>1
  <2> HIDE DEF low, high
  <2>5. \E x \in Int, y \in Int : \A i \in 0 .. m + 1 : x <= g[i] /\ g[i] <= y
    BY <2>3, <2>4
  <2>6. m + 1 \in 0 .. n
    OBVIOUS
  <2>7. QED
    BY <2>5, <2>6
<1>3. n \in P
  <2> HIDE DEF P
  <2>1. \A i \in 0 .. n : i \in P
    BY <1>1, <1>2, Induction
  <2>2. QED
    BY <2>1
<1>4. PICK a \in Int, b \in Int : \A i \in 0 .. n : a <= g[i] /\ g[i] <= b
  BY <1>3
<1>5. S \in SUBSET (a .. b) /\ S # {} /\ \A i \in 0 .. n : g[i] \in S
  BY <1>4
<1> HIDE DEF S
<1>6. /\ Min(S) \in S /\ \A q \in S : Min(S) <= q
      /\ Max(S) \in S /\ \A q \in S : q <= Max(S)
  BY <1>5, Extremes
<1>9. Min(S) \in a .. b /\ Max(S) \in a .. b
  BY <1>5, <1>6
<1>7. /\ Min(S) \in Int /\ Max(S) \in Int
      /\ \A i \in 0 .. n : Min(S) <= g[i] /\ g[i] <= Max(S)
  BY <1>5, <1>6, <1>9
<1>8. QED
  BY <1>7 DEF S

LEMMA MinOfNats ==
  ASSUME NEW Q \in SUBSET Nat, Q # {}
  PROVE  Min(Q) \in Q /\ \A q \in Q : Min(Q) <= q
<1>1. \E n \in Q : \A m \in Q : n <= m
  BY Least
<1>2. QED
  BY <1>1 DEF Min

Channel == {c \in [gop : Nat, cpb : Nat, ird : Nat, rate : Nat \ {0}] : c.ird <= c.cpb}

LEMMA ScaledDown ==
  ASSUME NEW x \in Nat, NEW h \in Nat \ {0}, NEW q \in Nat, q <= x \div h
  PROVE  q * h <= x
<1> DEFINE y == x \div h
<1>1. y \in Nat /\ h * y <= x /\ q <= y
  OBVIOUS
<1> HIDE DEF y
<1>2. q * h <= y * h
  <2> DEFINE d == y - q
  <2>1. d \in Nat /\ y = q + d
    BY <1>1
  <2> HIDE DEF d
  <2>2. y * h = q * h + d * h /\ d * h \in Nat /\ q * h \in Nat
    BY <2>1
  <2>3. QED
    BY <2>2
<1>3. y * h = h * y /\ y * h \in Nat /\ q * h \in Nat
  BY <1>1
<1>4. QED
  BY <1>1, <1>2, <1>3

\* damped, the levels fit
LEMMA CoefficientFits ==
  ASSUME NEW c \in Channel, NEW highest \in Int, NEW lowest \in Int
  PROVE  LET q == Coefficient(highest, lowest, c)
         IN /\ q \in 0 .. 1000
            /\ highest > 0 => q * highest <= (c.cpb - c.ird) * 1000
            /\ lowest < 0 => q * (-lowest) <= c.ird * 900
<1> DEFINE above == (c.cpb - c.ird) * 1000
           below == c.ird * 900
           A == IF highest > 0 THEN {above \div highest} ELSE {}
           B == IF lowest < 0 THEN {below \div (-lowest)} ELSE {}
           Q == {1000} \cup A \cup B
           q == Coefficient(highest, lowest, c)
<1>1. above \in Nat /\ below \in Nat
  BY DEF Channel
<1>2. q = Min(Q)
  BY DEF Coefficient
<1> HIDE DEF above, below, q
<1>3. highest > 0 => above \div highest \in Nat
  BY <1>1
<1>4. lowest < 0 => below \div (-lowest) \in Nat
  <2>1. ASSUME lowest < 0 PROVE below \div (-lowest) \in Nat
    <3> DEFINE l == -lowest
    <3>1. l \in Nat \ {0}
      BY <2>1
    <3> HIDE DEF l
    <3>2. below \div l \in Nat
      BY <1>1, <3>1
    <3>3. QED
      BY <3>2 DEF l
  <2>2. QED
    BY <2>1
<1>5. Q \in SUBSET Nat /\ 1000 \in Q
  BY <1>3, <1>4
<1>11. (highest > 0 => above \div highest \in Q) /\ (lowest < 0 => below \div (-lowest) \in Q)
  OBVIOUS
<1> HIDE DEF Q
<1>6. q \in Nat /\ \A x \in Q : q <= x
  BY <1>2, <1>5, MinOfNats
<1>7. q \in 0 .. 1000
  BY <1>5, <1>6
<1>8. highest > 0 => q * highest <= above
  BY <1>1, <1>6, <1>11, ScaledDown
<1>9. ASSUME lowest < 0 PROVE q * (-lowest) <= below
  <2> DEFINE l == -lowest
  <2>1. l \in Nat \ {0}
    BY <1>9
  <2>2. q <= below \div l
    BY <1>6, <1>9, <1>11
  <2> HIDE DEF l
  <2>3. q * l <= below
    BY <1>1, <1>6, <2>1, <2>2, ScaledDown
  <2>4. QED
    BY <2>3 DEF l
<1>10. QED
  BY <1>7, <1>8, <1>9 DEF q, above, below

\* a number between two others, times a factor
LEMMA ScaledBetween ==
  ASSUME NEW q \in Nat, NEW b \in Nat, NEW e \in -b .. b
  PROVE  q * b \in Nat /\ q * e \in -(q * b) .. q * b
<1> DEFINE d == b - e
           g == b + e
<1>1. d \in Nat /\ g \in Nat /\ e = b - d /\ e = g - b
  OBVIOUS
<1> HIDE DEF d, g
<1>2. q * b \in Nat /\ q * d \in Nat /\ q * g \in Nat
  BY <1>1
<1>3. q * e = q * b - q * d /\ q * e = q * g - q * b
  BY <1>1
<1>4. QED
  BY <1>2, <1>3

\* what the divisions lose of a picture, and the most they may lose
Lost(q, rate, r) == 1000 * Quotient(r * q, 1000) - q * (rate * Quotient(r, rate))
Loss(q, rate) == q * (rate - 1) + 999

\* what one picture adds to the difference of the level and what is spent
LEMMA PictureAdds ==
  ASSUME NEW q \in 0 .. 1000, NEW rate \in Nat \ {0}, NEW r \in Int
  PROVE  Lost(q, rate, r) \in -Loss(q, rate) .. Loss(q, rate)
<1> DEFINE u == Quotient(r, rate)
           v == Quotient(r * q, 1000)
           e == r - rate * u
           b == rate - 1
<1>1. u \in Int /\ e \in -b .. b
  BY QuotientFacts
<1>2. r * q \in Int
  OBVIOUS
<1>3. v \in Int /\ r * q - 1000 * v \in -999 .. 999
  <2> DEFINE z == r * q
             h == 1000
  <2>1. z \in Int /\ h \in Nat \ {0}
    OBVIOUS
  <2> HIDE DEF z, h
  <2>2. Quotient(z, h) \in Int /\ z - h * Quotient(z, h) \in -(h - 1) .. h - 1
    BY <2>1, QuotientFacts
  <2>3. QED
    BY <2>2 DEF z, h
<1>4. b \in Nat /\ r = rate * u + e /\ rate * u \in Int
  BY <1>1
<1> HIDE DEF u, v, e, b
<1>5. q * b \in Nat /\ q * e \in -(q * b) .. q * b
  BY <1>1, <1>4, ScaledBetween
<1>6. r * q = q * (rate * u) + q * e
  BY <1>1, <1>4
<1> DEFINE w == q * (rate * u)
           x == q * e
           y == q * b
<1>7. w \in Int /\ r * q = w + x
  BY <1>4, <1>6
<1> HIDE DEF w, x, y
<1>8. x \in -y .. y /\ y \in Nat
  BY <1>5 DEF x, y
<1>9. 1000 * v - w \in -(y + 999) .. y + 999
  BY <1>2, <1>3, <1>7, <1>8
<1>10. QED
  BY <1>9 DEF w, y, v, u, b, Lost, Loss

Damped(f, n, relative, q) == \A i \in 1 .. n : f[i] = Quotient(relative[i] * q, 1000)

Near(t, l, q, rate, k) == 1000 * t + q * (rate * l) \in -(k * Loss(q, rate)) .. k * Loss(q, rate)

\* what is spent on the first pictures, when every one is as complex as planned,
\* goes with the damped level
LEMMA SpentFollowsLevel ==
  ASSUME NEW n \in Nat, NEW relative \in Row(n), NEW q \in 0 .. 1000, NEW rate \in Nat \ {0},
         NEW f \in Row(n), Damped(f, n, relative, q),
         NEW T, IsSum(T, f, n), NEW k \in 0 .. n
  PROVE  Near(T[1 .. k], BufferLevels(relative, rate)[k], q, rate, k)
<1> DEFINE L == BufferLevels(relative, rate)
           B == Loss(q, rate)
           P == {i \in 0 .. n : 1000 * T[1 .. i] + q * (rate * L[i]) \in -(i * B) .. i * B}
<1>1. /\ L \in [0 .. n -> Int] /\ L[0] = 0
      /\ \A i \in 1 .. n : L[i] = L[i - 1] - Quotient(relative[i], rate)
  <2>1. L \in [0 .. n -> Int]
    BY LevelsFacts
  <2>2. L[0] = 0
    BY LevelsFacts
  <2>3. \A i \in 1 .. n : L[i] = L[i - 1] - Quotient(relative[i], rate)
    BY LevelsFacts
  <2>4. QED
    BY <2>1, <2>2, <2>3
<1>2. B \in Nat
  BY DEF Loss
<1>3. \A i \in 0 .. n : T[1 .. i] \in Int
  BY DEF IsSum
<1>10. \A i \in 1 .. n : relative[i] \in Int
  BY DEF Row
<1>4. ASSUME NEW i \in 1 .. n PROVE T[1 .. i] = f[i] + T[1 .. i - 1]
  <2> DEFINE s == 1 .. i
  <2>1. i \in s /\ s \ {i} = 1 .. i - 1 /\ s \in SUBSET (1 .. n)
    OBVIOUS
  <2> HIDE DEF s
  <2>2. T[s] = f[i] + T[s \ {i}]
    BY <2>1 DEF IsSum, Additive
  <2>3. QED
    BY <2>1, <2>2 DEF s
<1>5. T[1 .. 0] = 0
  <2>1. 1 .. 0 = {}
    OBVIOUS
  <2>2. QED
    BY <2>1 DEF IsSum, Additive
<1> HIDE DEF L
<1>6. 0 \in P
  <2> HIDE DEF B
  <2>1. q * (rate * L[0]) = 0
    BY <1>1
  <2>2. QED
    BY <1>2, <1>5, <2>1
<1>7. ASSUME NEW i \in 0 .. n - 1, i \in P PROVE i + 1 \in P
  <2> DEFINE j == i + 1
             t == T[1 .. i]
             l == L[i]
             r == relative[j]
             u == Quotient(r, rate)
             v == Quotient(r * q, 1000)
  <2>1. j \in 1 .. n /\ j - 1 = i /\ i \in 0 .. n
    OBVIOUS
  <2>2. T[1 .. j] = v + t /\ L[j] = l - u
    BY <2>1, <1>1, <1>4 DEF Damped
  <2>3. t \in Int /\ l \in Int /\ r \in Int /\ r * q \in Int
    BY <2>1, <1>1, <1>3, <1>10
  <2> HIDE DEF r
  <2>4. u \in Int /\ v \in Int
    <3> DEFINE z == r * q
               h == 1000
    <3>1. z \in Int /\ h \in Nat \ {0} /\ r \in Int
      BY <2>3
    <3> HIDE DEF z, h
    <3>2. Quotient(r, rate) \in Int /\ Quotient(z, h) \in Int
      BY <3>1, QuotientFacts
    <3>3. QED
      BY <3>2 DEF z, h
  <2>5. 1000 * v - q * (rate * u) \in -B .. B
    <3>1. r \in Int
      BY <2>3
    <3>2. Lost(q, rate, r) \in -Loss(q, rate) .. Loss(q, rate)
      BY <3>1, PictureAdds
    <3>3. QED
      BY <3>2 DEF Lost
  <2>6. 1000 * t + q * (rate * l) \in -(i * B) .. i * B
    BY <1>7
  <2> HIDE DEF t, l, u, v, B
  <2>7. q * (rate * (l - u)) = q * (rate * l) - q * (rate * u)
    BY <2>3, <2>4
  <2>8. j * B = i * B + B /\ i * B \in Nat
    BY <1>2
  <2> DEFINE x == q * (rate * l)
             y == q * (rate * u)
             z == i * B
  <2>9. x \in Int /\ y \in Int /\ z \in Nat
    BY <2>3, <2>4, <2>8
  <2>10. /\ 1000 * t + x \in -z .. z /\ 1000 * v - y \in -B .. B
         /\ q * (rate * (l - u)) = x - y /\ j * B = z + B
    BY <2>5, <2>6, <2>7, <2>8
  <2> HIDE DEF x, y, z
  <2>11. 1000 * (v + t) + (x - y) \in -(z + B) .. z + B
    BY <1>2, <2>3, <2>4, <2>9, <2>10
  <2>12. 1000 * T[1 .. j] + q * (rate * L[j]) \in -(j * B) .. j * B
    BY <2>2, <2>10, <2>11
  <2>13. QED
    BY <2>1, <2>12
<1>8. k \in P
  <2> HIDE DEF P
  <2>1. \A i \in 0 .. n : i \in P
    BY <1>6, <1>7, Induction
  <2>2. QED
    BY <2>1
<1>9. QED
  BY <1>8 DEF L, Near

\* a damped level between two bounds
Held(l, q, up, down) == q * l <= 1000 * up /\ -(q * l) <= 1000 * down

\* the arithmetic of the bounds
LEMMA BoundsOfSpent ==
  ASSUME NEW t \in Int, NEW q \in 0 .. 1000, NEW rate \in Nat \ {0}, NEW k \in Nat,
         NEW l \in Int, NEW up \in Nat, NEW down \in Nat,
         Held(l, q, up, down),
         Near(t, l, q, rate, k)
  PROVE  t <= (down + k) * rate /\ -t <= (up + k) * rate
<1> DEFINE m == q * l
           B == Loss(q, rate)
<1>1. m \in Int /\ q * (rate * l) = rate * m
  OBVIOUS
<1>2. B \in Nat /\ B <= 1000 * rate
  <2> DEFINE p == rate - 1
             d == 1000 - q
  <2>1. p \in Nat /\ d \in Nat /\ q = 1000 - d /\ rate = p + 1
    OBVIOUS
  <2> HIDE DEF p, d
  <2>2. q * p = 1000 * p - d * p /\ d * p \in Nat /\ q * p \in Nat
    BY <2>1
  <2>3. B = q * p + 999
    BY <2>1 DEF Loss
  <2>4. QED
    BY <2>1, <2>2, <2>3
<1>3. 1000 * t + rate * m \in -(k * B) .. k * B
  BY <1>1 DEF Near
<1>4. m <= 1000 * up /\ -m <= 1000 * down
  BY DEF Held
<1> HIDE DEF m, B
<1>5. k * B <= 1000 * (k * rate) /\ k * B \in Nat /\ k * rate \in Nat
  <2> DEFINE d == 1000 * rate - B
  <2>1. d \in Nat /\ B = 1000 * rate - d
    BY <1>2
  <2> HIDE DEF d
  <2>2. k * B = 1000 * (k * rate) - k * d /\ k * d \in Nat
    BY <2>1
  <2>3. QED
    BY <1>2, <2>2
<1>6. rate * m <= 1000 * (up * rate) /\ -(rate * m) <= 1000 * (down * rate)
  <2> DEFINE d == 1000 * up - m
             g == 1000 * down + m
  <2>1. d \in Nat /\ g \in Nat /\ m = 1000 * up - d /\ m = g - 1000 * down
    BY <1>1, <1>4
  <2> HIDE DEF d, g
  <2>2. rate * d \in Nat /\ rate * g \in Nat
    BY <2>1
  <2>3. rate * m = 1000 * (up * rate) - rate * d
    BY <2>1
  <2>4. rate * m = rate * g - 1000 * (down * rate)
    BY <2>1
  <2>5. QED
    BY <2>2, <2>3, <2>4
<1> DEFINE x == k * rate
           y == rate * m
           ur == up * rate
           dr == down * rate
           z == k * B
<1>7. x \in Nat /\ y \in Int /\ ur \in Nat /\ dr \in Nat /\ z \in Nat
  BY <1>1, <1>5
<1>8. 1000 * t + y \in -z .. z /\ z <= 1000 * x /\ y <= 1000 * ur /\ -y <= 1000 * dr
  BY <1>3, <1>5, <1>6
<1>9. (down + k) * rate = dr + x /\ (up + k) * rate = ur + x
  OBVIOUS
<1> HIDE DEF x, y, ur, dr, z
<1>10. 1000 * t <= 1000 * (dr + x) /\ 1000 * (-t) <= 1000 * (ur + x)
  BY <1>7, <1>8
<1>11. QED
  BY <1>7, <1>9, <1>10

(***************************************************************************)
(* What the second pass reads: a sequence of the log with its plan.           *)
(***************************************************************************)
Changes(frames) ==
  [i \in 1 .. Len(frames) |-> i < Len(frames) /\ SceneChangeDetected(frames[i], frames[i + 1])]
ComparedWith(frames, i) ==
  {k \in i + 1 .. Min({Len(frames), i + 3}) : \A j \in i + 2 .. k : ~Changes(frames)[j - 1]}
Ratio(frames, i) ==
  IF i = Len(frames) THEN 1000 ELSE Min({GetIPRatio(frames[i], frames[k]) : k \in ComparedWith(frames, i)})
Hidden(frames) ==
  [i \in 1 .. Len(frames) |->
     [size |-> IF i < Len(frames) THEN 0 ELSE frames[i].size, intra |-> frames[i].intra,
      change |-> FALSE, ratio |-> 1000, plan |-> Unplanned]]
Guided(frames, c) ==
  [i \in 1 .. Len(frames) |->
     [size |-> frames[i].size, intra |-> frames[i].intra, change |-> Changes(frames)[i], ratio |-> Ratio(frames, i),
      plan |-> (IF c.gop = 0 THEN [k \in 1 .. Len(frames) |-> Unplanned]
                ELSE ComputeComplexity(frames, Changes(frames), c))[i]]]

LEMMA TwoPassIs ==
  ASSUME NEW frames, NEW c
  PROVE  ComputeTwoPass(frames, c) = IF HasPatternTwoFrames(frames) THEN Hidden(frames) ELSE Guided(frames, c)
<1>1. ASSUME NEW i \in 1 .. Len(frames)
      PROVE  [k \in 1 .. Len(frames) |->
                IF k = Len(frames) THEN 1000
                ELSE Min({GetIPRatio(frames[k], frames[m]) : m \in ComparedWith(frames, k)})][i] = Ratio(frames, i)
  BY DEF Ratio
<1>2. QED
  BY <1>1 DEF ComputeTwoPass, Hidden, Guided, Changes, ComparedWith, Ratio

\* the frames are one after the other, and none is lost
LEMMA SameIntra ==
  ASSUME NEW frames \in Seq(Sized), NEW c, NEW fr, fr = ComputeTwoPass(frames, c)
  PROVE  /\ Len(fr) = Len(frames) /\ Len(frames) \in Nat /\ DOMAIN fr = 1 .. Len(frames)
         /\ \A i \in 1 .. Len(frames) : fr[i].intra = frames[i].intra /\ fr[i].size \in {0, frames[i].size}
         /\ (fr = <<>> <=> Len(frames) = 0)
<1> DEFINE n == Len(frames)
<1>1. n \in Nat
  BY SizesOfFrames
<1>2. fr = [i \in 1 .. n |-> fr[i]]
  BY TwoPassIs DEF Hidden, Guided
<1>3. \A i \in 1 .. n : fr[i].intra = frames[i].intra /\ fr[i].size \in {0, frames[i].size}
  BY TwoPassIs DEF Hidden, Guided
<1>4. Len(fr) = n
  <2> DEFINE S == {fr[i] : i \in 1 .. n}
  <2>1. fr \in [1 .. n -> S]
    BY <1>2
  <2> HIDE DEF S, n
  <2>2. QED
    BY <1>1, <2>1, LengthOfFunction
<1>5. fr = <<>> <=> n = 0
  <2>1. fr = <<>> => n = 0
    BY <1>4
  <2>2. ASSUME n = 0 PROVE fr = <<>>
    <3>1. fr \in [1 .. 0 -> {}]
      BY <1>2, <2>2
    <3>2. fr \in Seq({})
      BY <3>1, LengthOfFunction
    <3>3. QED
      BY <1>4, <2>2, <3>2, EmptySeq
  <2>3. QED
    BY <2>1, <2>2
<1>6. QED
  BY <1>1, <1>2, <1>3, <1>4, <1>5

\* a pattern is one of intra shares
LEMMA SamePattern ==
  ASSUME NEW a, NEW b, Len(a) = Len(b), Len(a) \in Nat, \A i \in 1 .. Len(a) : a[i].intra = b[i].intra
  PROVE  HasPatternTwoFrames(a) = HasPatternTwoFrames(b)
<1> DEFINE n == Len(a)
           Za == {i \in 2 .. n : a[i].intra = 0}
           Zb == {i \in 2 .. n : b[i].intra = 0}
<1>1. Za = Zb
  OBVIOUS
<1>2. HasPatternTwoFrames(a) =
        LET zeros == Za
            gaps == {i - 1 - Max({1} \cup {j \in zeros : j < i}) : i \in zeros}
        IN n >= 5 /\ Cardinality(zeros) >= (n - 1) \div 2 /\ Max({0} \cup gaps) = 1
  BY DEF HasPatternTwoFrames
<1>3. HasPatternTwoFrames(b) =
        LET zeros == Zb
            gaps == {i - 1 - Max({1} \cup {j \in zeros : j < i}) : i \in zeros}
        IN n >= 5 /\ Cardinality(zeros) >= (n - 1) \div 2 /\ Max({0} \cup gaps) = 1
  BY DEF HasPatternTwoFrames
<1> HIDE DEF Za, Zb, n
<1>4. QED
  BY <1>1, <1>2, <1>3

SpentOn(fr, k) == MapThenSumSet(LAMBDA i : fr[i].plan.complexity - 1000, 1 .. k)
FitsAt(fr, c, k) ==
  /\ SpentOn(fr, k) <= (c.ird + k) * c.rate
  /\ -SpentOn(fr, k) <= (c.cpb - c.ird + k) * c.rate

Spends(fr, f, n) == \A i \in 1 .. n : fr[i].plan.complexity - 1000 = f[i]

\* the fold over the complexities of the first k pictures
LEMMA SpentIsSum ==
  ASSUME NEW n \in Nat, NEW fr, NEW f \in Row(n), Spends(fr, f, n), NEW T, IsSum(T, f, n), NEW k \in 1 .. n
  PROVE  SpentOn(fr, k) = T[1 .. k]
<1> DEFINE S == 1 .. k
           Fills(iter) == iter = [s \in SUBSET S |->
             IF s = {} THEN 0
             ELSE (fr[CHOOSE x \in s : TRUE].plan.complexity - 1000) + iter[s \ {CHOOSE x \in s : TRUE}]]
           c == CHOOSE iter : Fills(iter)
<1>0. SpentOn(fr, k) = c[S]
  BY DEF SpentOn, MapThenSumSet, MapThenFoldSet
<1> HIDE DEF c, Fills
<1>1. S \in SUBSET (1 .. n)
  OBVIOUS
<1> HIDE DEF S
<1>3. ASSUME NEW iter PROVE Fills(iter) <=> Folded(iter, S, f)
  <2>1. ASSUME NEW s \in SUBSET S, s # {}
        PROVE  fr[CHOOSE x \in s : TRUE].plan.complexity - 1000 = f[CHOOSE x \in s : TRUE]
    <3>1. (CHOOSE x \in s : TRUE) \in 1 .. n
      BY <2>1, <1>1
    <3>2. QED
      BY <3>1 DEF Spends
  <2>2. [s \in SUBSET S |->
           IF s = {} THEN 0
           ELSE (fr[CHOOSE x \in s : TRUE].plan.complexity - 1000) + iter[s \ {CHOOSE x \in s : TRUE}]]
        = [s \in SUBSET S |->
           IF s = {} THEN 0
           ELSE f[CHOOSE x \in s : TRUE] + iter[s \ {CHOOSE x \in s : TRUE}]]
    BY <2>1
  <2>3. QED
    BY <2>2 DEF Folded, Fills
<1>4. Fills(c)
  <2>1. \E iter : Fills(iter)
    BY <1>1, <1>3, FoldAtLeastCardinality DEF Row
  <2>2. QED
    BY <2>1 DEF c
<1>5. c[S] = T[S]
  BY <1>1, <1>3, <1>4, FoldIsSum DEF Row
<1>6. QED
  BY <1>0, <1>5 DEF S

\* the coefficient holds the levels within the buffer
LEMMA DampingFits ==
  ASSUME NEW n \in Nat, NEW relative \in Row(n), NEW c \in Channel, NEW k \in 0 .. n
  PROVE  LET q == Damping(n, relative, c)
             l == BufferLevels(relative, c.rate)[k]
         IN /\ q \in 0 .. 1000 /\ l \in Int
            /\ q * l <= 1000 * (c.cpb - c.ird) /\ -(q * l) <= 1000 * c.ird
<1> DEFINE q == Damping(n, relative, c)
           g == BufferLevels(relative, c.rate)
           l == g[k]
           highest == Max(LevelsReached(n, relative, c.rate))
           lowest == Min(LevelsReached(n, relative, c.rate))
<1>1. c.rate \in Nat \ {0} /\ c.cpb - c.ird \in Nat /\ c.ird \in Nat
  BY DEF Channel
<1>2. g \in [0 .. n -> Int]
  BY <1>1, LevelsFacts
<1>3. LevelsReached(n, relative, c.rate) = {g[i] : i \in 0 .. n}
  BY DEF LevelsReached
<1>4. q = Coefficient(highest, lowest, c)
  BY DEF Damping
<1> HIDE DEF g, q
<1>5. highest \in Int /\ lowest \in Int /\ lowest <= l /\ l <= highest
  BY <1>2, <1>3, ExtremesOf
<1> HIDE DEF highest, lowest
<1>6. /\ q \in 0 .. 1000
      /\ highest > 0 => q * highest <= (c.cpb - c.ird) * 1000
      /\ lowest < 0 => q * (-lowest) <= c.ird * 900
  BY <1>4, <1>5, CoefficientFits
<1>7. l \in Int
  BY <1>2
<1> DEFINE up == c.cpb - c.ird
           down == c.ird
<1>8. /\ up \in Nat /\ down \in Nat
      /\ highest > 0 => q * highest <= up * 1000
      /\ lowest < 0 => q * (-lowest) <= down * 900
  BY <1>1, <1>6
<1> HIDE DEF up, down, l
<1>9. q * l <= 1000 * up
  <2>1. CASE l <= 0
    <3> DEFINE m == -l
    <3>1. m \in Nat /\ l = -m
      BY <1>7, <2>1
    <3> HIDE DEF m
    <3>2. q * m \in Nat /\ q * l = -(q * m)
      BY <1>6, <3>1
    <3>3. QED
      BY <1>8, <3>2
  <2>2. CASE l > 0
    <3> DEFINE d == highest - l
    <3>1. d \in Nat /\ highest = l + d /\ highest > 0
      BY <1>5, <1>7, <2>2
    <3> HIDE DEF d
    <3>2. q * highest = q * l + q * d /\ q * d \in Nat /\ q * l \in Int
      BY <1>6, <1>7, <3>1
    <3>3. QED
      BY <1>8, <3>1, <3>2
  <2>3. QED
    BY <1>7, <2>1, <2>2
<1>10. -(q * l) <= 1000 * down
  <2>1. CASE l >= 0
    <3>1. q * l \in Nat
      BY <1>6, <1>7, <2>1
    <3>2. QED
      BY <1>8, <3>1
  <2>2. CASE l < 0
    <3> DEFINE d == l - lowest
    <3>1. d \in Nat /\ -lowest = d - l /\ lowest < 0
      BY <1>5, <1>7, <2>2
    <3> HIDE DEF d
    <3>2. q * (-lowest) = q * d - q * l /\ q * d \in Nat /\ q * l \in Int
      BY <1>6, <1>7, <3>1
    <3>3. QED
      BY <1>8, <3>1, <3>2
  <2>3. QED
    BY <1>7, <2>1, <2>2
<1>11. QED
  BY <1>6, <1>7, <1>9, <1>10 DEF q, l, g, up, down

\* a planned sequence fits
LEMMA PlanFits ==
  ASSUME NEW frames \in Seq(Sized), NEW c \in Channel, c.gop > 0, ~HasPatternTwoFrames(frames),
         NEW fr, fr = ComputeTwoPass(frames, c), NEW k \in 1 .. Len(frames)
  PROVE  FitsAt(fr, c, k)
<1> DEFINE n == Len(frames)
           start == GroupStart(Changes(frames), c.gop)
           relative == Relative(frames, start)
           q == Damping(n, relative, c)
           f == [i \in 1 .. n |-> Quotient(relative[i] * q, 1000)]
<1>1. n \in Nat \ {0}
  BY SizesOfFrames
<1>2. start[1] = 1
  <2>1. Changes(frames) \in [1 .. n -> BOOLEAN]
    BY DEF Changes, SceneChangeDetected
  <2>2. c.gop \in Nat
    BY DEF Channel
  <2> HIDE DEF n
  <2>3. QED
    BY <1>1, <2>1, <2>2, FirstStarts
<1>3. relative \in Row(n)
  <2>1. frames # <<>>
    BY <1>1
  <2> HIDE DEF start
  <2>2. QED
    BY <1>2, <2>1, RelativeIsInt DEF Row
<1>4. ASSUME NEW i \in 1 .. n PROVE fr[i].plan.complexity = Quotient(relative[i] * q, 1000) + 1000
  <2>1. fr[i].plan = ComputeComplexity(frames, Changes(frames), c)[i]
    BY TwoPassIs DEF Guided, Channel
  <2>2. ComputeComplexity(frames, Changes(frames), c)[i].complexity = Quotient(relative[i] * q, 1000) + 1000
    BY PlanOf
  <2>3. QED
    BY <2>1, <2>2
<1>5. c.rate \in Nat \ {0} /\ c.cpb - c.ird \in Nat /\ c.ird \in Nat
  BY DEF Channel
<1> HIDE DEF n, start, relative, q
<1>6. /\ q \in 0 .. 1000 /\ BufferLevels(relative, c.rate)[k] \in Int
      /\ q * BufferLevels(relative, c.rate)[k] <= 1000 * (c.cpb - c.ird)
      /\ -(q * BufferLevels(relative, c.rate)[k]) <= 1000 * c.ird
  <2>1. k \in 0 .. n /\ n \in Nat
    BY <1>1 DEF n
  <2>2. QED
    BY <1>3, <2>1, DampingFits DEF q
<1>7. ASSUME NEW i \in 1 .. n PROVE relative[i] \in Int /\ Quotient(relative[i] * q, 1000) \in Int
  <2> DEFINE z == relative[i] * q
             h == 1000
  <2>1. relative[i] \in Int
    BY <1>3 DEF Row
  <2>2. z \in Int /\ h \in Nat \ {0}
    BY <1>6, <2>1
  <2> HIDE DEF z, h
  <2>3. Quotient(z, h) \in Int
    BY <2>2, QuotientFacts
  <2>4. QED
    BY <2>1, <2>3 DEF z, h
<1>8. f \in [1 .. n -> Int] /\ f \in Row(n) /\ Damped(f, n, relative, q)
  BY <1>7 DEF Damped, Row
<1>9. Spends(fr, f, n)
  BY <1>4, <1>7 DEF Spends
<1> HIDE DEF f
<1>10. PICK T : IsSum(T, f, n)
  <2>1. \E T \in [SUBSET (1 .. n) -> Int] : Additive(T, f, n)
    BY <1>1, <1>8, SumsExist
  <2>2. QED
    BY <2>1 DEF IsSum
<1>11. k \in 1 .. n /\ k \in 0 .. n /\ k \in Nat
  BY <1>1 DEF n
<1>12. SpentOn(fr, k) = T[1 .. k]
  BY <1>1, <1>8, <1>9, <1>10, <1>11, SpentIsSum
<1>13. T[1 .. k] \in Int
  <2>1. 1 .. k \in SUBSET (1 .. n)
    BY <1>1, <1>11
  <2>2. QED
    BY <1>10, <2>1 DEF IsSum
<1>14. Near(T[1 .. k], BufferLevels(relative, c.rate)[k], q, c.rate, k)
  BY <1>1, <1>3, <1>5, <1>6, <1>8, <1>10, <1>11, SpentFollowsLevel
<1> DEFINE t == T[1 .. k]
           l == BufferLevels(relative, c.rate)[k]
           up == c.cpb - c.ird
           down == c.ird
           rate == c.rate
<1>15. /\ t \in Int /\ l \in Int /\ up \in Nat /\ down \in Nat /\ rate \in Nat \ {0}
       /\ Held(l, q, up, down)
       /\ Near(t, l, q, rate, k)
  BY <1>5, <1>6, <1>13, <1>14 DEF Held
<1> HIDE DEF t, l, up, down, rate
<1>16. t <= (down + k) * rate /\ -t <= (up + k) * rate
  BY <1>6, <1>11, <1>15, BoundsOfSpent
<1>17. QED
  BY <1>12, <1>16 DEF FitsAt, t, up, down, rate

LEMMA MinOfTwo ==
  ASSUME NEW a \in Int, NEW b \in Int
  PROVE  Min({a, b}) = IF a <= b THEN a ELSE b
<1>1. \E x \in {a, b} : \A y \in {a, b} : x <= y
  OBVIOUS
<1>2. Min({a, b}) \in {a, b} /\ \A y \in {a, b} : Min({a, b}) <= y
  BY <1>1 DEF Min
<1>3. QED
  BY <1>2

\* both managers see the same change, and the same ratio, of pictures that agree
LEMMA SeesTheSame ==
  ASSUME NEW a, NEW b, NEW x, NEW y,
         a.intra = x.intra, b.intra = y.intra, a.size = x.size, b.size = y.size
  PROVE  /\ SceneChangeDetected(a, b) = SceneChangeDetected(x, y)
         /\ GetIPRatio(a, b) = GetIPRatio(x, y)
BY DEF SceneChangeDetected, GetIPRatio

\* what the look-ahead says with m pictures in its FIFO
SaidRatios(fifo) ==
  {GetIPRatio(fifo[1], fifo[2])}
    \cup {GetIPRatio(fifo[1], fifo[j + 1]) : j \in 2 .. Min({GetNextSceneChange(fifo), 4}) - 1}

\* how far it looks: to the third picture behind the first, to the end of the
\* FIFO, or to a scene change
LEMMA LooksAsFar ==
  ASSUME NEW fifo, NEW m \in Nat, Len(fifo) = m, m >= 2,
         ~SceneChangeDetected(fifo[1], fifo[2]), NEW j \in 2 .. 3
  PROVE  j \in 2 .. Min({GetNextSceneChange(fifo), 4}) - 1
           <=> j < m /\ \A x \in 2 .. j : ~SceneChangeDetected(fifo[x], fifo[x + 1])
<1> DEFINE C == {x \in 1 .. m - 1 : SceneChangeDetected(fifo[x], fifo[x + 1])}
           next == GetNextSceneChange(fifo)
<1>1. next = IF C = {} THEN m ELSE Min(C)
  BY DEF GetNextSceneChange
<1>2. C \in SUBSET Nat /\ 1 \notin C /\ C \subseteq 1 .. m - 1
  OBVIOUS
<1>3. \A x \in 1 .. m - 1 : x \in C <=> SceneChangeDetected(fifo[x], fifo[x + 1])
  OBVIOUS
<1> HIDE DEF C, next
<1>4. C # {} => next \in C /\ \A x \in C : next <= x
  BY <1>1, <1>2, MinOfNats
<1>5. next \in Nat
  BY <1>1, <1>2, <1>4
<1>6. Min({next, 4}) = IF next <= 4 THEN next ELSE 4
  BY <1>5, MinOfTwo
<1>7. j \in 2 .. Min({next, 4}) - 1 <=> j < next
  BY <1>5, <1>6
<1>8. ASSUME j < next PROVE j < m /\ \A x \in 2 .. j : ~SceneChangeDetected(fifo[x], fifo[x + 1])
  <2>1. j < m
    BY <1>1, <1>2, <1>4, <1>5, <1>8
  <2>2. ASSUME NEW x \in 2 .. j PROVE ~SceneChangeDetected(fifo[x], fifo[x + 1])
    <3>1. x \in 1 .. m - 1
      BY <2>1
    <3>2. x \notin C
      BY <1>4, <1>5, <1>8
    <3>3. QED
      BY <1>3, <3>1, <3>2
  <2>3. QED
    BY <2>1, <2>2
<1>9. ASSUME j < m, \A x \in 2 .. j : ~SceneChangeDetected(fifo[x], fifo[x + 1]) PROVE j < next
  <2>1. CASE C = {}
    BY <1>1, <1>9, <2>1
  <2>2. CASE C # {}
    <3>1. next \in C /\ next \in 1 .. m - 1 /\ next # 1
      BY <1>2, <1>4, <2>2
    <3>2. ~(next \in 2 .. j)
      BY <1>3, <1>9, <3>1
    <3>3. QED
      BY <3>1, <3>2
  <2>3. QED
    BY <2>1, <2>2
<1>10. QED
  BY <1>7, <1>8, <1>9 DEF next

LEMMA NextIsNat ==
  ASSUME NEW fifo, NEW m \in Nat, Len(fifo) = m
  PROVE  Min({GetNextSceneChange(fifo), 4}) \in Int /\ Min({GetNextSceneChange(fifo), 4}) <= 4
<1> DEFINE C == {x \in 1 .. m - 1 : SceneChangeDetected(fifo[x], fifo[x + 1])}
           next == GetNextSceneChange(fifo)
<1>1. next = IF C = {} THEN m ELSE Min(C)
  BY DEF GetNextSceneChange
<1>2. C \in SUBSET Nat
  OBVIOUS
<1> HIDE DEF C, next
<1>3. next \in Nat
  BY <1>1, <1>2, MinOfNats
<1>4. Min({next, 4}) = IF next <= 4 THEN next ELSE 4
  BY <1>3, MinOfTwo
<1>5. QED
  BY <1>3, <1>4 DEF next

Window(fr, n, i, w) == SubSeq(fr, i, Min({n, i + w - 1}))
WindowSize(n, i, w) == IF n - i + 1 <= w THEN n - i + 1 ELSE w
Shows(fifo, m, fr, i) == m \in Nat \ {0} /\ Len(fifo) = m /\ \A j \in 1 .. m : fifo[j] = fr[i + j - 1]
IsTuple(fr, n) == fr = [j \in 1 .. n |-> fr[j]]

\* the first pictures of a window on the log
LEMMA WindowOf ==
  ASSUME NEW n \in Nat, NEW fr, IsTuple(fr, n),
         NEW i \in 1 .. n, NEW w \in Nat \ {0}
  PROVE  Shows(Window(fr, n, i, w), WindowSize(n, i, w), fr, i)
<1> DEFINE fifo == Window(fr, n, i, w)
           m == WindowSize(n, i, w)
           last == Min({n, i + w - 1})
           S == {fr[j] : j \in 1 .. n}
<1>1. last = i + m - 1 /\ m \in Nat \ {0} /\ last \in i .. n
  <2>1. n \in Int /\ i + w - 1 \in Int
    OBVIOUS
  <2>2. last = IF n <= i + w - 1 THEN n ELSE i + w - 1
    BY <2>1, MinOfTwo
  <2>3. QED
    BY <2>2 DEF WindowSize
<1> HIDE DEF last
<1>2. fr \in [1 .. n -> S]
  BY DEF IsTuple
<1> HIDE DEF S
<1>3. fr \in Seq(S) /\ Len(fr) = n
  BY <1>2, LengthOfFunction
<1>4. /\ Len(SubSeq(fr, i, last)) = last - i + 1
      /\ \A j \in 1 .. last - i + 1 : SubSeq(fr, i, last)[j] = fr[i + j - 1]
  BY <1>1, <1>3, SubSeqProperties
<1>5. fifo = SubSeq(fr, i, last) /\ last - i + 1 = m
  BY <1>1 DEF last, Window
<1>6. QED
  BY <1>1, <1>4, <1>5 DEF Shows

LEMMA LookAheadSays ==
  ASSUME NEW frames \in Seq(Sized), NEW c, ~HasPatternTwoFrames(frames),
         NEW fr, fr = ComputeTwoPass(frames, c), NEW i \in 1 .. Len(frames), NEW w \in Nat \ {0},
         NEW said, said = ProcessLookAheadParams(SubSeq(fr, i, Min({Len(frames), i + w - 1})))
  PROVE  /\ w > 1 => said.change = fr[i].change
         /\ w >= 4 /\ ~said.change => said.ratio = fr[i].ratio
<1> DEFINE n == Len(frames)
           fifo == SubSeq(fr, i, Min({n, i + w - 1}))
           m == IF n - i + 1 <= w THEN n - i + 1 ELSE w
           ch == Changes(frames)
<1>1. n \in Nat /\ i \in 1 .. n /\ DOMAIN fr = 1 .. n
  BY SameIntra
<1>2. ASSUME NEW j \in 1 .. n
      PROVE  /\ fr[j].intra = frames[j].intra /\ fr[j].size = frames[j].size
             /\ fr[j].change = ch[j] /\ fr[j].ratio = Ratio(frames, j)
  BY TwoPassIs DEF Guided
<1>3. IsTuple(fr, n)
  BY TwoPassIs DEF Guided, IsTuple
<1>4. \A j \in 1 .. n : ch[j] = (j < n /\ SceneChangeDetected(frames[j], frames[j + 1]))
  BY DEF Changes
<1>5. Ratio(frames, i) = IF i = n THEN 1000 ELSE Min({GetIPRatio(frames[i], frames[k]) : k \in ComparedWith(frames, i)})
  BY DEF Ratio
<1>6. ComparedWith(frames, i) = {k \in i + 1 .. Min({n, i + 3}) : \A j \in i + 2 .. k : ~ch[j - 1]}
  BY DEF ComparedWith
<1>7. said = IF Len(fifo) < 2 THEN [change |-> FALSE, ratio |-> 1000]
             ELSE [change |-> SceneChangeDetected(fifo[1], fifo[2]), ratio |-> Min(SaidRatios(fifo))]
  BY DEF ProcessLookAheadParams, SaidRatios
<1> HIDE DEF n, ch
<1>15. fifo = Window(fr, n, i, w) /\ m = WindowSize(n, i, w)
  BY DEF Window, WindowSize
<1>14. /\ fifo = SubSeq(fr, i, Min({n, i + w - 1}))
       /\ m = IF n - i + 1 <= w THEN n - i + 1 ELSE w
  OBVIOUS
<1> HIDE DEF fifo, m
<1>8. m \in Nat \ {0} /\ Len(fifo) = m /\ \A j \in 1 .. m : fifo[j] = fr[i + j - 1]
  <2>1. Shows(fifo, m, fr, i)
    BY <1>1, <1>3, <1>15, WindowOf
  <2>2. QED
    BY <2>1 DEF Shows
<1>9. ASSUME NEW j \in 1 .. m PROVE i + j - 1 \in 1 .. n /\ fifo[j].intra = frames[i + j - 1].intra
                                    /\ fifo[j].size = frames[i + j - 1].size
  <2>1. i + j - 1 \in 1 .. n
    BY <1>1, <1>8, <1>14
  <2>2. QED
    BY <1>2, <1>8, <2>1
<1>10. ASSUME NEW j \in 1 .. m - 1
       PROVE  /\ SceneChangeDetected(fifo[j], fifo[j + 1]) = ch[i + j - 1]
              /\ GetIPRatio(fifo[1], fifo[j + 1]) = GetIPRatio(frames[i], frames[i + j])
  <2>1. j \in 1 .. m /\ j + 1 \in 1 .. m /\ 1 \in 1 .. m /\ i + (j + 1) - 1 = i + j /\ i + 1 - 1 = i
    BY <1>1, <1>8
  <2>2. /\ fifo[j].intra = frames[i + j - 1].intra /\ fifo[j].size = frames[i + j - 1].size
        /\ fifo[j + 1].intra = frames[i + j].intra /\ fifo[j + 1].size = frames[i + j].size
        /\ fifo[1].intra = frames[i].intra /\ fifo[1].size = frames[i].size
    BY <1>9, <2>1
  <2>3. i + j - 1 \in 1 .. n /\ i + j \in 1 .. n /\ (i + j - 1) + 1 = i + j
    BY <1>9, <2>1
  <2>4. SceneChangeDetected(fifo[j], fifo[j + 1]) = SceneChangeDetected(frames[i + j - 1], frames[i + j])
    BY <2>2, SeesTheSame
  <2>5. GetIPRatio(fifo[1], fifo[j + 1]) = GetIPRatio(frames[i], frames[i + j])
    BY <2>2 DEF GetIPRatio
  <2>6. ch[i + j - 1] = SceneChangeDetected(frames[i + j - 1], frames[i + j])
    <3>1. i + j - 1 < n
      BY <2>3, <1>1
    <3>2. SceneChangeDetected(frames[i + j - 1], frames[i + j]) \in BOOLEAN
      BY DEF SceneChangeDetected
    <3>3. QED
      BY <1>4, <2>3, <3>1, <3>2
  <2>7. QED
    BY <2>4, <2>5, <2>6
<1>11. CASE i = n
  <2>1. m = 1
    BY <1>1, <1>11, <1>14
  <2>2. said = [change |-> FALSE, ratio |-> 1000]
    <3>1. Len(fifo) < 2
      BY <1>8, <2>1
    <3>2. QED
      BY <1>7, <3>1
  <2>3. ch[i] = FALSE /\ Ratio(frames, i) = 1000
    <3>1. ch[i] = (i < n /\ SceneChangeDetected(frames[i], frames[i + 1]))
      BY <1>1, <1>4
    <3>2. ~(i < n)
      BY <1>1, <1>11
    <3>3. (i < n /\ SceneChangeDetected(frames[i], frames[i + 1])) = FALSE
      BY <3>2
    <3>4. ch[i] = FALSE
      BY <3>1, <3>3
    <3>5. QED
      BY <1>5, <1>11, <3>4
  <2>4. fr[i].change = FALSE /\ fr[i].ratio = 1000
    BY <1>1, <1>2, <2>3
  <2>5. said.change = FALSE /\ said.ratio = 1000
    BY <2>2
  <2>6. QED
    BY <2>4, <2>5
<1>12. CASE i # n /\ w > 1
  <2>1. m >= 2 /\ 1 \in 1 .. m - 1 /\ i + 1 - 1 = i
    BY <1>1, <1>12, <1>14
  <2>2. said = [change |-> SceneChangeDetected(fifo[1], fifo[2]), ratio |-> Min(SaidRatios(fifo))]
    BY <1>7, <1>8, <2>1
  <2>3. SceneChangeDetected(fifo[1], fifo[2]) = ch[i]
    BY <1>10, <2>1
  <2>4. said.change = fr[i].change
    BY <1>1, <1>2, <2>2, <2>3
  <2>5. ASSUME w >= 4, ~said.change PROVE said.ratio = fr[i].ratio
    <3>1. ~ch[i] /\ ~SceneChangeDetected(fifo[1], fifo[2])
      BY <2>2, <2>3, <2>5
    <3>2. \A j \in 2 .. 3 : j < m <=> i + j <= n
      BY <1>1, <1>14, <2>5
    <3>3. ASSUME NEW j \in 2 .. 3
          PROVE  j \in 2 .. Min({GetNextSceneChange(fifo), 4}) - 1 <=> i + j \in ComparedWith(frames, i)
      <4>1. j \in 2 .. Min({GetNextSceneChange(fifo), 4}) - 1
              <=> j < m /\ \A x \in 2 .. j : ~SceneChangeDetected(fifo[x], fifo[x + 1])
        BY <1>8, <2>1, <3>1, LooksAsFar
      <4>2. i + j \in i + 1 .. Min({n, i + 3}) <=> i + j <= n
        <5>1. Min({n, i + 3}) = IF n <= i + 3 THEN n ELSE i + 3
          BY <1>1, MinOfTwo
        <5>2. QED
          BY <1>1, <5>1
      <4>3. ASSUME j < m
            PROVE  (\A x \in 2 .. j : ~SceneChangeDetected(fifo[x], fifo[x + 1]))
                     <=> \A y \in i + 2 .. i + j : ~ch[y - 1]
        <5>1. \A x \in 2 .. j : SceneChangeDetected(fifo[x], fifo[x + 1]) = ch[i + x - 1]
          BY <1>8, <1>10, <4>3
        <5>2. ASSUME \A x \in 2 .. j : ~SceneChangeDetected(fifo[x], fifo[x + 1]), NEW y \in i + 2 .. i + j
              PROVE  ~ch[y - 1]
          <6> DEFINE x == y - i
          <6>1. x \in 2 .. j /\ i + x - 1 = y - 1
            BY <1>1
          <6> HIDE DEF x
          <6>2. QED
            BY <5>1, <5>2, <6>1
        <5>3. ASSUME \A y \in i + 2 .. i + j : ~ch[y - 1], NEW x \in 2 .. j
              PROVE  ~SceneChangeDetected(fifo[x], fifo[x + 1])
          <6> DEFINE y == i + x
          <6>1. y \in i + 2 .. i + j /\ i + x - 1 = y - 1
            BY <1>1
          <6> HIDE DEF y
          <6>2. ~ch[y - 1]
            BY <5>3, <6>1
          <6>3. QED
            BY <5>1, <6>1, <6>2
        <5>4. QED
          BY <5>2, <5>3
      <4>4. i + j \in ComparedWith(frames, i) <=> i + j <= n /\ \A y \in i + 2 .. i + j : ~ch[y - 1]
        BY <1>6, <4>2
      <4>5. QED
        BY <3>2, <4>1, <4>3, <4>4
    <3>4. i + 1 \in ComparedWith(frames, i)
      <4>1. i + 1 \in i + 1 .. Min({n, i + 3})
        <5>1. Min({n, i + 3}) = IF n <= i + 3 THEN n ELSE i + 3
          BY <1>1, MinOfTwo
        <5>2. QED
          BY <1>1, <1>12, <5>1
      <4>2. \A j \in i + 2 .. i + 1 : ~ch[j - 1]
        BY <1>1
      <4>3. QED
        BY <1>6, <4>1, <4>2
    <3>5. \A k \in ComparedWith(frames, i) : k \in i + 1 .. i + 3
      <4>1. Min({n, i + 3}) = IF n <= i + 3 THEN n ELSE i + 3
        BY <1>1, MinOfTwo
      <4>2. QED
        BY <1>1, <1>6, <4>1
    <3>6. \A j \in 2 .. Min({GetNextSceneChange(fifo), 4}) - 1 : j \in 2 .. 3 /\ j < m
      <4> DEFINE g == Min({GetNextSceneChange(fifo), 4})
      <4>1. g \in Int /\ g <= 4
        BY <1>8, <2>1, NextIsNat
      <4> HIDE DEF g
      <4>2. \A j \in 2 .. g - 1 : j \in 2 .. 3
        BY <4>1
      <4>3. ASSUME NEW j \in 2 .. g - 1 PROVE j < m
        <5>1. j \in 2 .. 3
          BY <4>2
        <5>2. j \in 2 .. Min({GetNextSceneChange(fifo), 4}) - 1
          BY DEF g
        <5>3. QED
          BY <1>8, <2>1, <3>1, <5>1, <5>2, LooksAsFar
      <4>4. QED
        BY <4>2, <4>3 DEF g
    <3> DEFINE Looked == 2 .. Min({GetNextSceneChange(fifo), 4}) - 1
               B == {GetIPRatio(frames[i], frames[k]) : k \in ComparedWith(frames, i)}
    <3>7. SaidRatios(fifo) = {GetIPRatio(fifo[1], fifo[2])} \cup {GetIPRatio(fifo[1], fifo[j + 1]) : j \in Looked}
      BY DEF SaidRatios
    <3>8. /\ \A j \in 2 .. 3 : j \in Looked <=> i + j \in ComparedWith(frames, i)
          /\ \A j \in Looked : j \in 2 .. 3 /\ j < m
      BY <3>3, <3>6
    <3> HIDE DEF Looked
    <3>9. ASSUME NEW j \in Looked
          PROVE GetIPRatio(fifo[1], fifo[j + 1]) = GetIPRatio(frames[i], frames[i + j])
      <4>1. j \in 1 .. m - 1
        BY <1>8, <3>8
      <4>2. QED
        BY <1>10, <4>1
    <3>10. GetIPRatio(fifo[1], fifo[2]) = GetIPRatio(frames[i], frames[i + 1])
      BY <1>10, <2>1
    <3>11. SaidRatios(fifo) \subseteq B
      <4>1. \A j \in Looked : i + j \in ComparedWith(frames, i)
        BY <3>8
      <4>2. QED
        BY <3>4, <3>7, <3>9, <3>10, <4>1
    <3>12. B \subseteq SaidRatios(fifo)
      <4> SUFFICES ASSUME NEW k \in ComparedWith(frames, i)
                   PROVE  GetIPRatio(frames[i], frames[k]) \in SaidRatios(fifo)
        OBVIOUS
      <4>1. CASE k = i + 1
        BY <3>7, <3>10, <4>1
      <4>2. CASE k # i + 1
        <5> DEFINE j == k - i
        <5>1. j \in 2 .. 3 /\ k = i + j
          BY <1>1, <3>5, <4>2
        <5> HIDE DEF j
        <5>2. j \in Looked
          BY <3>8, <5>1
        <5>3. QED
          BY <3>7, <3>9, <5>1, <5>2
      <4>3. QED
        BY <4>1, <4>2
    <3>13. SaidRatios(fifo) = B
      BY <3>11, <3>12
    <3>14. fr[i].ratio = Min(B)
      BY <1>1, <1>2, <1>5, <1>12
    <3>15. QED
      BY <2>2, <3>13, <3>14
  <2>6. QED
    BY <2>4, <2>5
<1>13. QED
  BY <1>11, <1>12

(***************************************************************************)
(* The passes.  In the second one the pictures that are read are a piece of   *)
(* the log, and the count of the pictures that were told goes with the place  *)
(* in it; without a restart the log is a beginning of what was seen.          *)
(***************************************************************************)
Piece(from, count) == SubSeq(log, from + 1, from + count)
ReadPiece(from, count) ==
  /\ from \in 0 .. Len(log) /\ count \in Nat /\ from + count = Len(log) - unread
  /\ tFrames = ComputeTwoPass(Piece(from, count), channel)
  /\ iCurrentFrame \in 0 .. count

PassTypeOK ==
  /\ iPass \in {1, 2} /\ opened \in BOOLEAN /\ restarts \in Nat
  /\ log \in Seq(Sized) /\ seen \in Seq(Sized) /\ told.n \in Nat
FirstPassOK ==
  iPass = 1 =>
    /\ tFrames \in Seq(Sized) /\ told = Nobody /\ iCurrentFrame = 0
    /\ restarts = 0 => log \o tFrames = seen /\ (~opened => log = <<>>)
SecondPassOK ==
  iPass = 2 =>
    /\ channel \in Channel /\ unread \in 0 .. Len(log)
    /\ \/ tFrames = <<>> /\ iCurrentFrame = 0
       \/ \E from, count : ReadPiece(from, count)
Begins(a, b) == Len(a) <= Len(b) /\ \A i \in 1 .. Len(a) : a[i] = b[i]
Matches(frame, picture) == frame.intra = picture.intra /\ frame.size \in {0, picture.size}
ToldOK ==
  iPass = 2 /\ restarts = 0 =>
    /\ Begins(log, seen)
    /\ told.n = (Len(log) - unread) - (Len(tFrames) - iCurrentFrame)
    /\ told.n > 0 => told.n <= Len(log) /\ Matches(told.frame, log[told.n])
PassInv == PassTypeOK /\ FirstPassOK /\ SecondPassOK /\ ToldOK

\* a piece of the log has its pictures
LEMMA PieceOf ==
  ASSUME log \in Seq(Sized), NEW from \in 0 .. Len(log), NEW count \in Nat, from + count <= Len(log)
  PROVE  /\ Piece(from, count) \in Seq(Sized) /\ Len(Piece(from, count)) = count
         /\ \A i \in 1 .. count : Piece(from, count)[i] = log[from + i]
<1>1. Len(log) \in Nat
  OBVIOUS
<1> DEFINE a == from + 1
           b == from + count
<1>2. a \in 1 .. Len(log) + 1 /\ b \in a - 1 .. Len(log) /\ b - a + 1 = count
  BY <1>1
<1>3. \A i \in 1 .. count : a + i - 1 = from + i
  BY <1>1
<1> HIDE DEF a, b
<1>4. /\ SubSeq(log, a, b) \in Seq(Sized) /\ Len(SubSeq(log, a, b)) = b - a + 1
      /\ \A i \in 1 .. b - a + 1 : SubSeq(log, a, b)[i] = log[a + i - 1]
  BY <1>1, <1>2, SubSeqProperties
<1>5. Piece(from, count) = SubSeq(log, a, b)
  BY DEF Piece, a, b
<1>6. QED
  BY <1>2, <1>3, <1>4, <1>5

LEMMA PieceRead ==
  ASSUME log \in Seq(Sized), unread \in 0 .. Len(log), NEW from, NEW count, ReadPiece(from, count)
  PROVE  /\ from \in 0 .. Len(log) /\ count \in Nat /\ from + count <= Len(log)
         /\ Len(tFrames) = count /\ (tFrames = <<>> <=> count = 0)
         /\ Piece(from, count) \in Seq(Sized) /\ Len(Piece(from, count)) = count
         /\ \A i \in 1 .. count : Matches(tFrames[i], log[from + i])
<1>1. from \in 0 .. Len(log) /\ count \in Nat /\ from + count <= Len(log) /\ Len(log) \in Nat
  BY DEF ReadPiece
<1>2. /\ Piece(from, count) \in Seq(Sized) /\ Len(Piece(from, count)) = count
      /\ \A i \in 1 .. count : Piece(from, count)[i] = log[from + i]
  BY <1>1, PieceOf
<1> DEFINE p == Piece(from, count)
<1>3. p \in Seq(Sized) /\ tFrames = ComputeTwoPass(p, channel)
  BY <1>2 DEF ReadPiece
<1> HIDE DEF p
<1>4. /\ Len(tFrames) = Len(p)
      /\ \A i \in 1 .. Len(p) : tFrames[i].intra = p[i].intra /\ tFrames[i].size \in {0, p[i].size}
      /\ (tFrames = <<>> <=> Len(p) = 0)
  BY <1>3, SameIntra
<1>5. QED
  BY <1>1, <1>2, <1>4 DEF p, Matches

\* the invariant says what the second pass is told
LEMMA PassInvGuides ==
  ASSUME PassInv
  PROVE  GuidedByFirstPass
<1>1. InStep
  <2>1. ASSUME iPass = 2, restarts = 0, told.n > 0
        PROVE  told.n <= Len(seen) /\ Matches(told.frame, seen[told.n])
    <3>1. told.n \in Nat /\ Len(log) \in Nat /\ Len(seen) \in Nat
      BY DEF PassInv, PassTypeOK
    <3>2. Begins(log, seen) /\ told.n <= Len(log) /\ Matches(told.frame, log[told.n])
      BY <2>1 DEF PassInv, ToldOK
    <3>3. told.n \in 1 .. Len(log)
      BY <2>1, <3>1, <3>2
    <3>4. QED
      BY <3>1, <3>2, <3>3 DEF Begins
  <2>2. QED
    BY <2>1 DEF InStep, Matches
<1>2. ASSUME Planned
      PROVE  \E frames \in Seq(Sized) :
               /\ tFrames = ComputeTwoPass(frames, channel) /\ Len(tFrames) = Len(frames)
               /\ ~HasPatternTwoFrames(frames) /\ channel \in Channel
  <2>1. iPass = 2 /\ tFrames # <<>> /\ ~HasPatternTwoFrames(tFrames)
    BY <1>2 DEF Planned
  <2>2. channel \in Channel /\ unread \in 0 .. Len(log) /\ log \in Seq(Sized)
    BY <2>1 DEF PassInv, PassTypeOK, SecondPassOK
  <2>3. PICK from, count : ReadPiece(from, count)
    BY <2>1 DEF PassInv, SecondPassOK
  <2> DEFINE p == Piece(from, count)
  <2>4. p \in Seq(Sized) /\ tFrames = ComputeTwoPass(p, channel)
    BY <2>2, <2>3, PieceRead DEF ReadPiece
  <2> HIDE DEF p
  <2>5. /\ Len(tFrames) = Len(p) /\ Len(p) \in Nat
        /\ \A i \in 1 .. Len(p) : tFrames[i].intra = p[i].intra
    BY <2>4, SameIntra
  <2>6. HasPatternTwoFrames(tFrames) = HasPatternTwoFrames(p)
    BY <2>5, SamePattern
  <2>7. QED
    BY <2>1, <2>2, <2>4, <2>5, <2>6
<1>3. LevelFits
  <2>1. ASSUME Planned, channel.gop > 0, NEW k \in 1 .. Len(tFrames) PROVE FitsAt(tFrames, channel, k)
    BY <1>2, <2>1, PlanFits
  <2>2. QED
    BY <2>1 DEF LevelFits, FitsAt, SpentOn
<1>4. LookAheadAgrees
  <2>1. ASSUME Planned, NEW i \in 1 .. Len(tFrames), NEW w \in LookAheadSizes,
               NEW said, said = ProcessLookAheadParams(SubSeq(tFrames, i, Min({Len(tFrames), i + w - 1})))
        PROVE  /\ w > 1 => said.change = tFrames[i].change
               /\ w >= 4 /\ ~said.change => said.ratio = tFrames[i].ratio
    <3>1. w \in Nat
      BY PassAssumption DEF SizesAssumption
    <3>2. CASE w = 0
      BY <3>2
    <3>3. CASE w # 0
      <4>1. w \in Nat \ {0}
        BY <3>1, <3>3
      <4>2. PICK frames \in Seq(Sized) :
               /\ tFrames = ComputeTwoPass(frames, channel) /\ Len(tFrames) = Len(frames)
               /\ ~HasPatternTwoFrames(frames)
        BY <1>2, <2>1
      <4>3. i \in 1 .. Len(frames) /\ said = ProcessLookAheadParams(SubSeq(tFrames, i, Min({Len(frames), i + w - 1})))
        BY <2>1, <4>2
      <4>4. QED
        BY <4>1, <4>2, <4>3, LookAheadSays, SMTT(60)
    <3>4. QED
      BY <3>2, <3>3
  <2>2. QED
    BY <2>1 DEF LookAheadAgrees
<1>5. QED
  BY <1>1, <1>3, <1>4 DEF GuidedByFirstPass

LEMMA PassStarts ==
  ASSUME PassInit PROVE PassInv
<1>1. <<>> \in Seq(Sized) /\ <<>> \o <<>> = <<>>
  OBVIOUS
<1>2. iPass = 1 /\ log = <<>> /\ seen = <<>> /\ tFrames = <<>> /\ told = Nobody /\ restarts = 0 /\ opened = FALSE
      /\ iCurrentFrame = 0
  BY DEF PassInit
<1>3. told.n = 0
  BY <1>2 DEF Nobody
<1>4. PassTypeOK
  <2>1. opened \in BOOLEAN
    BY <1>2
  <2>2. restarts \in Nat /\ told.n \in Nat
    BY <1>2, <1>3
  <2>3. QED
    BY <1>1, <1>2, <2>1, <2>2 DEF PassTypeOK
<1>5. FirstPassOK
  BY <1>1, <1>2 DEF FirstPassOK
<1>6. SecondPassOK /\ ToldOK
  BY <1>2 DEF SecondPassOK, ToldOK
<1>7. QED
  BY <1>4, <1>5, <1>6 DEF PassInv

LEMMA EndOfSequence ==
  ASSUME NEW a \in Seq(Sized), NEW b \in Seq(Sized), NEW x \in Sized
  PROVE  /\ Append(b, x) \in Seq(Sized) /\ a \o Append(b, x) = Append(a \o b, x) /\ a \o b \in Seq(Sized)
         /\ a \o <<>> = a /\ <<>> \o a = a
  OBVIOUS

LEMMA BeginsConcat ==
  ASSUME NEW a \in Seq(Sized), NEW b \in Seq(Sized)
  PROVE  Begins(a, a \o b)
BY DEF Begins

\* without a restart the log that is opened goes on with what was seen
LEMMA LogGoesOn ==
  ASSUME PassInv, iPass = 1, restarts = 0
  PROVE  (IF opened THEN log ELSE <<>>) = log /\ log \o tFrames = seen /\ tFrames \in Seq(Sized)
BY DEF PassInv, FirstPassOK

LEMMA PassAddFrame ==
  ASSUME PassInv, AddFrame PROVE PassInv'
<1>1. PICK picture \in Pictures :
        /\ seen' = Append(seen, picture)
        /\ LET frames == Append(tFrames, picture)
           IN IF Len(frames) >= SEQUENCE_SIZE_MAX THEN FillLog(frames)
              ELSE tFrames' = frames /\ UNCHANGED <<log, opened>>
  BY DEF AddFrame
<1>2. picture \in Sized
  BY PassAssumption DEF PicturesAssumption, Sized
<1>3. /\ iPass = 1 /\ iPass' = 1 /\ restarts' = restarts /\ told' = told /\ iCurrentFrame' = iCurrentFrame
  BY DEF AddFrame
<1>4. /\ tFrames \in Seq(Sized) /\ log \in Seq(Sized) /\ seen \in Seq(Sized) /\ opened \in BOOLEAN
      /\ told = Nobody /\ iCurrentFrame = 0 /\ restarts \in Nat /\ told.n \in Nat
  BY <1>3 DEF PassInv, PassTypeOK, FirstPassOK
<1> DEFINE frames == Append(tFrames, picture)
           base == IF opened THEN log ELSE <<>>
<1>5. frames \in Seq(Sized) /\ seen' \in Seq(Sized) /\ base \in Seq(Sized) /\ <<>> \in Seq(Sized)
  BY <1>1, <1>2, <1>4, EndOfSequence
<1>6. restarts = 0 => log \o frames = seen' /\ base = log
  BY <1>1, <1>2, <1>3, <1>4, LogGoesOn, EndOfSequence
<1> HIDE DEF frames
<1>7. CASE FillLog(frames)
  <2>1. log' = base \o frames /\ opened' = TRUE /\ tFrames' = <<>>
    BY <1>7 DEF FillLog
  <2> HIDE DEF base
  <2>2. log' \in Seq(Sized) /\ log' \o <<>> = log'
    BY <1>5, <2>1, ConcatProperties
  <2>3. restarts = 0 => log' \o tFrames' = seen'
    BY <1>6, <2>1, <2>2
  <2>4. QED
    BY <1>3, <1>4, <1>5, <2>1, <2>2, <2>3 DEF PassInv, PassTypeOK, FirstPassOK, SecondPassOK, ToldOK
<1>8. CASE tFrames' = frames /\ UNCHANGED <<log, opened>>
  <2>1. restarts = 0 => (~opened => log = <<>>)
    BY <1>3 DEF PassInv, FirstPassOK
  <2>2. QED
    BY <1>3, <1>4, <1>5, <1>6, <1>8, <2>1 DEF PassInv, PassTypeOK, FirstPassOK, SecondPassOK, ToldOK
<1>9. QED
  BY <1>1, <1>7, <1>8 DEF frames

LEMMA PassFlush ==
  ASSUME PassInv, Flush PROVE PassInv'
<1>3. /\ iPass = 1 /\ iPass' = 1 /\ restarts' = restarts /\ told' = told /\ iCurrentFrame' = iCurrentFrame
      /\ seen' = seen
  BY DEF Flush
<1>4. /\ tFrames \in Seq(Sized) /\ log \in Seq(Sized) /\ seen \in Seq(Sized) /\ opened \in BOOLEAN
      /\ told = Nobody /\ iCurrentFrame = 0 /\ restarts \in Nat /\ told.n \in Nat
  BY <1>3 DEF PassInv, PassTypeOK, FirstPassOK
<1> DEFINE base == IF opened THEN log ELSE <<>>
<1>5. base \in Seq(Sized) /\ <<>> \in Seq(Sized)
  BY <1>4
<1>6. restarts = 0 => log \o tFrames = seen /\ base = log
  BY <1>3, LogGoesOn
<1>7. log' = base \o tFrames /\ opened' = TRUE /\ tFrames' = <<>>
  BY DEF Flush, FillLog
<1> HIDE DEF base
<1>8. log' \in Seq(Sized) /\ log' \o <<>> = log'
  BY <1>4, <1>5, <1>7, ConcatProperties
<1>9. QED
  BY <1>3, <1>4, <1>5, <1>6, <1>7, <1>8 DEF PassInv, PassTypeOK, FirstPassOK, SecondPassOK, ToldOK

LEMMA PassRestart ==
  ASSUME PassInv, Restart PROVE PassInv'
<1>1. /\ restarts' = restarts + 1 /\ tFrames' = <<>> /\ iCurrentFrame' = 0 /\ opened' = FALSE
      /\ unread' = IF iPass = 2 THEN Len(log) ELSE unread
      /\ UNCHANGED <<channel, iPass, log, seen, told>>
  BY DEF Restart
<1>2. restarts \in Nat /\ log \in Seq(Sized) /\ restarts' # 0 /\ <<>> \in Seq(Sized) /\ Len(log) \in Nat
  BY <1>1 DEF PassInv, PassTypeOK
<1>3. PassTypeOK'
  <2>1. iPass \in {1, 2} /\ log \in Seq(Sized) /\ seen \in Seq(Sized) /\ told.n \in Nat
    BY DEF PassInv, PassTypeOK
  <2>2. restarts' \in Nat
    BY <1>1, <1>2
  <2>4. opened' \in BOOLEAN
    BY <1>1
  <2>3. QED
    BY <1>1, <2>1, <2>2, <2>4 DEF PassTypeOK
<1>4. FirstPassOK' /\ ToldOK'
  BY <1>1, <1>2 DEF PassInv, FirstPassOK, ToldOK
<1>5. SecondPassOK'
  BY <1>1, <1>2 DEF PassInv, SecondPassOK
<1>6. QED
  BY <1>3, <1>4, <1>5 DEF PassInv

LEMMA PassSecondPass ==
  ASSUME PassInv, SecondPass PROVE PassInv'
<1>1. /\ iPass = 1 /\ iPass' = 2 /\ channel' \in Channels /\ unread' = Len(log) /\ tFrames' = <<>> /\ opened' = FALSE
      /\ UNCHANGED <<log, iCurrentFrame, eos, seen, restarts, told>>
  BY DEF SecondPass
<1>2. channel' \in Channel
  BY <1>1, PassAssumption DEF ChannelsAssumption, Channel
<1>3. log \in Seq(Sized) /\ Len(log) \in Nat /\ told = Nobody /\ iCurrentFrame = 0 /\ Len(<<>>) = 0
  BY <1>1 DEF PassInv, PassTypeOK, FirstPassOK
<1>4. restarts = 0 => Begins(log, seen)
  BY <1>1, <1>3, LogGoesOn, BeginsConcat
<1>5. PassTypeOK'
  BY <1>1 DEF PassInv, PassTypeOK
<1>6. SecondPassOK' /\ FirstPassOK'
  BY <1>1, <1>2, <1>3 DEF SecondPassOK, FirstPassOK
<1>7. ToldOK'
  <2>1. told'.n = 0 /\ Len(tFrames') = 0 /\ iCurrentFrame' = 0 /\ Len(log') - unread' = 0
    BY <1>1, <1>3 DEF Nobody
  <2>2. restarts' = 0 => Begins(log', seen')
    BY <1>1, <1>4
  <2>3. told'.n = (Len(log') - unread') - (Len(tFrames') - iCurrentFrame') /\ ~(told'.n > 0)
    BY <2>1
  <2>4. Begins(log, seen)' = Begins(log', seen')
    BY DEF Begins
  <2>5. QED
    BY <2>2, <2>3, <2>4 DEF ToldOK
<1>8. QED
  BY <1>5, <1>6, <1>7 DEF PassInv

LEMMA PassGetFrame ==
  ASSUME PassInv, GetFrame PROVE PassInv'
<1> DEFINE empty == iCurrentFrame >= Len(tFrames)
           count == Min({unread, SEQUENCE_SIZE_MAX})
           from == Len(log) - unread
           frames == IF empty THEN ComputeTwoPass(SubSeq(log, from + 1, from + count), channel) ELSE tFrames
           current == IF empty THEN 0 ELSE iCurrentFrame
<1>1. /\ iPass = 2 /\ iPass' = 2 /\ channel' = channel /\ log' = log /\ seen' = seen /\ restarts' = restarts
      /\ opened' = TRUE
  BY DEF GetFrame
<1>2. /\ frames # <<>> /\ unread' = (IF empty THEN unread - count ELSE unread) /\ tFrames' = frames
      /\ iCurrentFrame' = current + 1
      /\ told' = [n |-> told.n + 1, frame |-> frames[current + 1]]
  BY DEF GetFrame
<1>3. /\ log \in Seq(Sized) /\ Len(log) \in Nat /\ channel \in Channel /\ unread \in 0 .. Len(log)
      /\ told.n \in Nat /\ SEQUENCE_SIZE_MAX \in Nat /\ log' \in Seq(Sized) /\ seen' \in Seq(Sized)
      /\ restarts' \in Nat
  BY <1>1, PassAssumption DEF PassInv, PassTypeOK, SecondPassOK, SizesAssumption
<1>4. PassTypeOK' /\ FirstPassOK'
  BY <1>1, <1>2, <1>3 DEF PassTypeOK, FirstPassOK
<1>5. /\ tFrames = <<>> /\ iCurrentFrame = 0
      \/ \E f, k : ReadPiece(f, k)
  BY <1>1 DEF PassInv, SecondPassOK
<1>6. ~empty => \E f, k : ReadPiece(f, k)
  BY <1>5
<1>7. PICK f, k :
        /\ f \in 0 .. Len(log) /\ k \in Nat /\ f + k = Len(log) - unread'
        /\ frames = ComputeTwoPass(Piece(f, k), channel)
        /\ current \in 0 .. k - 1 /\ Len(frames) = k /\ unread' \in 0 .. Len(log)
        /\ \A i \in 1 .. k : Matches(frames[i], log[f + i])
        /\ restarts = 0 => told.n = f + current
  <2>1. CASE empty
    <3>1. count = IF unread <= SEQUENCE_SIZE_MAX THEN unread ELSE SEQUENCE_SIZE_MAX
      BY <1>3, MinOfTwo
    <3>2. count \in Nat /\ count <= unread /\ from \in 0 .. Len(log) /\ from + count <= Len(log)
      BY <1>3, <3>1
    <3> DEFINE p == Piece(from, count)
    <3>3. frames = ComputeTwoPass(p, channel) /\ current = 0 /\ unread' = unread - count
      BY <1>2, <2>1 DEF Piece
    <3>4. from + count = Len(log) - unread' /\ unread' \in 0 .. Len(log)
      BY <1>3, <3>2, <3>3
    <3> HIDE DEF frames, current, count, from
    <3>5. /\ p \in Seq(Sized) /\ Len(p) = count
          /\ \A i \in 1 .. count : p[i] = log[from + i]
      BY <1>3, <3>2, PieceOf
    <3> HIDE DEF p
    <3>6. /\ Len(frames) = Len(p)
          /\ \A i \in 1 .. Len(p) : frames[i].intra = p[i].intra /\ frames[i].size \in {0, p[i].size}
          /\ (frames = <<>> <=> Len(p) = 0)
      BY <3>3, <3>5, SameIntra
    <3>7. count # 0 /\ \A i \in 1 .. count : Matches(frames[i], log[from + i])
      BY <1>2, <3>5, <3>6 DEF Matches
    <3>8. restarts = 0 => told.n = from + current
      <4>1. ASSUME restarts = 0 PROVE told.n = from
        <5>1. told.n = (Len(log) - unread) - (Len(tFrames) - iCurrentFrame)
          BY <1>1, <4>1 DEF PassInv, ToldOK
        <5>2. iCurrentFrame = Len(tFrames) /\ Len(tFrames) \in Nat
          <6>1. CASE tFrames = <<>> /\ iCurrentFrame = 0
            BY <6>1
          <6>2. CASE \E g, h : ReadPiece(g, h)
            <7>1. PICK g, h : ReadPiece(g, h)
              BY <6>2
            <7>2. Len(tFrames) = h /\ h \in Nat
              BY <1>3, <7>1, PieceRead
            <7>3. iCurrentFrame \in 0 .. h
              BY <7>1 DEF ReadPiece
            <7>4. QED
              BY <2>1, <7>2, <7>3
          <6>3. QED
            BY <1>5, <6>1, <6>2
        <5>3. QED
          BY <1>3, <5>1, <5>2 DEF from
      <4>2. QED
        BY <3>2, <3>3, <4>1
    <3>9. current \in 0 .. count - 1
      BY <3>2, <3>3, <3>7
    <3>10. QED
      BY <3>2, <3>3, <3>4, <3>5, <3>6, <3>7, <3>8, <3>9 DEF p
  <2>2. CASE ~empty
    <3>1. PICK g, h : ReadPiece(g, h)
      BY <1>6, <2>2
    <3>2. /\ g \in 0 .. Len(log) /\ h \in Nat /\ g + h = Len(log) - unread
          /\ tFrames = ComputeTwoPass(Piece(g, h), channel) /\ iCurrentFrame \in 0 .. h
      BY <3>1 DEF ReadPiece
    <3>3. Len(tFrames) = h /\ \A i \in 1 .. h : Matches(tFrames[i], log[g + i])
      BY <1>3, <3>1, PieceRead
    <3>4. frames = tFrames /\ current = iCurrentFrame /\ unread' = unread
      BY <1>2, <2>2
    <3>5. iCurrentFrame \in 0 .. h - 1
      BY <2>2, <3>2, <3>3
    <3> HIDE DEF frames, current, empty
    <3>6. restarts = 0 => told.n = g + current
      <4>1. ASSUME restarts = 0 PROVE told.n = (Len(log) - unread) - (Len(tFrames) - iCurrentFrame)
        BY <1>1, <4>1 DEF PassInv, ToldOK
      <4>2. QED
        BY <1>3, <3>2, <3>3, <3>4, <3>5, <4>1
    <3>7. QED
      BY <1>3, <3>2, <3>3, <3>4, <3>5, <3>6
  <2>3. QED
    BY <2>1, <2>2
<1> HIDE DEF frames, current, empty, count, from
<1>8. SecondPassOK'
  <2>1. iCurrentFrame' \in 0 .. k
    BY <1>2, <1>7
  <2>2. Piece(f, k)' = Piece(f, k)
    BY <1>1, <1>7 DEF Piece
  <2>3. ReadPiece(f, k)'
    BY <1>1, <1>2, <1>7, <2>1, <2>2 DEF ReadPiece
  <2>4. QED
    BY <1>1, <1>3, <1>7, <2>3 DEF SecondPassOK
<1>9. ToldOK'
  <2>1. ASSUME restarts = 0
        PROVE  /\ told'.n = f + (current + 1) /\ told'.frame = frames[current + 1] /\ told'.n \in Nat
               /\ current + 1 \in 1 .. k /\ Begins(log, seen)
    BY <1>1, <1>2, <1>3, <1>7, <2>1 DEF PassInv, ToldOK
  <2>2. ASSUME restarts = 0
        PROVE  /\ told'.n = (Len(log) - unread') - (k - (current + 1)) /\ told'.n <= Len(log)
               /\ Matches(told'.frame, log[told'.n])
    <3> DEFINE d == current + 1
    <3>1. d \in 1 .. k /\ told'.n = f + d /\ told'.frame = frames[d]
      BY <2>1, <2>2
    <3> HIDE DEF d
    <3>2. Matches(frames[d], log[f + d])
      BY <1>7, <3>1
    <3>3. told'.n = (Len(log) - unread') - (k - d) /\ told'.n <= Len(log)
      BY <1>3, <1>7, <3>1
    <3>4. QED
      BY <3>1, <3>2, <3>3 DEF d
  <2>3. QED
    BY <1>1, <1>2, <1>7, <2>1, <2>2 DEF ToldOK
<1>10. QED
  BY <1>4, <1>8, <1>9 DEF PassInv

LEMMA PassStep ==
  ASSUME PassInv, [PassNext]_passVars PROVE PassInv'
<1>1. CASE UNCHANGED passVars
  <2>1. /\ iPass' = iPass /\ opened' = opened /\ restarts' = restarts /\ log' = log /\ seen' = seen /\ told' = told
        /\ tFrames' = tFrames /\ iCurrentFrame' = iCurrentFrame /\ channel' = channel /\ unread' = unread
    BY <1>1 DEF passVars
  <2>2. PassTypeOK' /\ FirstPassOK'
    BY <2>1 DEF PassInv, PassTypeOK, FirstPassOK
  <2>3. SecondPassOK' /\ ToldOK'
    BY <2>1 DEF PassInv, SecondPassOK, ToldOK, ReadPiece, Piece, Begins, Matches
  <2>4. QED
    BY <2>2, <2>3 DEF PassInv
<1>2. QED
  BY <1>1, PassAddFrame, PassFlush, PassRestart, PassSecondPass, PassGetFrame DEF PassNext

(* The second pass is guided by what the first one saw of the same pictures,    *)
(* the plan of a sequence fits the buffer if every picture is as complex as      *)
(* planned, and a look-ahead of any size says of a picture what the log says     *)
(* where both look equally far: for any pictures, rate controls, length of a     *)
(* sequence and sizes of the look-ahead (FillLog, GetFrame, ComputeTwoPass,       *)
(* ComputeComplexity, ProcessLookAheadParams).                                    *)
THEOREM GuidedByFirstPassHolds == PassSpec => []GuidedByFirstPass
<1>1. PassInit => PassInv
  BY PassStarts
<1>2. PassInv /\ [PassNext]_passVars => PassInv'
  BY PassStep
<1>3. PassInv => GuidedByFirstPass
  BY PassInvGuides
<1>4. QED
  BY <1>1, <1>2, <1>3, PTL DEF PassSpec
=============================================================================
