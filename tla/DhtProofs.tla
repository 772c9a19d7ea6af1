---- MODULE DhtProofs ----
(***************************************************************************)
(* Theorems about the DHT model of a node: what its slices count, where    *)
(* they are cut, and what an exchange of snapshots with another node       *)
(* finds, for any number of sectors and ops, any time factor and unit of   *)
(* time, and any number of failed updates and crashes.                     *)
(***************************************************************************)
EXTENDS Snapshots, FiniteSetTheorems, TLAPS

----------------------------------------------------------------------------
(* Numbers.                                                                *)

(* The multiple of m at or below h. *)
LEMMA DivBracket ==
    ASSUME NEW h \in Nat, NEW m \in Nat \ {0}
    PROVE  /\ h \div m \in Nat
           /\ (h \div m) * m <= h
           /\ h < (h \div m) * m + m
  BY Z3

(* Products of sums and differences. *)
LEMMA Distribute ==
    ASSUME NEW x \in Int, NEW y \in Int, NEW m \in Int
    PROVE  /\ x * m \in Int
           /\ (x + 1) * m = x * m + m
           /\ (x + y) * m = x * m + y * m
           /\ 0 * m = 0 /\ 1 * m = m /\ 2 * m = m + m
  BY Z3

(* Multiples of m keep the order of their factors. *)
LEMMA Scale ==
    ASSUME NEW x \in Int, NEW y \in Int, NEW m \in Nat \ {0}
    PROVE  /\ x <= y => x * m <= y * m
           /\ x * m < y * m => x < y
  BY Z3

(* c lies in just one window of length m, the one of its quotient. *)
LEMMA Window ==
    ASSUME NEW c \in Nat, NEW m \in Nat \ {0}, NEW i \in Nat
    PROVE  i * m <= c /\ c < (i + 1) * m <=> i = c \div m
<1>1. /\ c \div m \in Nat
      /\ (c \div m) * m <= c
      /\ c < (c \div m) * m + m
  BY DivBracket
<1> DEFINE q == c \div m
<1>2. q \in Nat /\ q * m <= c /\ c < q * m + m
  BY <1>1
<1> HIDE DEF q
<1>3. /\ (q + 1) * m = q * m + m
      /\ (i + 1) * m = i * m + m
      /\ q * m \in Int /\ i * m \in Int
  BY <1>2, Distribute
<1>4. ASSUME i * m <= c, c < (i + 1) * m PROVE i = q
  <2>1. i * m < (q + 1) * m /\ q * m < (i + 1) * m
    BY <1>2, <1>3, <1>4
  <2>2. i < q + 1 /\ q < i + 1
    BY <2>1, <1>2, Scale
  <2>3. QED
    BY <2>2, <1>2
<1>5. QED
  BY <1>2, <1>3, <1>4 DEF q

(* A set of numbers that has one has a least one. *)
LEMMA LeastNat ==
    ASSUME NEW S \in SUBSET Nat, S # {}
    PROVE  \E n \in S : \A m \in S : n <= m
<1>1. PICK a \in S : TRUE
  OBVIOUS
<1> DEFINE R == StrictSubsetOrdering(0 .. a)
           T == {I \in SUBSET (0 .. a) : \E k \in S : k <= a /\ I = 0 .. k}
<1>2. IsWellFoundedOn(R, SUBSET (0 .. a))
  <2>1. IsFiniteSet(0 .. a) /\ a \in Nat
    BY FS_Interval
  <2>2. IsWellFoundedOn(R, FiniteSubsetsOf(0 .. a))
    BY FS_StrictSubsetOrderingWellFounded
  <2>3. FiniteSubsetsOf(0 .. a) = SUBSET (0 .. a)
    BY <2>1, FS_FiniteSubsetsOfFinite
  <2>4. QED
    BY <2>2, <2>3
<1>3. T \subseteq SUBSET (0 .. a) /\ T # {}
  BY <1>1
<1>4. PICK I \in T : \A J \in T : ~ (<<J, I>> \in R)
  <2> HIDE DEF R, T
  <2>1. QED
    BY <1>2, <1>3, WFMin
<1>5. PICK n \in S : n <= a /\ I = 0 .. n
  BY <1>4
<1>6. ASSUME NEW m \in S, m < n PROVE FALSE
  <2>1. (0 .. m) \in T
    BY <1>1, <1>5, <1>6
  <2>2. n \in I /\ n \notin 0 .. m /\ (0 .. m) \subseteq I
    BY <1>1, <1>5, <1>6
  <2>3. <<0 .. m, I>> \in R
    BY <2>1, <2>2, <1>4 DEF StrictSubsetOrdering
  <2>4. QED
    BY <2>1, <2>3, <1>4
<1>7. QED
  BY <1>5, <1>6

(* A bounded set of numbers that has one has a largest one. *)
LEMMA Largest ==
    ASSUME NEW b \in Nat, NEW S \in SUBSET (0 .. b), S # {}
    PROVE  Max(S) \in S /\ \A m \in S : Max(S) >= m
<1> DEFINE T == {b - m : m \in S}
<1>1. T \in SUBSET Nat /\ T # {}
  <2>1. \A m \in S : m \in Int /\ 0 <= m /\ m <= b
    OBVIOUS
  <2>2. \A m \in S : b - m \in Nat
    BY <2>1
  <2>3. QED
    BY <2>2
<1>2. PICK n \in T : \A m \in T : n <= m
  <2> HIDE DEF T
  <2>1. QED
    BY <1>1, LeastNat
<1>3. PICK x \in S : n = b - x
  BY <1>2
<1>4. \A y \in S : x >= y
  <2>1. \A y \in S : b - x <= b - y /\ y \in Int /\ x \in Int
    BY <1>2, <1>3
  <2>2. QED
    BY <2>1
<1>5. QED
  BY <1>3, <1>4 DEF Max

(* What holds of 0, and of i + 1 when it holds of i, holds up to n. *)
LEMMA UpTo ==
    ASSUME NEW n \in Nat, NEW S, 0 \in S,
           \A i \in 0 .. n : i \in S /\ i < n => i + 1 \in S
    PROVE  0 .. n \subseteq S
<1> DEFINE T == (0 .. n) \ S
<1>1. SUFFICES ASSUME T # {} PROVE FALSE
  OBVIOUS
<1>2. T \in SUBSET Nat
  OBVIOUS
<1>3. PICK k \in T : \A m \in T : k <= m
  <2> HIDE DEF T
  <2>1. QED
    BY <1>1, <1>2, LeastNat
<1>4. k # 0 /\ k - 1 \in 0 .. n /\ k - 1 \notin T
  BY <1>3
<1>5. k - 1 \in S /\ k - 1 < n
  BY <1>4, <1>3
<1>6. (k - 1) + 1 \in S
  BY <1>4, <1>5
<1>7. QED
  BY <1>6, <1>3

(* Each value of f is given by the one before it. *)
Unrolls(f, n, b, G) == f[0] = b /\ \A i \in 1 .. n : f[i] = G[i][f[i - 1]]

(* A function of 0 .. n can be given by its first value and by each value  *)
(* after the one before it.                                                *)
LEMMA Recursion ==
    ASSUME NEW n \in Nat, NEW V, NEW b \in V, NEW G \in [1 .. n -> [V -> V]]
    PROVE  \E f \in [0 .. n -> V] : Unrolls(f, n, b, G)
<1> DEFINE Fits(f, m) == Unrolls(f, m, b, G)
           S == {m \in 0 .. n : \E f \in [0 .. m -> V] : Fits(f, m)}
<1>1. 0 \in S
  <2> DEFINE g == [i \in 0 .. 0 |-> b]
  <2>1. g \in [0 .. 0 -> V] /\ Fits(g, 0)
    BY DEF Unrolls
  <2> HIDE DEF g, Fits
  <2>2. 0 \in 0 .. n
    OBVIOUS
  <2>3. QED
    BY <2>1, <2>2
<1>2. ASSUME NEW m \in 0 .. n, m \in S, m < n PROVE m + 1 \in S
  <2>1. PICK f \in [0 .. m -> V] : Fits(f, m)
    BY <1>2
  <2> DEFINE g == [i \in 0 .. m + 1 |-> IF i <= m THEN f[i] ELSE G[m + 1][f[m]]]
  <2>2. g \in [0 .. m + 1 -> V]
    <3>1. f[m] \in V /\ m + 1 \in 1 .. n
      BY <1>2
    <3>2. G[m + 1][f[m]] \in V
      BY <3>1
    <3>3. QED
      BY <3>2
  <2>3. Fits(g, m + 1)
    <3>1. g[0] = b
      BY <2>1 DEF Unrolls
    <3>2. ASSUME NEW i \in 1 .. m + 1 PROVE g[i] = G[i][g[i - 1]]
      <4>1. CASE i <= m
        <5>1. g[i] = f[i] /\ g[i - 1] = f[i - 1] /\ i \in 1 .. m
          BY <4>1
        <5>2. QED
          BY <5>1, <2>1 DEF Unrolls
      <4>2. CASE i = m + 1
        BY <4>2
      <4>3. QED
        BY <4>1, <4>2
    <3>3. QED
      BY <3>1, <3>2 DEF Unrolls
  <2>4. m + 1 \in 0 .. n
    BY <1>2
  <2> HIDE DEF g, Fits
  <2>5. QED
    BY <2>2, <2>3, <2>4
<1>3. 0 .. n \subseteq S
  <2> HIDE DEF S
  <2>1. QED
    BY <1>1, <1>2, UpTo
<1>4. n \in S
  <2> HIDE DEF S
  <2>1. QED
    BY <1>3
<1>5. QED
  BY <1>4
----------------------------------------------------------------------------
(* The sizes of slices.                                                    *)

(* Every size is twice the one before it. *)
LEMMA Sizes ==
    /\ Size \in [0 .. Factor -> Nat]
    /\ Size[0] = Unit
    /\ \A i \in 1 .. Factor : Size[i] = 2 * Size[i - 1]
<1> DEFINE G == [i \in 1 .. Factor |-> [v \in Nat |-> 2 * v]]
<1>1. Factor \in Nat /\ Unit \in Nat /\ G \in [1 .. Factor -> [Nat -> Nat]]
  BY DhtAssumption
<1>2. PICK f \in [0 .. Factor -> Nat] : Unrolls(f, Factor, Unit, G)
  <2> HIDE DEF G
  <2>1. QED
    BY <1>1, Recursion
<1>3. \A i \in 1 .. Factor : f[i] = 2 * f[i - 1]
  <2>1. ASSUME NEW i \in 1 .. Factor PROVE f[i - 1] \in Nat
    BY <1>1
  <2>2. QED
    BY <1>2, <2>1 DEF Unrolls
<1>4. f = [i \in 0 .. Factor |-> IF i = 0 THEN Unit ELSE 2 * f[i - 1]]
  BY <1>1, <1>2, <1>3 DEF Unrolls
<1>5. Size = [i \in 0 .. Factor |-> IF i = 0 THEN Unit ELSE 2 * Size[i - 1]]
  BY <1>4 DEF Size
<1>6. DOMAIN Size = 0 .. Factor /\ Size[0] = Unit
  BY <1>5, <1>1
<1>7. \A i \in 1 .. Factor : Size[i] = 2 * Size[i - 1]
  BY <1>5, <1>1
<1> DEFINE S == {i \in 0 .. Factor : Size[i] \in Nat}
<1>8. 0 .. Factor \subseteq S
  <2>1. 0 \in S
    BY <1>1, <1>6
  <2>2. ASSUME NEW i \in 0 .. Factor, i \in S, i < Factor PROVE i + 1 \in S
    <3>1. i + 1 \in 1 .. Factor /\ (i + 1) - 1 = i
      BY <1>1, <2>2
    <3>2. Size[i + 1] = 2 * Size[i]
      BY <3>1, <1>7
    <3>3. QED
      BY <3>1, <3>2, <2>2
  <2> HIDE DEF S
  <2>3. QED
    BY <1>1, <2>1, <2>2, UpTo
<1>9. QED
  BY <1>5, <1>6, <1>7, <1>8

(* No size is less than a unit, and the time that is kept for the partial  *)
(* slices is a full slice less a unit.                                     *)
LEMMA SizeFacts ==
    /\ Factor \in Nat \ {0} /\ Unit \in Nat \ {0}
    /\ \A i \in 0 .. Factor : Size[i] \in Nat \ {0} /\ Unit <= Size[i]
    /\ \A i \in 0 .. Factor - 1 : Size[i + 1] = 2 * Size[i]
    /\ \A i \in 0 .. Factor - 1 : Residual(i) = 2 * Size[i] - Unit
    /\ FullSize \in Nat \ {0}
    /\ MinRecent = FullSize - Unit /\ MinRecent \in Nat
<1>1. Factor \in Nat \ {0} /\ Unit \in Nat \ {0}
  BY DhtAssumption
<1>2. \A i \in 0 .. Factor - 1 : Size[i + 1] = 2 * Size[i] /\ Size[i] \in Nat
  <2>1. ASSUME NEW i \in 0 .. Factor - 1
        PROVE  i + 1 \in 1 .. Factor /\ (i + 1) - 1 = i /\ i \in 0 .. Factor
    BY <1>1
  <2>2. QED
    BY <2>1, Sizes
<1> DEFINE S == {i \in 0 .. Factor : Size[i] \in Nat /\ Unit <= Size[i]}
<1>3. 0 .. Factor \subseteq S
  <2>1. 0 \in S
    BY <1>1, Sizes
  <2>2. ASSUME NEW i \in 0 .. Factor, i \in S, i < Factor PROVE i + 1 \in S
    <3>1. i \in 0 .. Factor - 1 /\ i + 1 \in 0 .. Factor
      BY <1>1, <2>2
    <3>2. QED
      BY <3>1, <1>1, <1>2, <2>2
  <2> HIDE DEF S
  <2>3. QED
    BY <1>1, <2>1, <2>2, UpTo
<1>4. \A i \in 0 .. Factor : Size[i] \in Nat \ {0} /\ Unit <= Size[i]
  BY <1>1, <1>3
<1>5. FullSize \in Nat \ {0} /\ Unit <= FullSize
  BY <1>1, <1>4 DEF FullSize
<1>6. MinRecent = FullSize - Unit
  <2>1. (Factor - 1) + 1 = Factor
    BY <1>1
  <2>2. QED
    BY <2>1 DEF MinRecent, Residual, FullSize
<1>7. \A i \in 0 .. Factor - 1 : Residual(i) = 2 * Size[i] - Unit
  BY <1>2 DEF Residual
<1>8. QED
  BY <1>1, <1>2, <1>4, <1>5, <1>6, <1>7

----------------------------------------------------------------------------
(* The layout of the partial slices.                                       *)

Cut == [start : Nat, size : 0 .. Factor - 1]

(* Slices that follow each other without a gap, the first from a time. *)
InLine(sls, from) ==
    /\ sls # <<>> => sls[1].start = from
    /\ \A j \in 1 .. Len(sls) - 1 : sls[j + 1].start = PartialEnd(sls[j])
    /\ \A i, j \in 1 .. Len(sls) : i < j => PartialEnd(sls[i]) <= sls[j].start

(* From large to small, at most two of a size. *)
Shrinking(sls) ==
    /\ \A i, j \in 1 .. Len(sls) : i < j => sls[i].size >= sls[j].size
    /\ \A j \in 1 .. Len(sls) - 2 : sls[j].size > sls[j + 2].size

(* Where the slices from a time end. *)
LineEnd(sls, from) == IF sls = <<>> THEN from ELSE PartialEnd(Last(sls))

(* What the first k sizes have come to. *)
LaidTo(lay, from, t, k) ==
    /\ lay.cuts \in Seq(Cut)
    /\ InLine(lay.cuts, from)
    /\ Shrinking(lay.cuts)
    /\ \A j \in 1 .. Len(lay.cuts) : from <= lay.cuts[j].start
                                     /\ lay.cuts[j].size >= Factor - k
    /\ lay.next = LineEnd(lay.cuts, from)
    /\ lay.next \in Nat /\ lay.next <= t
    /\ t - lay.next <= 2 * Size[Factor - k] - Unit

(* The slices of the next size. *)
Further(lay, t, k) ==
    LET i == Factor - k
        n == SliceCount(i, t - lay.next)
    IN [next |-> lay.next + n * Size[i],
        cuts |-> lay.cuts \o [j \in 1 .. n |-> [start |-> lay.next + (j - 1) * Size[i],
                                                size |-> i]]]

LEMMA LayoutSteps ==
    ASSUME NEW from \in Nat, NEW t \in Nat
    PROVE  /\ Layout(from, t)[0] = [next |-> from, cuts |-> <<>>]
           /\ \A k \in 1 .. Factor :
                 Layout(from, t)[k] = Further(Layout(from, t)[k - 1], t, k)
<1> DEFINE V == [next : Int, cuts : Seq([start : Int, size : 0 .. Factor - 1])]
           G == [k \in 1 .. Factor |-> [lay \in V |-> Further(lay, t, k)]]
           b == [next |-> from, cuts |-> <<>>]
<1>1. b \in V
  OBVIOUS
<1>2. ASSUME NEW k \in 1 .. Factor, NEW lay \in V PROVE Further(lay, t, k) \in V
  <2> DEFINE i == Factor - k
             n == SliceCount(i, t - lay.next)
             more == [j \in 1 .. n |-> [start |-> lay.next + (j - 1) * Size[i],
                                        size |-> i]]
  <2>1. i \in 0 .. Factor - 1 /\ Size[i] \in Int /\ lay.next \in Int
    BY SizeFacts
  <2>2. n \in {0, 1, 2}
    BY DEF SliceCount
  <2>3. n * Size[i] \in Int /\ \A j \in 1 .. n : (j - 1) * Size[i] \in Int
    BY <2>1, <2>2
  <2>4. more \in Seq([start : Int, size : 0 .. Factor - 1])
    <3> HIDE DEF n, i
    <3>1. n \in Nat
      BY <2>2
    <3>2. \A j \in 1 .. n : [start |-> lay.next + (j - 1) * Size[i], size |-> i]
                               \in [start : Int, size : 0 .. Factor - 1]
      BY <2>1, <2>3
    <3>3. QED
      BY <3>1, <3>2
  <2>5. Further(lay, t, k) = [next |-> lay.next + n * Size[i], cuts |-> lay.cuts \o more]
    BY DEF Further
  <2> HIDE DEF n, i, more
  <2>6. lay.cuts \in Seq([start : Int, size : 0 .. Factor - 1])
    OBVIOUS
  <2>7. QED
    BY <2>1, <2>3, <2>4, <2>5, <2>6
<1>3. G \in [1 .. Factor -> [V -> V]]
  <2> HIDE DEF V
  <2>1. QED
    BY <1>2
<1>4. Factor \in Nat
  BY SizeFacts
<1>5. PICK f \in [0 .. Factor -> V] : Unrolls(f, Factor, b, G)
  <2> HIDE DEF G, V, b
  <2>1. QED
    BY <1>1, <1>3, <1>4, Recursion
<1>6. \A k \in 1 .. Factor : f[k] = Further(f[k - 1], t, k)
  <2> HIDE DEF V
  <2>1. \A k \in 1 .. Factor : f[k - 1] \in V
    BY <1>4
  <2>2. QED
    BY <1>5, <2>1 DEF Unrolls
<1> DEFINE Lays(g) == g = [k \in 0 .. Factor |->
                              IF k = 0 THEN b ELSE Further(g[k - 1], t, k)]
<1>7. Lays(f)
  <2> HIDE DEF V, b
  <2>1. QED
    BY <1>5, <1>6 DEF Unrolls
<1>8. Layout(from, t) = CHOOSE g : Lays(g)
  BY DEF Layout, Further
<1>9. Lays(Layout(from, t))
  <2> HIDE DEF Lays
  <2>1. QED
    BY <1>7, <1>8
<1>10. Layout(from, t)[0] = b
  <2> HIDE DEF b
  <2>1. 0 \in 0 .. Factor
    BY <1>4
  <2>2. QED
    BY <1>9, <2>1
<1>11. ASSUME NEW k \in 1 .. Factor
       PROVE  Layout(from, t)[k] = Further(Layout(from, t)[k - 1], t, k)
  <2> HIDE DEF b
  <2>1. k \in 0 .. Factor /\ k # 0
    BY <1>4
  <2>2. QED
    BY <1>9, <2>1
<1>12. QED
  BY <1>10, <1>11

(* What the next size leaves of recent time. *)
LEMMA LeftOver ==
    ASSUME NEW i \in 0 .. Factor - 1, NEW r \in Nat, r <= 2 * Size[i + 1] - Unit
    PROVE  /\ SliceCount(i, r) \in {0, 1, 2}
           /\ SliceCount(i, r) * Size[i] \in Nat
           /\ SliceCount(i, r) * Size[i] <= r
           /\ r - SliceCount(i, r) * Size[i] <= 2 * Size[i] - Unit
<1>1. /\ Size[i] \in Nat \ {0} /\ Unit \in Nat \ {0} /\ Unit <= Size[i]
      /\ Size[i + 1] = 2 * Size[i] /\ Residual(i) = 2 * Size[i] - Unit
  <2>1. i \in 0 .. Factor
    BY SizeFacts
  <2>2. QED
    BY <2>1, SizeFacts
<1> DEFINE s == Size[i]
<1>2. CASE r > Residual(i) + s
  <2>1. SliceCount(i, r) = 2
    BY <1>2 DEF SliceCount
  <2>2. 2 * s = s + s
    BY <1>1
  <2>3. QED
    BY <1>1, <1>2, <2>1, <2>2
<1>3. CASE ~ (r > Residual(i) + s) /\ r > s
  <2>1. SliceCount(i, r) = 1
    BY <1>3 DEF SliceCount
  <2>2. QED
    BY <1>1, <1>3, <2>1
<1>4. CASE ~ (r > Residual(i) + s) /\ ~ (r > s)
  <2>1. SliceCount(i, r) = 0
    BY <1>4 DEF SliceCount
  <2>2. 0 * s = 0
    BY <1>1
  <2>3. SliceCount(i, r) * Size[i] = 0
    BY <2>1, <2>2
  <2> HIDE DEF s
  <2>4. r <= 2 * s - Unit
    BY <1>1, <1>4 DEF s
  <2>5. QED
    BY <2>1, <2>3, <2>4 DEF s
<1>5. QED
  BY <1>2, <1>3, <1>4

(* Slices of one size, smaller than all before, continue a line. *)
LEMMA Continue ==
    ASSUME NEW from \in Nat, NEW t \in Nat, NEW k \in 1 .. Factor, NEW lay,
           LaidTo(lay, from, t, k - 1)
    PROVE  LaidTo(Further(lay, t, k), from, t, k)
<1> DEFINE i == Factor - k
           n == SliceCount(i, t - lay.next)
           more == [j \in 1 .. n |-> [start |-> lay.next + (j - 1) * Size[i], size |-> i]]
           cuts == lay.cuts \o more
           next == lay.next + n * Size[i]
           s == Size[i]
           L == Len(lay.cuts)
<1>1. /\ i \in 0 .. Factor - 1 /\ Factor - (k - 1) = i + 1
      /\ s \in Nat \ {0}
  <2>1. i \in 0 .. Factor - 1 /\ i \in 0 .. Factor /\ Factor - (k - 1) = i + 1
    BY SizeFacts
  <2>2. QED
    BY <2>1, SizeFacts
<1>2. /\ lay.next \in Nat /\ lay.next <= t
      /\ t - lay.next \in Nat
      /\ t - lay.next <= 2 * Size[i + 1] - Unit
  BY <1>1 DEF LaidTo
<1>3. /\ n \in {0, 1, 2} /\ n * s \in Nat
      /\ n * s <= t - lay.next
      /\ (t - lay.next) - n * s <= 2 * s - Unit
  BY <1>1, <1>2, LeftOver
<1>4. Further(lay, t, k) = [next |-> next, cuts |-> cuts]
  BY DEF Further
<1>5. /\ lay.cuts \in Seq(Cut) /\ L \in Nat
      /\ InLine(lay.cuts, from) /\ Shrinking(lay.cuts)
      /\ lay.next = LineEnd(lay.cuts, from)
      /\ \A j \in 1 .. L : from <= lay.cuts[j].start /\ lay.cuts[j].size >= i + 1
  BY <1>1 DEF LaidTo
<1> HIDE DEF i, n, s
<1>6. /\ n = 0 => more = <<>>
      /\ n >= 1 => more[1] = [start |-> lay.next, size |-> i]
      /\ n = 2 => more[2] = [start |-> lay.next + s, size |-> i]
  <2>1. (1 - 1) * s = 0 /\ (2 - 1) * s = s
    BY <1>1
  <2>2. n = 0 => more = <<>>
    OBVIOUS
  <2>3. n >= 1 => more[1] = [start |-> lay.next + (1 - 1) * s, size |-> i]
    BY <1>3 DEF s
  <2>4. n = 2 => more[2] = [start |-> lay.next + (2 - 1) * s, size |-> i]
    BY <1>3 DEF s
  <2>5. QED
    BY <2>1, <2>2, <2>3, <2>4, <1>1, <1>2
<1>7. more \in Seq(Cut) /\ Len(more) = n
  <2>1. \A j \in 1 .. n : (j - 1) * s \in Nat
    BY <1>1, <1>3
  <2>2. \A j \in 1 .. n : [start |-> lay.next + (j - 1) * s, size |-> i] \in Cut
    BY <2>1, <1>1, <1>2 DEF Cut
  <2> HIDE DEF Cut
  <2>3. n \in Nat
    BY <1>3
  <2>4. QED
    BY <2>2, <2>3 DEF s
<1> HIDE DEF more
<1>8. /\ cuts \in Seq(Cut) /\ Len(cuts) = L + n
      /\ \A j \in 1 .. L : cuts[j] = lay.cuts[j]
      /\ n >= 1 => cuts[L + 1] = more[1]
      /\ n = 2 => cuts[L + 2] = more[2]
  BY <1>3, <1>5, <1>7
<1> HIDE DEF cuts, L, next
<1>9. n = 0 => cuts = lay.cuts
  BY <1>5, <1>6 DEF cuts
<1>10. \A j \in 1 .. L : /\ PartialEnd(lay.cuts[j]) <= lay.next
                          /\ PartialEnd(lay.cuts[j]) \in Nat
                          /\ lay.cuts[j].start \in Nat
                          /\ lay.cuts[j].start <= PartialEnd(lay.cuts[j])
  <2>1. SUFFICES ASSUME NEW j \in 1 .. L
                 PROVE  /\ PartialEnd(lay.cuts[j]) <= lay.next
                        /\ PartialEnd(lay.cuts[j]) \in Nat
                        /\ lay.cuts[j].start \in Nat
                        /\ lay.cuts[j].start <= PartialEnd(lay.cuts[j])
    OBVIOUS
  <2>2. lay.cuts # <<>> /\ L \in 1 .. L /\ j \in 1 .. L
    BY <1>5, <2>1 DEF L
  <2>3. lay.next = PartialEnd(lay.cuts[L])
    BY <1>5, <2>2 DEF LineEnd, Last, L
  <2>4. /\ lay.cuts[j] \in Cut /\ lay.cuts[L] \in Cut
    BY <1>5, <2>2 DEF L
  <2>5. \A c \in Cut : PartialEnd(c) \in Nat /\ c.start \in Nat /\ c.start <= PartialEnd(c)
    <3>1. ASSUME NEW c \in Cut PROVE c.start \in Nat /\ Size[c.size] \in Nat
      <4>1. c.start \in Nat /\ c.size \in 0 .. Factor
        BY SizeFacts DEF Cut
      <4>2. QED
        BY <4>1, SizeFacts
    <3>2. QED
      BY <3>1 DEF PartialEnd
  <2>6. j < L => PartialEnd(lay.cuts[j]) <= lay.cuts[L].start
    BY <1>5, <2>2 DEF InLine, L
  <2>7. QED
    BY <2>2, <2>3, <2>4, <2>5, <2>6
<1>11. L = 0 => lay.cuts = <<>> /\ lay.next = from
  BY <1>5 DEF LineEnd, L
<1>12. L > 0 => /\ lay.cuts # <<>> /\ lay.cuts[1].start = from
                /\ lay.next = PartialEnd(lay.cuts[L])
  BY <1>5 DEF LineEnd, Last, InLine, L
<1>13. \A x \in Nat : PartialEnd([start |-> x, size |-> i]) = x + s
  BY DEF PartialEnd, s
<1>14. from <= lay.next
  <2>1. CASE L > 0
    <3>1. 1 \in 1 .. L
      BY <2>1, <1>5
    <3>2. QED
      BY <2>1, <3>1, <1>10, <1>12, <1>2
  <2>2. CASE L = 0
    BY <2>2, <1>11
  <2>3. QED
    BY <2>1, <2>2, <1>5
<1>15. InLine(cuts, from)
  <2>1. cuts # <<>> => cuts[1].start = from
    <3>1. CASE L > 0
      BY <3>1, <1>5, <1>8, <1>12
    <3>2. CASE L = 0
      BY <3>2, <1>3, <1>5, <1>6, <1>8, <1>9, <1>11
    <3>3. QED
      BY <3>1, <3>2, <1>5
  <2>2. ASSUME NEW j \in 1 .. Len(cuts) - 1
        PROVE  cuts[j + 1].start = PartialEnd(cuts[j])
    <3>1. j \in 1 .. L + n - 1
      BY <1>3, <1>5, <1>8
    <3>2. CASE j < L
      <4>1. j \in 1 .. L - 1 /\ j \in 1 .. L /\ j + 1 \in 1 .. L
        BY <3>1, <3>2, <1>5, <1>3
      <4>2. QED
        BY <4>1, <1>5, <1>8 DEF InLine, L
    <3>3. CASE j = L
      <4>1. n >= 1 /\ L > 0 /\ j \in 1 .. L
        BY <3>1, <3>3, <1>3, <1>5
      <4>2. QED
        BY <3>3, <4>1, <1>6, <1>8, <1>12
    <3>4. CASE j > L
      <4>1. n = 2 /\ j = L + 1 /\ j + 1 = L + 2
        BY <3>1, <3>4, <1>3, <1>5
      <4>2. /\ cuts[j] = [start |-> lay.next, size |-> i]
            /\ cuts[j + 1] = [start |-> lay.next + s, size |-> i]
        BY <4>1, <1>6, <1>8
      <4>3. QED
        BY <4>2, <1>2, <1>13
    <3>5. QED
      BY <3>1, <3>2, <3>3, <3>4, <1>5
  <2>3. ASSUME NEW a \in 1 .. Len(cuts), NEW b \in 1 .. Len(cuts), a < b
        PROVE  PartialEnd(cuts[a]) <= cuts[b].start
    <3>1. CASE b <= L
      <4>1. a \in 1 .. L /\ b \in 1 .. L
        BY <2>3, <3>1, <1>5
      <4>2. QED
        BY <2>3, <4>1, <1>5, <1>8 DEF InLine, L
    <3>2. CASE b > L
      <4>1. b \in {L + 1, L + 2} /\ n >= 1 /\ (b = L + 2 => n = 2)
        BY <2>3, <3>2, <1>3, <1>5, <1>8
      <4>2. /\ cuts[b].start \in Nat /\ cuts[b].start >= lay.next
            /\ b = L + 2 => cuts[b].start = lay.next + s
        <5>1. b = L + 1 => cuts[b] = [start |-> lay.next, size |-> i]
          BY <4>1, <1>6, <1>8
        <5>2. b = L + 2 => cuts[b] = [start |-> lay.next + s, size |-> i]
          BY <4>1, <1>6, <1>8
        <5>3. CASE b = L + 1
          <6>1. cuts[b].start = lay.next /\ b # L + 2
            BY <5>1, <5>3, <1>5
          <6>2. QED
            BY <6>1, <1>2
        <5>4. CASE b = L + 2
          <6>1. cuts[b].start = lay.next + s
            BY <5>2, <5>4
          <6>2. s \in Nat
            BY <1>1
          <6>3. lay.next \in Nat
            BY <1>2
          <6>4. lay.next + s \in Nat /\ lay.next + s >= lay.next
            BY <6>2, <6>3
          <6>5. QED
            BY <6>1, <6>4
        <5>5. QED
          BY <5>3, <5>4, <4>1
      <4>3. CASE a <= L
        <5>1. a \in 1 .. L
          BY <2>3, <4>3, <1>5
        <5>2. QED
          BY <5>1, <4>2, <1>8, <1>10, <1>2
      <4>4. CASE a > L
        <5>1. a = L + 1 /\ b = L + 2
          BY <2>3, <4>1, <4>4, <1>5, <1>8
        <5>2. PartialEnd(cuts[a]) = lay.next + s
          BY <5>1, <4>1, <1>2, <1>6, <1>8, <1>13
        <5>3. QED
          BY <5>1, <5>2, <4>2, <1>1, <1>2
      <4>5. QED
        BY <4>3, <4>4, <1>5, <2>3
    <3>3. QED
      BY <3>1, <3>2, <1>5, <2>3
  <2>4. QED
    BY <2>1, <2>2, <2>3 DEF InLine
<1>16. \A j \in 1 .. L + n : /\ j <= L => cuts[j] = lay.cuts[j] /\ cuts[j].size >= i + 1
                             /\ j > L => cuts[j].size = i /\ cuts[j].start >= lay.next
                             /\ cuts[j].size \in Nat
  <2>1. SUFFICES ASSUME NEW j \in 1 .. L + n
                 PROVE  /\ j <= L => cuts[j] = lay.cuts[j] /\ cuts[j].size >= i + 1
                        /\ j > L => cuts[j].size = i /\ cuts[j].start >= lay.next
                        /\ cuts[j].size \in Nat
    OBVIOUS
  <2>2. CASE j <= L
    <3>1. j \in 1 .. L
      BY <2>1, <2>2, <1>5, <1>3
    <3>2. cuts[j] \in Cut
      BY <3>1, <1>5, <1>8 DEF L
    <3>3. cuts[j] = lay.cuts[j]
      BY <3>1, <1>8
    <3>4. lay.cuts[j].size >= i + 1
      BY <3>1, <1>5
    <3>5. cuts[j].size \in Nat
      BY <3>2, SizeFacts DEF Cut
    <3>6. ~ (j > L)
      BY <2>1, <2>2, <1>5, <1>3
    <3>7. QED
      BY <3>3, <3>4, <3>5, <3>6
  <2>3. CASE j > L
    <3>1. (j = L + 1 /\ n >= 1) \/ (j = L + 2 /\ n = 2)
      BY <2>1, <2>3, <1>5, <1>3
    <3>2. \/ cuts[j] = [start |-> lay.next, size |-> i]
          \/ cuts[j] = [start |-> lay.next + s, size |-> i]
      BY <3>1, <1>6, <1>8
    <3>3. cuts[j].size = i /\ cuts[j].start >= lay.next
      BY <3>2, <1>1, <1>2
    <3>4. QED
      BY <3>3, <2>3, <2>1, <1>1, <1>5, <1>3
  <2>4. QED
    BY <2>2, <2>3, <1>5, <2>1
<1>17. Shrinking(cuts)
  <2>1. ASSUME NEW a \in 1 .. Len(cuts), NEW b \in 1 .. Len(cuts), a < b
        PROVE  cuts[a].size >= cuts[b].size
    <3>1. CASE b <= L
      <4>1. a \in 1 .. L /\ b \in 1 .. L
        BY <2>1, <3>1, <1>5
      <4>2. QED
        BY <2>1, <4>1, <1>5, <1>8 DEF Shrinking, L
    <3>2. CASE b > L
      <4>1. cuts[b].size = i /\ cuts[a].size >= i
        BY <3>2, <2>1, <1>1, <1>5, <1>8, <1>16
      <4>2. QED
        BY <4>1, <1>1
    <3>3. QED
      BY <3>1, <3>2, <1>5, <2>1
  <2>2. ASSUME NEW j \in 1 .. Len(cuts) - 2
        PROVE  cuts[j].size > cuts[j + 2].size
    <3>1. j \in 1 .. L + n /\ j + 2 \in 1 .. L + n
      BY <1>8, <1>5, <1>3
    <3>2. CASE j + 2 <= L
      <4>1. j \in 1 .. L - 2 /\ j \in 1 .. L /\ j + 2 \in 1 .. L
        BY <3>1, <3>2, <1>5, <1>3
      <4>2. QED
        BY <4>1, <1>5, <1>8 DEF Shrinking, L
    <3>3. CASE j + 2 > L
      <4>1. j <= L
        BY <3>1, <1>5, <1>3
      <4>2. cuts[j].size >= i + 1 /\ cuts[j + 2].size = i
        BY <4>1, <3>1, <3>3, <1>16
      <4>3. QED
        BY <4>2, <1>1, <3>1, <1>16
    <3>4. QED
      BY <3>2, <3>3, <3>1, <1>5, <1>3
  <2>3. QED
    BY <2>1, <2>2 DEF Shrinking
<1>18. \A j \in 1 .. Len(cuts) : from <= cuts[j].start /\ cuts[j].size >= Factor - k
  <2>1. SUFFICES ASSUME NEW j \in 1 .. Len(cuts)
                 PROVE  from <= cuts[j].start /\ cuts[j].size >= i
    BY DEF i
  <2>2. CASE j <= L
    <3>1. j \in 1 .. L /\ j \in 1 .. L + n
      BY <2>1, <2>2, <1>3, <1>5, <1>8
    <3>2. cuts[j] = lay.cuts[j] /\ cuts[j].size >= i + 1 /\ cuts[j].size \in Nat
      BY <3>1, <2>2, <1>16
    <3>3. from <= cuts[j].start
      BY <3>1, <3>2, <1>5
    <3>4. QED
      BY <3>2, <3>3, <1>1
  <2>3. CASE j > L
    <3>1. cuts[j] \in Cut /\ j \in 1 .. L + n
      BY <1>8, <2>1
    <3>2. cuts[j].size = i /\ cuts[j].start >= lay.next
      BY <3>1, <2>3, <1>16
    <3>3. cuts[j].start \in Nat
      BY <3>1 DEF Cut
    <3>4. QED
      BY <3>2, <3>3, <1>1, <1>2, <1>14
  <2>4. QED
    BY <2>2, <2>3, <1>5, <2>1
<1>19. next = LineEnd(cuts, from)
  <2>1. CASE n = 0
    <3>1. next = lay.next
      BY <2>1, <1>1, <1>2 DEF next, s
    <3>2. QED
      BY <3>1, <2>1, <1>5, <1>9
  <2>2. CASE n = 1
    <3>1. next = lay.next + s
      BY <2>2, <1>1, <1>2 DEF next, s
    <3>2. cuts # <<>> /\ Last(cuts) = cuts[L + 1]
      BY <2>2, <1>5, <1>8 DEF Last
    <3>3. QED
      BY <3>1, <3>2, <2>2, <1>2, <1>6, <1>8, <1>13 DEF LineEnd
  <2>3. CASE n = 2
    <3>1. next = lay.next + s + s
      BY <2>3, <1>1, <1>2 DEF next, s
    <3>2. cuts # <<>> /\ Last(cuts) = cuts[L + 2]
      BY <2>3, <1>5, <1>8 DEF Last
    <3>3. cuts[L + 2] = [start |-> lay.next + s, size |-> i]
      BY <2>3, <1>6, <1>8
    <3>4. lay.next + s \in Nat
      BY <1>1, <1>2
    <3>5. PartialEnd(cuts[L + 2]) = lay.next + s + s
      BY <3>3, <3>4, <1>13
    <3>6. QED
      BY <3>1, <3>2, <3>5 DEF LineEnd
  <2>4. QED
    BY <2>1, <2>2, <2>3, <1>3
<1>20. next \in Nat /\ next <= t /\ t - next <= 2 * Size[Factor - k] - Unit
  <2>1. Size[Factor - k] = s /\ next = lay.next + n * s
    BY DEF next, s, i
  <2>2. Unit \in Nat
    BY SizeFacts
  <2>3. QED
    BY <2>1, <2>2, <1>1, <1>2, <1>3
<1>21. QED
  BY <1>4, <1>8, <1>15, <1>17, <1>18, <1>19, <1>20 DEF LaidTo

(* The partial slices of recent time: in line from its start, from large   *)
(* to small, and they leave at most a unit.                                *)
LEMMA LayoutFacts ==
    ASSUME NEW from \in Nat, NEW t \in Nat, from <= t,
           t - from < MinRecent + FullSize
    PROVE  LET cuts == LayoutPartials(from, t)
           IN /\ cuts \in Seq(Cut)
              /\ InLine(cuts, from)
              /\ Shrinking(cuts)
              /\ \A j \in 1 .. Len(cuts) : from <= cuts[j].start
              /\ LineEnd(cuts, from) \in Nat
              /\ t - LineEnd(cuts, from) \in 0 .. Unit
<1> DEFINE S == {k \in 0 .. Factor : LaidTo(Layout(from, t)[k], from, t, k)}
<1>1. Factor \in Nat /\ Unit \in Nat /\ FullSize \in Nat /\ MinRecent = FullSize - Unit
  BY SizeFacts
<1>2. 0 \in S
  <2> DEFINE lay == [next |-> from, cuts |-> <<>>]
  <2>1. lay = Layout(from, t)[0]
    BY LayoutSteps
  <2>2. Size[Factor - 0] = FullSize
    BY <1>1 DEF FullSize
  <2>3. t - from <= 2 * Size[Factor - 0] - Unit
    BY <1>1, <2>2
  <2>4. LaidTo(lay, from, t, 0)
    BY <2>3 DEF LaidTo, InLine, Shrinking, LineEnd
  <2>5. QED
    BY <1>1, <2>1, <2>4
<1>3. ASSUME NEW k \in 0 .. Factor, k \in S, k < Factor PROVE k + 1 \in S
  <2>1. k + 1 \in 1 .. Factor /\ (k + 1) - 1 = k /\ k + 1 \in 0 .. Factor
    BY <1>1, <1>3
  <2>2. Layout(from, t)[k + 1] = Further(Layout(from, t)[k], t, k + 1)
    BY <2>1, LayoutSteps
  <2>3. LaidTo(Layout(from, t)[k], from, t, (k + 1) - 1)
    BY <1>3, <2>1
  <2>4. LaidTo(Further(Layout(from, t)[k], t, k + 1), from, t, k + 1)
    BY <2>1, <2>3, Continue
  <2>5. QED
    BY <2>1, <2>2, <2>4
<1>4. Factor \in S
  <2> HIDE DEF S
  <2>1. 0 .. Factor \subseteq S
    BY <1>1, <1>2, <1>3, UpTo
  <2>2. QED
    BY <1>1, <2>1
<1>5. LaidTo(Layout(from, t)[Factor], from, t, Factor)
  BY <1>4
<1>6. Size[Factor - Factor] = Unit
  BY <1>1, Sizes
<1>7. QED
  BY <1>1, <1>5, <1>6 DEF LaidTo, LayoutPartials
----------------------------------------------------------------------------
(* Ops, sectors and hashes.                                                *)

Own(o) == SectorAt(Loc[o])

(* Every op is in one sector, the one that its location is told to. *)
LEMMA OwnSector ==
    ASSUME NEW o \in Ops
    PROVE  /\ Own(o) \in Sectors
           /\ \A s \in Sectors : ArcContains(SectorArc(s), Loc[o]) <=> Own(o) = s
<1> DEFINE loc == Loc[o]
<1>1. /\ SectorSize \in Nat \ {0} /\ SectorCount \in Nat \ {0}
      /\ SectorSize * SectorCount \in Nat
      /\ loc \in Nat /\ loc < SectorSize * SectorCount
  <2>1. SectorSize \in Nat \ {0} /\ SectorCount \in Nat \ {0}
    BY ArcsAssumption
  <2>2. SectorSize * SectorCount \in Nat
    BY <2>1, Z3
  <2>3. loc \in 0 .. SectorSize * SectorCount - 1
    BY DhtAssumption DEF Locations, MaxLoc
  <2>4. QED
    BY <2>1, <2>2, <2>3
<1> HIDE DEF loc
<1>2. /\ loc \div SectorSize \in Nat
      /\ (loc \div SectorSize) * SectorSize <= loc
  BY <1>1, DivBracket
<1>3. loc \div SectorSize < SectorCount
  <2>1. SectorCount * SectorSize = SectorSize * SectorCount
    BY <1>1, Z3
  <2>2. (loc \div SectorSize) * SectorSize < SectorCount * SectorSize
    <3>1. (loc \div SectorSize) * SectorSize \in Int
      BY <1>1, <1>2, Distribute
    <3>2. QED
      BY <1>1, <1>2, <2>1, <3>1
  <2>3. QED
    BY <1>1, <1>2, <2>2, Scale
<1>4. ASSUME NEW s \in Sectors
      PROVE  ArcContains(SectorArc(s), loc) <=> loc \div SectorSize = s
  <2> DEFINE start == s * SectorSize
             end == s * SectorSize + SectorSize - 1
  <2>1. s \in Nat /\ s + 1 <= SectorCount
    BY <1>1 DEF Sectors, SectorIds
  <2>2. /\ start \in Nat /\ end = (s + 1) * SectorSize - 1
        /\ (s + 1) * SectorSize \in Int
        /\ (s + 1) * SectorSize <= SectorSize * SectorCount
        /\ start <= end
    <3>1. (s + 1) * SectorSize = s * SectorSize + SectorSize /\ start \in Int
      BY <1>1, <2>1, Distribute
    <3>2. (s + 1) * SectorSize <= SectorCount * SectorSize /\ 0 * SectorSize <= s * SectorSize
      BY <1>1, <2>1, Scale
    <3>3. SectorCount * SectorSize = SectorSize * SectorCount /\ 0 * SectorSize = 0
      BY <1>1, Z3
    <3>4. QED
      BY <1>1, <2>1, <3>1, <3>2, <3>3
  <2>3. MaxLoc = SectorSize * SectorCount - 1 /\ MaxLoc \in Int
    BY <1>1 DEF MaxLoc
  <2>4. SectorArc(s) = <<start, end>> /\ SectorArc(s) # EmptyArc
    BY DEF SectorArc, EmptyArc
  <2> HIDE DEF start, end
  <2>5. Dist(SectorArc(s), loc) = 0 <=> start <= loc /\ loc <= end
    <3>1. /\ ~ (start > end)
          /\ SectorArc(s)[1] = start /\ SectorArc(s)[2] = end
      BY <2>2, <2>4
    <3>2. Dist(SectorArc(s), loc) =
             IF loc >= start /\ loc <= end THEN 0
             ELSE IF loc < start THEN Least(start - loc, MaxLoc - end + loc + 1)
             ELSE Least(MaxLoc - loc + start + 1, loc - end)
      BY <2>4, <3>1 DEF Dist
    <3>3. end \in Int /\ end <= MaxLoc /\ loc <= MaxLoc
      BY <1>1, <2>2, <2>3
    <3>4. QED
      BY <3>2, <3>3, <1>1, <2>2, <2>3 DEF Least
  <2>6. start <= loc /\ loc <= end <=> s = loc \div SectorSize
    <3>1. s * SectorSize <= loc /\ loc < (s + 1) * SectorSize <=> s = loc \div SectorSize
      BY <1>1, <2>1, Window
    <3>2. loc <= end <=> loc < (s + 1) * SectorSize
      BY <1>1, <2>2
    <3>3. QED
      BY <3>1, <3>2 DEF start
  <2>7. QED
    BY <2>5, <2>6 DEF ArcContains
<1>5. loc \div SectorSize \in Sectors
  BY <1>1, <1>2, <1>3 DEF Sectors, SectorIds
<1>6. QED
  BY <1>4, <1>5 DEF Own, SectorAt, loc

(* The stored ops of a sector, and those of one window of its time. *)
LEMMA OpsOfSector ==
    ASSUME stored \in SUBSET Ops, NEW s \in Sectors
    PROVE  /\ \A o : o \in InSector(s) <=> o \in stored /\ Own(o) = s
           /\ \A a, b : OpsIn(s, a, b) \in SUBSET Ops
           /\ \A a, b, o : o \in OpsIn(s, a, b) <=>
                 o \in stored /\ Own(o) = s /\ a <= Created[o] /\ Created[o] < b
<1>1. \A o : o \in InSector(s) <=> o \in stored /\ Own(o) = s
  BY OwnSector DEF InSector
<1>2. QED
  BY <1>1 DEF OpsIn, InSector

(* Combining a hash with an op counts the op once more, and no other. *)
LEMMA HashCombined ==
    ASSUME NEW h \in Hashes, NEW o \in Ops
    PROVE  /\ CombineHashes(h, o) \in Hashes
           /\ \A x \in Ops : x # o => (x \in Counted(CombineHashes(h, o)) <=> x \in Counted(h))
           /\ o \in Counted(CombineHashes(h, o)) <=> o \notin Counted(h)
<1>1. \A S \in SUBSET Ops : NoHash # S
  BY DhtAssumption
<1>2. CASE h = NoHash
  <2>1. CombineHashes(h, o) = {o} /\ {o} \in SUBSET Ops
    BY <1>2 DEF CombineHashes
  <2>2. {o} # NoHash
    BY <1>1, <2>1
  <2>3. QED
    BY <1>2, <2>1, <2>2 DEF Counted, Hashes
<1>3. CASE h # NoHash
  <2> DEFINE c == (h \ {o}) \union ({o} \ h)
  <2>1. h \in SUBSET Ops
    BY <1>3 DEF Hashes
  <2>2. CombineHashes(h, o) = c /\ c \in SUBSET Ops
    BY <1>3, <2>1 DEF CombineHashes, SymDiff
  <2>3. c # NoHash
    BY <1>1, <2>2
  <2>4. QED
    BY <1>3, <2>1, <2>2, <2>3 DEF Counted, Hashes
<1>4. QED
  BY <1>2, <1>3

(* What is read from the op store is counted. *)
LEMMA CombinedRead ==
    ASSUME NEW S \in SUBSET Ops
    PROVE  CombineOpHashes(S) \in Hashes /\ Counted(CombineOpHashes(S)) = S
<1>1. S # NoHash
  BY DhtAssumption
<1>2. QED
  BY <1>1 DEF CombineOpHashes, Counted, Hashes

----------------------------------------------------------------------------
(* The inductive invariant.                                                *)

Part == [full : Nat, partials : Seq(Slice), next : Nat, at : Nat]

(* Of the ops that are not in E, a hash counts those of T in the window.   *)
Exact(h, s, a, b, T, E) ==
    \A o \in Ops : o \notin E =>
        (o \in Counted(h) <=> o \in T /\ Own(o) = s /\ a <= Created[o] /\ Created[o] < b)

(* The first n slices of a row are exact, and no other one is stored. *)
FullOK(s, row, n, T, E) ==
    \A i \in Indices :
        IF i < n THEN Exact(row[i], s, i * FullSize, (i + 1) * FullSize, T, E)
        ELSE row[i] = NoHash

(* The partial slices are in line and begin no later than the full ones    *)
(* end; those that begin no earlier are exact.                             *)
PartialsOK(s, p, T, E) ==
    /\ InLine(p.partials, p.partials[1].start)
    /\ p.partials # <<>> => p.partials[1].start <= FullEnd(p)
    /\ \A j \in 1 .. Len(p.partials) :
          LET sl == p.partials[j]
          IN sl.start >= FullEnd(p) => Exact(sl.hash, s, sl.start, PartialEnd(sl), T, E)

(* What an update leaves at its time. *)
LaidOut(p) ==
    LET cuts == LayoutPartials(FullEnd(p), p.at)
    IN /\ p.full > 0 => p.at - FullEnd(p) >= MinRecent
       /\ FullEnd(p) <= p.at /\ p.at - FullEnd(p) < MinRecent + FullSize
       /\ Len(p.partials) = Len(cuts)
       /\ \A j \in 1 .. Len(cuts) : /\ p.partials[j].start = cuts[j].start
                                    /\ p.partials[j].size = cuts[j].size

(* The full slices never reach into the time that is kept for partial ones. *)
ClockOK(p, t) ==
    /\ FullEnd(p) <= t
    /\ p.full > 0 => t - FullEnd(p) >= MinRecent
    /\ p.at > 0 => LaidOut(p)

SectorOK(s, p, row, T, E, t) ==
    /\ p \in Part
    /\ row \in [Indices -> Hashes]
    /\ FullOK(s, row, p.full, T, E)
    /\ PartialsOK(s, p, T, E)
    /\ ClockOK(p, t)

DhtShape ==
    /\ now \in Nat
    /\ stored \in SUBSET Ops
    /\ told \in SUBSET stored
    /\ slices \in [Sectors -> [Indices -> Hashes]]
    /\ parts = Down \/ parts \in [Sectors -> Part]

(* While the process is down, the stored slices alone tell how far the     *)
(* full ones reach.                                                        *)
DhtInv ==
    /\ DhtShape
    /\ parts = Down =>
          \A s \in Sectors : FullOK(s, slices[s], SliceHashCount(s), told, early)
    /\ parts # Down =>
          \A s \in Sectors : SectorOK(s, parts[s], slices[s], told, early, now)

----------------------------------------------------------------------------
(* How exact hashes come about and stay.                                   *)

(* A hash of what the store holds of a window is exact, when the ops that  *)
(* the model was not told of are left out.                                 *)
LEMMA ReadIsExact ==
    ASSUME DhtShape, NEW s \in Sectors, NEW a, NEW b, NEW h, NEW E,
           Counted(h) = OpsIn(s, a, b), Counted(h) \ told \subseteq E
    PROVE  Exact(h, s, a, b, told, E)
<1>1. \A o : o \in Counted(h) <=>
         o \in stored /\ Own(o) = s /\ a <= Created[o] /\ Created[o] < b
  <2>1. stored \in SUBSET Ops
    BY DEF DhtShape
  <2>2. \A o : o \in OpsIn(s, a, b) <=>
           o \in stored /\ Own(o) = s /\ a <= Created[o] /\ Created[o] < b
    BY <2>1, OpsOfSector
  <2>3. QED
    BY <2>2
<1>2. told \subseteq stored
  BY DEF DhtShape
<1>3. QED
  BY <1>1, <1>2 DEF Exact

(* Leaving more ops out keeps a hash exact. *)
LEMMA ExactKept ==
    ASSUME NEW h, NEW s, NEW a, NEW b, NEW T, NEW E, NEW F,
           Exact(h, s, a, b, T, E), E \subseteq F
    PROVE  Exact(h, s, a, b, T, F)
BY DEF Exact

(* The windows of the full slices. *)
LEMMA Windows ==
    /\ FullSize \in Nat \ {0}
    /\ \A i \in Indices : i \in Nat /\ i * FullSize \in Nat
                          /\ (i + 1) * FullSize = i * FullSize + FullSize
    /\ \A o \in Ops : Created[o] \in Nat /\ Created[o] \div FullSize \in Indices
<1>1. FullSize \in Nat \ {0} /\ MaxTime \in Nat
  BY SizeFacts, DhtAssumption
<1>2. MaxTime \div FullSize \in Nat
  BY <1>1, DivBracket
<1>3. ASSUME NEW i \in Indices
      PROVE  i \in Nat /\ i * FullSize \in Nat /\ (i + 1) * FullSize = i * FullSize + FullSize
  <2>1. i \in Nat
    BY <1>2 DEF Indices
  <2>2. 0 * FullSize <= i * FullSize /\ 0 * FullSize = 0
    BY <1>1, <2>1, Scale, Distribute
  <2>3. i * FullSize \in Int /\ (i + 1) * FullSize = i * FullSize + FullSize
    BY <1>1, <2>1, Distribute
  <2>4. QED
    BY <2>1, <2>2, <2>3
<1>4. ASSUME NEW o \in Ops
      PROVE  Created[o] \in Nat /\ Created[o] \div FullSize \in Indices
  <2>1. Created[o] \in Nat /\ Created[o] <= MaxTime
    BY <1>1, DhtAssumption
  <2> DEFINE c == Created[o]
             q == c \div FullSize
             m == MaxTime \div FullSize
  <2>2. q \in Nat /\ q * FullSize <= c
    BY <1>1, <2>1, DivBracket
  <2>3. m \in Nat /\ MaxTime < m * FullSize + FullSize
    BY <1>1, DivBracket
  <2> HIDE DEF q, m
  <2>4. (m + 1) * FullSize = m * FullSize + FullSize /\ m * FullSize \in Int
        /\ q * FullSize \in Int
    BY <1>1, <2>2, <2>3, Distribute
  <2>5. q * FullSize < (m + 1) * FullSize
    BY <1>1, <2>1, <2>2, <2>3, <2>4
  <2>6. q < m + 1
    BY <1>1, <2>2, <2>3, <2>5, Scale
  <2>7. q \in 0 .. m
    BY <2>2, <2>3, <2>6
  <2>8. QED
    BY <2>1, <2>7 DEF q, m, Indices
<1>5. QED
  BY <1>1, <1>3, <1>4

(* The number of slices that a row of them tells of. *)
Count(row) ==
    LET used == {i \in Indices : row[i] # NoHash}
    IN IF used = {} THEN 0 ELSE Max(used) + 1

LEMMA RowCount ==
    ASSUME NEW row \in [Indices -> Hashes]
    PROVE  /\ Count(row) \in Nat
           /\ \A i \in Indices : i >= Count(row) => row[i] = NoHash
           /\ \A n \in Nat : (\A i \in Indices : i >= n => row[i] = NoHash)
                              => Count(row) <= n
<1> DEFINE used == {i \in Indices : row[i] # NoHash}
           b == MaxTime \div FullSize
<1>1. Count(row) = IF used = {} THEN 0 ELSE Max(used) + 1
  BY DEF Count
<1>2. b \in Nat /\ used \in SUBSET (0 .. b)
  <2>1. FullSize \in Nat \ {0} /\ MaxTime \in Nat
    BY SizeFacts, DhtAssumption
  <2>2. QED
    BY <2>1, DivBracket DEF Indices
<1>3. CASE used = {}
  BY <1>1, <1>3
<1>4. CASE used # {}
  <2>1. Max(used) \in used /\ \A m \in used : Max(used) >= m
    <3> HIDE DEF used, b
    <3>1. QED
      BY <1>2, <1>4, Largest
  <2> DEFINE x == Max(used)
  <2>2. x \in Indices /\ row[x] # NoHash /\ x \in Nat
    <3> HIDE DEF x, b
    <3>1. x \in used
      BY <2>1 DEF x
    <3>2. QED
      BY <3>1, <1>2
  <2>3. Count(row) = x + 1
    BY <1>1, <1>4
  <2> HIDE DEF x
  <2>4. \A i \in Indices : row[i] # NoHash => x >= i
    BY <2>1 DEF x
  <2>5. \A i \in Indices : i \in Nat
    BY Windows
  <2> HIDE DEF used
  <2>6. QED
    BY <2>2, <2>3, <2>4, <2>5
<1>5. QED
  BY <1>3, <1>4

(* So a restart loses sight of no full slice that counts an op. *)
LEMMA CountReaches ==
    ASSUME NEW row \in [Indices -> Hashes], NEW s,
           NEW n \in Nat, NEW T, NEW E, FullOK(s, row, n, T, E)
    PROVE  FullOK(s, row, Count(row), T, E)
<1>1. \A i \in Indices : i \in Nat
  BY Windows
<1>2. \A i \in Indices : i >= n => row[i] = NoHash
  BY <1>1 DEF FullOK
<1>3. /\ Count(row) \in Nat /\ Count(row) <= n
      /\ \A i \in Indices : i >= Count(row) => row[i] = NoHash
  BY <1>2, RowCount
<1>4. QED
  BY <1>1, <1>3 DEF FullOK

----------------------------------------------------------------------------
(* One update of a sector.                                                 *)

(* The full slices that are added leave the time kept for partial ones,    *)
(* and less than a full slice more.                                        *)
LEMMA Growing ==
    ASSUME NEW p \in Part, NEW t \in Nat, FullEnd(p) <= t,
           p.full > 0 => t - FullEnd(p) >= MinRecent,
           NEW k \in 0 .. NewFullSlices(p, t)
    PROVE  /\ NewFullSlices(p, t) \in Nat
           /\ Grown(p, k) \in Part
           /\ Grown(p, k).full = p.full + k
           /\ Grown(p, k).partials = p.partials
           /\ FullEnd(p) \in Nat /\ FullEnd(Grown(p, k)) \in Nat
           /\ FullEnd(p) <= FullEnd(Grown(p, k))
           /\ FullEnd(Grown(p, k)) <= t
           /\ p.full + k > 0 => t - FullEnd(Grown(p, k)) >= MinRecent
           /\ k = NewFullSlices(p, t) => t - FullEnd(Grown(p, k)) < MinRecent + FullSize
<1> DEFINE F == FullSize
           n == NewFullSlices(p, t)
           r == t - FullEnd(p)
<1>1. /\ F \in Nat \ {0} /\ MinRecent \in Nat
      /\ p.full \in Nat /\ p.partials \in Seq(Slice) /\ p.next \in Nat /\ p.at \in Nat
  BY SizeFacts DEF Part
<1>2. FullEnd(p) \in Nat /\ FullEnd(p) = p.full * F
  <2>1. 0 * F <= p.full * F /\ 0 * F = 0 /\ p.full * F \in Int
    BY <1>1, Scale, Distribute
  <2>2. QED
    BY <2>1 DEF FullEnd
<1>3. r \in Nat
  BY <1>2
<1>4. /\ n \in Nat
      /\ n > 0 => n * F <= r - MinRecent
      /\ r - n * F < MinRecent + F
  <2>1. CASE r > MinRecent
    <3> DEFINE d == r - MinRecent
    <3>1. d \in Nat
      BY <1>1, <1>3, <2>1
    <3>2. n = d \div F
      BY <2>1 DEF NewFullSlices
    <3> HIDE DEF d, n
    <3>3. /\ n \in Nat /\ n * F <= d /\ d < n * F + F
      BY <1>1, <3>1, <3>2, DivBracket
    <3>4. n * F \in Int
      BY <1>1, <3>3, Distribute
    <3> HIDE DEF r
    <3>5. d = r - MinRecent
      BY DEF d
    <3>6. QED
      BY <1>1, <1>3, <3>3, <3>4, <3>5
  <2>2. CASE ~ (r > MinRecent)
    <3>1. n = 0
      BY <2>2 DEF NewFullSlices
    <3>2. n * F = 0
      BY <1>1, <3>1
    <3> HIDE DEF r, n, F
    <3>3. QED
      BY <1>1, <1>3, <2>2, <3>1, <3>2
  <2>3. QED
    BY <2>1, <2>2
<1>5. k \in Nat /\ k <= n
  BY <1>4
<1>6. /\ Grown(p, k) \in Part /\ Grown(p, k).full = p.full + k
      /\ Grown(p, k).partials = p.partials
  BY <1>1, <1>5 DEF Grown, Part
<1>7. FullEnd(Grown(p, k)) = FullEnd(p) + k * F
  BY <1>1, <1>2, <1>5, <1>6, Distribute DEF FullEnd
<1>8. /\ k * F \in Nat /\ n * F \in Nat /\ k * F <= n * F
      /\ k = 0 => k * F = 0
  <2>1. /\ 0 * F <= k * F /\ 0 * F <= n * F /\ k * F <= n * F
        /\ 0 * F = 0 /\ k * F \in Int /\ n * F \in Int
    BY <1>1, <1>4, <1>5, Scale, Distribute
  <2>2. QED
    BY <2>1
<1> HIDE DEF F, n
<1>9. CASE k = 0
  <2>1. FullEnd(Grown(p, k)) = FullEnd(p)
    BY <1>2, <1>7, <1>8, <1>9
  <2>2. p.full + k > 0 => t - FullEnd(Grown(p, k)) >= MinRecent
    BY <1>1, <1>9, <2>1
  <2>3. k = n => t - FullEnd(Grown(p, k)) < MinRecent + F
    <3>1. k = n => r < MinRecent + F
      <4> HIDE DEF r
      <4>1. k = n => r - n * F = r
        BY <1>3, <1>8, <1>9
      <4>2. QED
        BY <4>1, <1>4
    <3>2. QED
      BY <2>1, <3>1
  <2>4. QED
    BY <1>2, <1>4, <1>6, <2>1, <2>2, <2>3 DEF F, n
<1>10. CASE k > 0
  <2>1. n > 0
    BY <1>4, <1>5, <1>10
  <2>2. k * F <= r - MinRecent
    <3> HIDE DEF r
    <3>1. QED
      BY <1>1, <1>3, <1>4, <1>8, <2>1
  <2>3. FullEnd(Grown(p, k)) \in Nat /\ FullEnd(p) <= FullEnd(Grown(p, k))
    BY <1>2, <1>7, <1>8
  <2>4. t - FullEnd(Grown(p, k)) = r - k * F
    BY <1>2, <1>7, <1>8
  <2>5. t - FullEnd(Grown(p, k)) >= MinRecent /\ FullEnd(Grown(p, k)) <= t
    BY <1>1, <1>3, <1>8, <2>2, <2>3, <2>4
  <2>6. QED
    BY <1>1, <1>2, <1>3, <1>4, <1>6, <2>3, <2>4, <2>5, <1>8 DEF F, n
<1>11. QED
  BY <1>5, <1>9, <1>10

(* The stored slices after an update has read k new ones. *)
LEMMA FullSlices ==
    ASSUME DhtShape, NEW s \in Sectors, NEW p \in Part, NEW k \in Nat, NEW E,
           FullOK(s, slices[s], p.full, told, early), early \subseteq E,
           \A i \in Indices : Counted(FullHashes(s, p, k)[i]) \ told \subseteq E
    PROVE  /\ FullHashes(s, p, k) \in [Indices -> Hashes]
           /\ FullOK(s, FullHashes(s, p, k), p.full + k, told, E)
<1> DEFINE found(i) == OpsIn(s, i * FullSize, (i + 1) * FullSize)
           row == FullHashes(s, p, k)
<1>1. /\ p.full \in Nat
      /\ stored \in SUBSET Ops /\ slices[s] \in [Indices -> Hashes]
      /\ \A i \in Indices : i \in Nat
      /\ \A i : found(i) \in SUBSET Ops
  <2>1. stored \in SUBSET Ops
    BY DEF DhtShape
  <2>2. \A i : found(i) \in SUBSET Ops
    BY <2>1, OpsOfSector
  <2>3. slices[s] \in [Indices -> Hashes]
    BY DEF DhtShape
  <2> HIDE DEF found
  <2>4. QED
    BY <2>1, <2>2, <2>3, Windows DEF Part
<1>2. \A i \in Indices : row[i] = IF i \in p.full .. p.full + k - 1 /\ found(i) # {}
                                 THEN CombineOpHashes(found(i)) ELSE slices[s][i]
  BY DEF FullHashes
<1>3. row \in [Indices -> Hashes]
  <2>1. \A i \in Indices : row[i] \in Hashes
    <3> HIDE DEF row, found
    <3>1. QED
      BY <1>1, <1>2, CombinedRead
  <2>2. row = [i \in Indices |-> row[i]]
    BY DEF FullHashes
  <2> HIDE DEF row
  <2>3. QED
    BY <2>1, <2>2
<1>4. ASSUME NEW i \in Indices
      PROVE  IF i < p.full + k
             THEN Exact(row[i], s, i * FullSize, (i + 1) * FullSize, told, E)
             ELSE row[i] = NoHash
  <2>0. i \in Nat
    BY <1>1
  <2>1. CASE i < p.full
    <3>1. row[i] = slices[s][i]
      BY <1>1, <1>2, <2>0, <2>1
    <3>2. Exact(row[i], s, i * FullSize, (i + 1) * FullSize, told, early)
      BY <2>1, <3>1 DEF FullOK
    <3>3. Exact(row[i], s, i * FullSize, (i + 1) * FullSize, told, E)
      BY <3>2, ExactKept
    <3>4. QED
      BY <3>3, <2>0, <2>1, <1>1
  <2>2. CASE i >= p.full /\ i < p.full + k
    <3>1. i \in p.full .. p.full + k - 1 /\ slices[s][i] = NoHash
      BY <1>1, <2>0, <2>2 DEF FullOK
    <3>2. Counted(row[i]) = found(i)
      <4>1. CASE found(i) = {}
        <5>1. row[i] = NoHash
          BY <1>2, <3>1, <4>1
        <5>2. QED
          BY <5>1, <4>1 DEF Counted
      <4>2. CASE found(i) # {}
        <5>1. row[i] = CombineOpHashes(found(i)) /\ found(i) \in SUBSET Ops
          BY <1>1, <1>2, <3>1, <4>2
        <5>2. QED
          BY <5>1, CombinedRead
      <4>3. QED
        BY <4>1, <4>2
    <3>3. Exact(row[i], s, i * FullSize, (i + 1) * FullSize, told, E)
      BY <3>2, ReadIsExact
    <3>4. QED
      BY <3>3, <2>2
  <2>3. CASE i >= p.full + k
    <3>1. ~ (i \in p.full .. p.full + k - 1) /\ ~ (i < p.full + k) /\ ~ (i < p.full)
      BY <1>1, <2>0, <2>3
    <3>2. QED
      BY <3>1, <1>2 DEF FullOK
  <2>4. QED
    BY <2>0, <2>1, <2>2, <2>3, <1>1
<1>5. QED
  BY <1>3, <1>4 DEF FullOK

(* A slice of a partition ends at a time. *)
LEMMA Ends ==
    /\ \A c \in Cut : /\ c.start \in Nat /\ c.size \in 0 .. Factor - 1
                      /\ PartialEnd(c) \in Nat /\ c.start < PartialEnd(c)
    /\ \A sl \in Slice : /\ sl.start \in Nat /\ sl.size \in 0 .. Factor - 1
                         /\ sl.hash \in Hashes
                         /\ PartialEnd(sl) \in Nat /\ sl.start < PartialEnd(sl)
<1>1. \A i \in 0 .. Factor - 1 : Size[i] \in Nat \ {0}
  <2>1. \A i \in 0 .. Factor - 1 : i \in 0 .. Factor
    BY SizeFacts
  <2>2. QED
    BY <2>1, SizeFacts
<1>2. QED
  BY <1>1 DEF Cut, Slice, PartialEnd

(* The hash of a cut is exact: it is kept from a slice of the same start   *)
(* and size, or there is nothing to read, or it is read.                   *)
LEMMA CutHash ==
    ASSUME DhtShape, NEW s \in Sectors, NEW p \in Part, NEW from \in Nat,
           NEW cut \in Cut, NEW E, early \subseteq E,
           PartialsOK(s, p, told, early), FullEnd(p) <= from, from <= cut.start,
           FullEnd(p) \in Nat,
           Counted(PartialHash(s, p, cut)) \ told \subseteq E
    PROVE  /\ PartialHash(s, p, cut) \in Hashes
           /\ Exact(PartialHash(s, p, cut), s, cut.start, PartialEnd(cut), told, E)
<1> DEFINE h == PartialHash(s, p, cut)
<1>1. stored \in SUBSET Ops /\ told \subseteq stored /\ p.partials \in Seq(Slice)
  BY DEF DhtShape, Part
<1>2. CASE Same(p, cut) # {}
  <2> DEFINE sl == CHOOSE x \in Same(p, cut) : TRUE
  <2>1. sl \in Same(p, cut) /\ h = sl.hash
    BY <1>2 DEF PartialHash
  <2> HIDE DEF sl
  <2>2. PICK j \in 1 .. Len(p.partials) : sl = p.partials[j]
    BY <1>1, <2>1 DEF Same, Range
  <2>3. sl \in Slice
    BY <1>1, <2>2
  <2>4. sl.start = cut.start /\ sl.size = cut.size
    BY <2>1 DEF Same
  <2>5. PartialEnd(sl) = PartialEnd(cut)
    BY <2>4 DEF PartialEnd
  <2>6. sl.start >= FullEnd(p)
    BY <2>3, <2>4, Ends
  <2>7. Exact(sl.hash, s, sl.start, PartialEnd(sl), told, early)
    BY <2>2, <2>6 DEF PartialsOK
  <2>8. Exact(h, s, cut.start, PartialEnd(cut), told, early)
    BY <2>1, <2>4, <2>5, <2>7
  <2>9. QED
    BY <2>1, <2>3, <2>8, ExactKept, Ends
<1>3. CASE Same(p, cut) = {} /\ AllLater(s, cut)
  <2>1. h = NoHash
    BY <1>3 DEF PartialHash
  <2>2. OpsIn(s, cut.start, PartialEnd(cut)) = {}
    <3>1. ASSUME NEW o \in OpsIn(s, cut.start, PartialEnd(cut)) PROVE FALSE
      <4>1. o \in InSector(s) /\ Created[o] < PartialEnd(cut) /\ o \in Ops
        BY <1>1 DEF OpsIn, InSector
      <4>2. Created[o] > PartialEnd(cut)
        BY <1>3, <4>1 DEF AllLater
      <4>3. QED
        BY <4>1, <4>2, Windows, Ends
    <3>2. QED
      BY <3>1
  <2>3. Counted(h) = {} /\ h \in Hashes
    BY <2>1 DEF Counted, Hashes
  <2>4. QED
    BY <2>2, <2>3, ReadIsExact
<1>4. CASE Same(p, cut) = {} /\ ~ AllLater(s, cut)
  <2> DEFINE S == OpsIn(s, cut.start, PartialEnd(cut))
  <2>1. h = CombineOpHashes(S)
    BY <1>4 DEF PartialHash
  <2>2. S \in SUBSET Ops
    BY <1>1, OpsOfSector
  <2> HIDE DEF S
  <2>3. h \in Hashes /\ Counted(h) = S
    BY <2>1, <2>2, CombinedRead
  <2>4. QED
    BY <2>3, ReadIsExact DEF S
<1>5. QED
  BY <1>2, <1>3, <1>4

(* Partial slices of a partition stay as they are when it gets full ones. *)
LEMMA GrownPartials ==
    ASSUME NEW s, NEW p \in Part, NEW q \in Part, NEW T, NEW E,
           PartialsOK(s, p, T, E), q.partials = p.partials,
           FullEnd(p) \in Nat, FullEnd(q) \in Nat, FullEnd(p) <= FullEnd(q)
    PROVE  PartialsOK(s, q, T, E)
<1>1. p.partials \in Seq(Slice)
  BY DEF Part
<1>2. p.partials # <<>> => p.partials[1] \in Slice
  BY <1>1
<1>3. q.partials # <<>> => q.partials[1].start <= FullEnd(q)
  BY <1>2, Ends DEF PartialsOK
<1>4. ASSUME NEW j \in 1 .. Len(p.partials), p.partials[j].start >= FullEnd(q)
      PROVE  p.partials[j].start >= FullEnd(p)
  <2>1. p.partials[j].start \in Nat
    BY <1>1, Ends
  <2>2. QED
    BY <2>1, <1>4
<1>5. QED
  BY <1>3, <1>4 DEF PartialsOK

(* The first k slices of a new layout. *)
LEMMA NewPartials ==
    ASSUME DhtShape, NEW s \in Sectors, NEW q \in Part, FullEnd(q) \in Nat,
           PartialsOK(s, q, told, early), NEW E, early \subseteq E,
           NEW cuts \in Seq(Cut), InLine(cuts, FullEnd(q)),
           \A j \in 1 .. Len(cuts) : FullEnd(q) <= cuts[j].start,
           NEW k \in 0 .. Len(cuts),
           \A j \in 1 .. k : Counted(Partials(s, q, cuts, k)[j].hash) \ told \subseteq E
    PROVE  LET sls == Partials(s, q, cuts, k)
           IN /\ sls \in Seq(Slice) /\ Len(sls) = k
              /\ \A j \in 1 .. k : /\ sls[j].start = cuts[j].start
                                   /\ sls[j].size = cuts[j].size
              /\ \A p \in Part : p.full = q.full /\ p.partials = sls
                                  => PartialsOK(s, p, told, E)
<1> DEFINE sls == Partials(s, q, cuts, k)
<1>1. /\ k \in Nat /\ k <= Len(cuts)
      /\ \A j \in 1 .. k : j \in 1 .. Len(cuts) /\ cuts[j] \in Cut
  OBVIOUS
<1>2. \A j \in 1 .. k : sls[j] = [start |-> cuts[j].start, size |-> cuts[j].size,
                                  hash |-> PartialHash(s, q, cuts[j])]
  BY DEF Partials
<1>3. ASSUME NEW j \in 1 .. k
      PROVE  /\ sls[j] \in Slice
             /\ sls[j].start = cuts[j].start /\ sls[j].size = cuts[j].size
             /\ PartialEnd(sls[j]) = PartialEnd(cuts[j])
             /\ Exact(sls[j].hash, s, sls[j].start, PartialEnd(sls[j]), told, E)
  <2>1. cuts[j] \in Cut /\ FullEnd(q) <= cuts[j].start
    BY <1>1
  <2>2. sls[j].hash = PartialHash(s, q, cuts[j])
    <3> HIDE DEF sls
    <3>1. sls[j] = [start |-> cuts[j].start, size |-> cuts[j].size,
                    hash |-> PartialHash(s, q, cuts[j])]
      BY <1>2
    <3>2. QED
      BY <3>1
  <2>3. Counted(PartialHash(s, q, cuts[j])) \ told \subseteq E
    BY <2>2
  <2> DEFINE c == cuts[j]
  <2> HIDE DEF c
  <2>4. c \in Cut /\ FullEnd(q) <= c.start /\ Counted(PartialHash(s, q, c)) \ told \subseteq E
    BY <2>1, <2>3 DEF c
  <2>5. FullEnd(q) <= FullEnd(q)
    OBVIOUS
  <2>6. /\ PartialHash(s, q, c) \in Hashes
        /\ Exact(PartialHash(s, q, c), s, c.start, PartialEnd(c), told, E)
    BY <2>4, <2>5, CutHash
  <2>7. sls[j] = [start |-> c.start, size |-> c.size, hash |-> PartialHash(s, q, c)]
    BY <1>2 DEF c
  <2>8. PartialEnd(sls[j]) = PartialEnd(c)
    BY <2>7 DEF PartialEnd
  <2>9. sls[j] \in Slice
    BY <2>4, <2>6, <2>7, Ends DEF Slice
  <2>10. /\ sls[j].start = c.start /\ sls[j].size = c.size
         /\ sls[j].hash = PartialHash(s, q, c)
    BY <2>7
  <2> HIDE DEF sls
  <2>11. QED
    BY <2>6, <2>8, <2>9, <2>10 DEF c
<1>4. sls \in Seq(Slice) /\ Len(sls) = k
  <2>1. sls = [j \in 1 .. k |-> sls[j]]
    BY DEF Partials
  <2> HIDE DEF sls
  <2>2. QED
    BY <1>1, <1>3, <2>1
<1> HIDE DEF sls
<1>5. ASSUME NEW p \in Part, p.full = q.full, p.partials = sls
      PROVE  PartialsOK(s, p, told, E)
  <2>1. FullEnd(p) = FullEnd(q)
    BY <1>5 DEF FullEnd
  <2>2. sls # <<>> => 1 \in 1 .. k /\ cuts # <<>> /\ sls[1].start = FullEnd(q)
    <3>1. sls # <<>> => 1 \in 1 .. k /\ cuts # <<>>
      BY <1>1, <1>4
    <3>2. QED
      BY <3>1, <1>3 DEF InLine
  <2>3. ASSUME NEW j \in 1 .. k - 1 PROVE sls[j + 1].start = PartialEnd(sls[j])
    <3>1. j \in 1 .. k /\ j + 1 \in 1 .. k /\ j \in 1 .. Len(cuts) - 1
      BY <1>1
    <3>2. cuts[j + 1].start = PartialEnd(cuts[j])
      BY <3>1 DEF InLine
    <3>3. QED
      BY <3>1, <3>2, <1>3
  <2>4. ASSUME NEW a \in 1 .. k, NEW b \in 1 .. k, a < b
        PROVE  PartialEnd(sls[a]) <= sls[b].start
    <3>1. a \in 1 .. Len(cuts) /\ b \in 1 .. Len(cuts)
      BY <1>1
    <3>2. PartialEnd(cuts[a]) <= cuts[b].start
      BY <3>1, <2>4 DEF InLine
    <3>3. QED
      BY <3>2, <1>3
  <2>5. InLine(sls, sls[1].start)
    BY <1>4, <2>3, <2>4 DEF InLine
  <2>6. QED
    BY <1>3, <1>4, <1>5, <2>1, <2>2, <2>5 DEF PartialsOK
<1>6. QED
  BY <1>3, <1>4, <1>5 DEF sls

(* E leaves out whatever hashes count without the model having been told. *)
Reads(row, p, E) ==
    /\ \A i \in Indices : Counted(row[i]) \ told \subseteq E
    /\ \A sl \in Range(p.partials) : Counted(sl.hash) \ told \subseteq E

(* The end of the full slices and the number of new ones are numbers. *)
LEMMA MoreFull ==
    ASSUME NEW p \in Part, NEW t \in Nat
    PROVE  FullEnd(p) \in Nat /\ NewFullSlices(p, t) \in Nat
<1>1. FullSize \in Nat \ {0} /\ MinRecent \in Nat /\ p.full \in Nat
  BY SizeFacts DEF Part
<1>2. 0 * FullSize <= p.full * FullSize /\ 0 * FullSize = 0 /\ p.full * FullSize \in Int
  BY <1>1, Scale, Distribute
<1>3. FullEnd(p) \in Nat
  BY <1>2 DEF FullEnd
<1> DEFINE d == (t - FullEnd(p)) - MinRecent
<1>4. t - FullEnd(p) > MinRecent => d \in Nat
  BY <1>1, <1>3
<1> HIDE DEF d
<1>5. t - FullEnd(p) > MinRecent => d \div FullSize \in Nat
  BY <1>1, <1>4, DivBracket
<1>6. QED
  BY <1>3, <1>5 DEF d, NewFullSlices

(* The layout at the time of an update. *)
LEMMA CutsAtUpdate ==
    ASSUME DhtShape, NEW p \in Part, ClockOK(p, now)
    PROVE  LET q == Grown(p, NewFullSlices(p, now))
               from == FullEnd(q)
               cuts == Cuts(q)
           IN /\ q \in Part /\ q.partials = p.partials
              /\ FullEnd(p) \in Nat /\ FullEnd(p) <= from
              /\ from \in Nat /\ from <= now /\ now - from < MinRecent + FullSize
              /\ q.full > 0 => now - from >= MinRecent
              /\ cuts = LayoutPartials(from, now)
              /\ cuts \in Seq(Cut) /\ InLine(cuts, from)
              /\ \A j \in 1 .. Len(cuts) : from <= cuts[j].start
<1> DEFINE n == NewFullSlices(p, now)
           q == Grown(p, n)
           from == FullEnd(q)
<1>1. now \in Nat
  BY DEF DhtShape
<1>2. FullEnd(p) <= now /\ (p.full > 0 => now - FullEnd(p) >= MinRecent)
  BY DEF ClockOK
<1>3. n \in Nat
  BY <1>1, MoreFull
<1>4. n \in 0 .. n
  BY <1>3
<1> HIDE DEF n
<1>5. /\ q \in Part /\ q.full = p.full + n /\ q.partials = p.partials
      /\ FullEnd(p) \in Nat /\ FullEnd(q) \in Nat
      /\ FullEnd(p) <= FullEnd(q)
      /\ FullEnd(q) <= now
      /\ p.full + n > 0 => now - FullEnd(q) >= MinRecent
      /\ now - FullEnd(q) < MinRecent + FullSize
  BY <1>1, <1>2, <1>4, Growing DEF n
<1> HIDE DEF q
<1>6. Cuts(q) = LayoutPartials(from, now)
  BY DEF Cuts
<1>7. /\ LayoutPartials(from, now) \in Seq(Cut)
      /\ InLine(LayoutPartials(from, now), from)
      /\ \A j \in 1 .. Len(LayoutPartials(from, now)) :
            from <= LayoutPartials(from, now)[j].start
  BY <1>1, <1>5, LayoutFacts
<1>8. QED
  BY <1>5, <1>6, <1>7 DEF q, n

(* An update leaves a sector in order, laid out at its time. *)
LEMMA UpdatedOK ==
    ASSUME DhtShape, NEW s \in Sectors, NEW p,
           SectorOK(s, p, slices[s], told, early, now), NEW E, early \subseteq E,
           Reads(FullHashes(s, p, NewFullSlices(p, now)), Updated(s, p), E)
    PROVE  SectorOK(s, Updated(s, p), FullHashes(s, p, NewFullSlices(p, now)),
                    told, E, now)
<1> DEFINE n == NewFullSlices(p, now)
           q == Grown(p, n)
           from == FullEnd(q)
           cuts == Cuts(q)
           sls == Partials(s, q, cuts, Len(cuts))
           u == Updated(s, p)
           row == FullHashes(s, p, n)
<1>1. /\ p \in Part /\ now \in Nat /\ ClockOK(p, now) /\ PartialsOK(s, p, told, early)
      /\ FullOK(s, slices[s], p.full, told, early)
  BY DEF SectorOK, DhtShape
<1>2. FullEnd(p) <= now /\ (p.full > 0 => now - FullEnd(p) >= MinRecent)
  BY <1>1 DEF ClockOK
<1>3. /\ q \in Part /\ q.partials = p.partials
      /\ FullEnd(p) \in Nat /\ FullEnd(p) <= from
      /\ from \in Nat /\ from <= now /\ now - from < MinRecent + FullSize
      /\ q.full > 0 => now - from >= MinRecent
      /\ cuts = LayoutPartials(from, now)
      /\ cuts \in Seq(Cut) /\ InLine(cuts, from)
      /\ \A j \in 1 .. Len(cuts) : from <= cuts[j].start
  BY <1>1, CutsAtUpdate
<1>4. u = [full |-> q.full, partials |-> sls, at |-> now,
           next |-> IF sls = <<>> THEN p.next ELSE PartialEnd(Last(sls)) + Unit]
  BY DEF Updated
<1> HIDE DEF cuts, sls, row, u
<1>5. q.full = p.full + n /\ n \in Nat
  <2>1. n \in Nat
    BY <1>1, MoreFull
  <2>2. p.full \in Nat
    BY <1>1 DEF Part
  <2>3. QED
    BY <2>1, <2>2, <1>1 DEF Grown, Part
<1>6. PartialsOK(s, q, told, early)
  <2> HIDE DEF q
  <2>1. QED
    BY <1>1, <1>3, GrownPartials
<1>7. \A sl \in Range(u.partials) : Counted(sl.hash) \ told \subseteq E
  BY DEF Reads, u
<1>8. u.partials = sls /\ u.full = q.full /\ u.at = now
  BY <1>4
<1>9. \A j \in 1 .. Len(cuts) : sls[j] \in Range(sls)
  BY <1>3 DEF sls, Partials, Range
<1> HIDE DEF q
<1>10. Len(cuts) \in 0 .. Len(cuts)
  BY <1>3
<1>11. \A j \in 1 .. Len(cuts) :
          Counted(Partials(s, q, cuts, Len(cuts))[j].hash) \ told \subseteq E
  BY <1>7, <1>8, <1>9 DEF sls
<1>12. /\ sls \in Seq(Slice) /\ Len(sls) = Len(cuts)
       /\ \A j \in 1 .. Len(cuts) : /\ sls[j].start = cuts[j].start
                                    /\ sls[j].size = cuts[j].size
       /\ \A x \in Part : x.full = q.full /\ x.partials = sls
                           => PartialsOK(s, x, told, E)
  <2> HIDE DEF n, from
  <2>1. q \in Part /\ FullEnd(q) \in Nat /\ cuts \in Seq(Cut) /\ InLine(cuts, FullEnd(q))
        /\ \A j \in 1 .. Len(cuts) : FullEnd(q) <= cuts[j].start
    BY <1>3 DEF from
  <2> DEFINE k == Len(cuts)
  <2>2. k \in 0 .. Len(cuts)
    BY <1>10
  <2>3. \A j \in 1 .. k : Counted(Partials(s, q, cuts, k)[j].hash) \ told \subseteq E
    BY <1>11
  <2> HIDE DEF k
  <2>4. LET new == Partials(s, q, cuts, k)
        IN /\ new \in Seq(Slice) /\ Len(new) = k
           /\ \A j \in 1 .. k : /\ new[j].start = cuts[j].start
                                /\ new[j].size = cuts[j].size
           /\ \A x \in Part : x.full = q.full /\ x.partials = new
                               => PartialsOK(s, x, told, E)
    BY <1>6, <2>1, <2>2, <2>3, NewPartials
  <2>5. QED
    BY <2>4 DEF sls, k
<1>13. u \in Part
  <2>1. sls # <<>> => PartialEnd(Last(sls)) \in Nat
    <3>1. sls # <<>> => Last(sls) \in Slice
      BY <1>12 DEF Last
    <3>2. QED
      BY <3>1, Ends
  <2>2. Unit \in Nat /\ p.next \in Nat /\ q.full \in Nat
    BY <1>1, <1>3, SizeFacts DEF Part
  <2> DEFINE next == IF sls = <<>> THEN p.next ELSE PartialEnd(Last(sls)) + Unit
  <2>3. next \in Nat
    BY <2>1, <2>2
  <2>4. u = [full |-> q.full, partials |-> sls, at |-> now, next |-> next]
    BY <1>4
  <2> HIDE DEF next
  <2>5. QED
    BY <1>1, <1>12, <2>2, <2>3, <2>4 DEF Part
<1>14. PartialsOK(s, u, told, E)
  BY <1>8, <1>12, <1>13
<1>15. row \in [Indices -> Hashes] /\ FullOK(s, row, u.full, told, E)
  <2>1. \A i \in Indices : Counted(FullHashes(s, p, n)[i]) \ told \subseteq E
    BY DEF Reads
  <2> HIDE DEF n
  <2>2. FullHashes(s, p, n) \in [Indices -> Hashes]
        /\ FullOK(s, FullHashes(s, p, n), p.full + n, told, E)
    BY <1>1, <1>5, <2>1, FullSlices
  <2>3. QED
    BY <2>2, <1>5, <1>8 DEF row
<1>16. ClockOK(u, now)
  <2>1. FullEnd(u) = from
    BY <1>8 DEF FullEnd
  <2>2. LaidOut(u)
    BY <1>3, <1>8, <1>12, <2>1 DEF LaidOut
  <2>3. QED
    BY <1>3, <1>8, <2>1, <2>2 DEF ClockOK
<1>17. QED
  BY <1>13, <1>14, <1>15, <1>16 DEF SectorOK, row, u

(* Leaving more ops out keeps the partial slices exact. *)
LEMMA PartialsKept ==
    ASSUME NEW s, NEW p, NEW T, NEW E, NEW F, PartialsOK(s, p, T, E), E \subseteq F
    PROVE  PartialsOK(s, p, T, F)
<1>1. \A j \in 1 .. Len(p.partials) :
         LET sl == p.partials[j]
         IN sl.start >= FullEnd(p) => Exact(sl.hash, s, sl.start, PartialEnd(sl), T, F)
  BY ExactKept DEF PartialsOK
<1>2. QED
  BY <1>1 DEF PartialsOK

(* An update that fails leaves a sector in order too: it has added fewer   *)
(* full slices, or it has laid out the first of the partial ones.          *)
LEMMA BrokenOK ==
    ASSUME DhtShape, NEW s \in Sectors, NEW p,
           SectorOK(s, p, slices[s], told, early, now), NEW E, early \subseteq E,
           NEW b \in Broken(s, p),
           Reads(FullHashes(s, p, b.full - p.full), b, E)
    PROVE  SectorOK(s, b, FullHashes(s, p, b.full - p.full), told, E, now)
<1> DEFINE n == NewFullSlices(p, now)
           q == Grown(p, n)
           from == FullEnd(q)
           cuts == Cuts(q)
<1>1. /\ p \in Part /\ now \in Nat /\ ClockOK(p, now) /\ PartialsOK(s, p, told, early)
      /\ FullOK(s, slices[s], p.full, told, early)
      /\ FullEnd(p) <= now /\ (p.full > 0 => now - FullEnd(p) >= MinRecent)
      /\ p.full \in Nat
  BY DEF SectorOK, DhtShape, ClockOK, Part
<1>2. n \in Nat
  BY <1>1, MoreFull
<1> HIDE DEF n
<1>3. ASSUME NEW k \in 0 .. n
      PROVE  /\ Grown(p, k) \in Part
             /\ Grown(p, k).full = p.full + k
             /\ Grown(p, k).partials = p.partials
             /\ FullEnd(p) \in Nat /\ FullEnd(Grown(p, k)) \in Nat
             /\ FullEnd(p) <= FullEnd(Grown(p, k))
             /\ FullEnd(Grown(p, k)) <= now
             /\ p.full + k > 0 => now - FullEnd(Grown(p, k)) >= MinRecent
  BY <1>1, <1>3, Growing DEF n
<1>4. ASSUME NEW k \in 0 .. n, b \in Part, b.full = p.full + k, b.at = 0,
             PartialsOK(s, b, told, E)
      PROVE  SectorOK(s, b, FullHashes(s, p, b.full - p.full), told, E, now)
  <2>1. b.full - p.full = k /\ k \in Nat
    BY <1>1, <1>2, <1>4
  <2>2. \A i \in Indices : Counted(FullHashes(s, p, k)[i]) \ told \subseteq E
    BY <2>1 DEF Reads
  <2>3. /\ FullHashes(s, p, k) \in [Indices -> Hashes]
        /\ FullOK(s, FullHashes(s, p, k), p.full + k, told, E)
    BY <1>1, <2>1, <2>2, FullSlices
  <2>4. ClockOK(b, now)
    <3>1. FullEnd(b) = FullEnd(Grown(p, k))
      BY <1>3, <1>4 DEF FullEnd
    <3>2. QED
      BY <1>3, <1>4, <3>1 DEF ClockOK
  <2>5. QED
    BY <1>4, <2>1, <2>3, <2>4 DEF SectorOK
<1>5. ASSUME NEW k \in 0 .. n, b = [Grown(p, k) EXCEPT !.at = 0]
      PROVE  SectorOK(s, b, FullHashes(s, p, b.full - p.full), told, E, now)
  <2>1. /\ b \in Part /\ b.full = p.full + k /\ b.at = 0
        /\ b.partials = p.partials
    BY <1>3, <1>5 DEF Part
  <2>2. FullEnd(b) = FullEnd(Grown(p, k))
    BY <1>3, <2>1 DEF FullEnd
  <2>3. PartialsOK(s, b, told, early)
    BY <1>1, <1>3, <2>1, <2>2, GrownPartials
  <2>4. PartialsOK(s, b, told, E)
    BY <2>3, PartialsKept
  <2>5. QED
    BY <1>4, <2>1, <2>4
<1>6. ASSUME NEW k \in 1 .. Len(cuts),
             b = [q EXCEPT !.partials = Partials(s, q, cuts, k - 1), !.at = 0]
      PROVE  SectorOK(s, b, FullHashes(s, p, b.full - p.full), told, E, now)
  <2>1. /\ q \in Part /\ q.partials = p.partials
        /\ FullEnd(p) \in Nat /\ FullEnd(p) <= from /\ from \in Nat
        /\ cuts \in Seq(Cut) /\ InLine(cuts, from)
        /\ \A j \in 1 .. Len(cuts) : from <= cuts[j].start
    BY <1>1, CutsAtUpdate DEF n
  <2>2. q.full = p.full + n /\ n \in 0 .. n
    BY <1>2, <1>3
  <2> DEFINE m == k - 1
             sls == Partials(s, q, cuts, m)
  <2>3. m \in 0 .. Len(cuts) /\ m \in Nat
    BY <2>1
  <2> HIDE DEF q, cuts, m
  <2>4. PartialsOK(s, q, told, early)
    BY <1>1, <2>1, GrownPartials
  <2>5. b.partials = sls /\ b.full = q.full /\ b.at = 0
    BY <1>6, <2>1 DEF Part, m
  <2>6. \A j \in 1 .. m : sls[j] \in Range(sls)
    BY <2>3 DEF Partials, Range
  <2>7. \A j \in 1 .. m : Counted(sls[j].hash) \ told \subseteq E
    BY <2>5, <2>6 DEF Reads
  <2>8. /\ sls \in Seq(Slice)
        /\ \A x \in Part : x.full = q.full /\ x.partials = sls
                            => PartialsOK(s, x, told, E)
    BY <2>1, <2>3, <2>4, <2>7, NewPartials
  <2>9. b \in Part
    <3>1. b = [q EXCEPT !.partials = sls, !.at = 0]
      BY <1>6 DEF m
    <3> HIDE DEF sls
    <3>2. QED
      BY <2>1, <2>8, <3>1 DEF Part
  <2>10. PartialsOK(s, b, told, E)
    BY <2>5, <2>8, <2>9
  <2>11. QED
    BY <1>4, <2>2, <2>5, <2>9, <2>10
<1>7. \/ \E k \in 0 .. n : b = [Grown(p, k) EXCEPT !.at = 0]
      \/ \E k \in 1 .. Len(cuts) :
            b = [q EXCEPT !.partials = Partials(s, q, cuts, k - 1), !.at = 0]
  BY DEF Broken, n
<1>8. QED
  BY <1>5, <1>6, <1>7

(* A restart takes the sector up from what is stored of it. *)
LEMMA NewOK ==
    ASSUME DhtShape, NEW s \in Sectors, Consistent(New(s)),
           FullOK(s, slices[s], SliceHashCount(s), told, early)
    PROVE  SectorOK(s, New(s), slices[s], told, early, now)
<1> DEFINE p == New(s)
           count == SliceHashCount(s)
<1>1. /\ now \in Nat /\ stored \in SUBSET Ops /\ told \subseteq stored
      /\ slices[s] \in [Indices -> Hashes]
  BY DEF DhtShape
<1>2. /\ count = Count(slices[s]) /\ count \in Nat
      /\ \A i \in Indices : i >= count => slices[s][i] = NoHash
  <2>1. count = Count(slices[s])
    BY DEF SliceHashCount, Count
  <2> HIDE DEF count
  <2>2. QED
    BY <1>1, <2>1, RowCount
<1> HIDE DEF count
<1>3. StoredFull(s) \in Nat /\ FullOK(s, slices[s], StoredFull(s), told, early)
  <2>1. CASE count > 0
    <3>1. StoredFull(s) = count
      BY <2>1 DEF StoredFull, count
    <3>2. QED
      BY <1>2, <3>1 DEF count
  <2>2. CASE count = 0
    <3> DEFINE T == {Created[o] : o \in InSector(s)}
               earliest == IF InSector(s) = {} THEN now ELSE Min(T)
               index == earliest \div FullSize
    <3>1. StoredFull(s) = IF index = 0 THEN 0 ELSE index - 1
      BY <2>2 DEF StoredFull, count
    <3>2. earliest \in Nat /\ \A o \in InSector(s) : earliest <= Created[o]
      <4>1. CASE InSector(s) = {}
        BY <1>1, <4>1
      <4>2. CASE InSector(s) # {}
        <5>1. T \in SUBSET Nat /\ T # {}
          <6>1. InSector(s) \subseteq Ops
            BY <1>1 DEF InSector
          <6>2. QED
            BY <4>2, <6>1, Windows
        <5> HIDE DEF T
        <5>2. \E x \in T : \A y \in T : x <= y
          BY <5>1, LeastNat
        <5>3. Min(T) \in T /\ \A y \in T : Min(T) <= y
          BY <5>2 DEF Min
        <5>4. earliest \in Nat /\ \A y \in T : earliest <= y
          BY <4>2, <5>1, <5>3
        <5>5. \A o \in InSector(s) : Created[o] \in T
          BY DEF T
        <5> HIDE DEF earliest
        <5>6. QED
          BY <5>4, <5>5
      <4>3. QED
        BY <4>1, <4>2
    <3> HIDE DEF earliest
    <3>3. index \in Nat /\ index * FullSize <= earliest
      BY <3>2, Windows, DivBracket
    <3> HIDE DEF index
    <3>4. StoredFull(s) \in Nat /\ (StoredFull(s) = 0 \/ StoredFull(s) = index - 1)
      BY <3>1, <3>3
    <3>5. ASSUME NEW i \in Indices, i < StoredFull(s)
          PROVE  Exact(slices[s][i], s, i * FullSize, (i + 1) * FullSize, told, early)
      <4>1. i \in Nat /\ FullSize \in Nat \ {0}
        BY Windows
      <4>2. i + 1 <= index
        BY <4>1, <3>3, <3>4, <3>5
      <4>3. (i + 1) * FullSize <= index * FullSize
        BY <4>1, <4>2, <3>3, Scale
      <4>4. (i + 1) * FullSize \in Int /\ index * FullSize \in Int
        BY <4>1, <3>3, Distribute
      <4>5. Counted(slices[s][i]) = {}
        BY <1>2, <2>2, <4>1 DEF Counted
      <4>6. ASSUME NEW o \in told, Own(o) = s PROVE ~ (Created[o] < (i + 1) * FullSize)
        <5>1. o \in InSector(s) /\ o \in Ops
          BY <1>1, <4>6, OpsOfSector
        <5>2. Created[o] \in Nat /\ earliest <= Created[o]
          BY <5>1, <3>2, Windows
        <5>3. QED
          BY <3>2, <3>3, <4>3, <4>4, <5>2
      <4>7. QED
        BY <4>5, <4>6 DEF Exact
    <3>6. ASSUME NEW i \in Indices PROVE slices[s][i] = NoHash
      BY <1>2, <2>2, Windows
    <3>7. QED
      BY <3>4, <3>5, <3>6 DEF FullOK
  <2>3. QED
    BY <1>2, <2>1, <2>2
<1>4. /\ p = [full |-> StoredFull(s), partials |-> <<>>, next |-> 0, at |-> 0]
      /\ p \in Part
  BY <1>3 DEF New, Part
<1>5. PartialsOK(s, p, told, early)
  BY <1>4 DEF PartialsOK, InLine
<1>6. ClockOK(p, now)
  <2>1. now \in Nat /\ FullEnd(p) \in Nat
    BY <1>1, <1>4, MoreFull
  <2>2. QED
    BY <1>4, <2>1 DEF Consistent, ClockOK
<1>7. QED
  BY <1>1, <1>3, <1>4, <1>5, <1>6 DEF SectorOK

----------------------------------------------------------------------------
(* Sectors that a step leaves alone.                                       *)

(* Leaving more ops out keeps a sector in order. *)
LEMMA SectorKept ==
    ASSUME NEW s, NEW p, NEW row, NEW T, NEW E, NEW F, NEW t,
           SectorOK(s, p, row, T, E, t), E \subseteq F
    PROVE  SectorOK(s, p, row, T, F, t)
<1>1. PartialsOK(s, p, T, F)
  BY PartialsKept DEF SectorOK
<1>2. FullOK(s, row, p.full, T, F)
  BY ExactKept DEF SectorOK, FullOK
<1>3. QED
  BY <1>1, <1>2 DEF SectorOK

(* What an update reads of the store, before the model is told, is early. *)
LEMMA ReadEarly ==
    ASSUME NEW ps, NEW ss, Finish(ps, ss), NEW r \in Sectors
    PROVE  early \subseteq early' /\ Reads(ss[r], ps[r], early')
<1>1. early' = early \union ((InSlices(ss) \union InPartitions(ps)) \ told)
  BY DEF Finish
<1>2. \A i \in Indices : Counted(ss[r][i]) \subseteq InSlices(ss)
  BY DEF InSlices
<1>3. ASSUME NEW c \in Range(ps[r].partials)
      PROVE  Counted(c.hash) \subseteq InPartitions(ps)
  <2> DEFINE all == UNION {Range(ps[s].partials) : s \in Sectors}
  <2>1. c \in all
    OBVIOUS
  <2>2. InPartitions(ps) = UNION {Counted(sl.hash) : sl \in all}
    BY DEF InPartitions
  <2> HIDE DEF all
  <2>3. Counted(c.hash) \in {Counted(sl.hash) : sl \in all}
    BY <2>1
  <2>4. QED
    BY <2>2, <2>3
<1>4. QED
  BY <1>1, <1>2, <1>3 DEF Reads

(* A step that leaves every sector in order, with the process up. *)
LEMMA AllInOrder ==
    ASSUME DhtShape, now' \in Nat, stored' \in SUBSET Ops, told' \subseteq stored',
           DOMAIN parts' = Sectors, parts' = [s \in Sectors |-> parts'[s]],
           slices' = [s \in Sectors |-> slices'[s]],
           \A s \in Sectors : SectorOK(s, parts'[s], slices'[s], told', early', now')
    PROVE  DhtInv'
<1>1. 0 \in Sectors
  BY ArcsAssumption DEF Sectors, SectorIds
<1>2. parts' # Down
  BY <1>1 DEF Down
<1>3. \A s \in Sectors : parts'[s] \in Part /\ slices'[s] \in [Indices -> Hashes]
  BY DEF SectorOK
<1>4. parts' \in [Sectors -> Part] /\ slices' \in [Sectors -> [Indices -> Hashes]]
  BY <1>3
<1>5. DhtShape'
  BY <1>4 DEF DhtShape
<1>6. QED
  BY <1>2, <1>5 DEF DhtInv

----------------------------------------------------------------------------
(* The steps.                                                              *)

LEMMA InitOK == DhtInit => DhtInv
<1> SUFFICES ASSUME DhtInit PROVE DhtInv
  OBVIOUS
<1>2. DhtShape
  BY DhtAssumption DEF DhtInit, DhtShape, Hashes
<1>3. ASSUME NEW s \in Sectors
      PROVE  FullOK(s, slices[s], SliceHashCount(s), told, early)
  <2>1. slices[s] \in [Indices -> Hashes] /\ \A i \in Indices : slices[s][i] = NoHash
    BY DEF DhtInit, Hashes
  <2>2. FullOK(s, slices[s], 0, told, early)
    <3>1. \A i \in Indices : ~ (i < 0)
      BY Windows
    <3>2. QED
      BY <2>1, <3>1 DEF FullOK
  <2>3. SliceHashCount(s) = Count(slices[s])
    BY DEF SliceHashCount, Count
  <2>4. QED
    BY <2>1, <2>2, <2>3, CountReaches
<1>4. parts = Down
  BY DEF DhtInit
<1>5. QED
  BY <1>2, <1>3, <1>4 DEF DhtInv

LEMMA TickOK == DhtInv /\ Tick => DhtInv'
<1> SUFFICES ASSUME DhtInv, Tick PROVE DhtInv'
  OBVIOUS
<1>2. /\ DhtShape /\ now \in Nat /\ now' = now + 1
      /\ UNCHANGED <<stored, slices, parts, opCount, faults, told, early>>
  BY DEF DhtInv, DhtShape, Tick
<1>3. DhtShape'
  BY <1>2 DEF DhtShape
<1>4. CASE parts = Down
  <2>1. ASSUME NEW s \in Sectors PROVE SliceHashCount(s)' = SliceHashCount(s)
    BY <1>2 DEF SliceHashCount
  <2>2. QED
    BY <1>2, <1>3, <1>4, <2>1 DEF DhtInv
<1>5. CASE parts # Down
  <2>1. ASSUME NEW s \in Sectors
        PROVE  SectorOK(s, parts[s], slices[s], told, early, now + 1)
    <3>1. SectorOK(s, parts[s], slices[s], told, early, now)
      BY <1>5 DEF DhtInv
    <3>2. parts[s] \in Part /\ MinRecent \in Nat /\ FullEnd(parts[s]) \in Nat
      BY <1>2, <3>1, SizeFacts, MoreFull DEF SectorOK
    <3>3. ClockOK(parts[s], now + 1)
      BY <1>2, <3>1, <3>2 DEF SectorOK, ClockOK
    <3>4. QED
      BY <3>1, <3>3 DEF SectorOK
  <2>2. QED
    BY <1>2, <1>3, <1>5, <2>1 DEF DhtInv
<1>6. QED
  BY <1>4, <1>5

LEMMA StoreOpOK == DhtInv /\ (\E o \in Ops : StoreOp(o)) => DhtInv'
<1> SUFFICES ASSUME DhtInv, NEW o \in Ops, StoreOp(o) PROVE DhtInv'
  OBVIOUS
<1>2. /\ DhtShape /\ stored' = stored \union {o}
      /\ UNCHANGED <<now, slices, parts, opCount, faults, told, early>>
  BY DEF DhtInv, StoreOp
<1>3. DhtShape'
  BY <1>2 DEF DhtShape
<1>4. ASSUME NEW s \in Sectors PROVE SliceHashCount(s)' = SliceHashCount(s)
  BY <1>2 DEF SliceHashCount
<1>5. QED
  BY <1>2, <1>3, <1>4 DEF DhtInv

LEMMA CrashOK == DhtInv /\ Crash => DhtInv'
<1> SUFFICES ASSUME DhtInv, Crash PROVE DhtInv'
  OBVIOUS
<1>2. /\ DhtShape /\ parts # Down /\ parts' = Down
      /\ UNCHANGED <<now, stored, slices, told, early>>
  BY DEF DhtInv, Crash
<1>3. DhtShape'
  BY <1>2 DEF DhtShape
<1>4. ASSUME NEW s \in Sectors
      PROVE  FullOK(s, slices[s], SliceHashCount(s)', told, early)
  <2>1. SectorOK(s, parts[s], slices[s], told, early, now)
    BY <1>2 DEF DhtInv
  <2>2. /\ slices[s] \in [Indices -> Hashes] /\ parts[s].full \in Nat
        /\ FullOK(s, slices[s], parts[s].full, told, early)
    BY <2>1 DEF SectorOK, Part
  <2>3. FullOK(s, slices[s], Count(slices[s]), told, early)
    BY <2>2, CountReaches
  <2>4. SliceHashCount(s)' = Count(slices[s])
    BY <1>2 DEF SliceHashCount, Count
  <2>5. QED
    BY <2>3, <2>4
<1>5. QED
  BY <1>2, <1>3, <1>4 DEF DhtInv

LEMMA UpdateOK == DhtInv /\ Update => DhtInv'
<1> SUFFICES ASSUME DhtInv, Update PROVE DhtInv'
  OBVIOUS
<1> DEFINE ps == [s \in Sectors |-> Updated(s, parts[s])]
           ss == [s \in Sectors |-> FullHashes(s, parts[s], NewFullSlices(parts[s], now))]
<1>2. /\ DhtShape /\ parts # Down /\ Finish(ps, ss)
      /\ UNCHANGED <<now, stored, opCount, faults, told>>
  BY DEF DhtInv, Update, Due
<1>3. parts' = ps /\ slices' = ss
  BY <1>2 DEF Finish
<1>4. ASSUME NEW s \in Sectors
      PROVE  SectorOK(s, parts'[s], slices'[s], told, early', now)
  <2>1. SectorOK(s, parts[s], slices[s], told, early, now)
    BY <1>2 DEF DhtInv
  <2>2. /\ ps[s] = Updated(s, parts[s])
        /\ ss[s] = FullHashes(s, parts[s], NewFullSlices(parts[s], now))
    OBVIOUS
  <2> HIDE DEF ps, ss
  <2>3. early \subseteq early' /\ Reads(ss[s], ps[s], early')
    BY <1>2, ReadEarly
  <2>4. Reads(FullHashes(s, parts[s], NewFullSlices(parts[s], now)),
              Updated(s, parts[s]), early')
    BY <2>2, <2>3
  <2>5. SectorOK(s, Updated(s, parts[s]),
                 FullHashes(s, parts[s], NewFullSlices(parts[s], now)),
                 told, early', now)
    BY <1>2, <2>1, <2>3, <2>4, UpdatedOK
  <2>6. QED
    BY <1>3, <2>2, <2>5
<1>5. /\ DOMAIN parts' = Sectors /\ parts' = [s \in Sectors |-> parts'[s]]
      /\ slices' = [s \in Sectors |-> slices'[s]]
  BY <1>3
<1> HIDE DEF ps, ss
<1>6. now' \in Nat /\ stored' \in SUBSET Ops /\ told' \subseteq stored'
  BY <1>2 DEF DhtShape
<1>7. QED
  BY <1>2, <1>4, <1>5, <1>6, AllInOrder

LEMMA UpdateFailsOK == DhtInv /\ UpdateFails => DhtInv'
<1> SUFFICES ASSUME DhtInv, UpdateFails PROVE DhtInv'
  OBVIOUS
<1> DEFINE Ps(f, p) == [s \in Sectors |-> IF s < f THEN Updated(s, parts[s])
                                          ELSE IF s = f THEN p ELSE parts[s]]
           Ss(f, p) == [s \in Sectors |->
               IF s < f THEN FullHashes(s, parts[s], NewFullSlices(parts[s], now))
               ELSE IF s = f THEN FullHashes(s, parts[s], p.full - parts[s].full)
               ELSE slices[s]]
<1>2. /\ DhtShape /\ parts # Down
      /\ UNCHANGED <<now, stored, opCount, told>>
  BY DEF DhtInv, UpdateFails, Due
<1>3. PICK f \in Sectors : \E p \in Broken(f, parts[f]) : Finish(Ps(f, p), Ss(f, p))
  BY DEF UpdateFails
<1>4. PICK p \in Broken(f, parts[f]) : Finish(Ps(f, p), Ss(f, p))
  BY <1>3
<1> DEFINE ps == Ps(f, p)
           ss == Ss(f, p)
<1>5. parts' = ps /\ slices' = ss /\ Finish(ps, ss)
  BY <1>4 DEF Finish
<1>6. ASSUME NEW s \in Sectors
      PROVE  SectorOK(s, parts'[s], slices'[s], told, early', now)
  <2>1. SectorOK(s, parts[s], slices[s], told, early, now)
    BY <1>2 DEF DhtInv
  <2>2. /\ s < f => /\ ps[s] = Updated(s, parts[s])
                    /\ ss[s] = FullHashes(s, parts[s], NewFullSlices(parts[s], now))
        /\ ~ (s < f) /\ s = f => /\ ps[s] = p
                                /\ ss[s] = FullHashes(s, parts[s], p.full - parts[s].full)
        /\ ~ (s < f) /\ s # f => ps[s] = parts[s] /\ ss[s] = slices[s]
    OBVIOUS
  <2> HIDE DEF ps, ss
  <2>3. early \subseteq early' /\ Reads(ss[s], ps[s], early')
    BY <1>5, ReadEarly
  <2>4. CASE s < f
    <3>1. Reads(FullHashes(s, parts[s], NewFullSlices(parts[s], now)),
                Updated(s, parts[s]), early')
      BY <2>2, <2>3, <2>4
    <3>2. SectorOK(s, Updated(s, parts[s]),
                   FullHashes(s, parts[s], NewFullSlices(parts[s], now)),
                   told, early', now)
      BY <1>2, <2>1, <2>3, <3>1, UpdatedOK
    <3>3. QED
      BY <1>5, <2>2, <2>4, <3>2
  <2>5. CASE ~ (s < f) /\ s = f
    <3>1. /\ p \in Broken(s, parts[s])
          /\ Reads(FullHashes(s, parts[s], p.full - parts[s].full), p, early')
      BY <1>4, <2>2, <2>3, <2>5
    <3>2. SectorOK(s, p, FullHashes(s, parts[s], p.full - parts[s].full),
                   told, early', now)
      BY <1>2, <2>1, <2>3, <3>1, BrokenOK
    <3>3. QED
      BY <1>5, <2>2, <2>5, <3>2
  <2>6. CASE ~ (s < f) /\ s # f
    <3>1. SectorOK(s, parts[s], slices[s], told, early', now)
      BY <2>1, <2>3, SectorKept
    <3>2. QED
      BY <1>5, <2>2, <2>6, <3>1
  <2>7. QED
    BY <2>4, <2>5, <2>6
<1>7. /\ DOMAIN parts' = Sectors /\ parts' = [s \in Sectors |-> parts'[s]]
      /\ slices' = [s \in Sectors |-> slices'[s]]
  BY <1>5
<1> HIDE DEF ps, ss
<1>8. now' \in Nat /\ stored' \in SUBSET Ops /\ told' \subseteq stored'
  BY <1>2 DEF DhtShape
<1>9. QED
  BY <1>2, <1>6, <1>7, <1>8, AllInOrder

LEMMA TryFromStoreOK == DhtInv /\ TryFromStore => DhtInv'
<1> SUFFICES ASSUME DhtInv, TryFromStore PROVE DhtInv'
  OBVIOUS
<1> DEFINE ps == [s \in Sectors |-> Updated(s, New(s))]
           ss == [s \in Sectors |-> FullHashes(s, New(s), NewFullSlices(New(s), now))]
<1>2. /\ DhtShape /\ parts = Down /\ Finish(ps, ss)
      /\ \A s \in Sectors : Consistent(New(s))
      /\ UNCHANGED <<now, stored, faults, told>>
  BY DEF DhtInv, TryFromStore
<1>3. parts' = ps /\ slices' = ss
  BY <1>2 DEF Finish
<1>4. ASSUME NEW s \in Sectors
      PROVE  SectorOK(s, parts'[s], slices'[s], told, early', now)
  <2>1. SectorOK(s, New(s), slices[s], told, early, now)
    <3>1. FullOK(s, slices[s], SliceHashCount(s), told, early)
      BY <1>2 DEF DhtInv
    <3>2. QED
      BY <1>2, <3>1, NewOK
  <2>2. /\ ps[s] = Updated(s, New(s))
        /\ ss[s] = FullHashes(s, New(s), NewFullSlices(New(s), now))
    OBVIOUS
  <2> HIDE DEF ps, ss
  <2>3. early \subseteq early' /\ Reads(ss[s], ps[s], early')
    BY <1>2, ReadEarly
  <2>4. Reads(FullHashes(s, New(s), NewFullSlices(New(s), now)), Updated(s, New(s)), early')
    BY <2>2, <2>3
  <2>5. SectorOK(s, Updated(s, New(s)), FullHashes(s, New(s), NewFullSlices(New(s), now)),
                 told, early', now)
    BY <1>2, <2>1, <2>3, <2>4, UpdatedOK
  <2>6. QED
    BY <1>3, <2>2, <2>5
<1>5. /\ DOMAIN parts' = Sectors /\ parts' = [s \in Sectors |-> parts'[s]]
      /\ slices' = [s \in Sectors |-> slices'[s]]
  BY <1>3
<1> HIDE DEF ps, ss
<1>6. now' \in Nat /\ stored' \in SUBSET Ops /\ told' \subseteq stored'
  BY <1>2 DEF DhtShape
<1>7. QED
  BY <1>2, <1>4, <1>5, <1>6, AllInOrder

LEMMA CreateFailsOK == DhtInv /\ CreateFails => DhtInv'
<1> SUFFICES ASSUME DhtInv, CreateFails PROVE DhtInv'
  OBVIOUS
<1>2. /\ DhtShape /\ parts = Down /\ parts' = Down
      /\ UNCHANGED <<now, stored, told>>
  BY DEF DhtInv, CreateFails
<1> DEFINE Row(s) == FullHashes(s, New(s), NewFullSlices(New(s), now))
<1>3. PICK f \in Sectors :
        /\ \A s \in Sectors : s < f => Consistent(New(s))
        /\ slices' = [s \in Sectors |-> IF s < f THEN Row(s) ELSE slices[s]]
        /\ early' = early \union (InSlices(slices') \ told)
  BY DEF CreateFails
<1>4. early \subseteq early'
  BY <1>3
<1>5. ASSUME NEW r \in Sectors, NEW j \in Indices
      PROVE  Counted(slices'[r][j]) \ told \subseteq early'
  <2>1. Counted(slices'[r][j]) \subseteq InSlices(slices')
    BY DEF InSlices
  <2>2. QED
    BY <1>3, <2>1
<1>6. ASSUME NEW s \in Sectors
      PROVE  /\ slices'[s] \in [Indices -> Hashes]
             /\ FullOK(s, slices'[s], Count(slices'[s]), told, early')
  <2>1. FullOK(s, slices[s], SliceHashCount(s), told, early)
    BY <1>2 DEF DhtInv
  <2>2. slices[s] \in [Indices -> Hashes] /\ now \in Nat
    BY <1>2 DEF DhtShape
  <2> DEFINE row == slices'[s]
  <2>3. CASE s < f
    <3> DEFINE p == New(s)
               n == NewFullSlices(p, now)
    <3>1. SectorOK(s, p, slices[s], told, early, now)
      BY <1>2, <1>3, <2>1, <2>3, NewOK
    <3>2. p \in Part /\ FullOK(s, slices[s], p.full, told, early)
      BY <3>1 DEF SectorOK
    <3>3. row = FullHashes(s, p, n)
      BY <1>3, <2>3
    <3> HIDE DEF p
    <3>4. n \in Nat /\ p.full \in Nat /\ p.full + n \in Nat
      <4>1. n \in Nat
        BY <2>2, <3>2, MoreFull
      <4>2. p.full \in Nat
        BY <3>2 DEF Part
      <4> HIDE DEF n
      <4>3. QED
        BY <4>1, <4>2
    <3>5. \A i \in Indices : Counted(FullHashes(s, p, n)[i]) \ told \subseteq early'
      BY <1>5, <3>3
    <3> HIDE DEF n, row
    <3>6. /\ FullHashes(s, p, n) \in [Indices -> Hashes]
          /\ FullOK(s, FullHashes(s, p, n), p.full + n, told, early')
      BY <1>2, <1>4, <3>2, <3>4, <3>5, FullSlices
    <3>7. row \in [Indices -> Hashes] /\ FullOK(s, row, p.full + n, told, early')
      BY <3>3, <3>6
    <3>8. FullOK(s, row, Count(row), told, early')
      BY <3>4, <3>7, CountReaches
    <3>9. QED
      BY <3>7, <3>8 DEF row
  <2>4. CASE ~ (s < f)
    <3>1. row = slices[s]
      BY <1>3, <2>4
    <3>2. SliceHashCount(s) = Count(slices[s])
      BY DEF SliceHashCount, Count
    <3>3. FullOK(s, slices[s], Count(slices[s]), told, early')
      BY <1>4, <2>1, <3>2, ExactKept DEF FullOK
    <3>4. QED
      BY <2>2, <3>1, <3>3
  <2>5. QED
    BY <2>3, <2>4
<1>7. slices' \in [Sectors -> [Indices -> Hashes]]
  <2>1. slices' = [s \in Sectors |-> slices'[s]]
    BY <1>3
  <2>2. QED
    BY <1>6, <2>1
<1>8. DhtShape'
  BY <1>2, <1>7 DEF DhtShape
<1>9. \A s \in Sectors : SliceHashCount(s)' = Count(slices'[s])
  BY DEF SliceHashCount, Count
<1>10. QED
  BY <1>2, <1>6, <1>8, <1>9 DEF DhtInv

(* What a slice counts when the model is told of one more op. *)
LEMMA ToldElsewhere ==
    ASSUME NEW h, NEW s, NEW a, NEW b, NEW T, NEW E, Exact(h, s, a, b, T, E),
           NEW o \in Ops, ~ (Own(o) = s /\ a <= Created[o] /\ Created[o] < b)
    PROVE  Exact(h, s, a, b, T \union {o}, E)
BY DEF Exact

LEMMA ToldHere ==
    ASSUME NEW h \in Hashes, NEW s, NEW a, NEW b, NEW T, NEW E, Exact(h, s, a, b, T, E),
           NEW o \in Ops, o \notin T, Own(o) = s, a <= Created[o], Created[o] < b
    PROVE  Exact(CombineHashes(h, o), s, a, b, T \union {o}, E)
<1>1. /\ \A x \in Ops : x # o =>
            (x \in Counted(CombineHashes(h, o)) <=> x \in Counted(h))
      /\ o \in Counted(CombineHashes(h, o)) <=> o \notin Counted(h)
  BY HashCombined
<1>2. ASSUME NEW x \in Ops, x \notin E
      PROVE  x \in Counted(CombineHashes(h, o)) <=>
                x \in T \union {o} /\ Own(x) = s /\ a <= Created[x] /\ Created[x] < b
  <2>1. x \in Counted(h) <=> x \in T /\ Own(x) = s /\ a <= Created[x] /\ Created[x] < b
    BY <1>2 DEF Exact
  <2>2. CASE x = o
    BY <1>1, <2>1, <2>2
  <2>3. CASE x # o
    BY <1>1, <2>1, <2>3
  <2>4. QED
    BY <2>2, <2>3
<1>3. QED
  BY <1>2 DEF Exact

(* The partial slice that an op is told to, is the only one of its time. *)
LEMMA HolderOnly ==
    ASSUME NEW p \in Part, NEW s, NEW T, NEW E, PartialsOK(s, p, T, E),
           NEW o \in Ops, InPartials(p, o)
    PROVE  LET j == Holder(p, o)
           IN /\ j \in 1 .. Len(p.partials)
              /\ p.partials[j].start <= Created[o]
              /\ Created[o] < PartialEnd(p.partials[j])
              /\ \A k \in 1 .. Len(p.partials) : k # j =>
                    ~ (p.partials[k].start <= Created[o]
                       /\ Created[o] < PartialEnd(p.partials[k]))
<1> DEFINE c == Created[o]
           sls == p.partials
           L == Len(sls)
           S == {j \in 1 .. L : sls[j].start <= c}
           j == Holder(p, o)
<1>1. /\ sls \in Seq(Slice) /\ L \in Nat /\ c \in Nat
      /\ FullEnd(p) \in Nat
  BY Windows, MoreFull DEF Part
<1>2. /\ sls # <<>> /\ c >= FullEnd(p) /\ c < PartialEnd(sls[L])
  BY <1>1 DEF InPartials, InFull, Last
<1>3. /\ sls[1].start <= FullEnd(p)
      /\ \A k \in 1 .. L - 1 : sls[k + 1].start = PartialEnd(sls[k])
      /\ \A a, b \in 1 .. L : a < b => PartialEnd(sls[a]) <= sls[b].start
  BY <1>2 DEF PartialsOK, InLine
<1>4. \A k \in 1 .. L : sls[k].start \in Nat /\ PartialEnd(sls[k]) \in Nat
                        /\ sls[k].start < PartialEnd(sls[k])
  BY <1>1, Ends
<1>5. 1 \in S /\ S \in SUBSET (0 .. L)
  <2>1. 1 \in 1 .. L
    BY <1>1, <1>2
  <2>2. sls[1].start <= c
    BY <2>1, <1>1, <1>2, <1>3, <1>4
  <2>3. QED
    BY <2>1, <2>2
<1>6. j = Max(S)
  BY DEF Holder
<1>7. Max(S) \in S /\ \A m \in S : Max(S) >= m
  <2> HIDE DEF S, L
  <2>1. S # {} /\ L \in Nat
    BY <1>1, <1>5
  <2>2. QED
    BY <2>1, <1>5, Largest
<1>8. j \in 1 .. L /\ sls[j].start <= c
  BY <1>6, <1>7
<1>9. \A k \in 1 .. L : sls[k].start <= c => j >= k
  BY <1>6, <1>7
<1> HIDE DEF j, S, L, c
<1>10. c < PartialEnd(sls[j])
  <2>1. CASE j = L
    BY <2>1, <1>2
  <2>2. CASE j # L
    <3>1. j \in 1 .. L - 1 /\ j + 1 \in 1 .. L
      BY <2>2, <1>1, <1>8
    <3>2. ~ (sls[j + 1].start <= c)
      BY <3>1, <1>8, <1>9
    <3>3. sls[j + 1].start = PartialEnd(sls[j])
      BY <3>1, <1>3
    <3>4. QED
      BY <3>1, <3>2, <3>3, <1>1, <1>4, <1>8
  <2>3. QED
    BY <2>1, <2>2
<1>11. ASSUME NEW k \in 1 .. L, k # j
       PROVE  ~ (sls[k].start <= c /\ c < PartialEnd(sls[k]))
  <2>1. CASE k < j
    <3>1. PartialEnd(sls[k]) <= sls[j].start
      BY <2>1, <1>3, <1>8
    <3>2. QED
      BY <3>1, <1>1, <1>4, <1>8
  <2>2. CASE j < k
    BY <2>2, <1>9, <1>8
  <2>3. QED
    BY <2>1, <2>2, <1>8, <1>11
<1>12. QED
  BY <1>8, <1>10, <1>11 DEF j, L, c

(* Being told of an op of another sector. *)
LEMMA OtherSector ==
    ASSUME NEW s, NEW p, NEW row, NEW T, NEW E, NEW t, SectorOK(s, p, row, T, E, t),
           NEW o \in Ops, Own(o) # s
    PROVE  SectorOK(s, p, row, T \union {o}, E, t)
<1>1. FullOK(s, row, p.full, T \union {o}, E)
  BY ToldElsewhere DEF SectorOK, FullOK
<1>2. PartialsOK(s, p, T \union {o}, E)
  <2>1. ASSUME NEW j \in 1 .. Len(p.partials), p.partials[j].start >= FullEnd(p)
        PROVE  Exact(p.partials[j].hash, s, p.partials[j].start,
                     PartialEnd(p.partials[j]), T \union {o}, E)
    <3>1. Exact(p.partials[j].hash, s, p.partials[j].start, PartialEnd(p.partials[j]), T, E)
      BY <2>1 DEF SectorOK, PartialsOK
    <3>2. QED
      BY <3>1, ToldElsewhere
  <2>2. QED
    BY <2>1 DEF SectorOK, PartialsOK
<1>3. QED
  BY <1>1, <1>2 DEF SectorOK

(* Telling the model of an op counts it in the slice of its sector and     *)
(* time, if there is one, and nowhere else.                                *)
LEMMA InformOpsStoredOK == DhtInv /\ (\E o \in Ops : InformOpsStored(o)) => DhtInv'
<1> SUFFICES ASSUME DhtInv, NEW o \in Ops, InformOpsStored(o) PROVE DhtInv'
  OBVIOUS
<1> DEFINE s == SectorAt(Loc[o])
           p == parts[s]
           i == Created[o] \div FullSize
           T == told \union {o}
           row == slices[s]
<1>1. /\ DhtShape /\ parts # Down /\ o \in stored /\ o \notin told
      /\ told' = T
      /\ slices' = IF InFull(p, o)
                   THEN [slices EXCEPT ![s][i] = CombineHashes(@, o)] ELSE slices
      /\ parts' = IF InPartials(p, o)
                  THEN [parts EXCEPT ![s].partials[Holder(p, o)].hash = CombineHashes(@, o)]
                  ELSE parts
      /\ UNCHANGED <<now, stored, faults, early>>
  BY DEF DhtInv, InformOpsStored
<1>2. s \in Sectors /\ Own(o) = s
  BY OwnSector DEF Own
<1>3. \A x \in Sectors : SectorOK(x, parts[x], slices[x], told, early, now)
  BY <1>1 DEF DhtInv
<1>4. /\ DOMAIN parts = Sectors /\ parts \in [Sectors -> Part]
      /\ slices \in [Sectors -> [Indices -> Hashes]]
      /\ now \in Nat /\ stored \in SUBSET Ops /\ told \subseteq stored
  BY <1>1 DEF DhtShape
<1>5. /\ p \in Part /\ p.partials \in Seq(Slice) /\ p.full \in Nat
      /\ row \in [Indices -> Hashes]
      /\ FullOK(s, row, p.full, told, early) /\ PartialsOK(s, p, told, early)
      /\ ClockOK(p, now) /\ FullEnd(p) \in Nat
  BY <1>2, <1>3, MoreFull DEF SectorOK, Part
<1>6. i \in Indices /\ i \in Nat /\ Created[o] \in Nat
  BY Windows
<1> HIDE DEF s, p, i, row
<1>7. \A x \in Sectors : x # s => parts'[x] = parts[x] /\ slices'[x] = slices[x]
  BY <1>1, <1>4
<1>8. ASSUME NEW x \in Sectors, x # s
      PROVE  SectorOK(x, parts'[x], slices'[x], T, early, now)
  <2>1. SectorOK(x, parts[x], slices[x], T, early, now)
    BY <1>2, <1>3, <1>8, OtherSector
  <2>2. QED
    BY <1>7, <1>8, <2>1
<1> DEFINE newRow == slices'[s]
           newPart == parts'[s]
<1>9. newRow = IF InFull(p, o) THEN [row EXCEPT ![i] = CombineHashes(row[i], o)] ELSE row
  BY <1>1, <1>2, <1>4 DEF row
<1>10. newRow \in [Indices -> Hashes] /\ FullOK(s, newRow, p.full, T, early)
  <2>1. row[i] \in Hashes /\ CombineHashes(row[i], o) \in Hashes
    BY <1>5, <1>6, HashCombined
  <2> HIDE DEF newRow
  <2>2. newRow \in [Indices -> Hashes]
    BY <1>5, <1>9, <2>1
  <2>3. ASSUME NEW k \in Indices
        PROVE  IF k < p.full
               THEN Exact(newRow[k], s, k * FullSize, (k + 1) * FullSize, T, early)
               ELSE newRow[k] = NoHash
    <3>1. k \in Nat /\ k * FullSize \in Nat /\ FullSize \in Nat \ {0}
          /\ (k + 1) * FullSize = k * FullSize + FullSize
      BY Windows
    <3>2. k * FullSize <= Created[o] /\ Created[o] < (k + 1) * FullSize <=> k = i
      BY <1>6, <3>1, Window DEF i
    <3>3. CASE InFull(p, o) /\ k = i
      <4>1. Created[o] < p.full * FullSize
        BY <3>3 DEF InFull, FullEnd
      <4>2. i * FullSize <= Created[o] /\ Created[o] < (i + 1) * FullSize
        BY <3>2, <3>3
      <4>3. i * FullSize \in Int /\ p.full * FullSize \in Int
        BY <1>5, <1>6, <3>1, Distribute
      <4>4. i * FullSize < p.full * FullSize
        BY <1>6, <4>1, <4>2, <4>3
      <4>5. i < p.full
        BY <1>5, <1>6, <3>1, <4>4, Scale
      <4>6. Exact(row[i], s, i * FullSize, (i + 1) * FullSize, told, early)
        BY <1>5, <1>6, <4>5 DEF FullOK
      <4>7. Exact(CombineHashes(row[i], o), s, i * FullSize, (i + 1) * FullSize, T, early)
        BY <1>1, <1>2, <2>1, <4>2, <4>6, ToldHere
      <4>8. newRow[i] = CombineHashes(row[i], o)
        BY <1>5, <1>6, <1>9, <3>3
      <4>9. QED
        BY <3>3, <4>5, <4>7, <4>8
    <3>4. CASE InFull(p, o) /\ k # i
      <4>1. newRow[k] = row[k]
        BY <1>5, <1>9, <3>4
      <4>2. ~ (Own(o) = s /\ k * FullSize <= Created[o] /\ Created[o] < (k + 1) * FullSize)
        BY <3>2, <3>4
      <4>3. k < p.full => Exact(row[k], s, k * FullSize, (k + 1) * FullSize, T, early)
        BY <1>5, <4>2, ToldElsewhere DEF FullOK
      <4>4. ~ (k < p.full) => row[k] = NoHash
        BY <1>5 DEF FullOK
      <4>5. QED
        BY <4>1, <4>3, <4>4
    <3>5. CASE ~ InFull(p, o)
      <4>1. newRow[k] = row[k]
        BY <1>9, <3>5
      <4>2. ASSUME k < p.full PROVE ~ (Created[o] < (k + 1) * FullSize)
        <5>1. ~ (Created[o] < p.full * FullSize) /\ p.full * FullSize \in Nat
          BY <1>5, <3>5 DEF InFull, FullEnd
        <5>2. k + 1 <= p.full
          BY <1>5, <3>1, <4>2
        <5>3. (k + 1) * FullSize <= p.full * FullSize
          BY <1>5, <3>1, <5>2, Scale
        <5>4. QED
          BY <1>6, <3>1, <5>1, <5>3
      <4>3. k < p.full => Exact(row[k], s, k * FullSize, (k + 1) * FullSize, T, early)
        BY <1>5, <4>2, ToldElsewhere DEF FullOK
      <4>4. ~ (k < p.full) => row[k] = NoHash
        BY <1>5 DEF FullOK
      <4>5. QED
        BY <4>1, <4>3, <4>4
    <3>6. QED
      BY <3>3, <3>4, <3>5
  <2>4. QED
    BY <2>2, <2>3 DEF FullOK
<1>11. \A sl \in Slice : /\ sl.start \in Nat /\ PartialEnd(sl) \in Nat
                         /\ sl.start < PartialEnd(sl)
  BY Ends
<1>12. /\ newPart \in Part /\ newPart.full = p.full
       /\ PartialsOK(s, newPart, T, early)
       /\ ClockOK(newPart, now)
  <2>1. CASE InPartials(p, o)
    <3> DEFINE j == Holder(p, o)
               sls == p.partials
               sl == sls[j]
               new == [sl EXCEPT !.hash = CombineHashes(sl.hash, o)]
               news == [sls EXCEPT ![j] = new]
    <3>1. /\ j \in 1 .. Len(sls)
          /\ sl.start <= Created[o] /\ Created[o] < PartialEnd(sl)
          /\ \A k \in 1 .. Len(sls) : k # j =>
                ~ (sls[k].start <= Created[o] /\ Created[o] < PartialEnd(sls[k]))
      BY <1>5, <2>1, HolderOnly
    <3>2. newPart = [p EXCEPT !.partials = news]
      BY <1>1, <1>2, <1>4, <2>1 DEF p
    <3> HIDE DEF newPart, j
    <3>3. sl \in Slice
      BY <1>5, <3>1
    <3>4. sl.hash \in Hashes /\ CombineHashes(sl.hash, o) \in Hashes
      BY <3>3, HashCombined DEF Slice
    <3> HIDE DEF sl
    <3>5. /\ new \in Slice /\ new.start = sl.start /\ new.size = sl.size
          /\ new.hash = CombineHashes(sl.hash, o)
      BY <3>3, <3>4 DEF Slice
    <3> HIDE DEF new
    <3>6. PartialEnd(new) = PartialEnd(sl)
      BY <3>5 DEF PartialEnd
    <3>7. /\ news \in Seq(Slice) /\ Len(news) = Len(sls)
          /\ news[j] = new /\ \A k \in 1 .. Len(sls) : k # j => news[k] = sls[k]
      BY <1>5, <3>1, <3>5
    <3>8. \A k \in 1 .. Len(sls) : /\ news[k].start = sls[k].start
                                   /\ news[k].size = sls[k].size
                                   /\ PartialEnd(news[k]) = PartialEnd(sls[k])
      BY <3>1, <3>5, <3>6, <3>7 DEF sl
    <3> HIDE DEF news
    <3>9. newPart \in Part /\ newPart.full = p.full /\ newPart.partials = news
          /\ newPart.at = p.at
      BY <1>5, <3>2, <3>7 DEF Part
    <3>10. FullEnd(newPart) = FullEnd(p)
      BY <3>9 DEF FullEnd
    <3>11. sls # <<>> /\ 1 \in 1 .. Len(sls)
      BY <1>5, <3>1
    <3>12. InLine(news, news[1].start) /\ news[1].start <= FullEnd(p)
      <4>1. InLine(sls, sls[1].start) /\ sls[1].start <= FullEnd(p)
        BY <1>5, <3>11 DEF PartialsOK
      <4>2. \A k \in 1 .. Len(sls) - 1 : k \in 1 .. Len(sls) /\ k + 1 \in 1 .. Len(sls)
        BY <1>5
      <4>3. QED
        BY <3>7, <3>8, <3>11, <4>1, <4>2 DEF InLine
    <3>13. ASSUME NEW k \in 1 .. Len(sls), news[k].start >= FullEnd(p)
           PROVE  Exact(news[k].hash, s, news[k].start, PartialEnd(news[k]), T, early)
      <4>1. Exact(sls[k].hash, s, sls[k].start, PartialEnd(sls[k]), told, early)
        BY <1>5, <3>8, <3>13 DEF PartialsOK
      <4>2. CASE k = j
        <5>1. Exact(CombineHashes(sl.hash, o), s, sl.start, PartialEnd(sl), T, early)
          BY <1>1, <1>2, <3>1, <3>4, <4>1, <4>2, ToldHere DEF sl
        <5>2. QED
          BY <3>5, <3>6, <3>7, <4>2, <5>1
      <4>3. CASE k # j
        <5>1. Exact(sls[k].hash, s, sls[k].start, PartialEnd(sls[k]), T, early)
          BY <3>1, <4>1, <4>3, ToldElsewhere
        <5>2. QED
          BY <3>7, <4>3, <5>1
      <4>4. QED
        BY <4>2, <4>3
    <3>14. PartialsOK(s, newPart, T, early)
      BY <3>7, <3>9, <3>10, <3>12, <3>13 DEF PartialsOK
    <3>15. ClockOK(newPart, now)
      <4>1. p.at > 0 => LaidOut(newPart)
        <5>1. ASSUME p.at > 0 PROVE LaidOut(newPart)
          <6> DEFINE cuts == LayoutPartials(FullEnd(p), p.at)
          <6>1. /\ p.full > 0 => p.at - FullEnd(p) >= MinRecent
                /\ FullEnd(p) <= p.at /\ p.at - FullEnd(p) < MinRecent + FullSize
                /\ Len(sls) = Len(cuts)
                /\ \A k \in 1 .. Len(cuts) : /\ sls[k].start = cuts[k].start
                                             /\ sls[k].size = cuts[k].size
            BY <1>5, <5>1 DEF ClockOK, LaidOut
          <6>2. /\ Len(news) = Len(cuts)
                /\ \A k \in 1 .. Len(cuts) : /\ news[k].start = cuts[k].start
                                             /\ news[k].size = cuts[k].size
            BY <3>7, <3>8, <6>1
          <6>3. QED
            BY <3>9, <3>10, <6>1, <6>2 DEF LaidOut
        <5>2. QED
          BY <5>1
      <4>2. QED
        BY <1>5, <3>9, <3>10, <4>1 DEF ClockOK
    <3>16. QED
      BY <3>9, <3>14, <3>15
  <2>2. CASE ~ InPartials(p, o)
    <3>1. newPart = p
      BY <1>1, <2>2 DEF p
    <3>2. ASSUME NEW j \in 1 .. Len(p.partials), p.partials[j].start >= FullEnd(p)
          PROVE  ~ (/\ p.partials[j].start <= Created[o]
                    /\ Created[o] < PartialEnd(p.partials[j]))
      <4> DEFINE L == Len(p.partials)
      <4>1. L \in 1 .. L /\ p.partials # <<>> /\ Last(p.partials) = p.partials[L]
        BY <1>5 DEF Last
      <4>2. p.partials[j] \in Slice /\ p.partials[L] \in Slice
        BY <1>5, <4>1
      <4>3. j < L => PartialEnd(p.partials[j]) <= p.partials[L].start
        BY <1>5, <4>1 DEF PartialsOK, InLine
      <4>4. PartialEnd(p.partials[j]) <= PartialEnd(p.partials[L])
        BY <1>11, <4>1, <4>2, <4>3
      <4>5. InFull(p, o) \/ ~ (Created[o] < PartialEnd(p.partials[L]))
        BY <2>2, <4>1 DEF InPartials
      <4>6. CASE InFull(p, o)
        BY <1>5, <1>6, <1>11, <3>2, <4>2, <4>6 DEF InFull
      <4>7. CASE ~ (Created[o] < PartialEnd(p.partials[L]))
        BY <1>6, <1>11, <4>2, <4>4, <4>7
      <4>8. QED
        BY <4>5, <4>6, <4>7
    <3>3. ASSUME NEW j \in 1 .. Len(p.partials), p.partials[j].start >= FullEnd(p)
          PROVE  Exact(p.partials[j].hash, s, p.partials[j].start,
                       PartialEnd(p.partials[j]), T, early)
      <4>1. Exact(p.partials[j].hash, s, p.partials[j].start,
                  PartialEnd(p.partials[j]), told, early)
        BY <1>5, <3>3 DEF PartialsOK
      <4>2. QED
        BY <3>2, <3>3, <4>1, ToldElsewhere
    <3>4. PartialsOK(s, p, T, early)
      BY <1>5, <3>3 DEF PartialsOK
    <3>5. QED
      BY <1>5, <3>1, <3>4
  <2>3. QED
    BY <2>1, <2>2
<1>13. SectorOK(s, newPart, newRow, T, early, now)
  BY <1>5, <1>10, <1>12 DEF SectorOK
<1>14. \A x \in Sectors : SectorOK(x, parts'[x], slices'[x], told', early', now')
  BY <1>1, <1>8, <1>13
<1>15. /\ DOMAIN parts' = Sectors /\ parts' = [x \in Sectors |-> parts'[x]]
       /\ slices' = [x \in Sectors |-> slices'[x]]
  BY <1>1, <1>4
<1>16. now' \in Nat /\ stored' \in SUBSET Ops /\ told' \subseteq stored'
  BY <1>1, <1>4
<1>17. QED
  BY <1>1, <1>14, <1>15, <1>16, AllInOrder

----------------------------------------------------------------------------
(* The theorems.                                                           *)

(* Every step of the model keeps the inductive invariant. *)
LEMMA NextOK == DhtInv /\ [DhtNext]_dhtVars => DhtInv'
<1> SUFFICES ASSUME DhtInv, [DhtNext]_dhtVars PROVE DhtInv'
  OBVIOUS
<1>1. CASE Tick
  BY <1>1, TickOK
<1>2. CASE \E o \in Ops : StoreOp(o)
  BY <1>2, StoreOpOK
<1>3. CASE \E o \in Ops : InformOpsStored(o)
  BY <1>3, InformOpsStoredOK
<1>4. CASE Update
  BY <1>4, UpdateOK
<1>5. CASE UpdateFails
  BY <1>5, UpdateFailsOK
<1>6. CASE TryFromStore
  BY <1>6, TryFromStoreOK
<1>7. CASE CreateFails
  BY <1>7, CreateFailsOK
<1>8. CASE Crash
  BY <1>8, CrashOK
<1>9. CASE UNCHANGED dhtVars
  <2>1. UNCHANGED <<now, stored, slices, parts, told, early>>
    BY <1>9 DEF dhtVars
  <2>2. DhtShape'
    BY <2>1 DEF DhtInv, DhtShape
  <2>3. \A s \in Sectors : SliceHashCount(s)' = SliceHashCount(s)
    BY <2>1 DEF SliceHashCount
  <2>4. QED
    BY <2>1, <2>2, <2>3 DEF DhtInv
<1>10. QED
  BY <1>1, <1>2, <1>3, <1>4, <1>5, <1>6, <1>7, <1>8, <1>9 DEF DhtNext

(* The stored slices, the partitions and the ops of a node have their      *)
(* types, the stored slices of a process that is down count what they      *)
(* should, and every sector is in order while it is up.                    *)
THEOREM DhtInvariant == DhtInit /\ [][DhtNext]_dhtVars => []DhtInv
<1>1. QED
  BY InitOK, NextOK, PTL

(* What an exact hash counts, as a set. *)
LEMMA ExactSet ==
    ASSUME DhtShape, NEW s \in Sectors, NEW h \in Hashes, NEW a, NEW b,
           Exact(h, s, a, b, told, early)
    PROVE  Counted(h) \ early = (told \intersect OpsIn(s, a, b)) \ early
<1>1. stored \in SUBSET Ops /\ told \subseteq stored
  BY DEF DhtShape
<1>2. Counted(h) \subseteq Ops
  BY DEF Counted, Hashes
<1>3. \A o : o \in OpsIn(s, a, b) <=>
         o \in stored /\ Own(o) = s /\ a <= Created[o] /\ Created[o] < b
  BY <1>1, OpsOfSector
<1>4. QED
  BY <1>1, <1>2, <1>3 DEF Exact

(* In any run of the model, whatever updates fail and however often the    *)
(* process restarts, each slice hash (time.rs, update and                  *)
(* inform_ops_stored) counts exactly the told ops of its sector and time.  *)
THEOREM SlicesAreExact ==
    DhtInit /\ [][DhtNext]_dhtVars => []SlicesHoldTheirOps
<1>1. DhtInv => SlicesHoldTheirOps
  <2> SUFFICES ASSUME DhtInv, parts # Down, NEW s \in Sectors, NEW sl \in Held(s)
               PROVE  Counted(sl.hash) \ early
                         = (told \intersect OpsIn(s, sl.from, sl.to)) \ early
    BY DEF SlicesHoldTheirOps
  <2>1. DhtShape /\ SectorOK(s, parts[s], slices[s], told, early, now)
    BY DEF DhtInv
  <2> DEFINE p == parts[s]
             full(i) == [from |-> i * FullSize, to |-> (i + 1) * FullSize,
                         hash |-> slices[s][i]]
             partial(c) == [from |-> c.start, to |-> PartialEnd(c), hash |-> c.hash]
  <2>2. \/ \E i \in Indices : i < p.full /\ sl = full(i)
        \/ \E c \in Range(p.partials) : c.start >= FullEnd(p) /\ sl = partial(c)
    BY DEF Held
  <2>3. CASE \E i \in Indices : i < p.full /\ sl = full(i)
    <3>1. PICK i \in Indices : i < p.full /\ sl = full(i)
      BY <2>3
    <3>2. /\ slices[s][i] \in Hashes
          /\ Exact(slices[s][i], s, i * FullSize, (i + 1) * FullSize, told, early)
      BY <2>1, <3>1 DEF SectorOK, FullOK
    <3>3. Counted(slices[s][i]) \ early
             = (told \intersect OpsIn(s, i * FullSize, (i + 1) * FullSize)) \ early
      BY <2>1, <3>2, ExactSet
    <3>4. /\ sl.hash = slices[s][i] /\ sl.from = i * FullSize
          /\ sl.to = (i + 1) * FullSize
      BY <3>1
    <3>5. QED
      BY <3>3, <3>4
  <2>4. CASE \E c \in Range(p.partials) : c.start >= FullEnd(p) /\ sl = partial(c)
    <3>1. PICK c \in Range(p.partials) : c.start >= FullEnd(p) /\ sl = partial(c)
      BY <2>4
    <3>2. p.partials \in Seq(Slice)
      BY <2>1 DEF SectorOK, Part
    <3>3. PICK j \in 1 .. Len(p.partials) : c = p.partials[j]
      BY <3>1, <3>2 DEF Range
    <3>4. c \in Slice
      BY <3>2, <3>3
    <3>5. c.hash \in Hashes /\ Exact(c.hash, s, c.start, PartialEnd(c), told, early)
      BY <2>1, <3>1, <3>3, <3>4 DEF SectorOK, PartialsOK, Slice
    <3>6. Counted(c.hash) \ early
             = (told \intersect OpsIn(s, c.start, PartialEnd(c))) \ early
      BY <2>1, <3>5, ExactSet
    <3>7. sl.hash = c.hash /\ sl.from = c.start /\ sl.to = PartialEnd(c)
      BY <3>1
    <3>8. QED
      BY <3>6, <3>7
  <2>5. QED
    BY <2>2, <2>3, <2>4
<1>2. QED
  BY DhtInvariant, <1>1, PTL

(* Slices laid out at the same time are laid out alike. *)
LEMMA SameTimeSameFull ==
    ASSUME NEW p \in Part, NEW q \in Part, LaidOut(p), LaidOut(q), p.at = q.at
    PROVE  p.full = q.full
<1>1. /\ FullSize \in Nat \ {0} /\ MinRecent \in Nat
      /\ p.full \in Nat /\ q.full \in Nat /\ p.at \in Nat
      /\ FullEnd(p) \in Nat /\ FullEnd(q) \in Nat
  BY SizeFacts, MoreFull DEF Part
<1>2. ASSUME NEW x \in Part, NEW y \in Part, LaidOut(x), LaidOut(y),
             x.at = p.at, y.at = p.at, x.full < y.full
      PROVE  FALSE
  <2>1. /\ x.full \in Nat /\ y.full \in Nat
        /\ FullEnd(x) \in Nat /\ FullEnd(y) \in Nat
    BY <1>1, MoreFull DEF Part
  <2>2. p.at - FullEnd(x) < MinRecent + FullSize /\ p.at - FullEnd(y) >= MinRecent
    BY <1>2, <2>1 DEF LaidOut
  <2>3. (x.full + 1) * FullSize <= y.full * FullSize
    BY <1>1, <1>2, <2>1, Scale
  <2>4. (x.full + 1) * FullSize = FullEnd(x) + FullSize
    BY <1>1, <2>1, Distribute DEF FullEnd
  <2>5. FullEnd(x) + FullSize <= FullEnd(y)
    BY <2>3, <2>4 DEF FullEnd
  <2>6. QED
    BY <1>1, <2>1, <2>2, <2>5
<1>3. ~ (p.full < q.full) /\ ~ (q.full < p.full)
  BY <1>2
<1>4. QED
  BY <1>1, <1>3

(* In any run of the model, the slices that an update (time.rs,            *)
(* TimePartition::update) leaves depend on its time only, are in line,     *)
(* shrink and leave at most a unit of time.                                *)
THEOREM SlicesAreLaidOut ==
    DhtInit /\ [][DhtNext]_dhtVars => []SlicesFollowTheClock
<1>1. DhtInv => SlicesFollowTheClock
  <2> SUFFICES ASSUME DhtInv, parts # Down, NEW s \in Sectors, parts[s].at > 0
      PROVE  LET p == parts[s]
                 sls == p.partials
                 end(j) == IF j = 0 THEN FullEnd(p) ELSE PartialEnd(sls[j])
             IN /\ p.full > 0 => p.at - FullEnd(p) >= MinRecent
                /\ p.at - FullEnd(p) < MinRecent + FullSize
                /\ \A j \in 1..Len(sls) : sls[j].start = end(j - 1)
                /\ \A i, j \in 1..Len(sls) : i < j => sls[i].size >= sls[j].size
                /\ \A j \in 1 .. Len(sls) - 2 : sls[j].size > sls[j + 2].size
                /\ p.at - end(Len(sls)) \in 0..Unit
                /\ \A r \in Sectors : parts[r].at = p.at =>
                      [j \in 1..Len(parts[r].partials) |-> parts[r].partials[j].size]
                         = [j \in 1..Len(sls) |-> sls[j].size]
    BY DEF SlicesFollowTheClock
  <2> DEFINE p == parts[s]
             sls == p.partials
             end(j) == IF j = 0 THEN FullEnd(p) ELSE PartialEnd(sls[j])
             cuts == LayoutPartials(FullEnd(p), p.at)
  <2>1. \A r \in Sectors : parts[r] \in Part /\ (parts[r].at > 0 => LaidOut(parts[r]))
    BY DEF DhtInv, SectorOK, ClockOK
  <2>2. /\ p \in Part /\ LaidOut(p)
        /\ sls \in Seq(Slice) /\ p.at \in Nat /\ FullEnd(p) \in Nat
    BY <2>1, MoreFull DEF Part
  <2>3. /\ p.full > 0 => p.at - FullEnd(p) >= MinRecent
        /\ FullEnd(p) <= p.at /\ p.at - FullEnd(p) < MinRecent + FullSize
        /\ Len(sls) = Len(cuts)
        /\ \A j \in 1 .. Len(cuts) : sls[j].start = cuts[j].start /\ sls[j].size = cuts[j].size
    BY <2>2 DEF LaidOut
  <2>4. /\ cuts \in Seq(Cut) /\ InLine(cuts, FullEnd(p)) /\ Shrinking(cuts)
        /\ p.at - LineEnd(cuts, FullEnd(p)) \in 0 .. Unit
    BY <2>2, <2>3, LayoutFacts
  <2> DEFINE L == Len(sls)
  <2>5. L \in Nat /\ \A j \in 1 .. L : PartialEnd(sls[j]) = PartialEnd(cuts[j])
    BY <2>2, <2>3 DEF PartialEnd
  <2>6. ASSUME NEW j \in 1 .. L PROVE sls[j].start = end(j - 1)
    <3>1. CASE j = 1
      BY <3>1, <2>3, <2>4 DEF InLine
    <3>2. CASE j # 1
      <4>1. j - 1 \in 1 .. Len(cuts) - 1 /\ (j - 1) + 1 = j /\ j - 1 \in 1 .. L
        BY <3>2, <2>3, <2>5
      <4>2. cuts[j].start = PartialEnd(cuts[j - 1])
        BY <4>1, <2>4 DEF InLine
      <4>3. QED
        BY <4>1, <4>2, <2>3, <2>5
    <3>3. QED
      BY <3>1, <3>2
  <2>7. \A i, j \in 1 .. L : i < j => sls[i].size >= sls[j].size
    BY <2>3, <2>4 DEF Shrinking
  <2>8. \A j \in 1 .. L - 2 : sls[j].size > sls[j + 2].size
    <3>1. \A j \in 1 .. L - 2 : j \in 1 .. L /\ j + 2 \in 1 .. L
      BY <2>5
    <3>2. QED
      BY <2>3, <2>4, <3>1 DEF Shrinking
  <2>9. p.at - end(L) \in 0 .. Unit
    <3>1. CASE L = 0
      <4>1. cuts = <<>>
        BY <3>1, <2>3, <2>4
      <4>2. QED
        BY <3>1, <4>1, <2>4 DEF LineEnd
    <3>2. CASE L # 0
      <4>1. cuts # <<>> /\ L \in 1 .. L /\ Last(cuts) = cuts[L]
        BY <3>2, <2>3, <2>4, <2>5 DEF Last
      <4>2. LineEnd(cuts, FullEnd(p)) = PartialEnd(sls[L])
        BY <4>1, <2>5 DEF LineEnd
      <4>3. end(L) = PartialEnd(sls[L])
        BY <3>2
      <4>4. QED
        BY <4>2, <4>3, <2>4
    <3>3. QED
      BY <3>1, <3>2
  <2>10. ASSUME NEW r \in Sectors, parts[r].at = p.at
         PROVE  [j \in 1 .. Len(parts[r].partials) |-> parts[r].partials[j].size]
                   = [j \in 1 .. L |-> sls[j].size]
    <3>1. parts[r] \in Part /\ LaidOut(parts[r])
      BY <2>1, <2>10
    <3>2. parts[r].full = p.full
      BY <2>2, <2>10, <3>1, SameTimeSameFull
    <3>3. FullEnd(parts[r]) = FullEnd(p)
      BY <3>2 DEF FullEnd
    <3>4. /\ Len(parts[r].partials) = Len(cuts)
          /\ \A j \in 1 .. Len(cuts) : parts[r].partials[j].size = cuts[j].size
      BY <2>10, <3>1, <3>3 DEF LaidOut
    <3>5. QED
      BY <2>3, <3>4
  <2>11. QED
    BY <2>3, <2>6, <2>7, <2>8, <2>9, <2>10
<1>2. QED
  BY DhtInvariant, <1>1, PTL

----------------------------------------------------------------------------
(* What an exchange of snapshots finds.                                    *)

(* Every hash counts told and early ops only, and while no op has been     *)
(* early no hash has lost all of its ops.                                  *)
TidyInv ==
    /\ now > 0
    /\ InSlices(slices) \subseteq told \union early
    /\ parts # Down => InPartitions(parts) \subseteq told \union early
    /\ early = {} => \A s \in Sectors : \A i \in Indices : slices[s][i] # {}
    /\ early = {} /\ parts # Down =>
          \A s \in Sectors : \A sl \in Range(parts[s].partials) : sl.hash # {}

(* No slice of the partition has lost all of its ops. *)
Clean(p) == \A sl \in Range(p.partials) : sl.hash # {}

(* Nothing that is read of the store is such a hash. *)
LEMMA ReadIsClean ==
    /\ NoHash # {}
    /\ \A S : CombineOpHashes(S) # {}
BY DhtAssumption DEF CombineOpHashes

LEMMA FullHashesClean ==
    ASSUME NEW s \in Sectors, NEW p, NEW n, NEW i \in Indices
    PROVE  \/ FullHashes(s, p, n)[i] = slices[s][i]
           \/ FullHashes(s, p, n)[i] # {}
BY ReadIsClean DEF FullHashes

LEMMA PartialsClean ==
    ASSUME NEW s, NEW p, NEW cuts, NEW k, Clean(p),
           NEW sl \in Range(Partials(s, p, cuts, k))
    PROVE  sl.hash # {}
<1>1. PICK j \in 1 .. k : sl = Partials(s, p, cuts, k)[j]
  BY DEF Range, Partials
<1>2. sl.hash = PartialHash(s, p, cuts[j])
  BY <1>1 DEF Partials
<1>3. CASE Same(p, cuts[j]) # {}
  <2>1. PartialHash(s, p, cuts[j]) = (CHOOSE x \in Same(p, cuts[j]) : TRUE).hash
    BY <1>3 DEF PartialHash
  <2>2. (CHOOSE x \in Same(p, cuts[j]) : TRUE) \in Same(p, cuts[j])
    BY <1>3
  <2>3. Same(p, cuts[j]) \subseteq Range(p.partials)
    BY DEF Same
  <2>4. QED
    BY <1>2, <2>1, <2>2, <2>3 DEF Clean
<1>4. CASE Same(p, cuts[j]) = {}
  BY <1>2, <1>4, ReadIsClean DEF PartialHash
<1>5. QED
  BY <1>3, <1>4

LEMMA UpdatedClean ==
    ASSUME NEW s, NEW p \in Part, Clean(p)
    PROVE  Clean(Updated(s, p))
<1> DEFINE q == Grown(p, NewFullSlices(p, now))
           sls == Partials(s, q, Cuts(q), Len(Cuts(q)))
<1>1. Clean(q)
  BY DEF Grown, Part, Clean
<1>2. Updated(s, p).partials = sls
  BY DEF Updated
<1> HIDE DEF q
<1>3. \A sl \in Range(sls) : sl.hash # {}
  BY <1>1, PartialsClean
<1>4. QED
  BY <1>2, <1>3 DEF Clean

LEMMA BrokenClean ==
    ASSUME NEW s, NEW p \in Part, Clean(p), NEW b \in Broken(s, p)
    PROVE  Clean(b)
<1> DEFINE n == NewFullSlices(p, now)
           q == Grown(p, n)
<1>1. Clean(q) /\ q.partials = p.partials
  BY DEF Grown, Part, Clean
<1>2. CASE \E k \in 0 .. n : b = [Grown(p, k) EXCEPT !.at = 0]
  <2>1. b.partials = p.partials
    BY <1>2 DEF Grown, Part
  <2>2. QED
    BY <2>1 DEF Clean
<1>3. CASE \E k : b = [q EXCEPT !.partials = Partials(s, q, Cuts(q), k - 1), !.at = 0]
  <2>1. PICK k : b = [q EXCEPT !.partials = Partials(s, q, Cuts(q), k - 1), !.at = 0]
    BY <1>3
  <2>2. b.partials = Partials(s, q, Cuts(q), k - 1)
    BY <2>1 DEF Grown, Part
  <2> HIDE DEF q
  <2>3. QED
    BY <1>1, <2>2, PartialsClean DEF Clean
<1>4. QED
  BY <1>2, <1>3 DEF Broken

(* Whatever an update writes, what is counted then is told or early. *)
LEMMA FinishTidy ==
    ASSUME TidyInv, NEW ps, NEW ss, Finish(ps, ss), UNCHANGED <<now, told>>,
           \A s \in Sectors : \A i \in Indices :
                ss[s][i] = slices[s][i] \/ ss[s][i] # {},
           early = {} => \A s \in Sectors : Clean(ps[s])
    PROVE  TidyInv'
<1>1. /\ parts' = ps /\ slices' = ss
      /\ early' = early \union ((InSlices(ss) \union InPartitions(ps)) \ told)
  BY DEF Finish
<1>2. InSlices(slices') \subseteq told' \union early'
  BY <1>1
<1>3. InPartitions(parts') \subseteq told' \union early'
  BY <1>1
<1>4. early' = {} => early = {}
  BY <1>1
<1>5. early' = {} => \A s \in Sectors : \A i \in Indices : slices'[s][i] # {}
  BY <1>1, <1>4 DEF TidyInv
<1>6. early' = {} => \A s \in Sectors : \A sl \in Range(parts'[s].partials) : sl.hash # {}
  BY <1>1, <1>4 DEF Clean
<1>7. InSlices(slices)' = InSlices(slices') /\ InPartitions(parts)' = InPartitions(parts')
  BY DEF InSlices, InPartitions
<1>8. now' > 0
  BY DEF TidyInv
<1>9. QED
  BY <1>2, <1>3, <1>5, <1>6, <1>7, <1>8 DEF TidyInv

LEMMA TidyInit == DhtInit => TidyInv
<1> SUFFICES ASSUME DhtInit PROVE TidyInv
  OBVIOUS
<1>1. now > 0 /\ parts = Down
  BY DhtAssumption DEF DhtInit
<1>2. \A s \in Sectors : \A i \in Indices : slices[s][i] = NoHash
  BY DEF DhtInit
<1>3. \A s \in Sectors : \A i \in Indices : Counted(slices[s][i]) = {}
  BY <1>2 DEF Counted
<1>4. InSlices(slices) = {}
  BY <1>3 DEF InSlices
<1>5. QED
  BY <1>1, <1>2, <1>4, ReadIsClean DEF TidyInv

LEMMA UpdateTidy ==
    ASSUME DhtInv, TidyInv, Update \/ UpdateFails
    PROVE  TidyInv'
<1>1. /\ DhtShape /\ parts # Down
      /\ UNCHANGED <<now, told>>
  BY DEF DhtInv, Update, UpdateFails, Due
<1>2. \A s \in Sectors : parts[s] \in Part
  BY <1>1 DEF DhtShape
<1>3. early = {} => \A s \in Sectors : Clean(parts[s])
  BY <1>1 DEF TidyInv, Clean
<1>4. CASE Update
  <2> DEFINE ps == [s \in Sectors |-> Updated(s, parts[s])]
             ss == [s \in Sectors |-> FullHashes(s, parts[s], NewFullSlices(parts[s], now))]
  <2>1. Finish(ps, ss)
    BY <1>4 DEF Update
  <2>2. \A s \in Sectors : \A i \in Indices : ss[s][i] = slices[s][i] \/ ss[s][i] # {}
    BY FullHashesClean
  <2>3. early = {} => \A s \in Sectors : Clean(ps[s])
    BY <1>2, <1>3, UpdatedClean
  <2> HIDE DEF ps, ss
  <2>4. QED
    BY <1>1, <2>1, <2>2, <2>3, FinishTidy
<1>5. CASE UpdateFails
  <2> DEFINE Ps(f, p) == [s \in Sectors |-> IF s < f THEN Updated(s, parts[s])
                                            ELSE IF s = f THEN p ELSE parts[s]]
             Ss(f, p) == [s \in Sectors |->
                 IF s < f THEN FullHashes(s, parts[s], NewFullSlices(parts[s], now))
                 ELSE IF s = f THEN FullHashes(s, parts[s], p.full - parts[s].full)
                 ELSE slices[s]]
  <2>1. PICK f \in Sectors : \E p \in Broken(f, parts[f]) : Finish(Ps(f, p), Ss(f, p))
    BY <1>5 DEF UpdateFails
  <2>2. PICK p \in Broken(f, parts[f]) : Finish(Ps(f, p), Ss(f, p))
    BY <2>1
  <2> DEFINE ps == Ps(f, p)
             ss == Ss(f, p)
  <2>3. ASSUME NEW s \in Sectors, NEW i \in Indices
        PROVE  ss[s][i] = slices[s][i] \/ ss[s][i] # {}
    <3>1. CASE s < f
      <4>1. ss[s] = FullHashes(s, parts[s], NewFullSlices(parts[s], now))
        BY <3>1
      <4>2. QED
        BY <4>1, FullHashesClean
    <3>2. CASE ~ (s < f) /\ s = f
      <4>1. ss[s] = FullHashes(s, parts[s], p.full - parts[s].full)
        BY <3>2
      <4>2. QED
        BY <4>1, FullHashesClean
    <3>3. CASE ~ (s < f) /\ s # f
      BY <3>3
    <3>4. QED
      BY <3>1, <3>2, <3>3
  <2>4. ASSUME early = {}, NEW s \in Sectors PROVE Clean(ps[s])
    <3>1. CASE s < f
      BY <1>2, <1>3, <2>4, <3>1, UpdatedClean
    <3>2. CASE ~ (s < f) /\ s = f
      <4>1. Clean(p)
        BY <1>2, <1>3, <2>2, <2>4, BrokenClean
      <4>2. QED
        BY <4>1, <3>2
    <3>3. CASE ~ (s < f) /\ s # f
      BY <1>3, <2>4, <3>3
    <3>4. QED
      BY <3>1, <3>2, <3>3
  <2>5. Finish(ps, ss)
    BY <2>2
  <2> HIDE DEF ps, ss
  <2>6. QED
    BY <1>1, <2>3, <2>4, <2>5, FinishTidy
<1>6. QED
  BY <1>4, <1>5

LEMMA RestartTidy ==
    ASSUME DhtInv, TidyInv, TryFromStore \/ CreateFails
    PROVE  TidyInv'
<1>1. CASE TryFromStore
  <2> DEFINE ps == [s \in Sectors |-> Updated(s, New(s))]
             ss == [s \in Sectors |-> FullHashes(s, New(s), NewFullSlices(New(s), now))]
  <2>1. Finish(ps, ss) /\ UNCHANGED <<now, told>> /\ parts = Down
        /\ \A s \in Sectors : Consistent(New(s))
    BY <1>1 DEF TryFromStore
  <2>2. \A s \in Sectors : \A i \in Indices : ss[s][i] = slices[s][i] \/ ss[s][i] # {}
    BY FullHashesClean
  <2>3. ASSUME NEW s \in Sectors PROVE Clean(Updated(s, New(s)))
    <3>1. FullOK(s, slices[s], SliceHashCount(s), told, early) /\ DhtShape
      BY <2>1 DEF DhtInv
    <3>2. New(s) \in Part
      BY <2>1, <3>1, NewOK DEF SectorOK
    <3>3. Clean(New(s))
      BY DEF New, Clean, Range
    <3>4. QED
      BY <3>2, <3>3, UpdatedClean
  <2>4. \A s \in Sectors : Clean(ps[s])
    BY <2>3
  <2> HIDE DEF ps, ss
  <2>5. QED
    BY <2>1, <2>2, <2>4, FinishTidy
<1>2. CASE CreateFails
  <2>1. parts' = Down /\ UNCHANGED <<now, told>>
    BY <1>2 DEF CreateFails
  <2>2. PICK f \in Sectors :
          /\ slices' = [s \in Sectors |->
                          IF s < f THEN FullHashes(s, New(s), NewFullSlices(New(s), now))
                          ELSE slices[s]]
          /\ early' = early \union (InSlices(slices') \ told)
    BY <1>2 DEF CreateFails
  <2>3. ASSUME NEW s \in Sectors, NEW i \in Indices
        PROVE  slices'[s][i] = slices[s][i] \/ slices'[s][i] # {}
    <3>1. slices'[s] = FullHashes(s, New(s), NewFullSlices(New(s), now))
          \/ slices'[s] = slices[s]
      BY <2>2
    <3>2. QED
      BY <3>1, FullHashesClean
  <2>4. early' = {} => early = {}
    BY <2>2
  <2>5. InSlices(slices)' = InSlices(slices')
    BY DEF InSlices
  <2>6. QED
    BY <2>1, <2>2, <2>3, <2>4, <2>5 DEF TidyInv
<1>3. QED
  BY <1>1, <1>2

(* The hash an op is told to has not counted it, unless it was early. *)
LEMMA InformTidy ==
    ASSUME DhtInv, TidyInv, NEW o \in Ops, InformOpsStored(o)
    PROVE  TidyInv'
<1> DEFINE s == SectorAt(Loc[o])
           p == parts[s]
           i == Created[o] \div FullSize
<1>1. /\ DhtShape /\ parts # Down /\ o \in stored \ told
      /\ told' = told \union {o} /\ UNCHANGED <<now, stored, early>>
      /\ slices' = IF InFull(p, o) THEN [slices EXCEPT ![s][i] = CombineHashes(@, o)]
                   ELSE slices
      /\ parts' = IF InPartials(p, o)
                  THEN [parts EXCEPT ![s].partials[Holder(p, o)].hash = CombineHashes(@, o)]
                  ELSE parts
  BY DEF DhtInv, InformOpsStored
<1>2. /\ slices \in [Sectors -> [Indices -> Hashes]]
      /\ parts \in [Sectors -> Part]
      /\ s \in Sectors /\ i \in Indices
  BY <1>1, OwnSector, Windows DEF DhtShape, Own
<1>3. SectorOK(s, p, slices[s], told, early, now)
  BY <1>1, <1>2 DEF DhtInv
<1>4. ASSUME NEW h \in Hashes, Counted(h) \subseteq told \union early
      PROVE  /\ Counted(CombineHashes(h, o)) \subseteq told' \union early'
             /\ early = {} /\ h # {} => CombineHashes(h, o) # {}
  <2>1. Counted(CombineHashes(h, o)) \subseteq Ops
    BY HashCombined DEF Counted, Hashes
  <2>2. Counted(CombineHashes(h, o)) \subseteq Counted(h) \union {o}
    BY <2>1, HashCombined
  <2>3. ASSUME early = {} PROVE CombineHashes(h, o) # {}
    <3>1. o \notin Counted(h)
      BY <1>1, <1>4, <2>3
    <3>2. o \in Counted(CombineHashes(h, o))
      BY <3>1, HashCombined
    <3>3. QED
      BY <3>2 DEF Counted
  <2>4. QED
    BY <1>1, <1>4, <2>2, <2>3
<1> HIDE DEF s, p, i
<1>5. ASSUME NEW r \in Sectors, NEW k \in Indices
      PROVE  /\ Counted(slices'[r][k]) \subseteq told' \union early'
             /\ early' = {} => slices'[r][k] # {}
  <2>1. Counted(slices[r][k]) \subseteq InSlices(slices)
    BY DEF InSlices
  <2>2. /\ slices[r][k] \in Hashes /\ Counted(slices[r][k]) \subseteq told \union early
        /\ early = {} => slices[r][k] # {}
    BY <1>2, <2>1 DEF TidyInv
  <2>3. slices'[r][k] = slices[r][k] \/ slices'[r][k] = CombineHashes(slices[r][k], o)
    BY <1>1, <1>2
  <2>4. QED
    BY <1>1, <1>4, <2>2, <2>3
<1>6. ASSUME NEW r \in Sectors, NEW c \in Range(parts'[r].partials)
      PROVE  /\ Counted(c.hash) \subseteq told' \union early'
             /\ early' = {} => c.hash # {}
  <2>1. \A d \in Range(parts[r].partials) :
           /\ d.hash \in Hashes /\ Counted(d.hash) \subseteq told \union early
           /\ early = {} => d.hash # {}
    <3>1. \A d \in Range(parts[r].partials) : d \in Slice
      BY <1>2 DEF Part, Range
    <3>2. ASSUME NEW d \in Range(parts[r].partials)
          PROVE  Counted(d.hash) \subseteq InPartitions(parts)
      <4> DEFINE all == UNION {Range(parts[x].partials) : x \in Sectors}
      <4>1. d \in all
        OBVIOUS
      <4>2. InPartitions(parts) = UNION {Counted(sl.hash) : sl \in all}
        BY DEF InPartitions
      <4> HIDE DEF all
      <4>3. QED
        BY <4>1, <4>2
    <3>3. QED
      BY <1>1, <3>1, <3>2 DEF TidyInv, Slice
  <2>2. \E d \in Range(parts[r].partials) : c.hash = d.hash \/ c.hash = CombineHashes(d.hash, o)
    <3>1. CASE parts'[r] = parts[r]
      BY <3>1
    <3>2. CASE parts'[r] # parts[r]
      <4>1. /\ InPartials(p, o) /\ r = s
            /\ parts' = [parts EXCEPT ![s].partials[Holder(p, o)].hash = CombineHashes(@, o)]
        BY <1>1, <1>2, <3>2
      <4> DEFINE h == Holder(p, o)
      <4>2. h \in 1 .. Len(p.partials)
        BY <1>3, <4>1, HolderOnly DEF SectorOK
      <4>3. parts'[r].partials = [p.partials EXCEPT ![h].hash = CombineHashes(@, o)]
        BY <1>2, <4>1 DEF p, Part
      <4> HIDE DEF h
      <4>4. PICK k \in DOMAIN parts'[r].partials : c = parts'[r].partials[k]
        BY DEF Range
      <4>5. p.partials \in Seq(Slice) /\ p = parts[r]
        BY <1>2, <4>1 DEF p, Part
      <4>6. k \in DOMAIN p.partials /\ p.partials[k] \in Range(p.partials)
        BY <4>3, <4>4, <4>5 DEF Range
      <4>7. c.hash = p.partials[k].hash \/ c.hash = CombineHashes(p.partials[k].hash, o)
        <5>1. p.partials[k] \in Slice
          BY <4>5, <4>6
        <5>2. QED
          BY <4>3, <4>4, <4>6, <5>1 DEF Slice
      <4>8. QED
        BY <4>5, <4>6, <4>7
    <3>3. QED
      BY <3>1, <3>2
  <2>3. QED
    BY <1>1, <1>4, <2>1, <2>2
<1>7. InSlices(slices') \subseteq told' \union early'
  BY <1>5 DEF InSlices
<1>8. InPartitions(parts') \subseteq told' \union early'
  <2> DEFINE all == UNION {Range(parts'[x].partials) : x \in Sectors}
  <2>1. InPartitions(parts') = UNION {Counted(sl.hash) : sl \in all}
    BY DEF InPartitions
  <2>2. \A c \in all : Counted(c.hash) \subseteq told' \union early'
    BY <1>6
  <2> HIDE DEF all
  <2>3. QED
    BY <2>1, <2>2
<1>9. InSlices(slices)' = InSlices(slices') /\ InPartitions(parts)' = InPartitions(parts')
  BY DEF InSlices, InPartitions
<1>10. QED
  BY <1>1, <1>5, <1>6, <1>7, <1>8, <1>9 DEF TidyInv

LEMMA TidyNext == DhtInv /\ TidyInv /\ [DhtNext]_dhtVars => TidyInv'
<1> SUFFICES ASSUME DhtInv, TidyInv, [DhtNext]_dhtVars PROVE TidyInv'
  OBVIOUS
<1> USE DEF TidyInv, InSlices, InPartitions
<1>1. CASE Tick
  <2>1. now' > 0
    BY <1>1 DEF Tick, DhtInv, DhtShape
  <2>2. UNCHANGED <<stored, slices, parts, told, early>>
    BY <1>1 DEF Tick
  <2>3. QED
    BY <2>1, <2>2
<1>2. ASSUME NEW o \in Ops, StoreOp(o) PROVE TidyInv'
  BY <1>2 DEF StoreOp
<1>3. CASE Crash
  BY <1>3 DEF Crash
<1>4. CASE UNCHANGED dhtVars
  BY <1>4 DEF dhtVars
<1>5. QED
  BY <1>1, <1>2, <1>3, <1>4, UpdateTidy, RestartTidy, InformTidy DEF DhtNext

----------------------------------------------------------------------------
(* Lists of ops.                                                           *)

(* Every place has its number in the order. *)
LEMMA Ordered ==
    ASSUME NEW P, IsFiniteSet(P), P \subseteq Int \X Int
    PROVE  /\ Cardinality(P) \in Nat
           /\ \A k \in 1 .. Cardinality(P) : InOrder(P)[k] \in P
           /\ \A p \in P : \E k \in 1 .. Cardinality(P) : InOrder(P)[k] = p
           /\ \A j, k \in 1 .. Cardinality(P) : j # k => InOrder(P)[j] # InOrder(P)[k]
<1> DEFINE n == Cardinality(P)
           Upto(p) == {q \in P : Before(q, p)}
           f == [p \in P |-> Rank(P, p)]
<1>1. n \in Nat /\ \A p \in P : Rank(P, p) = Cardinality(Upto(p))
  BY FS_CardinalityType DEF Rank
<1>2. \A p \in P : p[1] \in Int /\ p[2] \in Int /\ p = <<p[1], p[2]>>
  OBVIOUS
<1>3. \A p \in P : ~ Before(p, p)
  BY <1>2 DEF Before
<1>4. \A p, q \in P : p # q => Before(p, q) \/ Before(q, p)
  BY <1>2 DEF Before
<1>5. \A p, q, r \in P : Before(p, q) /\ Before(q, r) => Before(p, r)
  <2>1. SUFFICES ASSUME NEW p \in P, NEW q \in P, NEW r \in P, Before(p, q), Before(q, r)
                 PROVE  Before(p, r)
    OBVIOUS
  <2>2. /\ p[1] \in Int /\ p[2] \in Int /\ q[1] \in Int /\ q[2] \in Int
        /\ r[1] \in Int /\ r[2] \in Int
    BY <1>2
  <2>3. QED
    BY <2>1, <2>2 DEF Before
<1>6. ASSUME NEW p \in P PROVE Rank(P, p) \in 0 .. n - 1
  <2>1. IsFiniteSet(P \ {p}) /\ Cardinality(P \ {p}) = n - 1
    BY FS_RemoveElement
  <2>2. Upto(p) \in SUBSET (P \ {p})
    BY <1>3
  <2>3. IsFiniteSet(Upto(p)) /\ Cardinality(Upto(p)) <= n - 1
    BY <2>1, <2>2, FS_Subset
  <2>4. Cardinality(Upto(p)) \in Nat
    BY <2>3, FS_CardinalityType
  <2>5. QED
    BY <1>1, <2>3, <2>4
<1>7. ASSUME NEW p \in P, NEW q \in P, Before(p, q) PROVE Rank(P, p) # Rank(P, q)
  <2>1. Upto(p) \in SUBSET Upto(q)
    BY <1>5, <1>7
  <2>2. p \in Upto(q) /\ p \notin Upto(p)
    BY <1>3, <1>7
  <2>3. IsFiniteSet(Upto(q))
    <3>1. Upto(q) \in SUBSET P
      OBVIOUS
    <3>2. QED
      BY <3>1, FS_Subset
  <2>4. Cardinality(Upto(q)) # Cardinality(Upto(p))
    BY <2>1, <2>2, <2>3, FS_Subset
  <2>5. QED
    BY <1>1, <2>4
<1>8. f \in Injection(P, 0 .. n - 1)
  <2>1. \A p, q \in P : Rank(P, p) = Rank(P, q) => p = q
    BY <1>4, <1>7
  <2>2. f \in [P -> 0 .. n - 1]
    BY <1>6
  <2>3. QED
    BY <2>1, <2>2 DEF Injection, IsInjective
<1>9. IsFiniteSet(0 .. n - 1) /\ Cardinality(0 .. n - 1) = n
  <2> HIDE DEF n
  <2>1. n \in Nat /\ 0 \in Int /\ n - 1 \in Int
    BY <1>1
  <2>2. IsFiniteSet(0 .. n - 1)
        /\ Cardinality(0 .. n - 1) = IF 0 > n - 1 THEN 0 ELSE (n - 1) - 0 + 1
    BY <2>1, FS_Interval
  <2>3. QED
    BY <2>1, <2>2
<1>10. f \in Surjection(P, 0 .. n - 1)
  <2> HIDE DEF f, n
  <2>1. Cardinality(P) = Cardinality(0 .. n - 1)
    BY <1>9 DEF n
  <2>2. QED
    BY <1>8, <1>9, <2>1, FS_Injection
<1>11. \A k \in 1 .. n : \E p \in P : Rank(P, p) = k - 1
  <2>1. \A x \in 0 .. n - 1 : \E p \in P : f[p] = x
    BY <1>10 DEF Surjection
  <2>2. \A k \in 1 .. n : k - 1 \in 0 .. n - 1
    BY <1>1
  <2>3. QED
    BY <2>1, <2>2
<1>12. \A k \in 1 .. n : InOrder(P)[k] \in P /\ Rank(P, InOrder(P)[k]) = k - 1
  BY <1>11 DEF InOrder
<1>13. ASSUME NEW p \in P PROVE \E k \in 1 .. n : InOrder(P)[k] = p
  <2>1. Rank(P, p) + 1 \in 1 .. n /\ (Rank(P, p) + 1) - 1 = Rank(P, p)
    BY <1>1, <1>6
  <2>2. Rank(P, InOrder(P)[Rank(P, p) + 1]) = Rank(P, p)
        /\ InOrder(P)[Rank(P, p) + 1] \in P
    BY <1>12, <2>1
  <2>3. InOrder(P)[Rank(P, p) + 1] = p
    BY <1>4, <1>7, <2>2
  <2>4. QED
    BY <2>1, <2>3
<1>14. ASSUME NEW j \in 1 .. n, NEW k \in 1 .. n, j # k PROVE InOrder(P)[j] # InOrder(P)[k]
  <2>1. j - 1 # k - 1
    BY <1>1, <1>14
  <2>2. QED
    BY <1>12, <2>1
<1>15. QED
  BY <1>1, <1>12, <1>13, <1>14

(* The list after each batch. *)
Fitting(list, batch, budget) ==
    IF Cardinality(list) + Cardinality(batch) <= budget THEN list \union batch ELSE list

LEMMA TakenSteps ==
    ASSUME NEW contents, Len(contents) \in Nat,
           \A k \in 1 .. Len(contents) : contents[k] \in SUBSET Ops, NEW budget
    PROVE  /\ Taken(contents, budget) \in [0 .. Len(contents) -> SUBSET Ops]
           /\ Taken(contents, budget)[0] = {}
           /\ \A k \in 1 .. Len(contents) :
                 Taken(contents, budget)[k]
                    = Fitting(Taken(contents, budget)[k - 1], contents[k], budget)
<1> DEFINE n == Len(contents)
           V == SUBSET Ops
           G == [k \in 1 .. n |-> [list \in V |-> Fitting(list, contents[k], budget)]]
<1>1. G \in [1 .. n -> [V -> V]]
  <2>1. ASSUME NEW k \in 1 .. n, NEW list \in V PROVE Fitting(list, contents[k], budget) \in V
    BY DEF Fitting
  <2> HIDE DEF V
  <2>2. QED
    BY <2>1
<1>2. PICK f \in [0 .. n -> V] : Unrolls(f, n, {}, G)
  <2>1. {} \in V
    OBVIOUS
  <2> HIDE DEF G, V
  <2>2. QED
    BY <1>1, <2>1, Recursion
<1>3. \A k \in 1 .. n : f[k] = Fitting(f[k - 1], contents[k], budget)
  <2> HIDE DEF V
  <2>1. \A k \in 1 .. n : f[k - 1] \in V
    OBVIOUS
  <2>2. QED
    BY <1>2, <2>1 DEF Unrolls
<1> DEFINE Lists(g) == g = [k \in 0 .. n |->
                              IF k = 0 THEN {} ELSE Fitting(g[k - 1], contents[k], budget)]
<1>4. Lists(f)
  <2> HIDE DEF V
  <2>1. QED
    BY <1>2, <1>3 DEF Unrolls
<1>5. Taken(contents, budget) = CHOOSE g : Lists(g)
  BY DEF Taken, Fitting
<1>6. Lists(Taken(contents, budget))
  <2> HIDE DEF Lists
  <2>1. QED
    BY <1>4, <1>5
<1>7. /\ Taken(contents, budget)[0] = {}
      /\ \A k \in 1 .. n : Taken(contents, budget)[k]
            = Fitting(Taken(contents, budget)[k - 1], contents[k], budget)
  <2> HIDE DEF n
  <2>1. n \in Nat /\ \A k \in 1 .. n : k \in 0 .. n /\ k # 0
    BY DEF n
  <2>2. 0 \in 0 .. n
    BY <2>1
  <2>3. QED
    BY <1>6, <2>1, <2>2
<1>8. \A k \in 0 .. n : Taken(contents, budget)[k] \in SUBSET Ops
  <2> DEFINE S == {k \in 0 .. n : Taken(contents, budget)[k] \in SUBSET Ops}
  <2>1. 0 \in S
    BY <1>7
  <2>2. ASSUME NEW k \in 0 .. n, k \in S, k < n PROVE k + 1 \in S
    <3>1. k + 1 \in 1 .. n /\ (k + 1) - 1 = k
      BY <2>2
    <3>2. Taken(contents, budget)[k + 1]
             = Fitting(Taken(contents, budget)[k], contents[k + 1], budget)
      BY <1>7, <3>1
    <3>3. QED
      BY <2>2, <3>1, <3>2 DEF Fitting
  <2>3. 0 .. n \subseteq S
    <3> HIDE DEF S
    <3>1. QED
      BY <2>1, <2>2, UpTo
  <2>4. QED
    BY <2>3
<1>9. Taken(contents, budget) = [k \in 0 .. n |-> Taken(contents, budget)[k]]
  BY <1>6
<1>10. QED
  BY <1>7, <1>8, <1>9

(* The batches of finitely many places, in order. *)
Batches(P, B) == [k \in 1 .. Cardinality(P) |-> B[InOrder(P)[k]]]

(* A list keeps to its budget, and a budget of all ops leaves no batch     *)
(* out, as batches have no op in common.                                   *)
LEMMA Lists ==
    ASSUME IsFiniteSet(Ops), NEW P, IsFiniteSet(P), P \subseteq Int \X Int,
           NEW B \in [P -> SUBSET Ops],
           \A p, q \in P : p # q => B[p] \intersect B[q] = {}
    PROVE  /\ \A p \in P : B[p] \subseteq HashList(Batches(P, B), Cardinality(Ops))
           /\ \A budget \in Nat : Cardinality(HashList(Batches(P, B), budget)) <= budget
<1> DEFINE n == Cardinality(P)
           c == Batches(P, B)
<1>1. /\ n \in Nat
      /\ \A k \in 1 .. n : InOrder(P)[k] \in P
      /\ \A p \in P : \E k \in 1 .. n : InOrder(P)[k] = p
      /\ \A j, k \in 1 .. n : j # k => InOrder(P)[j] # InOrder(P)[k]
  BY Ordered
<1>2. /\ \A k \in 1 .. n : c[k] = B[InOrder(P)[k]] /\ c[k] \in SUBSET Ops
      /\ DOMAIN c = 1 .. n /\ c = [k \in 1 .. n |-> c[k]]
  BY <1>1 DEF Batches
<1> HIDE DEF n, c
<1>3. Len(c) = n /\ \A k \in 1 .. Len(c) : c[k] \in SUBSET Ops
  <2>1. c \in [1 .. n -> SUBSET Ops]
    BY <1>2
  <2>2. c \in Seq(SUBSET Ops)
    BY <1>1, <2>1
  <2>3. Len(c) = n
    BY <1>1, <1>2, <2>2
  <2>4. QED
    BY <1>2, <2>3
<1>4. \A j, k \in 1 .. n : j # k => c[j] \intersect c[k] = {}
  BY <1>1, <1>2
<1>5. ASSUME NEW b
      PROVE  /\ \A k \in 0 .. n : Taken(c, b)[k] \in SUBSET Ops
             /\ Taken(c, b)[0] = {}
             /\ \A k \in 1 .. n : Taken(c, b)[k] = Fitting(Taken(c, b)[k - 1], c[k], b)
  <2>1. Len(c) \in Nat /\ \A k \in 1 .. Len(c) : c[k] \in SUBSET Ops
    BY <1>1, <1>3
  <2>2. /\ Taken(c, b) \in [0 .. Len(c) -> SUBSET Ops]
        /\ Taken(c, b)[0] = {}
        /\ \A k \in 1 .. Len(c) : Taken(c, b)[k] = Fitting(Taken(c, b)[k - 1], c[k], b)
    BY <2>1, TakenSteps, Zenon
  <2>3. QED
    BY <1>3, <2>2
<1>6. ASSUME NEW S \in SUBSET Ops PROVE IsFiniteSet(S) /\ Cardinality(S) \in Nat
  BY FS_Subset, FS_CardinalityType
<1>7. ASSUME NEW b \in Nat PROVE Cardinality(HashList(c, b)) <= b
  <2> DEFINE t == Taken(c, b)
             S == {k \in 0 .. n : Cardinality(t[k]) <= b}
  <2>1. 0 \in S
    <3>1. t[0] = {} /\ Cardinality({}) = 0 /\ 0 \in 0 .. n
      BY <1>1, <1>5, FS_EmptySet
    <3>2. Cardinality(t[0]) <= b
      BY <3>1
    <3> HIDE DEF t
    <3>3. QED
      BY <3>1, <3>2
  <2>2. ASSUME NEW k \in 0 .. n, k \in S, k < n PROVE k + 1 \in S
    <3>1. k + 1 \in 1 .. n /\ (k + 1) - 1 = k /\ k + 1 \in 0 .. n
      BY <1>1, <2>2
    <3>2. t[k + 1] = Fitting(t[k], c[k + 1], b) /\ t[k] \in SUBSET Ops
      BY <1>5, <3>1
    <3>3. c[k + 1] \in SUBSET Ops
      BY <1>2, <3>1
    <3>4. Cardinality(t[k]) <= b
      BY <2>2
    <3> HIDE DEF t
    <3>5. Cardinality(t[k + 1]) <= b
      <4>1. CASE Cardinality(t[k]) + Cardinality(c[k + 1]) <= b
        <5>1. t[k + 1] = t[k] \union c[k + 1]
          BY <3>2, <4>1 DEF Fitting
        <5>2. /\ Cardinality(t[k] \union c[k + 1])
                   = Cardinality(t[k]) + Cardinality(c[k + 1])
                        - Cardinality(t[k] \intersect c[k + 1])
              /\ IsFiniteSet(t[k]) /\ IsFiniteSet(c[k + 1])
          BY <1>6, <3>2, <3>3, FS_Union
        <5>3. /\ Cardinality(t[k]) \in Nat /\ Cardinality(c[k + 1]) \in Nat
              /\ Cardinality(t[k] \intersect c[k + 1]) \in Nat
          <6>1. t[k] \intersect c[k + 1] \in SUBSET Ops
            BY <3>2
          <6>2. QED
            BY <1>6, <3>2, <3>3, <6>1
        <5>4. QED
          BY <4>1, <5>1, <5>2, <5>3
      <4>2. CASE ~ (Cardinality(t[k]) + Cardinality(c[k + 1]) <= b)
        BY <3>2, <3>4, <4>2 DEF Fitting
      <4>3. QED
        BY <4>1, <4>2
    <3>6. QED
      BY <3>1, <3>5
  <2>3. n \in S
    <3> HIDE DEF S
    <3>1. 0 .. n \subseteq S
      BY <1>1, <2>1, <2>2, UpTo
    <3>2. QED
      BY <1>1, <3>1
  <2>4. QED
    BY <1>3, <2>3 DEF HashList
<1>8. ASSUME NEW k \in 1 .. n PROVE c[k] \subseteq HashList(c, Cardinality(Ops))
  <2> DEFINE b == Cardinality(Ops)
             t == Taken(c, b)
             S == {m \in 0 .. n : \A o : o \in t[m] <=> \E j \in 1 .. m : o \in c[j]}
  <2>1. 0 \in S
    BY <1>1, <1>5
  <2>2. ASSUME NEW m \in 0 .. n, m \in S, m < n PROVE m + 1 \in S
    <3>1. m \in Nat /\ m + 1 \in 1 .. n /\ (m + 1) - 1 = m /\ m + 1 \in 0 .. n
      BY <1>1, <2>2
    <3>2. t[m + 1] = Fitting(t[m], c[m + 1], b) /\ t[m] \in SUBSET Ops
      BY <1>5, <3>1
    <3>3. c[m + 1] \in SUBSET Ops
      BY <1>2, <3>1
    <3>4. \A o : o \in t[m] <=> \E j \in 1 .. m : o \in c[j]
      BY <2>2
    <3> HIDE DEF t
    <3>5. t[m] \intersect c[m + 1] = {}
      <4>1. \A j \in 1 .. m : j \in 1 .. n /\ j # m + 1
        BY <1>1, <2>2, <3>1
      <4>2. QED
        BY <1>4, <3>1, <3>4, <4>1
    <3>6. Cardinality(t[m]) + Cardinality(c[m + 1]) <= b
      <4>1. Cardinality(t[m] \union c[m + 1])
               = Cardinality(t[m]) + Cardinality(c[m + 1]) - Cardinality({})
        BY <1>6, <3>2, <3>3, <3>5, FS_Union
      <4>2. t[m] \union c[m + 1] \in SUBSET Ops
        BY <3>2, <3>3
      <4>3. Cardinality(t[m] \union c[m + 1]) <= b
        BY <4>2, FS_Subset
      <4>4. Cardinality({}) = 0 /\ Cardinality(t[m]) \in Nat /\ Cardinality(c[m + 1]) \in Nat
        BY <1>6, <3>2, <3>3, FS_EmptySet
      <4> HIDE DEF b
      <4>5. QED
        BY <4>1, <4>3, <4>4
    <3>7. t[m + 1] = t[m] \union c[m + 1]
      BY <3>2, <3>6 DEF Fitting
    <3>8. \A j : j \in 1 .. m + 1 <=> j \in 1 .. m \/ j = m + 1
      BY <3>1
    <3>9. \A o : o \in t[m + 1] <=> \E j \in 1 .. m + 1 : o \in c[j]
      BY <3>4, <3>7, <3>8
    <3>10. QED
      BY <3>1, <3>9
  <2>3. n \in S
    <3> HIDE DEF S
    <3>1. 0 .. n \subseteq S
      BY <1>1, <2>1, <2>2, UpTo
    <3>2. QED
      BY <1>1, <3>1
  <2>4. QED
    BY <1>3, <2>3 DEF HashList
<1>9. ASSUME NEW p \in P PROVE B[p] \subseteq HashList(c, Cardinality(Ops))
  <2>1. PICK k \in 1 .. n : InOrder(P)[k] = p
    BY <1>1
  <2>2. QED
    BY <1>2, <1>8, <2>1
<1>10. QED
  BY <1>7, <1>9 DEF c

----------------------------------------------------------------------------
(* Combined hashes and their differences.                                  *)

(* The hashes of sets that have no op in common combine to that of all     *)
(* their ops.                                                              *)
LEMMA CombinedApart ==
    ASSUME NEW D, NEW A \in [D -> SUBSET Ops],
           \A i, j \in D : i # j => A[i] \intersect A[j] = {},
           NEW f, DOMAIN f = D, \A i \in D : f[i] = CombineOpHashes(A[i]),
           NEW U \in SUBSET Ops, \A o \in Ops : o \in U <=> \E i \in D : o \in A[i]
    PROVE  Combined(f) = CombineOpHashes(U)
<1> DEFINE used == {i \in DOMAIN f : f[i] # NoHash}
           odd == {o \in Ops : Cardinality({i \in used : o \in f[i]}) % 2 = 1}
<1>1. \A i \in D : (f[i] # NoHash <=> A[i] # {}) /\ (f[i] # NoHash => f[i] = A[i])
  BY DhtAssumption DEF CombineOpHashes
<1>2. CASE U = {}
  <2>1. used = {}
    BY <1>1, <1>2
  <2>2. QED
    BY <1>2, <2>1 DEF Combined, CombineOpHashes
<1>3. CASE U # {}
  <2>1. used # {}
    BY <1>1, <1>3
  <2>2. ASSUME NEW o \in Ops
        PROVE  o \in U <=> Cardinality({i \in used : o \in f[i]}) % 2 = 1
    <3>1. CASE o \in U
      <4>1. PICK i \in D : o \in A[i]
        BY <3>1
      <4>2. {k \in used : o \in f[k]} = {i}
        BY <1>1, <4>1
      <4>3. Cardinality({i}) = 1 /\ 1 % 2 = 1
        BY FS_Singleton
      <4>4. QED
        BY <3>1, <4>2, <4>3
    <3>2. CASE o \notin U
      <4>1. {k \in used : o \in f[k]} = {}
        BY <1>1, <3>2
      <4>2. Cardinality({}) = 0 /\ 0 % 2 # 1
        BY FS_EmptySet
      <4>3. QED
        BY <3>2, <4>1, <4>2
    <3>3. QED
      BY <3>1, <3>2
  <2>3. odd = U
    BY <2>2
  <2>4. Combined(f) = odd
    BY <2>1 DEF Combined
  <2>5. QED
    BY <1>3, <2>3, <2>4 DEF CombineOpHashes
<1>4. QED
  BY <1>2, <1>3

(* Hashes tell sets apart. *)
LEMMA HashesDiffer ==
    ASSUME NEW S \in SUBSET Ops, NEW T \in SUBSET Ops
    PROVE  CombineOpHashes(S) = CombineOpHashes(T) <=> S = T
BY DhtAssumption DEF CombineOpHashes

(* A HashMap that leaves empty hashes out. *)
Trim(D, A) == [i \in {j \in D : A[j] # {}} |-> A[i]]

LEMMA Trimmed ==
    ASSUME NEW D, NEW A \in [D -> SUBSET Ops],
           NEW f, DOMAIN f = D, \A i \in D : f[i] = CombineOpHashes(A[i])
    PROVE  NonEmpty(f) = Trim(D, A)
<1>1. \A i \in D : (f[i] # NoHash <=> A[i] # {}) /\ (f[i] # NoHash => f[i] = A[i])
  BY DhtAssumption DEF CombineOpHashes
<1>2. {j \in DOMAIN f : f[j] # NoHash} = {j \in D : A[j] # {}}
  BY <1>1
<1>3. \A i \in {j \in D : A[j] # {}} : f[i] = A[i]
  BY <1>1
<1>4. QED
  BY <1>2, <1>3 DEF NonEmpty, Trim

(* Two of them differ where the sets do. *)
LEMMA TrimDiffers ==
    ASSUME NEW D, NEW A, NEW B
    PROVE  /\ Mismatches(Trim(D, A), Trim(D, B)) = {i \in D : A[i] # B[i]}
           /\ (\A i \in D : A[i] = B[i]) <=> Trim(D, A) = Trim(D, B)
<1> DEFINE f == Trim(D, A)
           g == Trim(D, B)
<1>1. /\ \A i : i \in DOMAIN f <=> i \in D /\ A[i] # {}
      /\ \A i : i \in DOMAIN g <=> i \in D /\ B[i] # {}
      /\ \A i \in DOMAIN f : f[i] = A[i]
      /\ \A i \in DOMAIN g : g[i] = B[i]
      /\ f = [i \in DOMAIN f |-> f[i]] /\ g = [i \in DOMAIN g |-> g[i]]
  BY DEF Trim
<1> HIDE DEF f, g
<1>2. \A i : i \in Mismatches(f, g) <=> i \in D /\ A[i] # B[i]
  BY <1>1 DEF Mismatches, SymDiff
<1>3. ASSUME \A i \in D : A[i] = B[i] PROVE f = g
  <2>1. DOMAIN f = DOMAIN g
    BY <1>1, <1>3
  <2>2. \A i \in DOMAIN f : f[i] = g[i]
    BY <1>1, <1>3
  <2>3. QED
    BY <1>1, <2>1, <2>2
<1>4. ASSUME f = g PROVE \A i \in D : A[i] = B[i]
  <2>1. Mismatches(f, g) = {}
    BY <1>4 DEF Mismatches, SymDiff
  <2>2. QED
    BY <1>2, <2>1
<1>5. QED
  BY <1>2, <1>3, <1>4 DEF f, g

----------------------------------------------------------------------------
(* What a node shows of the ops it was told of.                            *)

(* The ops of T in the sectors of A and in a window of time. *)
Share(T, A, a, b) == {o \in T : Own(o) \in A /\ a <= Created[o] /\ Created[o] < b}

(* The ops below the full slices of p, in one of them and in one partial   *)
(* slice.                                                                  *)
DiscShare(p, T, A) == Share(T, A, 0, FullEnd(p))
DiscCell(p, T, s, i) ==
    IF i < p.full THEN Share(T, {s}, i * FullSize, (i + 1) * FullSize) ELSE {}
DiscCells(p, T, s) == [i \in Indices |-> DiscCell(p, T, s, i)]
RingShare(p, T, A, r) == Share(T, A, p.partials[r].start, PartialEnd(p.partials[r]))
Rings(p) == 1 .. Len(p.partials)

(* The model d cuts time like p in every sector and was told of T. *)
ModelOf(d, T, p) ==
    /\ T \in SUBSET Ops /\ d.stored \in SUBSET Ops /\ T \subseteq d.stored
    /\ \A s \in Sectors :
          /\ DOMAIN d.slices[s] = Indices
          /\ \A i \in Indices : d.slices[s][i] = CombineOpHashes(DiscCell(p, T, s, i))
          /\ d.parts[s].full = p.full
          /\ DOMAIN d.parts[s].partials = Rings(p)
          /\ \A r \in Rings(p) :
                LET sl == d.parts[s].partials[r]
                IN /\ sl.start = p.partials[r].start
                   /\ sl.size = p.partials[r].size
                   /\ sl.hash = CombineOpHashes(RingShare(p, T, {s}, r))

(* The snapshots of such a model. *)
MinimalOf(p, T, A) ==
    [kind |-> "Minimal", boundary |-> FullEnd(p),
     disc |-> CombineOpHashes(DiscShare(p, T, A)),
     hashes |-> [r \in Rings(p) |-> CombineOpHashes(RingShare(p, T, A, r))]]
DiscSectorsOf(p, T, A) ==
    [kind |-> "DiscSectors", boundary |-> FullEnd(p),
     hashes |-> Trim(A, [s \in A |-> DiscShare(p, T, {s})])]
DiscDetailsOf(p, T, X) ==
    [kind |-> "DiscSectorDetails", boundary |-> FullEnd(p),
     hashes |-> [s \in X |-> Trim(Indices, DiscCells(p, T, s))]]
RingDetailsOf(p, T, A, X) ==
    [kind |-> "RingSectorDetails", boundary |-> FullEnd(p),
     hashes |-> [r \in X |-> Trim(A, [s \in A |-> RingShare(p, T, {s}, r)])]]

(* The full slices of a sector have no op in common and cover the disc. *)
LEMMA Cells ==
    ASSUME NEW p \in Part, NEW T \in SUBSET Ops, NEW s
    PROVE  /\ \A i \in Indices : DiscCell(p, T, s, i) \in SUBSET Ops
           /\ \A i, j \in Indices :
                 i # j => DiscCell(p, T, s, i) \intersect DiscCell(p, T, s, j) = {}
           /\ \A o \in Ops : o \in DiscShare(p, T, {s}) <=>
                                \E i \in Indices : o \in DiscCell(p, T, s, i)
<1>1. \A i \in Indices : DiscCell(p, T, s, i) \in SUBSET Ops
  BY DEF DiscCell, Share
<1>2. /\ FullSize \in Nat \ {0} /\ p.full \in Nat
      /\ \A i \in Indices : i \in Nat
      /\ \A o \in Ops : Created[o] \in Nat /\ Created[o] \div FullSize \in Indices
  BY Windows DEF Part
<1>3. \A o \in Ops, i \in Indices :
         o \in DiscCell(p, T, s, i) <=>
            /\ o \in T /\ Own(o) = s /\ i < p.full
            /\ i * FullSize <= Created[o] /\ Created[o] < (i + 1) * FullSize
  BY DEF DiscCell, Share
<1>4. \A o \in Ops, i \in Indices :
         o \in DiscCell(p, T, s, i) <=>
            o \in T /\ Own(o) = s /\ i < p.full /\ i = Created[o] \div FullSize
  <2>1. ASSUME NEW o \in Ops, NEW i \in Indices
        PROVE  i * FullSize <= Created[o] /\ Created[o] < (i + 1) * FullSize
                  <=> i = Created[o] \div FullSize
    BY <1>2, Window
  <2>2. QED
    BY <1>3, <2>1
<1>5. ASSUME NEW o \in Ops
      PROVE  0 <= Created[o] /\ Created[o] < FullEnd(p) <=> Created[o] \div FullSize < p.full
  <2> DEFINE q == Created[o] \div FullSize
  <2>1. /\ q \in Nat /\ Created[o] \in Nat
        /\ q * FullSize <= Created[o] /\ Created[o] < q * FullSize + FullSize
    BY <1>2, DivBracket
  <2> HIDE DEF q
  <2>2. /\ (q + 1) * FullSize = q * FullSize + FullSize
        /\ q * FullSize \in Int /\ p.full * FullSize \in Int
    BY <1>2, <2>1, Distribute
  <2>3. ASSUME q < p.full PROVE Created[o] < p.full * FullSize
    <3>1. q + 1 <= p.full /\ q + 1 \in Int /\ p.full \in Int
      BY <1>2, <2>1, <2>3
    <3>2. (q + 1) * FullSize <= p.full * FullSize
      BY <1>2, <3>1, Scale
    <3>3. QED
      BY <1>2, <2>1, <2>2, <3>2
  <2>4. ASSUME Created[o] < p.full * FullSize PROVE q < p.full
    <3>1. q * FullSize < p.full * FullSize
      BY <2>1, <2>2, <2>4
    <3>2. QED
      BY <1>2, <2>1, <3>1, Scale
  <2>5. QED
    BY <2>1, <2>3, <2>4 DEF FullEnd, q
<1>6. \A i, j \in Indices :
         i # j => DiscCell(p, T, s, i) \intersect DiscCell(p, T, s, j) = {}
  BY <1>1, <1>4
<1>7. ASSUME NEW o \in Ops
      PROVE  o \in DiscShare(p, T, {s}) <=> \E i \in Indices : o \in DiscCell(p, T, s, i)
  <2>1. o \in DiscShare(p, T, {s}) <=>
           o \in T /\ Own(o) = s /\ 0 <= Created[o] /\ Created[o] < FullEnd(p)
    BY DEF DiscShare, Share
  <2>2. QED
    BY <1>2, <1>4, <1>5, <2>1
<1>8. QED
  BY <1>1, <1>6, <1>7

LEMMA DiscHashes ==
    ASSUME NEW d, NEW T, NEW p \in Part, ModelOf(d, T, p), NEW s \in Sectors
    PROVE  /\ FullTimeSliceHashes(d, s)
                 = Trim(Indices, DiscCells(p, T, s))
           /\ FullTimeSliceTopHash(d, s) = CombineOpHashes(DiscShare(p, T, {s}))
<1> DEFINE A == [i \in Indices |-> DiscCell(p, T, s, i)]
           D == {i \in Indices : A[i] # {}}
           f == FullTimeSliceHashes(d, s)
           B == [i \in D |-> A[i]]
<1>1. /\ T \in SUBSET Ops /\ DOMAIN d.slices[s] = Indices
      /\ \A i \in Indices : d.slices[s][i] = CombineOpHashes(A[i])
  BY DEF ModelOf
<1>2. /\ A \in [Indices -> SUBSET Ops]
      /\ \A i, j \in Indices : i # j => A[i] \intersect A[j] = {}
      /\ \A o \in Ops : o \in DiscShare(p, T, {s}) <=> \E i \in Indices : o \in A[i]
  BY <1>1, Cells
<1> HIDE DEF A
<1>3. f = Trim(Indices, A)
  BY <1>1, <1>2, Trimmed DEF FullTimeSliceHashes
<1>4. DOMAIN f = D /\ \A i \in D : f[i] = A[i]
  BY <1>3 DEF Trim
<1>5. \A i \in D : f[i] = CombineOpHashes(B[i])
  BY <1>4 DEF CombineOpHashes
<1>6. B \in [D -> SUBSET Ops] /\ \A i, j \in D : i # j => B[i] \intersect B[j] = {}
  BY <1>2
<1>7. \A o \in Ops : o \in DiscShare(p, T, {s}) <=> \E i \in D : o \in B[i]
  BY <1>2
<1>8. DiscShare(p, T, {s}) \in SUBSET Ops
  BY <1>1 DEF DiscShare, Share
<1> HIDE DEF f, D, B
<1>9. Combined(f) = CombineOpHashes(DiscShare(p, T, {s}))
  BY <1>4, <1>5, <1>6, <1>7, <1>8, CombinedApart
<1>10. QED
  BY <1>3, <1>9 DEF FullTimeSliceTopHash, A, f, DiscCells

(* The shares of sectors combine. *)
LEMMA SharesCombine ==
    ASSUME NEW T \in SUBSET Ops, NEW a, NEW b, NEW f,
           \A s \in DOMAIN f : f[s] = CombineOpHashes(Share(T, {s}, a, b))
    PROVE  Combined(f) = CombineOpHashes(Share(T, DOMAIN f, a, b))
<1> DEFINE A == DOMAIN f
           B == [s \in A |-> Share(T, {s}, a, b)]
<1>1. /\ B \in [A -> SUBSET Ops] /\ Share(T, A, a, b) \in SUBSET Ops
      /\ \A s \in A : f[s] = CombineOpHashes(B[s])
  BY DEF Share
<1>2. \A s, r \in A : s # r => B[s] \intersect B[r] = {}
  BY DEF Share
<1>3. \A o \in Ops : o \in Share(T, A, a, b) <=> \E s \in A : o \in B[s]
  BY DEF Share
<1> HIDE DEF A, B
<1>4. DOMAIN f = A
  BY DEF A
<1>5. Combined(f) = CombineOpHashes(Share(T, A, a, b))
  BY <1>1, <1>2, <1>3, <1>4, CombinedApart
<1>6. QED
  BY <1>4, <1>5

LEMMA Shown ==
    ASSUME NEW d, NEW T, NEW p \in Part, ModelOf(d, T, p),
           NEW A \in SUBSET Sectors, A # {}
    PROVE  /\ SnapshotMinimal(d, A) = MinimalOf(p, T, A)
           /\ SnapshotDiscSectors(d, A) = DiscSectorsOf(p, T, A)
           /\ \A X : SnapshotDiscSectorDetails(d, A, X) = DiscDetailsOf(p, T, A \intersect X)
           /\ \A X \in SUBSET Rings(p) :
                 SnapshotRingSectorDetails(d, A, X) = RingDetailsOf(p, T, A, X)
<1>1. /\ T \in SUBSET Ops /\ 0 \in Sectors
      /\ \A s \in Sectors :
            /\ d.parts[s].full = p.full
            /\ DOMAIN d.parts[s].partials = Rings(p)
            /\ \A r \in Rings(p) : d.parts[s].partials[r].hash
                                      = CombineOpHashes(RingShare(p, T, {s}, r))
  <2>1. 0 \in Sectors
    BY ArcsAssumption DEF Sectors, SectorIds
  <2>2. QED
    BY <2>1 DEF ModelOf
<1>2. DiscBoundary(d) = FullEnd(p)
  BY <1>1 DEF DiscBoundary, FullEnd
<1>3. Min(A) \in A
  <2>1. A \in SUBSET Nat
    BY ArcsAssumption DEF Sectors, SectorIds
  <2>2. PICK n \in A : \A m \in A : n <= m
    BY <2>1, LeastNat
  <2>3. QED
    BY <2>2 DEF Min
<1>4. SnapshotMinimal(d, A) = MinimalOf(p, T, A)
  <2>1. DiscTopHash(d, A) = CombineOpHashes(DiscShare(p, T, A))
    <3> DEFINE f == [s \in A |-> FullTimeSliceTopHash(d, s)]
               end == FullEnd(p)
    <3>1. ASSUME NEW s \in A PROVE f[s] = CombineOpHashes(Share(T, {s}, 0, end))
      BY DiscHashes DEF DiscShare
    <3>2. DOMAIN f = A
      OBVIOUS
    <3>3. DiscTopHash(d, A) = Combined(f)
      BY DEF DiscTopHash
    <3> HIDE DEF f, end
    <3>4. \A s \in DOMAIN f : f[s] = CombineOpHashes(Share(T, {s}, 0, end))
      BY <3>1, <3>2
    <3>5. T \in SUBSET Ops
      BY <1>1
    <3>6. Combined(f) = CombineOpHashes(Share(T, DOMAIN f, 0, end))
      BY <3>4, <3>5, SharesCombine
    <3>7. QED
      BY <3>2, <3>3, <3>6 DEF DiscShare, end
  <2>2. RingTopHashes(d, A) = [r \in Rings(p) |-> CombineOpHashes(RingShare(p, T, A, r))]
    <3> DEFINE F(r) == [s \in {x \in A : r \in DOMAIN d.parts[x].partials} |->
                           PartialSliceHash(d, s, r)]
    <3>1. RingTopHashes(d, A) = [r \in Rings(p) |-> Combined(F(r))]
      BY <1>1, <1>3 DEF RingTopHashes
    <3>2. ASSUME NEW r \in Rings(p)
          PROVE  Combined(F(r)) = CombineOpHashes(RingShare(p, T, A, r))
      <4>1. {x \in A : r \in DOMAIN d.parts[x].partials} = A
        BY <1>1
      <4> DEFINE f == F(r)
      <4>2. DOMAIN f = A
        BY <4>1
      <4>3. \A s \in A : f[s] = CombineOpHashes(RingShare(p, T, {s}, r))
        BY <1>1, <4>1 DEF PartialSliceHash
      <4> DEFINE a == p.partials[r].start
                 b == PartialEnd(p.partials[r])
      <4>4. \A s \in DOMAIN f : f[s] = CombineOpHashes(Share(T, {s}, a, b))
        BY <4>2, <4>3 DEF RingShare
      <4>5. RingShare(p, T, A, r) = Share(T, A, a, b) /\ T \in SUBSET Ops
        BY <1>1 DEF RingShare
      <4> HIDE DEF f, a, b
      <4>6. Combined(f) = CombineOpHashes(Share(T, DOMAIN f, a, b))
        BY <4>4, <4>5, SharesCombine
      <4>7. QED
        BY <4>2, <4>5, <4>6 DEF f
    <3> HIDE DEF F
    <3>3. QED
      BY <3>1, <3>2
  <2>3. QED
    BY <1>2, <2>1, <2>2 DEF SnapshotMinimal, MinimalOf
<1>5. SnapshotDiscSectors(d, A) = DiscSectorsOf(p, T, A)
  <2> DEFINE f == [s \in A |-> FullTimeSliceTopHash(d, s)]
             B == [s \in A |-> DiscShare(p, T, {s})]
  <2>1. ASSUME NEW s \in A PROVE f[s] = CombineOpHashes(B[s])
    <3>1. FullTimeSliceTopHash(d, s) = CombineOpHashes(DiscShare(p, T, {s}))
      BY <2>1, DiscHashes
    <3>2. QED
      BY <2>1, <3>1
  <2>2. B \in [A -> SUBSET Ops] /\ DOMAIN f = A
    BY <1>1 DEF DiscShare, Share
  <2>3. DiscSectorHashes(d, A) = NonEmpty(f)
    BY DEF DiscSectorHashes
  <2> HIDE DEF f, B
  <2>4. NonEmpty(f) = Trim(A, B)
    BY <2>1, <2>2, Trimmed
  <2>5. QED
    BY <1>2, <2>3, <2>4 DEF SnapshotDiscSectors, DiscSectorsOf, B
<1>6. ASSUME NEW X
      PROVE  SnapshotDiscSectorDetails(d, A, X) = DiscDetailsOf(p, T, A \intersect X)
  <2>1. \A s \in A \intersect X :
           FullTimeSliceHashes(d, s) = Trim(Indices, DiscCells(p, T, s))
    BY DiscHashes
  <2>2. DiscSectorSectorDetails(d, A, X)
           = [s \in A \intersect X |->
                 Trim(Indices, DiscCells(p, T, s))]
    BY <2>1 DEF DiscSectorSectorDetails
  <2>3. QED
    BY <1>2, <2>2 DEF SnapshotDiscSectorDetails, DiscDetailsOf
<1>7. ASSUME NEW X \in SUBSET Rings(p)
      PROVE  SnapshotRingSectorDetails(d, A, X) = RingDetailsOf(p, T, A, X)
  <2> DEFINE F(r) == [s \in A |-> PartialSliceHash(d, s, r)]
             B(r) == [s \in A |-> RingShare(p, T, {s}, r)]
  <2>1. ASSUME NEW r \in X PROVE NonEmpty(F(r)) = Trim(A, B(r))
    <3> DEFINE f == F(r)
               b == B(r)
    <3>1. \A s \in A : f[s] = CombineOpHashes(b[s])
      BY <1>1 DEF PartialSliceHash
    <3>2. b \in [A -> SUBSET Ops] /\ DOMAIN f = A
      BY <1>1 DEF RingShare, Share
    <3> HIDE DEF f, b
    <3>3. NonEmpty(f) = Trim(A, b)
      BY <3>1, <3>2, Trimmed
    <3>4. QED
      BY <3>3 DEF f, b
  <2>2. RingDetails(d, A, X) = [r \in X |-> Trim(A, B(r))]
    <3>1. RingDetails(d, A, X) = [r \in X |-> NonEmpty(F(r))]
      BY DEF RingDetails
    <3> HIDE DEF F, B
    <3>2. QED
      BY <2>1, <3>1
  <2>3. QED
    BY <1>2, <2>2 DEF SnapshotRingSectorDetails, RingDetailsOf
<1>8. QED
  BY <1>4, <1>5, <1>6, <1>7

----------------------------------------------------------------------------
(* How two nodes that cut time alike answer each other.                    *)

(* Where the details of two nodes differ. *)
DiscWrong(p, T, U, A) == {s \in A : DiscShare(p, T, {s}) # DiscShare(p, U, {s})}
RingWrong(p, T, U, A) == {r \in Rings(p) : RingShare(p, T, A, r) # RingShare(p, U, A, r)}
DiscPlaces(p, T, U, X) ==
    {pl \in X \X Indices : DiscCell(p, T, pl[1], pl[2]) # DiscCell(p, U, pl[1], pl[2])}
RingPlaces(p, T, U, A, X) ==
    {pl \in X \X A : RingShare(p, T, {pl[2]}, pl[1]) # RingShare(p, U, {pl[2]}, pl[1])}

LEMMA PlacesDiffer ==
    ASSUME NEW X, NEW D, NEW F, NEW G, NEW f, NEW g,
           f = [i \in X |-> Trim(D, F[i])], g = [i \in X |-> Trim(D, G[i])]
    PROVE  /\ PlaceMismatches(f, g) = {pl \in X \X D : F[pl[1]][pl[2]] # G[pl[1]][pl[2]]}
           /\ f = g => PlaceMismatches(f, g) = {}
<1> DEFINE differing(i) == IF i \notin DOMAIN f THEN DOMAIN g[i]
                           ELSE IF i \notin DOMAIN g THEN DOMAIN f[i]
                           ELSE Mismatches(f[i], g[i])
           All == {{<<i, j>> : j \in differing(i)} : i \in DOMAIN f \union DOMAIN g}
           P == {pl \in X \X D : F[pl[1]][pl[2]] # G[pl[1]][pl[2]]}
<1>1. DOMAIN f = X /\ DOMAIN g = X
  OBVIOUS
<1>2. ASSUME NEW i \in X PROVE differing(i) = {j \in D : F[i][j] # G[i][j]}
  <2>1. differing(i) = Mismatches(Trim(D, F[i]), Trim(D, G[i]))
    BY <1>1, <1>2
  <2>2. QED
    BY <2>1, TrimDiffers
<1>3. PlaceMismatches(f, g) = UNION All
  BY DEF PlaceMismatches
<1> HIDE DEF differing
<1>4. \A pl : pl \in UNION All <=> \E i \in X : \E j \in differing(i) : pl = <<i, j>>
  BY <1>1
<1>5. ASSUME NEW pl PROVE pl \in UNION All <=> pl \in P
  <2>1. pl \in UNION All <=>
           \E i \in X : \E j \in D : F[i][j] # G[i][j] /\ pl = <<i, j>>
    BY <1>2, <1>4
  <2>2. pl \in P <=> \E i \in X : \E j \in D : F[i][j] # G[i][j] /\ pl = <<i, j>>
    OBVIOUS
  <2>3. QED
    BY <2>1, <2>2
<1>6. UNION All = P
  BY <1>5
<1>7. ASSUME f = g PROVE P = {}
  <2>1. \A i \in X : Trim(D, F[i]) = Trim(D, G[i])
    BY <1>7
  <2>2. \A i \in X : \A j \in D : F[i][j] = G[i][j]
    BY <2>1, TrimDiffers
  <2>3. QED
    BY <2>2
<1>8. QED
  BY <1>3, <1>6, <1>7

LEMMA MinimalCompared ==
    ASSUME NEW p \in Part, NEW T \in SUBSET Ops, NEW U \in SUBSET Ops, NEW A
    PROVE  LET c == Compare(MinimalOf(p, T, A), MinimalOf(p, U, A))
               same == DiscShare(p, T, A) = DiscShare(p, U, A)
           IN /\ ~ same => c = Diff("DiscMismatch", {})
              /\ same /\ RingWrong(p, T, U, A) # {}
                    => c = Diff("RingMismatches", RingWrong(p, T, U, A))
              /\ same /\ RingWrong(p, T, U, A) = {} => c = Diff("Identical", {})
<1> DEFINE f == [r \in Rings(p) |-> CombineOpHashes(RingShare(p, T, A, r))]
           g == [r \in Rings(p) |-> CombineOpHashes(RingShare(p, U, A, r))]
           h == CombineOpHashes(DiscShare(p, T, A))
           k == CombineOpHashes(DiscShare(p, U, A))
           ours == MinimalOf(p, T, A)
           theirs == MinimalOf(p, U, A)
<1>1. /\ ours = [kind |-> "Minimal", boundary |-> FullEnd(p), disc |-> h, hashes |-> f]
      /\ theirs = [kind |-> "Minimal", boundary |-> FullEnd(p), disc |-> k, hashes |-> g]
  BY DEF MinimalOf
<1>2. h = k <=> DiscShare(p, T, A) = DiscShare(p, U, A)
  <2>1. DiscShare(p, T, A) \in SUBSET Ops /\ DiscShare(p, U, A) \in SUBSET Ops
    BY DEF DiscShare, Share
  <2>2. QED
    BY <2>1, HashesDiffer
<1>3. ASSUME NEW r \in Rings(p)
      PROVE  f[r] = g[r] <=> RingShare(p, T, A, r) = RingShare(p, U, A, r)
  <2>1. RingShare(p, T, A, r) \in SUBSET Ops /\ RingShare(p, U, A, r) \in SUBSET Ops
    BY DEF RingShare, Share
  <2>2. QED
    BY <2>1, HashesDiffer
<1>4. Len(f) = Len(g)
  <2>1. Len(p.partials) \in Nat
    BY DEF Part
  <2>2. QED
    BY <2>1 DEF Rings
<1>5. DOMAIN f = Rings(p) /\ DOMAIN g = Rings(p)
  OBVIOUS
<1>6. Mismatches(f, g) = RingWrong(p, T, U, A)
  <2> DEFINE W == {r \in Rings(p) : f[r] # g[r]}
  <2>1. W = RingWrong(p, T, U, A)
    BY <1>3 DEF RingWrong
  <2> HIDE DEF f, g
  <2>2. Mismatches(f, g) = W
    BY <1>5 DEF Mismatches, SymDiff
  <2>3. QED
    BY <2>1, <2>2
<1>7. RingWrong(p, T, U, A) = {} <=> f = g
  <2>1. RingWrong(p, T, U, A) = {} <=> \A r \in Rings(p) : f[r] = g[r]
    BY <1>3 DEF RingWrong
  <2>2. f = [r \in Rings(p) |-> f[r]] /\ g = [r \in Rings(p) |-> g[r]]
    OBVIOUS
  <2> HIDE DEF f, g
  <2>3. QED
    BY <2>1, <2>2
<1> HIDE DEF f, g, h, k, ours, theirs
<1>8. ours = theirs <=> h = k /\ f = g
  BY <1>1
<1>9. Compare(ours, theirs) =
         IF ours = theirs THEN Diff("Identical", {}) ELSE CompareMinimal(ours, theirs)
  BY <1>1 DEF Compare
<1>10. CompareMinimal(ours, theirs) =
         IF h # k THEN Diff("DiscMismatch", {}) ELSE Diff("RingMismatches", Mismatches(f, g))
  BY <1>1, <1>4 DEF CompareMinimal
<1>11. QED
  BY <1>2, <1>6, <1>7, <1>8, <1>9, <1>10 DEF ours, theirs

LEMMA SectorsCompared ==
    ASSUME NEW p \in Part, NEW T \in SUBSET Ops, NEW U \in SUBSET Ops, NEW A,
           DiscWrong(p, T, U, A) # {}
    PROVE  Compare(DiscSectorsOf(p, T, A), DiscSectorsOf(p, U, A))
              = Diff("DiscSectorMismatches", DiscWrong(p, T, U, A))
<1> DEFINE B == [s \in A |-> DiscShare(p, T, {s})]
           C == [s \in A |-> DiscShare(p, U, {s})]
           W == {s \in A : B[s] # C[s]}
           f == Trim(A, B)
           g == Trim(A, C)
           ours == DiscSectorsOf(p, T, A)
           theirs == DiscSectorsOf(p, U, A)
<1>1. /\ ours = [kind |-> "DiscSectors", boundary |-> FullEnd(p), hashes |-> f]
      /\ theirs = [kind |-> "DiscSectors", boundary |-> FullEnd(p), hashes |-> g]
  BY DEF DiscSectorsOf
<1>2. W = DiscWrong(p, T, U, A)
  BY DEF DiscWrong
<1> HIDE DEF B, C
<1>3. Mismatches(f, g) = W /\ (f = g => W = {})
  BY TrimDiffers
<1> HIDE DEF f, g, ours, theirs, W
<1>4. ours # theirs
  BY <1>1, <1>2, <1>3
<1>5. Compare(ours, theirs) = Diff("DiscSectorMismatches", Mismatches(f, g))
  BY <1>1, <1>4 DEF Compare
<1>6. QED
  BY <1>2, <1>3, <1>5 DEF ours, theirs

LEMMA SlicesCompared ==
    ASSUME NEW p \in Part, NEW T \in SUBSET Ops, NEW U \in SUBSET Ops, NEW X,
           DiscPlaces(p, T, U, X) # {}
    PROVE  Compare(DiscDetailsOf(p, T, X), DiscDetailsOf(p, U, X))
              = Diff("DiscSectorSliceMismatches", DiscPlaces(p, T, U, X))
<1> DEFINE F == [s \in X |-> DiscCells(p, T, s)]
           G == [s \in X |-> DiscCells(p, U, s)]
           f == [s \in X |-> Trim(Indices, F[s])]
           g == [s \in X |-> Trim(Indices, G[s])]
           P == {pl \in X \X Indices : F[pl[1]][pl[2]] # G[pl[1]][pl[2]]}
           ours == DiscDetailsOf(p, T, X)
           theirs == DiscDetailsOf(p, U, X)
<1>1. /\ ours = [kind |-> "DiscSectorDetails", boundary |-> FullEnd(p), hashes |-> f]
      /\ theirs = [kind |-> "DiscSectorDetails", boundary |-> FullEnd(p), hashes |-> g]
  BY DEF DiscDetailsOf
<1>2. P = DiscPlaces(p, T, U, X)
  BY DEF DiscPlaces, DiscCells
<1>3. PlaceMismatches(f, g) = P /\ (f = g => PlaceMismatches(f, g) = {})
  <2>1. f = [i \in X |-> Trim(Indices, F[i])] /\ g = [i \in X |-> Trim(Indices, G[i])]
    OBVIOUS
  <2> HIDE DEF F, G, f, g
  <2>2. QED
    BY <2>1, PlacesDiffer
<1> HIDE DEF f, g, ours, theirs, P
<1>4. ours # theirs
  BY <1>1, <1>2, <1>3
<1>5. Compare(ours, theirs) = Diff("DiscSectorSliceMismatches", PlaceMismatches(f, g))
  BY <1>1, <1>4 DEF Compare
<1>6. QED
  BY <1>2, <1>3, <1>5 DEF ours, theirs

LEMMA RingsCompared ==
    ASSUME NEW p \in Part, NEW T \in SUBSET Ops, NEW U \in SUBSET Ops, NEW A, NEW X,
           RingPlaces(p, T, U, A, X) # {}
    PROVE  Compare(RingDetailsOf(p, T, A, X), RingDetailsOf(p, U, A, X))
              = Diff("RingSectorMismatches", RingPlaces(p, T, U, A, X))
<1> DEFINE F == [r \in X |-> [s \in A |-> RingShare(p, T, {s}, r)]]
           G == [r \in X |-> [s \in A |-> RingShare(p, U, {s}, r)]]
           f == [r \in X |-> Trim(A, F[r])]
           g == [r \in X |-> Trim(A, G[r])]
           P == {pl \in X \X A : F[pl[1]][pl[2]] # G[pl[1]][pl[2]]}
           ours == RingDetailsOf(p, T, A, X)
           theirs == RingDetailsOf(p, U, A, X)
<1>1. /\ ours = [kind |-> "RingSectorDetails", boundary |-> FullEnd(p), hashes |-> f]
      /\ theirs = [kind |-> "RingSectorDetails", boundary |-> FullEnd(p), hashes |-> g]
  BY DEF RingDetailsOf
<1>2. P = RingPlaces(p, T, U, A, X)
  BY DEF RingPlaces
<1>3. PlaceMismatches(f, g) = P /\ (f = g => PlaceMismatches(f, g) = {})
  <2>1. f = [i \in X |-> Trim(A, F[i])] /\ g = [i \in X |-> Trim(A, G[i])]
    OBVIOUS
  <2> HIDE DEF F, G, f, g
  <2>2. QED
    BY <2>1, PlacesDiffer
<1>4. DOMAIN f = DOMAIN g
  OBVIOUS
<1> HIDE DEF f, g, ours, theirs, P
<1>5. ours # theirs
  BY <1>1, <1>2, <1>3
<1>6. Compare(ours, theirs) = Diff("RingSectorMismatches", PlaceMismatches(f, g))
  BY <1>1, <1>4, <1>5 DEF Compare
<1>7. QED
  BY <1>2, <1>3, <1>6 DEF ours, theirs

----------------------------------------------------------------------------
(* The ops of a window that a node lists are those it stores of it. *)
LEMMA WithinShare ==
    ASSUME NEW d, d.stored \in SUBSET Ops, NEW s \in Sectors, NEW bounds
    PROVE  OpsWithin(d, s, bounds) = Share(d.stored, {s}, bounds.from, bounds.to)
<1>1. \A o \in d.stored : ArcContains(SectorArc(s), Loc[o]) <=> Own(o) = s
  BY OwnSector
<1>2. QED
  BY <1>1 DEF OpsWithin, Share

(* The batches of disc places and of ring places. *)
DiscBatch(d, P) == [pl \in P |-> OpsWithin(d, pl[1], FullSliceBounds(pl[2]))]
RingBatch(d, P) == [pl \in P |-> OpsWithin(d, pl[2], PartialSliceBounds(d, pl[1]))]

LEMMA OrderedDomain ==
    ASSUME NEW P
    PROVE  DOMAIN InOrder(P) = 1 .. Cardinality(P)
BY DEF InOrder

LEMMA DiscListed ==
    ASSUME IsFiniteSet(Ops), NEW d, NEW p \in Part, NEW T, ModelOf(d, T, p),
           NEW U \in SUBSET Ops, NEW X \in SUBSET Sectors
    PROVE  LET P == DiscPlaces(p, T, U, X)
           IN /\ \A pl \in P : DiscCell(p, T, pl[1], pl[2])
                                  \subseteq DiscHashList(d, P, Cardinality(Ops))
              /\ \A b \in Nat : Cardinality(DiscHashList(d, P, b)) <= b
<1> DEFINE P == DiscPlaces(p, T, U, X)
           B == DiscBatch(d, P)
<1>1. /\ T \in SUBSET Ops /\ d.stored \in SUBSET Ops /\ T \subseteq d.stored
      /\ d.parts[0].full = p.full
  <2>1. 0 \in Sectors
    BY ArcsAssumption DEF Sectors, SectorIds
  <2>2. QED
    BY <2>1 DEF ModelOf
<1>2. \A pl \in P : /\ pl[1] \in X /\ pl[2] \in Indices /\ pl = <<pl[1], pl[2]>>
                    /\ pl[1] \in Sectors /\ pl[2] \in Nat /\ pl[2] < p.full
  <2>1. \A pl \in P : /\ pl[1] \in X /\ pl[2] \in Indices /\ pl = <<pl[1], pl[2]>>
                      /\ pl[2] < p.full
    BY DEF DiscPlaces, DiscCell
  <2>2. \A i \in Indices : i \in Nat
    BY Windows
  <2>3. QED
    BY <2>1, <2>2
<1>3. P \subseteq Int \X Int /\ IsFiniteSet(P)
  <2>1. IsFiniteSet(Sectors) /\ Sectors \subseteq Int
    BY ArcsAssumption, FS_Interval DEF Sectors, SectorIds
  <2>2. IsFiniteSet(Indices) /\ Indices \subseteq Int
    <3>1. MaxTime \div FullSize \in Int
      BY SizeFacts, DhtAssumption, DivBracket
    <3>2. QED
      BY <3>1, FS_Interval DEF Indices
  <2>3. IsFiniteSet(Sectors \X Indices)
    BY <2>1, <2>2, FS_Product
  <2>4. P \in SUBSET (Sectors \X Indices)
    BY DEF DiscPlaces
  <2> HIDE DEF P
  <2>5. QED
    BY <2>1, <2>2, <2>3, <2>4, FS_Subset
<1>4. {pl \in P : pl[1] \in Sectors /\ pl[2] <= d.parts[0].full} = P
  <2>1. p.full \in Nat
    BY DEF Part
  <2>2. \A pl \in P : pl[1] \in Sectors /\ pl[2] <= d.parts[0].full
    BY <1>1, <1>2, <2>1
  <2>3. QED
    BY <2>2
<1>5. ASSUME NEW b PROVE DiscHashList(d, P, b) = HashList(Batches(P, B), b)
  <2> DEFINE known == InOrder(P)
             F == [k \in DOMAIN known |->
                      OpsWithin(d, known[k][1], FullSliceBounds(known[k][2]))]
  <2>1. DiscHashList(d, P, b) = HashList(F, b)
    BY <1>4 DEF DiscHashList
  <2> HIDE DEF P
  <2>2. DOMAIN known = 1 .. Cardinality(P) /\ \A k \in 1 .. Cardinality(P) : known[k] \in P
    BY <1>3, Ordered, OrderedDomain
  <2>3. F = Batches(P, B)
    BY <2>2 DEF Batches, DiscBatch
  <2>4. QED
    BY <2>1, <2>3
<1>6. ASSUME NEW pl \in P
      PROVE  B[pl] = Share(d.stored, {pl[1]}, pl[2] * FullSize, (pl[2] + 1) * FullSize)
  <2> DEFINE bounds == FullSliceBounds(pl[2])
  <2>1. bounds.from = pl[2] * FullSize /\ bounds.to = (pl[2] + 1) * FullSize
    BY DEF FullSliceBounds
  <2>2. B[pl] = OpsWithin(d, pl[1], bounds)
    BY DEF DiscBatch
  <2> HIDE DEF bounds, B
  <2>3. OpsWithin(d, pl[1], bounds) = Share(d.stored, {pl[1]}, bounds.from, bounds.to)
    BY <1>1, <1>2, WithinShare
  <2>4. QED
    BY <2>1, <2>2, <2>3
<1>7. B \in [P -> SUBSET Ops]
  <2>1. \A pl \in P : B[pl] \in SUBSET Ops
    BY <1>1, <1>6 DEF Share
  <2>2. B = [pl \in P |-> B[pl]]
    BY DEF DiscBatch
  <2> HIDE DEF B, P
  <2>3. QED
    BY <2>1, <2>2
<1>8. ASSUME NEW pl \in P, NEW ql \in P, pl # ql PROVE B[pl] \intersect B[ql] = {}
  <2>1. ASSUME NEW o \in B[pl], o \in B[ql] PROVE FALSE
    <3>1. /\ o \in Ops /\ Own(o) = pl[1] /\ Own(o) = ql[1]
          /\ pl[2] * FullSize <= Created[o] /\ Created[o] < (pl[2] + 1) * FullSize
          /\ ql[2] * FullSize <= Created[o] /\ Created[o] < (ql[2] + 1) * FullSize
      BY <1>1, <1>6, <2>1 DEF Share
    <3>2. Created[o] \in Nat /\ FullSize \in Nat \ {0}
      BY <3>1, Windows
    <3>3. pl[2] = Created[o] \div FullSize
      BY <1>2, <3>1, <3>2, Window
    <3>4. ql[2] = Created[o] \div FullSize
      BY <1>2, <3>1, <3>2, Window
    <3>5. QED
      BY <1>2, <1>8, <3>1, <3>3, <3>4
  <2>2. QED
    BY <2>1
<1>9. ASSUME NEW pl \in P PROVE DiscCell(p, T, pl[1], pl[2]) \subseteq B[pl]
  BY <1>1, <1>6 DEF DiscCell, Share
<1> HIDE DEF P, B
<1>10. /\ \A pl \in P : B[pl] \subseteq HashList(Batches(P, B), Cardinality(Ops))
       /\ \A b \in Nat : Cardinality(HashList(Batches(P, B), b)) <= b
  BY <1>3, <1>7, <1>8, Lists
<1>11. /\ \A pl \in P : DiscCell(p, T, pl[1], pl[2])
                           \subseteq DiscHashList(d, P, Cardinality(Ops))
       /\ \A b \in Nat : Cardinality(DiscHashList(d, P, b)) <= b
  BY <1>5, <1>9, <1>10
<1>12. QED
  BY <1>11 DEF P

(* The partial slices of a model in line have no op in common. *)
WithoutGap(p) == InLine(p.partials, FullEnd(p))

LEMMA RingsApart ==
    ASSUME NEW p \in Part, WithoutGap(p), NEW o \in Ops, NEW q \in Rings(p), NEW r \in Rings(p),
           p.partials[q].start <= Created[o], Created[o] < PartialEnd(p.partials[q]),
           p.partials[r].start <= Created[o], Created[o] < PartialEnd(p.partials[r])
    PROVE  q = r
<1>1. Created[o] \in Nat
  BY Windows
<1>2. \A i \in Rings(p) : i \in Int /\ p.partials[i].start \in Nat
                          /\ PartialEnd(p.partials[i]) \in Nat
  <2>1. \A i \in Rings(p) : p.partials[i] \in Slice /\ i \in Int
    BY DEF Part, Rings
  <2>2. \A i \in Rings(p) : p.partials[i].size \in 0 .. Factor /\ p.partials[i].start \in Nat
    BY <2>1, SizeFacts DEF Slice
  <2>3. QED
    BY <2>1, <2>2, SizeFacts DEF PartialEnd
<1>3. \A i, j \in Rings(p) : i < j => PartialEnd(p.partials[i]) <= p.partials[j].start
  BY DEF WithoutGap, InLine, Rings
<1>4. QED
  BY <1>1, <1>2, <1>3

LEMMA RingListed ==
    ASSUME IsFiniteSet(Ops), NEW d, NEW p \in Part, WithoutGap(p), NEW T, ModelOf(d, T, p),
           NEW U \in SUBSET Ops, NEW A \in SUBSET Sectors, NEW X \in SUBSET Rings(p)
    PROVE  LET P == RingPlaces(p, T, U, A, X)
           IN /\ \A pl \in P : RingShare(p, T, {pl[2]}, pl[1])
                                  \subseteq RingHashList(d, P, Cardinality(Ops))
              /\ \A b \in Nat : Cardinality(RingHashList(d, P, b)) <= b
<1> DEFINE P == RingPlaces(p, T, U, A, X)
           B == RingBatch(d, P)
<1>1. /\ T \in SUBSET Ops /\ d.stored \in SUBSET Ops /\ T \subseteq d.stored
      /\ DOMAIN d.parts[0].partials = Rings(p)
      /\ \A r \in Rings(p) : /\ d.parts[0].partials[r].start = p.partials[r].start
                             /\ d.parts[0].partials[r].size = p.partials[r].size
  <2>1. 0 \in Sectors
    BY ArcsAssumption DEF Sectors, SectorIds
  <2>2. QED
    BY <2>1 DEF ModelOf
<1>2. \A pl \in P : /\ pl[1] \in Rings(p) /\ pl[2] \in Sectors /\ pl = <<pl[1], pl[2]>>
  BY DEF RingPlaces
<1>3. P \subseteq Int \X Int /\ IsFiniteSet(P)
  <2>1. IsFiniteSet(Sectors) /\ Sectors \subseteq Int
    BY ArcsAssumption, FS_Interval DEF Sectors, SectorIds
  <2>2. IsFiniteSet(Rings(p)) /\ Rings(p) \subseteq Int
    <3>1. Len(p.partials) \in Int
      BY DEF Part
    <3>2. QED
      BY <3>1, FS_Interval DEF Rings
  <2>3. IsFiniteSet(Rings(p) \X Sectors)
    BY <2>1, <2>2, FS_Product
  <2>4. P \in SUBSET (Rings(p) \X Sectors)
    BY DEF RingPlaces
  <2> HIDE DEF P
  <2>5. QED
    BY <2>1, <2>2, <2>3, <2>4, FS_Subset
<1>4. {pl \in P : pl[1] \in DOMAIN d.parts[0].partials /\ pl[2] \in Sectors} = P
  BY <1>1, <1>2
<1>5. ASSUME NEW b PROVE RingHashList(d, P, b) = HashList(Batches(P, B), b)
  <2> DEFINE known == InOrder(P)
             F == [k \in DOMAIN known |->
                      OpsWithin(d, known[k][2], PartialSliceBounds(d, known[k][1]))]
  <2>1. RingHashList(d, P, b) = HashList(F, b)
    BY <1>4 DEF RingHashList
  <2> HIDE DEF P
  <2>2. DOMAIN known = 1 .. Cardinality(P) /\ \A k \in 1 .. Cardinality(P) : known[k] \in P
    BY <1>3, Ordered, OrderedDomain
  <2>3. F = Batches(P, B)
    BY <2>2 DEF Batches, RingBatch
  <2>4. QED
    BY <2>1, <2>3
<1>6. ASSUME NEW pl \in P PROVE B[pl] = RingShare(p, d.stored, {pl[2]}, pl[1])
  <2> DEFINE bounds == PartialSliceBounds(d, pl[1])
  <2>1. bounds.from = p.partials[pl[1]].start /\ bounds.to = PartialEnd(p.partials[pl[1]])
    BY <1>1, <1>2 DEF PartialSliceBounds, PartialEnd
  <2>2. B[pl] = OpsWithin(d, pl[2], bounds)
    BY DEF RingBatch
  <2> HIDE DEF bounds, B
  <2>3. OpsWithin(d, pl[2], bounds) = Share(d.stored, {pl[2]}, bounds.from, bounds.to)
    BY <1>1, <1>2, WithinShare
  <2>4. QED
    BY <2>1, <2>2, <2>3 DEF RingShare
<1>7. B \in [P -> SUBSET Ops]
  <2>1. \A pl \in P : B[pl] \in SUBSET Ops
    BY <1>1, <1>6 DEF RingShare, Share
  <2>2. B = [pl \in P |-> B[pl]]
    BY DEF RingBatch
  <2> HIDE DEF B, P
  <2>3. QED
    BY <2>1, <2>2
<1>8. ASSUME NEW pl \in P, NEW ql \in P, pl # ql PROVE B[pl] \intersect B[ql] = {}
  <2>1. ASSUME NEW o \in B[pl], o \in B[ql] PROVE FALSE
    <3>1. /\ o \in Ops /\ Own(o) = pl[2] /\ Own(o) = ql[2]
          /\ p.partials[pl[1]].start <= Created[o] /\ Created[o] < PartialEnd(p.partials[pl[1]])
          /\ p.partials[ql[1]].start <= Created[o] /\ Created[o] < PartialEnd(p.partials[ql[1]])
      BY <1>1, <1>6, <2>1 DEF RingShare, Share
    <3>2. pl[1] = ql[1]
      BY <1>2, <3>1, RingsApart
    <3>3. QED
      BY <1>2, <1>8, <3>1, <3>2
  <2>2. QED
    BY <2>1
<1>9. ASSUME NEW pl \in P PROVE RingShare(p, T, {pl[2]}, pl[1]) \subseteq B[pl]
  BY <1>1, <1>6 DEF RingShare, Share
<1> HIDE DEF P, B
<1>10. /\ \A pl \in P : B[pl] \subseteq HashList(Batches(P, B), Cardinality(Ops))
       /\ \A b \in Nat : Cardinality(HashList(Batches(P, B), b)) <= b
  BY <1>3, <1>7, <1>8, Lists
<1>11. /\ \A pl \in P : RingShare(p, T, {pl[2]}, pl[1])
                           \subseteq RingHashList(d, P, Cardinality(Ops))
       /\ \A b \in Nat : Cardinality(RingHashList(d, P, b)) <= b
  BY <1>5, <1>9, <1>10
<1>12. QED
  BY <1>11 DEF P

----------------------------------------------------------------------------
(* How a node answers a snapshot of a node that was told of U. *)
LEMMA DiscDiffers ==
    ASSUME NEW d, NEW p \in Part, NEW T, ModelOf(d, T, p), NEW U \in SUBSET Ops,
           NEW A \in SUBSET Sectors, A # {}, NEW prev, NEW b,
           DiscShare(p, T, A) # DiscShare(p, U, A)
    PROVE  HandleSnapshot(d, MinimalOf(p, U, A), prev, A, b)
              = NextAction("NewSnapshot", DiscSectorsOf(p, T, A), {})
<1> DEFINE theirs == MinimalOf(p, U, A)
           ours == MinimalOf(p, T, A)
           wrong == RingWrong(p, T, U, A)
<1>1. T \in SUBSET Ops /\ wrong \in SUBSET Rings(p)
  BY DEF ModelOf, RingWrong
<1>2. Compare(ours, theirs) = Diff("DiscMismatch", {})
  BY <1>1, MinimalCompared
<1>3. SnapshotMinimal(d, A) = ours /\ SnapshotDiscSectors(d, A) = DiscSectorsOf(p, T, A)
  BY <1>1, Shown
<1>4. theirs.kind = "Minimal"
  BY DEF MinimalOf
<1> HIDE DEF theirs, ours, wrong
<1>5. Matching(d, theirs, prev, A) = ours
  BY <1>3, <1>4 DEF Matching
<1>6. HandleSnapshot(d, theirs, prev, A, b) = NextAction("NewSnapshot", SnapshotDiscSectors(d, A), {})
  BY <1>2, <1>5 DEF HandleSnapshot, Diff
<1>7. QED
  BY <1>3, <1>6 DEF theirs, wrong

LEMMA RingsDiffer ==
    ASSUME NEW d, NEW p \in Part, NEW T, ModelOf(d, T, p), NEW U \in SUBSET Ops,
           NEW A \in SUBSET Sectors, A # {}, NEW prev, NEW b,
           DiscShare(p, T, A) = DiscShare(p, U, A), RingWrong(p, T, U, A) # {}
    PROVE  HandleSnapshot(d, MinimalOf(p, U, A), prev, A, b)
              = NextAction("NewSnapshot", RingDetailsOf(p, T, A, RingWrong(p, T, U, A)), {})
<1> DEFINE theirs == MinimalOf(p, U, A)
           ours == MinimalOf(p, T, A)
           wrong == RingWrong(p, T, U, A)
<1>1. T \in SUBSET Ops /\ wrong \in SUBSET Rings(p)
  BY DEF ModelOf, RingWrong
<1>2. Compare(ours, theirs) = Diff("RingMismatches", wrong)
  BY <1>1, MinimalCompared
<1>3. SnapshotMinimal(d, A) = ours /\ SnapshotRingSectorDetails(d, A, wrong) = RingDetailsOf(p, T, A, wrong)
  BY <1>1, Shown
<1>4. theirs.kind = "Minimal"
  BY DEF MinimalOf
<1> HIDE DEF theirs, ours, wrong
<1>5. Matching(d, theirs, prev, A) = ours
  BY <1>3, <1>4 DEF Matching
<1>6. HandleSnapshot(d, theirs, prev, A, b) = NextAction("NewSnapshot", SnapshotRingSectorDetails(d, A, wrong), {})
  BY <1>2, <1>5 DEF HandleSnapshot, Diff
<1>7. QED
  BY <1>3, <1>6 DEF theirs, wrong

LEMMA NothingDiffers ==
    ASSUME NEW d, NEW p \in Part, NEW T, ModelOf(d, T, p), NEW U \in SUBSET Ops,
           NEW A \in SUBSET Sectors, A # {}, NEW prev, NEW b,
           DiscShare(p, T, A) = DiscShare(p, U, A), RingWrong(p, T, U, A) = {}
    PROVE  HandleSnapshot(d, MinimalOf(p, U, A), prev, A, b)
              = NextAction("Identical", NoSnapshot, {})
<1> DEFINE theirs == MinimalOf(p, U, A)
           ours == MinimalOf(p, T, A)
           wrong == RingWrong(p, T, U, A)
<1>1. T \in SUBSET Ops /\ wrong \in SUBSET Rings(p)
  BY DEF ModelOf, RingWrong
<1>2. Compare(ours, theirs) = Diff("Identical", {})
  BY <1>1, MinimalCompared
<1>3. SnapshotMinimal(d, A) = ours /\ wrong = {}
  BY <1>1, Shown
<1>4. theirs.kind = "Minimal"
  BY DEF MinimalOf
<1> HIDE DEF theirs, ours, wrong
<1>5. Matching(d, theirs, prev, A) = ours
  BY <1>3, <1>4 DEF Matching
<1>6. HandleSnapshot(d, theirs, prev, A, b) = NextAction("Identical", NoSnapshot, {})
  BY <1>2, <1>5 DEF HandleSnapshot, Diff
<1>7. QED
  BY <1>3, <1>6 DEF theirs, wrong

LEMMA SectorsHandled ==
    ASSUME NEW d, NEW p \in Part, NEW T, ModelOf(d, T, p), NEW U \in SUBSET Ops,
           NEW A \in SUBSET Sectors, A # {}, NEW prev, NEW b, DiscWrong(p, T, U, A) # {}
    PROVE  HandleSnapshot(d, DiscSectorsOf(p, U, A), prev, A, b)
              = NextAction("NewSnapshot", DiscDetailsOf(p, T, DiscWrong(p, T, U, A)), {})
<1> DEFINE wrong == DiscWrong(p, T, U, A)
           theirs == DiscSectorsOf(p, U, A)
           ours == DiscSectorsOf(p, T, A)
<1>1. T \in SUBSET Ops /\ A \intersect wrong = wrong
  BY DEF ModelOf, DiscWrong
<1>2. /\ SnapshotDiscSectors(d, A) = ours
      /\ SnapshotDiscSectorDetails(d, A, wrong) = DiscDetailsOf(p, T, wrong)
  <2>1. \A Y : SnapshotDiscSectorDetails(d, A, Y) = DiscDetailsOf(p, T, A \intersect Y)
    BY Shown
  <2>2. SnapshotDiscSectors(d, A) = ours
    BY Shown
  <2> HIDE DEF wrong
  <2>3. QED
    BY <1>1, <2>1, <2>2
<1>3. Compare(ours, theirs) = Diff("DiscSectorMismatches", wrong)
  BY <1>1, SectorsCompared
<1>4. theirs.kind = "DiscSectors"
  BY DEF DiscSectorsOf
<1> HIDE DEF theirs, ours, wrong
<1>5. Matching(d, theirs, prev, A) = ours
  BY <1>2, <1>4 DEF Matching
<1>6. HandleSnapshot(d, theirs, prev, A, b)
         = NextAction("NewSnapshot", SnapshotDiscSectorDetails(d, A, wrong), {})
  BY <1>3, <1>5 DEF HandleSnapshot, Diff
<1>7. QED
  BY <1>2, <1>6 DEF theirs, wrong

LEMMA DiscHandled ==
    ASSUME NEW d, NEW p \in Part, NEW T, ModelOf(d, T, p), NEW U \in SUBSET Ops,
           NEW A \in SUBSET Sectors, A # {}, NEW X \in SUBSET A, NEW prev, NEW b,
           DiscPlaces(p, T, U, X) # {}, prev.kind = "DiscSectors"
    PROVE  HandleSnapshot(d, DiscDetailsOf(p, U, X), prev, A, b)
              = NextAction("NewSnapshotAndHashList", DiscDetailsOf(p, T, X),
                           DiscHashList(d, DiscPlaces(p, T, U, X), b))
<1> DEFINE places == DiscPlaces(p, T, U, X)
           list == DiscHashList(d, places, b)
           theirs == DiscDetailsOf(p, U, X)
           ours == DiscDetailsOf(p, T, X)
<1>1. T \in SUBSET Ops /\ A \intersect X = X
  BY DEF ModelOf
<1>2. SnapshotDiscSectorDetails(d, A, X) = ours
  <2>1. \A Y : SnapshotDiscSectorDetails(d, A, Y) = DiscDetailsOf(p, T, A \intersect Y)
    BY Shown
  <2>2. QED
    BY <1>1, <2>1
<1>3. Compare(ours, theirs) = Diff("DiscSectorSliceMismatches", places)
  BY <1>1, SlicesCompared
<1>4. /\ theirs.kind = "DiscSectorDetails" /\ DOMAIN theirs.hashes = X
      /\ ours.kind = "DiscSectorDetails"
  BY DEF DiscDetailsOf
<1> HIDE DEF theirs, places
<1>5. Matching(d, theirs, prev, A) = ours
  BY <1>2, <1>4 DEF Matching
<1> HIDE DEF ours
<1>6. HandleSnapshot(d, theirs, prev, A, b) = Answered(prev, ours, list)
  BY <1>3, <1>5 DEF HandleSnapshot, Diff
<1>7. QED
  BY <1>4, <1>6 DEF Answered, theirs, ours, places

LEMMA DiscClosed ==
    ASSUME NEW d, NEW p \in Part, NEW T, ModelOf(d, T, p), NEW U \in SUBSET Ops,
           NEW A \in SUBSET Sectors, A # {}, NEW X \in SUBSET A, NEW prev, NEW b,
           DiscPlaces(p, T, U, X) # {}, prev = DiscDetailsOf(p, T, X)
    PROVE  HandleSnapshot(d, DiscDetailsOf(p, U, X), prev, A, b)
              = NextAction("HashList", NoSnapshot, DiscHashList(d, DiscPlaces(p, T, U, X), b))
<1> DEFINE places == DiscPlaces(p, T, U, X)
           list == DiscHashList(d, places, b)
           theirs == DiscDetailsOf(p, U, X)
           ours == DiscDetailsOf(p, T, X)
<1>1. T \in SUBSET Ops /\ A \intersect X = X
  BY DEF ModelOf
<1>2. SnapshotDiscSectorDetails(d, A, X) = ours
  <2>1. \A Y : SnapshotDiscSectorDetails(d, A, Y) = DiscDetailsOf(p, T, A \intersect Y)
    BY Shown
  <2>2. QED
    BY <1>1, <2>1
<1>3. Compare(ours, theirs) = Diff("DiscSectorSliceMismatches", places)
  BY <1>1, SlicesCompared
<1>4. /\ theirs.kind = "DiscSectorDetails" /\ DOMAIN theirs.hashes = X
      /\ ours.kind = "DiscSectorDetails"
  BY DEF DiscDetailsOf
<1> HIDE DEF theirs, places
<1>5. Matching(d, theirs, prev, A) = ours
  BY <1>2, <1>4 DEF Matching
<1> HIDE DEF ours
<1>6. HandleSnapshot(d, theirs, prev, A, b) = Answered(prev, ours, list)
  BY <1>3, <1>5 DEF HandleSnapshot, Diff
<1>7. QED
  BY <1>4, <1>6 DEF Answered, theirs, ours, places

LEMMA RingHandled ==
    ASSUME NEW d, NEW p \in Part, NEW T, ModelOf(d, T, p), NEW U \in SUBSET Ops,
           NEW A \in SUBSET Sectors, A # {}, NEW X \in SUBSET Rings(p), NEW prev, NEW b,
           RingPlaces(p, T, U, A, X) # {}, prev.kind = "Minimal"
    PROVE  HandleSnapshot(d, RingDetailsOf(p, U, A, X), prev, A, b)
              = NextAction("NewSnapshotAndHashList", RingDetailsOf(p, T, A, X),
                           RingHashList(d, RingPlaces(p, T, U, A, X), b))
<1> DEFINE places == RingPlaces(p, T, U, A, X)
           list == RingHashList(d, places, b)
           theirs == RingDetailsOf(p, U, A, X)
           ours == RingDetailsOf(p, T, A, X)
<1>1. T \in SUBSET Ops
  BY DEF ModelOf
<1>2. SnapshotRingSectorDetails(d, A, X) = ours
  BY Shown
<1>3. Compare(ours, theirs) = Diff("RingSectorMismatches", places)
  BY <1>1, RingsCompared
<1>4. /\ theirs.kind = "RingSectorDetails" /\ DOMAIN theirs.hashes = X
      /\ ours.kind = "RingSectorDetails"
  BY DEF RingDetailsOf
<1> HIDE DEF theirs, places
<1>5. Matching(d, theirs, prev, A) = ours
  BY <1>2, <1>4 DEF Matching
<1> HIDE DEF ours
<1>6. HandleSnapshot(d, theirs, prev, A, b) = Answered(prev, ours, list)
  BY <1>3, <1>5 DEF HandleSnapshot, Diff
<1>7. QED
  BY <1>4, <1>6 DEF Answered, theirs, ours, places

LEMMA RingClosed ==
    ASSUME NEW d, NEW p \in Part, NEW T, ModelOf(d, T, p), NEW U \in SUBSET Ops,
           NEW A \in SUBSET Sectors, A # {}, NEW X \in SUBSET Rings(p), NEW prev, NEW b,
           RingPlaces(p, T, U, A, X) # {}, prev = RingDetailsOf(p, T, A, X)
    PROVE  HandleSnapshot(d, RingDetailsOf(p, U, A, X), prev, A, b)
              = NextAction("HashList", NoSnapshot, RingHashList(d, RingPlaces(p, T, U, A, X), b))
<1> DEFINE places == RingPlaces(p, T, U, A, X)
           list == RingHashList(d, places, b)
           theirs == RingDetailsOf(p, U, A, X)
           ours == RingDetailsOf(p, T, A, X)
<1>1. T \in SUBSET Ops
  BY DEF ModelOf
<1>2. SnapshotRingSectorDetails(d, A, X) = ours
  BY Shown
<1>3. Compare(ours, theirs) = Diff("RingSectorMismatches", places)
  BY <1>1, RingsCompared
<1>4. /\ theirs.kind = "RingSectorDetails" /\ DOMAIN theirs.hashes = X
      /\ ours.kind = "RingSectorDetails"
  BY DEF RingDetailsOf
<1> HIDE DEF theirs, places
<1>5. Matching(d, theirs, prev, A) = ours
  BY <1>2, <1>4 DEF Matching
<1> HIDE DEF ours
<1>6. HandleSnapshot(d, theirs, prev, A, b) = Answered(prev, ours, list)
  BY <1>3, <1>5 DEF HandleSnapshot, Diff
<1>7. QED
  BY <1>4, <1>6 DEF Answered, theirs, ours, places

----------------------------------------------------------------------------
(* An op that only one of two nodes was told of is in one of the places    *)
(* where they differ.                                                      *)
LEMMA DiscFound ==
    ASSUME NEW p \in Part, NEW T \in SUBSET Ops, NEW U \in SUBSET Ops,
           NEW A \in SUBSET Sectors, NEW o \in DiscShare(p, T, A), o \notin U
    PROVE  \E pl \in DiscPlaces(p, T, U, DiscWrong(p, T, U, A)) :
              o \in DiscCell(p, T, pl[1], pl[2])
<1> DEFINE s == Own(o)
<1>1. /\ o \in Ops /\ s \in A /\ o \in DiscShare(p, T, {s}) /\ o \notin DiscShare(p, U, {s})
  BY DEF DiscShare, Share
<1>2. s \in DiscWrong(p, T, U, A)
  BY <1>1 DEF DiscWrong
<1> HIDE DEF s
<1>3. PICK i \in Indices : o \in DiscCell(p, T, s, i)
  BY <1>1, Cells
<1>4. o \notin DiscCell(p, U, s, i)
  BY DEF DiscCell, Share
<1>5. <<s, i>> \in DiscPlaces(p, T, U, DiscWrong(p, T, U, A))
  BY <1>2, <1>3, <1>4 DEF DiscPlaces
<1>6. QED
  BY <1>3, <1>5

LEMMA RingFound ==
    ASSUME NEW p, NEW T \in SUBSET Ops, NEW U \in SUBSET Ops, NEW A \in SUBSET Sectors,
           NEW r \in Rings(p), NEW o \in RingShare(p, T, A, r), o \notin U
    PROVE  \E pl \in RingPlaces(p, T, U, A, RingWrong(p, T, U, A)) :
              o \in RingShare(p, T, {pl[2]}, pl[1])
<1> DEFINE s == Own(o)
<1>1. /\ o \in Ops /\ s \in A /\ o \in RingShare(p, T, {s}, r) /\ o \notin RingShare(p, U, {s}, r)
      /\ o \notin RingShare(p, U, A, r)
  BY DEF RingShare, Share
<1>2. r \in RingWrong(p, T, U, A)
  BY <1>1 DEF RingWrong
<1> HIDE DEF s
<1>3. <<r, s>> \in RingPlaces(p, T, U, A, RingWrong(p, T, U, A))
  BY <1>1, <1>2 DEF RingPlaces
<1>4. QED
  BY <1>1, <1>3

(* Both nodes see the same places differ. *)
LEMMA SamePlaces ==
    ASSUME NEW p, NEW T, NEW U, NEW A, NEW X
    PROVE  /\ DiscWrong(p, U, T, A) = DiscWrong(p, T, U, A)
           /\ RingWrong(p, U, T, A) = RingWrong(p, T, U, A)
           /\ DiscPlaces(p, U, T, X) = DiscPlaces(p, T, U, X)
           /\ RingPlaces(p, U, T, A, X) = RingPlaces(p, T, U, A, X)
<1>1. DiscWrong(p, U, T, A) = DiscWrong(p, T, U, A)
  BY DEF DiscWrong
<1>2. RingWrong(p, U, T, A) = RingWrong(p, T, U, A)
  BY DEF RingWrong
<1>3. DiscPlaces(p, U, T, X) = DiscPlaces(p, T, U, X)
  BY DEF DiscPlaces
<1>4. RingPlaces(p, U, T, A, X) = RingPlaces(p, T, U, A, X)
  BY DEF RingPlaces
<1>5. QED
  BY <1>1, <1>2, <1>3, <1>4

(* Where shares differ there are places to tell of. *)
LEMMA DiscPlacesFound ==
    ASSUME NEW p \in Part, NEW T \in SUBSET Ops, NEW U \in SUBSET Ops,
           NEW A \in SUBSET Sectors, DiscShare(p, T, A) # DiscShare(p, U, A)
    PROVE  /\ DiscWrong(p, T, U, A) # {}
           /\ DiscPlaces(p, T, U, DiscWrong(p, T, U, A)) # {}
<1> DEFINE P == DiscPlaces(p, T, U, DiscWrong(p, T, U, A))
<1>1. PICK o : ~ (o \in DiscShare(p, T, A) <=> o \in DiscShare(p, U, A))
  OBVIOUS
<1>2. ASSUME o \in DiscShare(p, T, A) PROVE P # {}
  <2>1. o \notin U
    BY <1>1, <1>2 DEF DiscShare, Share
  <2>2. \E pl \in P : o \in DiscCell(p, T, pl[1], pl[2])
    BY <1>2, <2>1, DiscFound
  <2>3. QED
    BY <2>2
<1>3. ASSUME o \in DiscShare(p, U, A) PROVE P # {}
  <2>1. o \notin T
    BY <1>1, <1>3 DEF DiscShare, Share
  <2>2. DiscPlaces(p, U, T, DiscWrong(p, U, T, A)) # {}
    BY <1>3, <2>1, DiscFound
  <2>3. DiscPlaces(p, U, T, DiscWrong(p, T, U, A)) = P /\ DiscWrong(p, U, T, A) = DiscWrong(p, T, U, A)
    BY SamePlaces
  <2>4. QED
    BY <2>2, <2>3
<1>4. P # {}
  BY <1>1, <1>2, <1>3
<1>5. DiscWrong(p, T, U, A) # {}
  BY <1>4 DEF DiscPlaces
<1>6. QED
  BY <1>4, <1>5

LEMMA RingPlacesFound ==
    ASSUME NEW p, NEW T \in SUBSET Ops, NEW U \in SUBSET Ops,
           NEW A \in SUBSET Sectors, RingWrong(p, T, U, A) # {}
    PROVE  RingPlaces(p, T, U, A, RingWrong(p, T, U, A)) # {}
<1>1. PICK r \in Rings(p) : RingShare(p, T, A, r) # RingShare(p, U, A, r)
  BY DEF RingWrong
<1>2. PICK o : ~ (o \in RingShare(p, T, A, r) <=> o \in RingShare(p, U, A, r))
  BY <1>1
<1>3. CASE o \in RingShare(p, T, A, r)
  <2>1. o \notin U
    BY <1>2, <1>3 DEF RingShare, Share
  <2>2. QED
    BY <1>3, <2>1, RingFound
<1>4. CASE o \in RingShare(p, U, A, r)
  <2>1. o \notin T
    BY <1>2, <1>4 DEF RingShare, Share
  <2>2. RingPlaces(p, U, T, A, RingWrong(p, U, T, A)) # {}
    BY <1>4, <2>1, RingFound
  <2>3. QED
    BY <2>2, SamePlaces
<1>5. QED
  BY <1>2, <1>3, <1>4

----------------------------------------------------------------------------
(* Whole exchanges.                                                        *)

At(turn, sent, kept, ours, theirs, end) ==
    [turn |-> turn, sent |-> sent, kept |-> kept, lists |-> <<ours, theirs>>, end |-> end]

LEMMA OpenTurn ==
    ASSUME NEW ds, NEW A, NEW b, NEW x, x.end = "open", NEW r,
           HandleSnapshot(ds[x.turn], x.sent, x.kept, A, b) = r
    PROVE  Turn(ds, A, b, x) = After(x, r)
BY DEF Turn

LEMMA ClosedTurn ==
    ASSUME NEW ds, NEW A, NEW b, NEW x, x.end # "open"
    PROVE  Turn(ds, A, b, x) = x
BY DEF Turn

(* A turn of the first node and one of the second. *)
LEMMA FirstTurn ==
    ASSUME NEW d, NEW e, NEW A, NEW b, NEW sent, NEW kept, NEW L, NEW M,
           NEW action, NEW snapshot, NEW list, NEW next,
           next = IF action \in {"NewSnapshot", "NewSnapshotAndHashList"}
                  THEN "open" ELSE action,
           HandleSnapshot(d, sent, kept, A, b) = NextAction(action, snapshot, list),
           NEW K, K = L \union list
    PROVE  Turn(<<d, e>>, A, b, At(1, sent, kept, L, M, "open"))
              = At(2, snapshot, sent, K, M, next)
<1> DEFINE x == At(1, sent, kept, L, M, "open")
           r == NextAction(action, snapshot, list)
<1>1. /\ x.turn = 1 /\ x.sent = sent /\ x.kept = kept /\ x.lists = <<L, M>> /\ x.end = "open"
      /\ <<d, e>>[1] = d
  BY DEF At
<1>2. r.action = action /\ r.snapshot = snapshot /\ r.list = list
  BY DEF NextAction
<1>3. [<<L, M>> EXCEPT ![1] = @ \union list] = <<K, M>>
  OBVIOUS
<1> HIDE DEF x, r
<1>4. /\ [x.lists EXCEPT ![x.turn] = @ \union r.list] = <<K, M>>
      /\ 3 - x.turn = 2
  BY <1>1, <1>2, <1>3
<1>5. HandleSnapshot(<<d, e>>[x.turn], x.sent, x.kept, A, b) = r
  BY <1>1 DEF r
<1>6. Turn(<<d, e>>, A, b, x) = After(x, r)
  BY <1>1, <1>5, OpenTurn
<1>7. After(x, r) = [turn |-> 2, sent |-> snapshot, kept |-> sent,
                     lists |-> <<K, M>>, end |-> next]
  BY <1>1, <1>2, <1>4 DEF After
<1>8. QED
  BY <1>6, <1>7 DEF At, x

LEMMA SecondTurn ==
    ASSUME NEW d, NEW e, NEW A, NEW b, NEW sent, NEW kept, NEW L, NEW M,
           NEW action, NEW snapshot, NEW list, NEW next,
           next = IF action \in {"NewSnapshot", "NewSnapshotAndHashList"}
                  THEN "open" ELSE action,
           HandleSnapshot(e, sent, kept, A, b) = NextAction(action, snapshot, list),
           NEW K, K = M \union list
    PROVE  Turn(<<d, e>>, A, b, At(2, sent, kept, L, M, "open"))
              = At(1, snapshot, sent, L, K, next)
<1> DEFINE x == At(2, sent, kept, L, M, "open")
           r == NextAction(action, snapshot, list)
<1>1. /\ x.turn = 2 /\ x.sent = sent /\ x.kept = kept /\ x.lists = <<L, M>> /\ x.end = "open"
      /\ <<d, e>>[2] = e
  BY DEF At
<1>2. r.action = action /\ r.snapshot = snapshot /\ r.list = list
  BY DEF NextAction
<1>3. [<<L, M>> EXCEPT ![2] = @ \union list] = <<L, K>>
  OBVIOUS
<1> HIDE DEF x, r
<1>4. /\ [x.lists EXCEPT ![x.turn] = @ \union r.list] = <<L, K>>
      /\ 3 - x.turn = 1
  BY <1>1, <1>2, <1>3
<1>5. HandleSnapshot(<<d, e>>[x.turn], x.sent, x.kept, A, b) = r
  BY <1>1 DEF r
<1>6. Turn(<<d, e>>, A, b, x) = After(x, r)
  BY <1>1, <1>5, OpenTurn
<1>7. After(x, r) = [turn |-> 1, sent |-> snapshot, kept |-> sent,
                     lists |-> <<L, K>>, end |-> next]
  BY <1>1, <1>2, <1>4 DEF After
<1>8. QED
  BY <1>6, <1>7 DEF At, x

LEMMA Over ==
    ASSUME NEW ds, NEW A, NEW b, NEW t, NEW sent, NEW kept, NEW L, NEW M, NEW end,
           end # "open"
    PROVE  Turn(ds, A, b, At(t, sent, kept, L, M, end)) = At(t, sent, kept, L, M, end)
<1>1. At(t, sent, kept, L, M, end).end = end
  BY DEF At
<1>2. QED
  BY <1>1, ClosedTurn

(* The four turns of an exchange. *)
LEMMA FourTurns ==
    ASSUME NEW d, NEW e, NEW A, NEW b, NEW x2, NEW x3, NEW x4, NEW x5,
           Turn(<<d, e>>, A, b, At(1, SnapshotMinimal(e, A), NoSnapshot, {}, {}, "open")) = x2,
           Turn(<<d, e>>, A, b, x2) = x3, Turn(<<d, e>>, A, b, x3) = x4,
           Turn(<<d, e>>, A, b, x4) = x5
    PROVE  Exchange(<<d, e>>, A, b) = x5
<1>1. <<d, e>>[2] = e
  OBVIOUS
<1>2. QED
  BY <1>1 DEF Exchange, At

LEMMA DiscExchange ==
    ASSUME NEW d, NEW e, NEW p \in Part, NEW T, NEW U, ModelOf(d, T, p), ModelOf(e, U, p),
           NEW A \in SUBSET Sectors, A # {}, NEW b,
           DiscShare(p, T, A) # DiscShare(p, U, A)
    PROVE  LET P == DiscPlaces(p, T, U, DiscWrong(p, T, U, A))
               x == Exchange(<<d, e>>, A, b)
           IN /\ x.lists[1] = DiscHashList(d, P, b) /\ x.lists[2] = DiscHashList(e, P, b)
              /\ x.end = "HashList"
<1> DEFINE W == DiscWrong(p, T, U, A)
           P == DiscPlaces(p, T, U, W)
           L == DiscHashList(d, P, b)
           M == DiscHashList(e, P, b)
           m == MinimalOf(p, U, A)
           S == DiscSectorsOf(p, T, A)
           D == DiscDetailsOf(p, T, W)
           E == DiscDetailsOf(p, U, W)
           ds == <<d, e>>
<1>1. T \in SUBSET Ops /\ U \in SUBSET Ops /\ W \in SUBSET A
  BY DEF ModelOf, DiscWrong
<1>2. W # {} /\ P # {}
  BY <1>1, DiscPlacesFound
<1>3. DiscWrong(p, U, T, A) = W /\ DiscPlaces(p, U, T, W) = P
  BY SamePlaces
<1>4. SnapshotMinimal(e, A) = m
  BY Shown
<1>5. S.kind = "DiscSectors"
  BY DEF DiscSectorsOf
<1> HIDE DEF W, P, L, M
<1>6. HandleSnapshot(d, m, NoSnapshot, A, b) = NextAction("NewSnapshot", S, {})
  BY <1>1, DiscDiffers
<1> HIDE DEF m
<1>7. HandleSnapshot(e, S, m, A, b) = NextAction("NewSnapshot", E, {})
  <2>1. HandleSnapshot(e, S, m, A, b)
           = NextAction("NewSnapshot", DiscDetailsOf(p, U, DiscWrong(p, U, T, A)), {})
    BY <1>1, <1>2, <1>3, SectorsHandled
  <2>2. QED
    BY <1>3, <2>1
<1> HIDE DEF S
<1>8. HandleSnapshot(d, E, S, A, b) = NextAction("NewSnapshotAndHashList", D, L)
  <2>1. DiscPlaces(p, T, U, W) = P
    BY DEF P
  <2>2. HandleSnapshot(d, E, S, A, b)
           = NextAction("NewSnapshotAndHashList", D, DiscHashList(d, DiscPlaces(p, T, U, W), b))
    BY <1>1, <1>2, <1>5, <2>1, DiscHandled
  <2>3. QED
    BY <2>1, <2>2 DEF L
<1>9. HandleSnapshot(e, D, E, A, b) = NextAction("HashList", NoSnapshot, M)
  <2>1. HandleSnapshot(e, D, E, A, b)
           = NextAction("HashList", NoSnapshot, DiscHashList(e, DiscPlaces(p, U, T, W), b))
    BY <1>1, <1>2, <1>3, DiscClosed
  <2>2. QED
    BY <1>3, <2>1 DEF M
<1> HIDE DEF D, E
<1>10. Turn(ds, A, b, At(1, m, NoSnapshot, {}, {}, "open")) = At(2, S, m, {}, {}, "open")
  BY <1>6, FirstTurn
<1>11. Turn(ds, A, b, At(2, S, m, {}, {}, "open")) = At(1, E, S, {}, {}, "open")
  BY <1>7, SecondTurn
<1>12. Turn(ds, A, b, At(1, E, S, {}, {}, "open")) = At(2, D, E, L, {}, "open")
  BY <1>8, FirstTurn
<1>13. Turn(ds, A, b, At(2, D, E, L, {}, "open")) = At(1, NoSnapshot, D, L, M, "HashList")
  BY <1>9, SecondTurn
<1>14. Exchange(ds, A, b) = At(1, NoSnapshot, D, L, M, "HashList")
  BY <1>4, <1>10, <1>11, <1>12, <1>13, FourTurns
<1>15. QED
  BY <1>14 DEF At, L, M, P, W

LEMMA RingExchange ==
    ASSUME NEW d, NEW e, NEW p \in Part, NEW T, NEW U, ModelOf(d, T, p), ModelOf(e, U, p),
           NEW A \in SUBSET Sectors, A # {}, NEW b,
           DiscShare(p, T, A) = DiscShare(p, U, A), RingWrong(p, T, U, A) # {}
    PROVE  LET P == RingPlaces(p, T, U, A, RingWrong(p, T, U, A))
               x == Exchange(<<d, e>>, A, b)
           IN /\ x.lists[1] = RingHashList(d, P, b) /\ x.lists[2] = RingHashList(e, P, b)
              /\ x.end = "HashList"
<1> DEFINE W == RingWrong(p, T, U, A)
           P == RingPlaces(p, T, U, A, W)
           L == RingHashList(d, P, b)
           M == RingHashList(e, P, b)
           m == MinimalOf(p, U, A)
           D == RingDetailsOf(p, T, A, W)
           E == RingDetailsOf(p, U, A, W)
           ds == <<d, e>>
<1>1. T \in SUBSET Ops /\ U \in SUBSET Ops /\ W \in SUBSET Rings(p)
  BY DEF ModelOf, RingWrong
<1>2. W # {} /\ P # {}
  BY <1>1, RingPlacesFound
<1>3. RingWrong(p, U, T, A) = W /\ RingPlaces(p, U, T, A, W) = P
  BY SamePlaces
<1>4. SnapshotMinimal(e, A) = m /\ m.kind = "Minimal"
  BY Shown DEF MinimalOf
<1>5. HandleSnapshot(d, m, NoSnapshot, A, b) = NextAction("NewSnapshot", D, {})
  BY <1>1, RingsDiffer
<1> HIDE DEF m, W, P, L, M
<1>6. HandleSnapshot(e, D, m, A, b) = NextAction("NewSnapshotAndHashList", E, M)
  <2>1. HandleSnapshot(e, D, m, A, b)
           = NextAction("NewSnapshotAndHashList", E, RingHashList(e, RingPlaces(p, U, T, A, W), b))
    BY <1>1, <1>2, <1>3, <1>4, RingHandled
  <2>2. QED
    BY <1>3, <2>1 DEF M
<1>7. HandleSnapshot(d, E, D, A, b) = NextAction("HashList", NoSnapshot, L)
  <2>1. RingPlaces(p, T, U, A, W) = P
    BY DEF P
  <2>2. HandleSnapshot(d, E, D, A, b)
           = NextAction("HashList", NoSnapshot, RingHashList(d, RingPlaces(p, T, U, A, W), b))
    BY <1>1, <1>2, <2>1, RingClosed
  <2>3. QED
    BY <2>1, <2>2 DEF L
<1> HIDE DEF D, E
<1>8. Turn(ds, A, b, At(1, m, NoSnapshot, {}, {}, "open")) = At(2, D, m, {}, {}, "open")
  BY <1>5, FirstTurn
<1>9. Turn(ds, A, b, At(2, D, m, {}, {}, "open")) = At(1, E, D, {}, M, "open")
  BY <1>6, SecondTurn
<1>10. Turn(ds, A, b, At(1, E, D, {}, M, "open")) = At(2, NoSnapshot, E, L, M, "HashList")
  BY <1>7, FirstTurn
<1>11. Turn(ds, A, b, At(2, NoSnapshot, E, L, M, "HashList"))
          = At(2, NoSnapshot, E, L, M, "HashList")
  BY Over
<1>12. Exchange(ds, A, b) = At(2, NoSnapshot, E, L, M, "HashList")
  BY <1>4, <1>8, <1>9, <1>10, <1>11, FourTurns
<1>13. QED
  BY <1>12 DEF At, L, M, P, W

LEMMA NoExchange ==
    ASSUME NEW d, NEW e, NEW p \in Part, NEW T, NEW U, ModelOf(d, T, p), ModelOf(e, U, p),
           NEW A \in SUBSET Sectors, A # {}, NEW b,
           DiscShare(p, T, A) = DiscShare(p, U, A), RingWrong(p, T, U, A) = {}
    PROVE  LET x == Exchange(<<d, e>>, A, b)
           IN x.lists[1] = {} /\ x.lists[2] = {} /\ x.end = "Identical"
<1> DEFINE m == MinimalOf(p, U, A)
           ds == <<d, e>>
<1>1. U \in SUBSET Ops /\ SnapshotMinimal(e, A) = m
  <2>1. SnapshotMinimal(e, A) = m
    BY Shown
  <2>2. QED
    BY <2>1 DEF ModelOf
<1>2. HandleSnapshot(d, m, NoSnapshot, A, b) = NextAction("Identical", NoSnapshot, {})
  BY <1>1, NothingDiffers
<1> HIDE DEF m
<1>3. Turn(ds, A, b, At(1, m, NoSnapshot, {}, {}, "open"))
         = At(2, NoSnapshot, m, {}, {}, "Identical")
  BY <1>2, FirstTurn
<1>4. Turn(ds, A, b, At(2, NoSnapshot, m, {}, {}, "Identical"))
         = At(2, NoSnapshot, m, {}, {}, "Identical")
  BY Over
<1>5. Exchange(ds, A, b) = At(2, NoSnapshot, m, {}, {}, "Identical")
  BY <1>1, <1>3, <1>4, FourTurns
<1>6. QED
  BY <1>5 DEF At

----------------------------------------------------------------------------
(* The node and its peer.                                                  *)

(* A hash that is exact is that of the ops it counts. *)
LEMMA ExactHash ==
    ASSUME NEW h \in Hashes, h # {}, NEW s, NEW a, NEW b, NEW T \in SUBSET Ops,
           Exact(h, s, a, b, T, {})
    PROVE  h = CombineOpHashes(Share(T, {s}, a, b))
<1>1. \A o \in Ops : o \in Counted(h) <=> o \in T /\ Own(o) = s /\ a <= Created[o] /\ Created[o] < b
  BY DEF Exact
<1>2. Counted(h) \subseteq Ops
  BY DEF Counted, Hashes
<1>3. Counted(h) = Share(T, {s}, a, b)
  BY <1>1, <1>2 DEF Share
<1>4. h = CombineOpHashes(Counted(h))
  BY DEF Counted, CombineOpHashes
<1>5. QED
  BY <1>3, <1>4

(* Every sector is cut at the present time. *)
Current == parts # Down /\ early = {} /\ \A s \in Sectors : parts[s].at = now

LEMMA AllAlike ==
    ASSUME DhtInv, TidyInv, Current
    PROVE  /\ parts[0] \in Part /\ WithoutGap(parts[0]) /\ 0 \in Sectors
           /\ \A s \in Sectors :
                 /\ parts[s] \in Part /\ parts[s].full = parts[0].full
                 /\ DOMAIN parts[s].partials = Rings(parts[0])
                 /\ \A r \in Rings(parts[0]) :
                       /\ parts[s].partials[r].start = parts[0].partials[r].start
                       /\ parts[s].partials[r].size = parts[0].partials[r].size
           /\ \A r \in Rings(parts[0]) : parts[0].partials[r].start >= FullEnd(parts[0])
<1> DEFINE p == parts[0]
           cuts == LayoutPartials(FullEnd(p), p.at)
           L == Len(p.partials)
<1>1. 0 \in Sectors
  BY ArcsAssumption DEF Sectors, SectorIds
<1>2. \A s \in Sectors : parts[s] \in Part /\ LaidOut(parts[s]) /\ parts[s].at = p.at
  BY <1>1 DEF DhtInv, TidyInv, Current, SectorOK, ClockOK
<1>3. p \in Part /\ FullEnd(p) \in Nat /\ p.at \in Nat /\ L \in Nat /\ p.partials \in Seq(Slice)
  <2>1. p \in Part
    BY <1>1, <1>2
  <2> HIDE DEF p
  <2>2. p.at \in Nat /\ p.partials \in Seq(Slice) /\ L \in Nat
    BY <2>1 DEF Part
  <2>3. FullEnd(p) \in Nat /\ NewFullSlices(p, 0) \in Nat
    BY <2>1, MoreFull
  <2>4. QED
    BY <2>1, <2>2, <2>3
<1>4. /\ FullEnd(p) <= p.at /\ p.at - FullEnd(p) < MinRecent + FullSize
      /\ L = Len(cuts)
      /\ \A j \in 1 .. L : /\ p.partials[j].start = cuts[j].start
                           /\ p.partials[j].size = cuts[j].size
  BY <1>1, <1>2 DEF LaidOut
<1>5. /\ cuts \in Seq(Cut) /\ InLine(cuts, FullEnd(p))
      /\ \A j \in 1 .. Len(cuts) : FullEnd(p) <= cuts[j].start
  BY <1>3, <1>4, LayoutFacts
<1> HIDE DEF cuts
<1>6. WithoutGap(p)
  <2>1. \A j \in 1 .. L : PartialEnd(p.partials[j]) = PartialEnd(cuts[j])
    BY <1>4 DEF PartialEnd
  <2>2. p.partials # <<>> => L # 0 /\ cuts # <<>> /\ 1 \in 1 .. L
    BY <1>3, <1>4, <1>5
  <2>3. \A j \in 1 .. L - 1 : j \in 1 .. L /\ j + 1 \in 1 .. L
    BY <1>3
  <2> HIDE DEF p, L
  <2>4. /\ p.partials # <<>> => p.partials[1].start = FullEnd(p)
        /\ \A j \in 1 .. L - 1 : p.partials[j + 1].start = PartialEnd(p.partials[j])
        /\ \A i, j \in 1 .. L : i < j => PartialEnd(p.partials[i]) <= p.partials[j].start
    BY <1>4, <1>5, <2>1, <2>2, <2>3 DEF InLine
  <2>5. QED
    BY <2>4 DEF WithoutGap, InLine, L
<1>7. ASSUME NEW s \in Sectors
      PROVE  /\ parts[s] \in Part /\ parts[s].full = p.full
             /\ DOMAIN parts[s].partials = Rings(p)
             /\ \A r \in Rings(p) : /\ parts[s].partials[r].start = p.partials[r].start
                                    /\ parts[s].partials[r].size = p.partials[r].size
  <2> DEFINE q == parts[s]
  <2>1. q \in Part /\ LaidOut(q) /\ q.at = p.at /\ q.partials \in Seq(Slice)
    BY <1>2 DEF Part
  <2>2. q.full = p.full
    BY <1>1, <1>2, <2>1, SameTimeSameFull
  <2>3. LayoutPartials(FullEnd(q), q.at) = cuts
    BY <2>1, <2>2 DEF FullEnd, cuts
  <2>4. Len(q.partials) = L /\ \A j \in 1 .. L : /\ q.partials[j].start = cuts[j].start
                                                 /\ q.partials[j].size = cuts[j].size
    BY <1>4, <2>1, <2>3 DEF LaidOut
  <2>5. DOMAIN q.partials = 1 .. L
    BY <2>1, <2>4
  <2>6. QED
    BY <1>4, <2>1, <2>2, <2>4, <2>5 DEF Rings
<1>8. \A r \in Rings(p) : p.partials[r].start >= FullEnd(p)
  <2>1. \A r \in Rings(p) : p.partials[r].start = cuts[r].start /\ FullEnd(p) <= cuts[r].start
    BY <1>4, <1>5 DEF Rings
  <2>2. \A r \in Rings(p) : p.partials[r].start \in Int
    <3>1. \A r \in Rings(p) : p.partials[r] \in Slice
      BY <1>3 DEF Rings
    <3>2. QED
      BY <3>1 DEF Slice
  <2>3. QED
    BY <1>3, <2>1, <2>2
<1>9. QED
  BY <1>1, <1>3, <1>6, <1>7, <1>8

LEMMA OursIsModel ==
    ASSUME DhtInv, TidyInv, Current
    PROVE  ModelOf(Ours, told, parts[0])
<1> DEFINE p == parts[0]
<1>1. /\ p \in Part /\ 0 \in Sectors
      /\ \A s \in Sectors :
            /\ parts[s] \in Part /\ parts[s].full = p.full
            /\ DOMAIN parts[s].partials = Rings(p)
            /\ \A r \in Rings(p) : /\ parts[s].partials[r].start = p.partials[r].start
                                   /\ parts[s].partials[r].size = p.partials[r].size
      /\ \A r \in Rings(p) : p.partials[r].start >= FullEnd(p)
  BY AllAlike
<1>2. told \in SUBSET Ops /\ stored \in SUBSET Ops /\ told \subseteq stored
  BY DEF DhtInv, DhtShape
<1>3. Ours.slices = slices /\ Ours.parts = parts /\ Ours.stored = stored
  BY DEF Ours
<1>4. ASSUME NEW s \in Sectors
      PROVE  /\ DOMAIN slices[s] = Indices
             /\ \A i \in Indices : slices[s][i] = CombineOpHashes(DiscCell(p, told, s, i))
  <2>1. /\ slices[s] \in [Indices -> Hashes]
        /\ FullOK(s, slices[s], p.full, told, {})
        /\ \A i \in Indices : slices[s][i] # {}
    BY <1>1 DEF DhtInv, TidyInv, Current, SectorOK
  <2>2. ASSUME NEW i \in Indices, i < p.full
        PROVE  slices[s][i] = CombineOpHashes(DiscCell(p, told, s, i))
    <3>1. Exact(slices[s][i], s, i * FullSize, (i + 1) * FullSize, told, {})
      BY <2>1, <2>2 DEF FullOK
    <3>2. slices[s][i] \in Hashes /\ slices[s][i] # {}
      BY <2>1
    <3>3. slices[s][i] = CombineOpHashes(Share(told, {s}, i * FullSize, (i + 1) * FullSize))
      BY <1>2, <3>1, <3>2, ExactHash
    <3>4. QED
      BY <2>2, <3>3 DEF DiscCell
  <2>3. ASSUME NEW i \in Indices, ~ (i < p.full)
        PROVE  slices[s][i] = CombineOpHashes(DiscCell(p, told, s, i))
    <3>1. slices[s][i] = NoHash
      BY <2>1, <2>3 DEF FullOK
    <3>2. DiscCell(p, told, s, i) = {}
      BY <2>3 DEF DiscCell
    <3>3. QED
      BY <3>1, <3>2 DEF CombineOpHashes
  <2>4. QED
    BY <2>1, <2>2, <2>3
<1>5. ASSUME NEW s \in Sectors, NEW r \in Rings(p)
      PROVE  parts[s].partials[r].hash = CombineOpHashes(RingShare(p, told, {s}, r))
  <2> DEFINE sl == parts[s].partials[r]
  <2>1. /\ parts[s] \in Part /\ r \in DOMAIN parts[s].partials
        /\ r \in 1 .. Len(parts[s].partials)
        /\ PartialsOK(s, parts[s], told, {})
        /\ \A c \in Range(parts[s].partials) : c.hash # {}
    <3>1. parts[s] \in Part /\ r \in DOMAIN parts[s].partials /\ parts[s].partials \in Seq(Slice)
      BY <1>1 DEF Part
    <3>2. PartialsOK(s, parts[s], told, {}) /\ \A c \in Range(parts[s].partials) : c.hash # {}
      BY DEF DhtInv, TidyInv, Current, SectorOK
    <3>3. QED
      BY <3>1, <3>2
  <2>2. sl \in Slice /\ sl.hash # {} /\ sl.hash \in Hashes
    <3>1. sl \in Slice /\ sl \in Range(parts[s].partials)
      BY <2>1 DEF Part, Range
    <3>2. QED
      BY <2>1, <3>1 DEF Slice
  <2>3. /\ sl.start = p.partials[r].start /\ sl.size = p.partials[r].size
        /\ sl.start >= FullEnd(parts[s])
    BY <1>1 DEF FullEnd
  <2>4. PartialEnd(sl) = PartialEnd(p.partials[r])
    BY <2>3 DEF PartialEnd
  <2>5. Exact(sl.hash, s, sl.start, PartialEnd(sl), told, {})
    BY <2>1, <2>3 DEF PartialsOK
  <2> HIDE DEF sl
  <2>6. sl.hash = CombineOpHashes(Share(told, {s}, sl.start, PartialEnd(sl)))
    BY <1>2, <2>2, <2>5, ExactHash
  <2>7. QED
    BY <2>3, <2>4, <2>6 DEF RingShare, sl
<1>6. QED
  BY <1>1, <1>2, <1>3, <1>4, <1>5 DEF ModelOf

LEMMA PeerIsModel ==
    ASSUME DhtInv, TidyInv, Current, NEW S \in SUBSET Ops
    PROVE  ModelOf(Peer(S), S, parts[0])
<1> DEFINE p == parts[0]
           d == Peer(S)
<1>1. /\ p \in Part /\ 0 \in Sectors
      /\ \A s \in Sectors :
            /\ parts[s] \in Part /\ parts[s].full = p.full
            /\ DOMAIN parts[s].partials = Rings(p)
            /\ \A r \in Rings(p) : /\ parts[s].partials[r].start = p.partials[r].start
                                   /\ parts[s].partials[r].size = p.partials[r].size
  BY AllAlike
<1>2. ASSUME NEW s, NEW a, NEW b
      PROVE  HashOf(S, s, a, b) = CombineOpHashes(Share(S, {s}, a, b))
  BY DEF HashOf, Share, Own
<1>3. d.stored = S
  BY DEF Peer
<1>4. ASSUME NEW s \in Sectors
      PROVE  /\ DOMAIN d.slices[s] = Indices
             /\ \A i \in Indices : d.slices[s][i] = CombineOpHashes(DiscCell(p, S, s, i))
  <2>1. d.slices[s] = [i \in Indices |->
                          IF i < parts[s].full
                          THEN HashOf(S, s, i * FullSize, (i + 1) * FullSize) ELSE NoHash]
    BY DEF Peer
  <2>2. ASSUME NEW i \in Indices
        PROVE  d.slices[s][i] = CombineOpHashes(DiscCell(p, S, s, i))
    <3>1. d.slices[s][i] = IF i < p.full THEN HashOf(S, s, i * FullSize, (i + 1) * FullSize)
                           ELSE NoHash
      BY <1>1, <2>1
    <3>2. CombineOpHashes({}) = NoHash
      BY DEF CombineOpHashes
    <3>3. QED
      BY <1>2, <3>1, <3>2 DEF DiscCell
  <2> HIDE DEF d
  <2>3. QED
    BY <2>1, <2>2
<1>5. ASSUME NEW s \in Sectors
      PROVE  /\ d.parts[s].full = p.full
             /\ DOMAIN d.parts[s].partials = Rings(p)
             /\ \A r \in Rings(p) :
                   LET sl == d.parts[s].partials[r]
                   IN /\ sl.start = p.partials[r].start
                      /\ sl.size = p.partials[r].size
                      /\ sl.hash = CombineOpHashes(RingShare(p, S, {s}, r))
  <2> DEFINE F == [r \in DOMAIN parts[s].partials |->
                      LET sl == parts[s].partials[r]
                      IN [start |-> sl.start, size |-> sl.size,
                          hash |-> HashOf(S, s, sl.start, PartialEnd(sl))]]
  <2>1. d.parts[s] = [parts[s] EXCEPT !.partials = F]
    BY DEF Peer
  <2>2. DOMAIN F = Rings(p)
    BY <1>1
  <2>3. ASSUME NEW r \in Rings(p)
        PROVE  /\ F[r].start = p.partials[r].start
               /\ F[r].size = p.partials[r].size
               /\ F[r].hash = CombineOpHashes(RingShare(p, S, {s}, r))
    <3>1. PartialEnd(parts[s].partials[r]) = PartialEnd(p.partials[r])
      BY <1>1 DEF PartialEnd
    <3>2. /\ F[r].start = p.partials[r].start
          /\ F[r].size = p.partials[r].size
          /\ F[r].hash = HashOf(S, s, p.partials[r].start, PartialEnd(p.partials[r]))
      BY <1>1, <3>1
    <3>3. QED
      BY <1>2, <3>2 DEF RingShare
  <2> HIDE DEF d, F
  <2>4. d.parts[s].full = parts[s].full /\ d.parts[s].partials = F
    BY <1>1, <2>1 DEF Part
  <2>5. QED
    BY <1>1, <2>2, <2>3, <2>4
<1> HIDE DEF d
<1>6. QED
  BY <1>1, <1>3, <1>4, <1>5 DEF ModelOf, d

(* The rings cover what follows the full slices, up to the last ring. *)
LEMMA RingsCover ==
    ASSUME DhtInv, TidyInv, Current, NEW o \in Ops
    PROVE  InPartials(parts[0], o) <=>
              \E r \in Rings(parts[0]) : /\ parts[0].partials[r].start <= Created[o]
                                         /\ Created[o] < PartialEnd(parts[0].partials[r])
<1> DEFINE p == parts[0]
           L == Len(p.partials)
<1>1. /\ p \in Part /\ WithoutGap(p) /\ 0 \in Sectors
      /\ \A r \in Rings(p) : p.partials[r].start >= FullEnd(p)
  BY AllAlike
<1>2. PartialsOK(0, p, told, early)
  BY <1>1 DEF DhtInv, Current, SectorOK
<1>3. ASSUME InPartials(p, o)
      PROVE  \E r \in Rings(p) : /\ p.partials[r].start <= Created[o]
                                 /\ Created[o] < PartialEnd(p.partials[r])
  <2> HIDE DEF p
  <2>1. LET j == Holder(p, o)
        IN /\ j \in 1 .. Len(p.partials)
           /\ p.partials[j].start <= Created[o]
           /\ Created[o] < PartialEnd(p.partials[j])
    BY <1>1, <1>2, <1>3, HolderOnly
  <2>2. QED
    BY <2>1 DEF Rings
<1>4. ASSUME NEW r \in Rings(p), p.partials[r].start <= Created[o],
             Created[o] < PartialEnd(p.partials[r])
      PROVE  InPartials(p, o)
  <2>1. /\ L \in Nat /\ r \in 1 .. L /\ p.partials \in Seq(Slice) /\ L \in 1 .. L
        /\ p.partials # <<>>
    BY <1>1, <1>4 DEF Part, Rings
  <2>2. /\ Created[o] \in Nat /\ FullEnd(p) \in Nat
        /\ \A i \in 1 .. L : p.partials[i].start \in Nat /\ PartialEnd(p.partials[i]) \in Nat
                             /\ p.partials[i].start <= PartialEnd(p.partials[i])
    <3>1. \A i \in 1 .. L : p.partials[i] \in Slice
      BY <2>1
    <3>2. \A i \in 1 .. L : p.partials[i].size \in 0 .. Factor /\ p.partials[i].start \in Nat
      BY <3>1, SizeFacts DEF Slice
    <3>3. \A i \in 1 .. L : p.partials[i].start \in Nat /\ PartialEnd(p.partials[i]) \in Nat
                            /\ p.partials[i].start <= PartialEnd(p.partials[i])
      <4>1. \A k \in 0 .. Factor : Size[k] \in Nat
        BY SizeFacts
      <4>2. \A i \in 1 .. L : Size[p.partials[i].size] \in Nat
        BY <3>2, <4>1
      <4>3. QED
        BY <3>2, <4>2 DEF PartialEnd
    <3>4. QED
      BY <1>1, <3>3, Windows, MoreFull
  <2>3. ~ InFull(p, o)
    <3>1. p.partials[r].start >= FullEnd(p)
      BY <1>1, <1>4
    <3>2. QED
      BY <1>4, <2>1, <2>2, <3>1 DEF InFull
  <2>4. Created[o] < PartialEnd(p.partials[L])
    <3>1. CASE r = L
      BY <1>4, <3>1
    <3>2. CASE r # L
      <4>1. r < L
        BY <2>1, <3>2
      <4>2. PartialEnd(p.partials[r]) <= p.partials[L].start
        BY <1>1, <2>1, <4>1 DEF WithoutGap, InLine
      <4>3. /\ PartialEnd(p.partials[r]) \in Nat /\ p.partials[L].start \in Nat
            /\ PartialEnd(p.partials[L]) \in Nat
            /\ p.partials[L].start <= PartialEnd(p.partials[L])
        BY <2>1, <2>2
      <4> HIDE DEF p, L
      <4>4. QED
        BY <1>4, <2>2, <4>2, <4>3
    <3>3. QED
      BY <3>1, <3>2
  <2>5. QED
    BY <2>1, <2>3, <2>4 DEF InPartials, Last
<1>5. QED
  BY <1>3, <1>4

----------------------------------------------------------------------------
(* What an exchange lists, given how each list is made up. *)
LEMMA ExchangeFinds ==
    ASSUME IsFiniteSet(Ops), DhtInv, TidyInv, Current,
           NEW S \in SUBSET Ops, NEW A \in SUBSET Sectors, A # {}
    PROVE  LET common == {o \in Ops : SectorAt(Loc[o]) \in A}
               disc == {o \in common : InFull(parts[0], o)}
               ring == {o \in common : InPartials(parts[0], o)}
               differ == IF told \intersect disc # S \intersect disc THEN disc ELSE ring
               all == Exchange(<<Ours, Peer(S)>>, A, Cardinality(Ops))
               few == Exchange(<<Ours, Peer(S)>>, A, 1)
           IN /\ (told \ S) \intersect differ \subseteq all.lists[1]
              /\ (S \ told) \intersect differ \subseteq all.lists[2]
              /\ all.end = IF told \intersect differ = S \intersect differ
                           THEN "Identical" ELSE "HashList"
              /\ \A x \in {1, 2} : Cardinality(few.lists[x]) <= 1
<1> DEFINE p == parts[0]
           d == Ours
           e == Peer(S)
           N == Cardinality(Ops)
           common == {o \in Ops : SectorAt(Loc[o]) \in A}
           disc == {o \in common : InFull(parts[0], o)}
           ring == {o \in common : InPartials(parts[0], o)}
           differ == IF told \intersect disc # S \intersect disc THEN disc ELSE ring
           all == Exchange(<<d, e>>, A, N)
           few == Exchange(<<d, e>>, A, 1)
           Goal == /\ (told \ S) \intersect differ \subseteq all.lists[1]
                   /\ (S \ told) \intersect differ \subseteq all.lists[2]
                   /\ all.end = IF told \intersect differ = S \intersect differ
                                THEN "Identical" ELSE "HashList"
                   /\ \A x \in {1, 2} : Cardinality(few.lists[x]) <= 1
<1>1. /\ p \in Part /\ WithoutGap(p)
      /\ ModelOf(d, told, p) /\ ModelOf(e, S, p)
  BY AllAlike, OursIsModel, PeerIsModel
<1>2. told \in SUBSET Ops
  BY DEF DhtInv, DhtShape
<1>3. \A o \in Ops : o \in disc <=> Own(o) \in A /\ 0 <= Created[o] /\ Created[o] < FullEnd(p)
  BY Windows DEF InFull, Own
<1>4. /\ told \intersect disc = DiscShare(p, told, A)
      /\ S \intersect disc = DiscShare(p, S, A)
  BY <1>2, <1>3 DEF DiscShare, Share
<1>5. \A o \in Ops : o \in ring <=> Own(o) \in A
                        /\ \E r \in Rings(p) : /\ p.partials[r].start <= Created[o]
                                               /\ Created[o] < PartialEnd(p.partials[r])
  BY RingsCover DEF Own
<1>6. \A o : /\ o \in told \intersect ring <=> \E r \in Rings(p) : o \in RingShare(p, told, A, r)
             /\ o \in S \intersect ring <=> \E r \in Rings(p) : o \in RingShare(p, S, A, r)
  BY <1>2, <1>5 DEF RingShare, Share
<1> HIDE DEF p, d, e, disc, ring
<1>7. ASSUME told \intersect disc # S \intersect disc
      PROVE  Goal
  <2> DEFINE W == DiscWrong(p, told, S, A)
             P == DiscPlaces(p, told, S, W)
  <2>1. DiscShare(p, told, A) # DiscShare(p, S, A) /\ differ = disc
    BY <1>4, <1>7
  <2>2. W \in SUBSET Sectors /\ DiscWrong(p, S, told, A) = W /\ DiscPlaces(p, S, told, W) = P
    BY SamePlaces DEF DiscWrong
  <2>3. ASSUME NEW b
        PROVE  LET x == Exchange(<<d, e>>, A, b)
               IN /\ x.lists[1] = DiscHashList(d, P, b) /\ x.lists[2] = DiscHashList(e, P, b)
                  /\ x.end = "HashList"
    BY <1>1, <2>1, DiscExchange
  <2> HIDE DEF W
  <2>4. /\ \A pl \in P : DiscCell(p, told, pl[1], pl[2]) \subseteq DiscHashList(d, P, N)
        /\ \A b \in Nat : Cardinality(DiscHashList(d, P, b)) <= b
    BY <1>1, <2>2, DiscListed
  <2>5. /\ \A pl \in P : DiscCell(p, S, pl[1], pl[2]) \subseteq DiscHashList(e, P, N)
        /\ \A b \in Nat : Cardinality(DiscHashList(e, P, b)) <= b
    <3>1. LET Q == DiscPlaces(p, S, told, W)
          IN /\ \A pl \in Q : DiscCell(p, S, pl[1], pl[2]) \subseteq DiscHashList(e, Q, N)
             /\ \A b \in Nat : Cardinality(DiscHashList(e, Q, b)) <= b
      BY <1>1, <1>2, <2>2, DiscListed
    <3>2. QED
      BY <2>2, <3>1
  <2>6. ASSUME NEW o \in DiscShare(p, told, A), o \notin S
        PROVE  \E pl \in P : o \in DiscCell(p, told, pl[1], pl[2])
    BY <1>1, <1>2, <2>6, DiscFound DEF W
  <2>7. ASSUME NEW o \in DiscShare(p, S, A), o \notin told
        PROVE  \E pl \in P : o \in DiscCell(p, S, pl[1], pl[2])
    <3>1. \E pl \in DiscPlaces(p, S, told, DiscWrong(p, S, told, A)) :
             o \in DiscCell(p, S, pl[1], pl[2])
      BY <1>1, <1>2, <2>7, DiscFound
    <3>2. QED
      BY <2>2, <3>1
  <2> HIDE DEF P, N
  <2>8. (told \ S) \intersect disc \subseteq all.lists[1]
    BY <1>4, <2>3, <2>4, <2>6
  <2>9. (S \ told) \intersect disc \subseteq all.lists[2]
    BY <1>4, <2>3, <2>5, <2>7
  <2>10. all.end = "HashList"
    BY <2>3
  <2>11. Cardinality(few.lists[1]) <= 1 /\ Cardinality(few.lists[2]) <= 1
    BY <2>3, <2>4, <2>5
  <2> HIDE DEF all, few, differ
  <2>12. QED
    BY <1>7, <2>1, <2>8, <2>9, <2>10, <2>11 DEF Goal
<1>8. ASSUME told \intersect disc = S \intersect disc /\ RingWrong(p, told, S, A) # {}
      PROVE  Goal
  <2> DEFINE W == RingWrong(p, told, S, A)
             P == RingPlaces(p, told, S, A, W)
  <2>1. DiscShare(p, told, A) = DiscShare(p, S, A) /\ differ = ring
    BY <1>4, <1>8
  <2>2. /\ W \in SUBSET Rings(p) /\ RingWrong(p, S, told, A) = W
        /\ RingPlaces(p, S, told, A, W) = P
    BY SamePlaces DEF RingWrong
  <2>3. ASSUME NEW b
        PROVE  LET x == Exchange(<<d, e>>, A, b)
               IN /\ x.lists[1] = RingHashList(d, P, b) /\ x.lists[2] = RingHashList(e, P, b)
                  /\ x.end = "HashList"
    BY <1>1, <1>8, <2>1, RingExchange
  <2>4. told \intersect ring # S \intersect ring
    <3>1. PICK r \in Rings(p) : RingShare(p, told, A, r) # RingShare(p, S, A, r)
      BY <1>8 DEF RingWrong
    <3>2. PICK o : ~ (o \in RingShare(p, told, A, r) <=> o \in RingShare(p, S, A, r))
      BY <3>1
    <3>3. CASE o \in RingShare(p, told, A, r)
      <4>1. o \in told \intersect ring /\ o \notin S
        BY <1>6, <3>2, <3>3 DEF RingShare, Share
      <4>2. QED
        BY <4>1
    <3>4. CASE o \in RingShare(p, S, A, r)
      <4>1. o \in S \intersect ring /\ o \notin told
        BY <1>6, <3>2, <3>4 DEF RingShare, Share
      <4>2. QED
        BY <4>1
    <3>5. QED
      BY <3>2, <3>3, <3>4
  <2> HIDE DEF W
  <2>5. /\ \A pl \in P : RingShare(p, told, {pl[2]}, pl[1]) \subseteq RingHashList(d, P, N)
        /\ \A b \in Nat : Cardinality(RingHashList(d, P, b)) <= b
    BY <1>1, <2>2, RingListed
  <2>6. /\ \A pl \in P : RingShare(p, S, {pl[2]}, pl[1]) \subseteq RingHashList(e, P, N)
        /\ \A b \in Nat : Cardinality(RingHashList(e, P, b)) <= b
    <3>1. LET Q == RingPlaces(p, S, told, A, W)
          IN /\ \A pl \in Q : RingShare(p, S, {pl[2]}, pl[1]) \subseteq RingHashList(e, Q, N)
             /\ \A b \in Nat : Cardinality(RingHashList(e, Q, b)) <= b
      BY <1>1, <1>2, <2>2, RingListed
    <3>2. QED
      BY <2>2, <3>1
  <2>7. ASSUME NEW o \in told \intersect ring, o \notin S
        PROVE  \E pl \in P : o \in RingShare(p, told, {pl[2]}, pl[1])
    <3>1. PICK r \in Rings(p) : o \in RingShare(p, told, A, r)
      BY <1>6
    <3>2. QED
      BY <1>2, <2>7, <3>1, RingFound DEF W
  <2>8. ASSUME NEW o \in S \intersect ring, o \notin told
        PROVE  \E pl \in P : o \in RingShare(p, S, {pl[2]}, pl[1])
    <3>1. PICK r \in Rings(p) : o \in RingShare(p, S, A, r)
      BY <1>6
    <3>2. \E pl \in RingPlaces(p, S, told, A, RingWrong(p, S, told, A)) :
             o \in RingShare(p, S, {pl[2]}, pl[1])
      BY <1>2, <2>8, <3>1, RingFound
    <3>3. QED
      BY <2>2, <3>2
  <2> HIDE DEF P, N
  <2>9. (told \ S) \intersect ring \subseteq all.lists[1]
    BY <2>3, <2>5, <2>7
  <2>10. (S \ told) \intersect ring \subseteq all.lists[2]
    BY <2>3, <2>6, <2>8
  <2>11. all.end = "HashList"
    BY <2>3
  <2>12. Cardinality(few.lists[1]) <= 1 /\ Cardinality(few.lists[2]) <= 1
    BY <2>3, <2>5, <2>6
  <2> HIDE DEF all, few, differ
  <2>13. QED
    BY <2>1, <2>4, <2>9, <2>10, <2>11, <2>12 DEF Goal
<1>9. ASSUME told \intersect disc = S \intersect disc /\ RingWrong(p, told, S, A) = {}
      PROVE  Goal
  <2>1. DiscShare(p, told, A) = DiscShare(p, S, A) /\ differ = ring
    BY <1>4, <1>9
  <2>2. \A r \in Rings(p) : RingShare(p, told, A, r) = RingShare(p, S, A, r)
    BY <1>9 DEF RingWrong
  <2>3. told \intersect ring = S \intersect ring
    BY <1>6, <2>2
  <2>4. ASSUME NEW b
        PROVE  LET x == Exchange(<<d, e>>, A, b)
               IN x.lists[1] = {} /\ x.lists[2] = {} /\ x.end = "Identical"
    BY <1>1, <1>9, <2>1, NoExchange
  <2>5. /\ all.end = "Identical"
        /\ few.lists[1] = {} /\ few.lists[2] = {} /\ Cardinality({}) = 0
    BY <2>4, FS_EmptySet
  <2>6. (told \ S) \intersect ring \subseteq all.lists[1]
        /\ (S \ told) \intersect ring \subseteq all.lists[2]
    BY <2>3
  <2>7. Cardinality(few.lists[1]) <= 1 /\ Cardinality(few.lists[2]) <= 1
    BY <2>5
  <2> HIDE DEF all, few, differ
  <2>8. QED
    BY <2>1, <2>3, <2>5, <2>6, <2>7 DEF Goal
<1>10. Goal
  <2> HIDE DEF Goal
  <2>1. QED
    BY <1>7, <1>8, <1>9
<1>11. QED
  BY <1>10 DEF Goal, d, e, disc, ring

(* Whatever two nodes that cut time alike were told of, an exchange of     *)
(* snapshots (Dht::handle_snapshot) lists to each side the ops that only   *)
(* the other one was told of.  There are finitely many ops.                *)
THEOREM DiffsAreFound ==
    ASSUME IsFiniteSet(Ops)
    PROVE  DhtInit /\ [][DhtNext]_dhtVars => []DiffFindsTheOps
<1>1. DhtInit => DhtInv /\ TidyInv
  BY InitOK, TidyInit
<1>2. DhtInv /\ TidyInv /\ [DhtNext]_dhtVars => (DhtInv /\ TidyInv)'
  BY NextOK, TidyNext
<1>3. DhtInv /\ TidyInv => DiffFindsTheOps
  <2> SUFFICES ASSUME DhtInv, TidyInv PROVE DiffFindsTheOps
    OBVIOUS
  <2> SUFFICES ASSUME parts # Down /\ early = {} /\ \A s \in Sectors : parts[s].at = now,
                      NEW S \in SUBSET Ops, NEW arcs \in (SUBSET Sectors) \ {{}}
      PROVE  LET common == {o \in Ops : SectorAt(Loc[o]) \in arcs}
                 disc == {o \in common : InFull(parts[0], o)}
                 ring == {o \in common : InPartials(parts[0], o)}
                 differ == IF told \intersect disc # S \intersect disc THEN disc ELSE ring
                 all == Exchange(<<Ours, Peer(S)>>, arcs, Cardinality(Ops))
                 few == Exchange(<<Ours, Peer(S)>>, arcs, 1)
             IN /\ (told \ S) \intersect differ \subseteq all.lists[1]
                /\ (S \ told) \intersect differ \subseteq all.lists[2]
                /\ all.end = IF told \intersect differ = S \intersect differ
                             THEN "Identical" ELSE "HashList"
                /\ \A x \in {1, 2} : Cardinality(few.lists[x]) <= 1
    BY DEF DiffFindsTheOps
  <2>1. Current /\ arcs \in SUBSET Sectors /\ arcs # {}
    BY DEF Current
  <2>2. QED
    BY <2>1, ExchangeFinds
<1>4. QED
  BY <1>1, <1>2, <1>3, PTL
====
