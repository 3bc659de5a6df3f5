----------------------------- MODULE PagePathProofs -----------------------------
(***************************************************************************)
(* What holds of the halftone mask and of the bytes of a page, for every   *)
(* size of mask, page, block, read and buffer.                             *)
(***************************************************************************)
EXTENDS PagePath, DataInduction

-----------------------------------------------------------------------------
(* Arithmetic. *)

LEMMA SquareBound ==
  ASSUME NEW r \in Nat, NEW d \in (-r)..r
  PROVE  d * d \in 0..(r * r)
<1>1. d * d \in Int /\ r * r \in Int
  OBVIOUS
<1>2. (r - d) * (r + d) >= 0
  <2>1. r - d \in Nat /\ r + d \in Nat
    OBVIOUS
  <2> QED BY <2>1
<1>3. (r - d) * (r + d) = r * r - d * d
  OBVIOUS
<1>4. d * d >= 0
  OBVIOUS
<1> QED BY <1>1, <1>2, <1>3, <1>4

(* A product with a positive factor is ordered as the other factor is.       *)
LEMMA CancelLess ==
  ASSUME NEW a \in Int, NEW b \in Int, NEW w \in Nat \ {0}, a * w < b * w
  PROVE  a < b
<1>1. SUFFICES ASSUME b <= a PROVE FALSE
  OBVIOUS
<1>2. (a - b) * w >= 0
  <2>1. a - b \in Nat
    BY <1>1
  <2> QED BY <2>1
<1>3. (a - b) * w = a * w - b * w /\ a * w \in Int /\ b * w \in Int
  OBVIOUS
<1> QED BY <1>2, <1>3

LEMMA TimesOrder ==
  ASSUME NEW a \in Int, NEW b \in Int, NEW w \in Nat, a <= b
  PROVE  a * w <= b * w
<1>1. (b - a) * w >= 0
  <2>1. b - a \in Nat
    OBVIOUS
  <2> QED BY <2>1
<1>2. (b - a) * w = b * w - a * w /\ a * w \in Int /\ b * w \in Int
  OBVIOUS
<1> QED BY <1>1, <1>2

LEMMA DivMod ==
  ASSUME NEW a \in Int, NEW w \in Nat \ {0}
  PROVE  /\ a \div w \in Int /\ a % w \in 0..(w - 1)
         /\ a = (a \div w) * w + (a % w)
OBVIOUS

LEMMA DivIs ==
  ASSUME NEW w \in Nat \ {0}, NEW q \in Int, NEW r \in 0..(w - 1)
  PROVE  (q * w + r) \div w = q /\ (q * w + r) % w = r
OBVIOUS

LEMMA SmallMod ==
  ASSUME NEW w \in Nat \ {0}, NEW a \in 0..(w - 1)
  PROVE  a % w = a
OBVIOUS

LEMMA WrappedMod ==
  ASSUME NEW w \in Nat \ {0}, NEW a \in Int, a - w \in 0..(w - 1)
  PROVE  a % w = a - w
<1>1. a = 1 * w + (a - w)
  OBVIOUS
<1> DEFINE d == a - w
<1>2. d \in 0..(w - 1)
  OBVIOUS
<1> HIDE DEF d
<1>3. (1 * w + d) % w = d
  BY <1>2
<1> QED BY <1>1, <1>3 DEF d

(* A quotient is where its multiples begin.                                  *)
LEMMA QuotientAt ==
  ASSUME NEW a \in Int, NEW n \in Nat \ {0}, NEW q \in Int
  PROVE  a \div n = q <=> q * n <= a /\ a < (q + 1) * n
<1> DEFINE c == a \div n
           r == a % n
<1>1. c \in Int /\ r \in 0..(n - 1) /\ a = c * n + r
  BY DivMod
<1> HIDE DEF c, r
<1>2. c * n \in Int /\ (c + 1) * n = c * n + n /\ (c + 1) * n \in Int
  BY <1>1
<1>3. c * n <= a /\ a < (c + 1) * n
  BY <1>1, <1>2
<1>4. ASSUME q * n <= a, a < (q + 1) * n PROVE c = q
  <2>1. q * n \in Int /\ (q + 1) * n \in Int
    OBVIOUS
  <2>2. q * n < (c + 1) * n /\ c * n < (q + 1) * n
    BY <1>2, <1>3, <1>4, <2>1
  <2>3. q < c + 1
    BY ONLY <1>1, <2>2, CancelLess, q \in Int, n \in Nat \ {0}, c + 1 \in Int
  <2>4. c < q + 1
    BY ONLY <1>1, <2>2, CancelLess, q \in Int, n \in Nat \ {0}, q + 1 \in Int
  <2> QED BY <1>1, <2>3, <2>4
<1> QED BY <1>3, <1>4 DEF c

(* The least multiple of w that is not below n.                              *)
LEMMA CeilingAt ==
  ASSUME NEW n \in Int, NEW w \in Nat \ {0}
  PROVE  \E c \in Int : (c - 1) * w < n /\ n <= c * w
<1> DEFINE c == (n + w - 1) \div w
           r == (n + w - 1) % w
<1>1. c \in Int /\ r \in 0..(w - 1) /\ n + w - 1 = c * w + r
  BY DivMod
<1> HIDE DEF c, r
<1>2. (c - 1) * w = c * w - w /\ c * w \in Int
  BY <1>1
<1>3. (c - 1) * w < n /\ n <= c * w
  BY <1>1, <1>2
<1> QED BY <1>1, <1>3

(* Of the numbers below n, floor or ceiling of n / w go into each of w parts. *)
LEMMA EqualShares ==
  ASSUME NEW n \in Nat \ {0}, NEW w \in 1..n, NEW t \in 1..w
  PROVE  \E lo, hi \in Int :
           /\ {k \in 0..(n - 1) : (k * w) \div n = t - 1} = lo..(hi - 1)
           /\ hi - lo \in {n \div w, n \div w + 1}
<1>0. w \in Nat \ {0} /\ t \in Int /\ w \in Int /\ n \in Int
  OBVIOUS
<1> DEFINE a == (t - 1) * n
           b == t * n
<1>1. a \in Nat /\ b \in Int /\ b = a + n /\ b <= n * w
  <2>1. t - 1 \in Nat /\ a \in Nat /\ b \in Int
    BY <1>0
  <2>2. b = a + n
    BY <1>0
  <2>3. t * n <= w * n /\ w * n = n * w
    BY <1>0, TimesOrder
  <2> QED BY <2>1, <2>2, <2>3
<1>2. PICK lo \in Int : (lo - 1) * w < a /\ a <= lo * w
  <2>1. a \in Int /\ w \in Nat \ {0}
    BY <1>0, <1>1
  <2> HIDE DEF a
  <2> QED BY ONLY <2>1, CeilingAt
<1>3. PICK hi \in Int : (hi - 1) * w < b /\ b <= hi * w
  <2>1. b \in Int /\ w \in Nat \ {0}
    BY <1>0, <1>1
  <2> HIDE DEF b
  <2> QED BY ONLY <2>1, CeilingAt
<1>4. \A k \in Int : (k * w) \div n = t - 1 <=> a <= k * w /\ k * w < b
  <2> SUFFICES ASSUME NEW k \in Int
               PROVE  (k * w) \div n = t - 1 <=> a <= k * w /\ k * w < b
    OBVIOUS
  <2>1. k * w \in Int /\ t - 1 \in Int /\ t - 1 + 1 = t
    BY <1>0
  <2>2. (k * w) \div n = t - 1 <=> (t - 1) * n <= k * w /\ k * w < (t - 1 + 1) * n
    BY <2>1, QuotientAt
  <2> QED BY <2>1, <2>2
<1> HIDE DEF a, b
<1>5. ASSUME NEW k \in Int PROVE a <= k * w <=> lo <= k
  <2>0. k * w \in Int /\ lo * w \in Int /\ (lo - 1) * w \in Int
    BY <1>0, <1>2
  <2>1. CASE lo <= k
    <3>1. lo * w <= k * w
      BY <1>0, <1>2, <2>1, TimesOrder
    <3> QED BY <1>1, <1>2, <2>0, <2>1, <3>1
  <2>2. CASE ~(lo <= k)
    <3>1. k <= lo - 1 /\ lo - 1 \in Int
      BY <1>2, <2>2
    <3>2. k * w <= (lo - 1) * w
      BY <1>0, <3>1, TimesOrder
    <3> QED BY <1>1, <1>2, <2>0, <2>2, <3>2
  <2> QED BY <2>1, <2>2
<1>6. ASSUME NEW k \in Int PROVE k * w < b <=> k <= hi - 1
  <2>0. k * w \in Int /\ hi * w \in Int /\ (hi - 1) * w \in Int
    BY <1>0, <1>3
  <2>1. CASE k <= hi - 1
    <3>1. hi - 1 \in Int
      BY <1>3
    <3>2. k * w <= (hi - 1) * w
      BY <1>0, <2>1, <3>1, TimesOrder
    <3> QED BY <1>1, <1>3, <2>0, <2>1, <3>2
  <2>2. CASE ~(k <= hi - 1)
    <3>1. hi <= k
      BY <1>3, <2>2
    <3>2. hi * w <= k * w
      BY <1>0, <1>3, <3>1, TimesOrder
    <3> QED BY <1>1, <1>3, <2>0, <2>2, <3>2
  <2> QED BY <2>1, <2>2
<1>7. lo >= 0
  <2>1. (-1) * w < lo * w
    <3>1. (-1) * w = -w /\ lo * w \in Int
      BY <1>0, <1>2
    <3> QED BY <1>0, <1>1, <1>2, <3>1
  <2>2. -1 < lo
    BY <1>0, <1>2, <2>1, CancelLess
  <2> QED BY <1>2, <2>2
<1>8. hi - 1 <= n - 1
  <2>1. (hi - 1) * w < n * w
    <3>1. (hi - 1) * w \in Int /\ n * w \in Int
      BY <1>0, <1>3
    <3> QED BY <1>1, <1>3, <3>1
  <2>2. hi - 1 < n
    <3>1. hi - 1 \in Int
      BY <1>3
    <3> QED BY <1>0, <2>1, <3>1, CancelLess
  <2> QED BY <1>3, <2>2
<1>9. {k \in 0..(n - 1) : (k * w) \div n = t - 1} = lo..(hi - 1)
  <2>1. ASSUME NEW k \in Int
        PROVE  k \in 0..(n - 1) /\ (k * w) \div n = t - 1 <=> k \in lo..(hi - 1)
    BY <1>2, <1>3, <1>4, <1>5, <1>6, <1>7, <1>8
  <2>2. 0..(n - 1) \in SUBSET Int /\ lo..(hi - 1) \in SUBSET Int
    BY <1>2, <1>3
  <2> QED BY <2>1, <2>2
<1>10. hi - lo \in {n \div w, n \div w + 1}
  <2> DEFINE q == n \div w
             r == n % w
  <2>1. q \in Int /\ r \in 0..(w - 1) /\ n = q * w + r
    BY <1>0, DivMod
  <2> HIDE DEF q, r
  <2>2. q * w \in Int /\ (q + 1) * w = q * w + w
    BY <1>0, <2>1
  <2> DEFINE d == hi - lo
  <2>3. d \in Int /\ (d - 1) * w = (hi - 1) * w - lo * w
        /\ (d + 1) * w = hi * w - (lo - 1) * w
        /\ (hi - 1) * w \in Int /\ lo * w \in Int /\ hi * w \in Int /\ (lo - 1) * w \in Int
    BY <1>0, <1>2, <1>3
  <2> HIDE DEF d
  <2>4. (d - 1) * w < (q + 1) * w
    BY <1>0, <1>1, <1>2, <1>3, <2>1, <2>2, <2>3
  <2>5. q * w < (d + 1) * w
    BY <1>0, <1>1, <1>2, <1>3, <2>1, <2>2, <2>3
  <2>6. d - 1 \in Int /\ d + 1 \in Int /\ q + 1 \in Int
    BY <2>1, <2>3
  <2>7. d - 1 < q + 1
    BY ONLY <1>0, <2>4, <2>6, CancelLess
  <2>8. q < d + 1
    BY ONLY <1>0, <2>1, <2>5, <2>6, CancelLess
  <2>9. d \in {q, q + 1}
    BY <2>1, <2>3, <2>7, <2>8
  <2> QED BY <2>9 DEF d, q
<1> QED BY <1>2, <1>3, <1>9, <1>10

-----------------------------------------------------------------------------
(* The halftone mask. *)

LEMMA MaskConstants ==
  /\ Size \in Nat \ {0} /\ N \in Nat \ {0} /\ Ones \in Nat \ {0}
  /\ White \in Nat \ {0} /\ White <= N
  /\ IsFiniteSet(Cells) /\ Cardinality(Cells) = N
<1>1. Size \in Nat \ {0} /\ Density \in Nat \ {0} /\ Ones > 0
  BY DitherAssumption
<1>2. N \in Nat \ {0}
  BY <1>1 DEF N
<1>3. Ones \in Nat \ {0}
  BY <1>1, <1>2 DEF Ones
<1>4. White \in 1..N
  BY DitherAssumption
<1>5. IsFiniteSet(Cells) /\ Cardinality(Cells) = N
  BY <1>2, FS_Interval DEF Cells
<1> QED BY <1>1, <1>2, <1>3, <1>4, <1>5

LEMMA CellsType == Cells \in SUBSET Int
BY DEF Cells

LEMMA KernelType == \A a, b \in Cells : Kernel[a][b] \in Int
<1> SUFFICES ASSUME NEW a \in Cells, NEW b \in Cells PROVE Pull(a, b) \in Int
  BY DEF Kernel
<1> DEFINE x == Offset(a % Size, b % Size)
           y == Offset(a \div Size, b \div Size)
           reach == 0..(2 * Radius)
<1>1. Radius \in Nat /\ Gauss \in [0..(2 * Radius * Radius) -> Nat]
  BY DitherAssumption
<1>2. Pull(a, b) = IF x \in reach /\ y \in reach
                   THEN Gauss[(x - Radius) * (x - Radius) + (y - Radius) * (y - Radius)]
                   ELSE 0
  BY DEF Pull
<1> HIDE DEF x, y
<1>3. ASSUME x \in reach, y \in reach
      PROVE  (x - Radius) * (x - Radius) + (y - Radius) * (y - Radius)
               \in 0..(2 * Radius * Radius)
  <2>1. x - Radius \in (-Radius)..Radius /\ y - Radius \in (-Radius)..Radius
    BY <1>1, <1>3
  <2>2. (x - Radius) * (x - Radius) \in 0..(Radius * Radius)
    BY ONLY <1>1, <2>1, SquareBound
  <2>3. (y - Radius) * (y - Radius) \in 0..(Radius * Radius)
    BY ONLY <1>1, <2>1, SquareBound
  <2>4. 2 * Radius * Radius = Radius * Radius + Radius * Radius /\ Radius * Radius \in Int
    BY <1>1
  <2> QED BY <2>2, <2>3, <2>4
<1> QED BY <1>1, <1>2, <1>3

LEMMA FieldSum ==
  ASSUME NEW pattern
  PROVE  Field(pattern) = [b \in Cells |-> ColumnSum(Kernel, b, pattern)]
BY DEF Field, ColumnSum

LEMMA FieldType ==
  ASSUME NEW pattern \in SUBSET Cells
  PROVE  Field(pattern) \in [Cells -> Int]
<1>1. ASSUME NEW b \in Cells PROVE ColumnSum(Kernel, b, pattern) \in Int
  BY KernelType, MaskConstants, ColumnSumType
<1> QED BY <1>1, FieldSum

(* A cell more adds its row of the kernel.                                   *)
LEMMA FieldAdds ==
  ASSUME NEW pattern \in SUBSET Cells, NEW cell \in Cells, cell \notin pattern
  PROVE  Field(pattern \cup {cell}) = [b \in Cells |-> Field(pattern)[b] + Kernel[cell][b]]
<1> DEFINE more == pattern \cup {cell}
<1>1. more \in SUBSET Cells /\ cell \in more /\ more \ {cell} = pattern
  OBVIOUS
<1> HIDE DEF more
<1>2. ASSUME NEW b \in Cells
      PROVE  ColumnSum(Kernel, b, more) = ColumnSum(Kernel, b, pattern) + Kernel[cell][b]
  <2>0. IsFiniteSet(Cells)
    BY MaskConstants
  <2>1. \A a \in Cells : Kernel[a][b] \in Int
    BY KernelType
  <2>2. ColumnSum(Kernel, b, more) = Kernel[cell][b] + ColumnSum(Kernel, b, more \ {cell})
    <3>1. Splits(Kernel, b, more, cell)
      BY <1>1, <2>0, <2>1, ColumnSumSplit DEF IntColumn
    <3> QED BY <3>1 DEF Splits
  <2>3. ColumnSum(Kernel, b, more) = Kernel[cell][b] + ColumnSum(Kernel, b, pattern)
    BY <1>1, <2>2
  <2>4. ColumnSum(Kernel, b, pattern) \in Int /\ Kernel[cell][b] \in Int
    BY <2>0, <2>1, ColumnSumType
  <2> QED BY <2>3, <2>4
<1>3. Field(more) = [b \in Cells |-> Field(pattern)[b] + Kernel[cell][b]]
  BY <1>2, FieldSum
<1> QED BY <1>3 DEF more

DitherStates ==
  [stage : Stages, pattern : SUBSET Cells, energy : [Cells -> Int],
   proto : SUBSET Cells, rank : [Cells -> Int], i : Int, mask : [Cells -> Int]]

(* dither_toggle, of a cell that is set only if it was clear and cleared     *)
(* only if it was set, keeps the energies those of the pattern.              *)
LEMMA ToggleKeeps ==
  ASSUME NEW s \in DitherStates, s.energy = Field(s.pattern),
         NEW cell \in Cells, NEW set \in BOOLEAN, set <=> cell \notin s.pattern
  PROVE  LET t == dither_toggle(s, cell, set) IN
           /\ t \in DitherStates /\ t.energy = Field(t.pattern)
           /\ t.pattern = IF set THEN s.pattern \cup {cell} ELSE s.pattern \ {cell}
           /\ t.stage = s.stage /\ t.proto = s.proto /\ t.rank = s.rank
           /\ t.i = s.i /\ t.mask = s.mask
<1> DEFINE t == dither_toggle(s, cell, set)
           pattern == IF set THEN s.pattern \cup {cell} ELSE s.pattern \ {cell}
           energy == [b \in Cells |-> IF set THEN s.energy[b] + Kernel[cell][b]
                                             ELSE s.energy[b] - Kernel[cell][b]]
<1>1. pattern \in SUBSET Cells /\ s.pattern \in SUBSET Cells
  BY DEF DitherStates
<1>2. t = [s EXCEPT !.pattern = pattern, !.energy = energy]
  BY DEF dither_toggle
<1>3. energy = Field(pattern)
  <2>1. CASE set
    BY <2>1, <1>1, FieldAdds
  <2>2. CASE ~set
    <3>1. cell \notin pattern /\ pattern \cup {cell} = s.pattern
      BY <2>2
    <3>2. Field(s.pattern) = [b \in Cells |-> Field(pattern)[b] + Kernel[cell][b]]
      <4> HIDE DEF pattern, energy
      <4> QED BY <1>1, <3>1, FieldAdds
    <3>3. Field(pattern) \in [Cells -> Int]
      BY <1>1, FieldType
    <3>4. Field(pattern) = [b \in Cells |-> Field(pattern)[b]]
      BY <3>3
    <3>5. ASSUME NEW b \in Cells PROVE s.energy[b] - Kernel[cell][b] = Field(pattern)[b]
      <4>1. s.energy[b] = Field(pattern)[b] + Kernel[cell][b]
        BY <3>2
      <4>2. Field(pattern)[b] \in Int /\ Kernel[cell][b] \in Int
        BY <3>3, KernelType
      <4> HIDE DEF pattern
      <4> QED BY <4>1, <4>2
    <3>6. energy = [b \in Cells |-> s.energy[b] - Kernel[cell][b]]
      BY <2>2
    <3> HIDE DEF energy, pattern
    <3> QED BY <3>4, <3>5, <3>6
  <2> QED BY <2>1, <2>2
<1>4. energy \in [Cells -> Int]
  BY <1>1, <1>3, FieldType
<1> HIDE DEF pattern, energy
<1>5. t \in DitherStates /\ t.energy = energy /\ t.pattern = pattern
      /\ t.stage = s.stage /\ t.proto = s.proto /\ t.rank = s.rank
      /\ t.i = s.i /\ t.mask = s.mask
  BY <1>1, <1>2, <1>4 DEF DitherStates
<1> HIDE DEF t
<1>6. /\ t \in DitherStates /\ t.energy = Field(t.pattern)
      /\ t.pattern = IF set THEN s.pattern \cup {cell} ELSE s.pattern \ {cell}
      /\ t.stage = s.stage /\ t.proto = s.proto /\ t.rank = s.rank
      /\ t.i = s.i /\ t.mask = s.mask
  BY <1>3, <1>5 DEF pattern
<1> QED BY <1>6 DEF t

LEMMA ClusterFound ==
  ASSUME NEW s \in DitherStates, s.pattern # {}
  PROVE  tightest_cluster(s) \in s.pattern
<1> DEFINE R == {ab \in Cells \X Cells : \/ s.energy[ab[1]] > s.energy[ab[2]]
                                         \/ s.energy[ab[1]] = s.energy[ab[2]] /\ ab[1] <= ab[2]}
<1>1. s.energy \in [Cells -> Int] /\ s.pattern \in SUBSET Cells /\ Cells \in SUBSET Int
  BY CellsType DEF DitherStates
<1>2. \A a, b \in Cells : <<a, b>> \in R <=> \/ s.energy[a] > s.energy[b]
                                             \/ s.energy[a] = s.energy[b] /\ a <= b
  OBVIOUS
<1> HIDE DEF R
<1>3. ASSUME NEW a \in Cells, NEW b \in Cells PROVE <<a, b>> \in R \/ <<b, a>> \in R
  <2>1. a \in Int /\ b \in Int /\ s.energy[a] \in Int /\ s.energy[b] \in Int
    BY <1>1
  <2> QED BY <1>2, <2>1
<1>4. ASSUME NEW a \in Cells, NEW b \in Cells, NEW c \in Cells,
             <<a, b>> \in R, <<b, c>> \in R
      PROVE  <<a, c>> \in R
  <2>1. a \in Int /\ b \in Int /\ c \in Int
        /\ s.energy[a] \in Int /\ s.energy[b] \in Int /\ s.energy[c] \in Int
    BY <1>1
  <2> QED BY <1>2, <1>4, <2>1
<1>5. PICK a \in s.pattern : \A b \in s.pattern : <<a, b>> \in R
  <2>1. IsFiniteSet(Cells)
    BY MaskConstants
  <2>2. \A t \in SUBSET Cells : t # {} => \E a \in t : \A b \in t : <<a, b>> \in R
    BY ONLY <2>1, <1>3, <1>4, FirstOf
  <2> QED BY <1>1, <2>2
<1>6. ASSUME NEW b \in s.pattern
      PROVE  s.energy[a] > s.energy[b] \/ (s.energy[a] = s.energy[b] /\ a <= b)
  <2>1. a \in Cells /\ b \in Cells /\ <<a, b>> \in R
    BY <1>1, <1>5
  <2> QED BY <1>2, <2>1
<1> DEFINE Tightest(c) == \A b \in s.pattern :
             s.energy[c] > s.energy[b] \/ (s.energy[c] = s.energy[b] /\ c <= b)
<1>7. Tightest(a)
  BY <1>6
<1>8. tightest_cluster(s) = CHOOSE c \in s.pattern : Tightest(c)
  BY DEF tightest_cluster
<1> HIDE DEF Tightest
<1> QED BY <1>5, <1>7, <1>8

LEMMA VoidFound ==
  ASSUME NEW s \in DitherStates, s.pattern # Cells
  PROVE  largest_void(s) \in Cells \ s.pattern
<1> DEFINE R == {ab \in Cells \X Cells : \/ s.energy[ab[1]] < s.energy[ab[2]]
                                         \/ s.energy[ab[1]] = s.energy[ab[2]] /\ ab[1] <= ab[2]}
<1>1. s.energy \in [Cells -> Int] /\ Cells \in SUBSET Int
      /\ Cells \ s.pattern \in SUBSET Cells /\ Cells \ s.pattern # {}
  BY CellsType DEF DitherStates
<1>2. \A a, b \in Cells : <<a, b>> \in R <=> \/ s.energy[a] < s.energy[b]
                                             \/ s.energy[a] = s.energy[b] /\ a <= b
  OBVIOUS
<1> HIDE DEF R
<1>3. ASSUME NEW a \in Cells, NEW b \in Cells PROVE <<a, b>> \in R \/ <<b, a>> \in R
  <2>1. a \in Int /\ b \in Int /\ s.energy[a] \in Int /\ s.energy[b] \in Int
    BY <1>1
  <2> QED BY <1>2, <2>1
<1>4. ASSUME NEW a \in Cells, NEW b \in Cells, NEW c \in Cells,
             <<a, b>> \in R, <<b, c>> \in R
      PROVE  <<a, c>> \in R
  <2>1. a \in Int /\ b \in Int /\ c \in Int
        /\ s.energy[a] \in Int /\ s.energy[b] \in Int /\ s.energy[c] \in Int
    BY <1>1
  <2> QED BY <1>2, <1>4, <2>1
<1>5. PICK a \in Cells \ s.pattern : \A b \in Cells \ s.pattern : <<a, b>> \in R
  <2>1. IsFiniteSet(Cells)
    BY MaskConstants
  <2>2. \A t \in SUBSET Cells : t # {} => \E a \in t : \A b \in t : <<a, b>> \in R
    BY ONLY <2>1, <1>3, <1>4, FirstOf
  <2> QED BY <1>1, <2>2
<1>6. ASSUME NEW b \in Cells \ s.pattern
      PROVE  s.energy[a] < s.energy[b] \/ (s.energy[a] = s.energy[b] /\ a <= b)
  <2>1. a \in Cells /\ b \in Cells /\ <<a, b>> \in R
    BY <1>5
  <2> QED BY <1>2, <2>1
<1> DEFINE Largest(c) == \A b \in Cells \ s.pattern :
             s.energy[c] < s.energy[b] \/ (s.energy[c] = s.energy[b] /\ c <= b)
<1>7. Largest(a)
  BY <1>6
<1>8. largest_void(s) = CHOOSE c \in Cells \ s.pattern : Largest(c)
  BY DEF largest_void
<1> HIDE DEF Largest
<1> QED BY <1>5, <1>7, <1>8

(* The pattern shrinks and grows by one cell a round.                        *)
DitherShape ==
  /\ m \in DitherStates
  /\ m.stage \in {"none", "ready"} => m.pattern = {}
  /\ m.stage = "prototype" => Cardinality(m.pattern) = Ones
  /\ m.stage = "thin" => m.i \in (-1)..(Ones - 1) /\ Cardinality(m.proto) = Ones
  /\ m.stage = "fill" => m.i \in 0..N

DitherInv == DitherShape /\ EnergyIsField /\ RanksNest /\ MaskBalanced

LEMMA RankedOnce ==
  ASSUME NEW rank \in [Cells -> Int], NEW S \in SUBSET Cells, NEW c \in Cells,
         c \notin S, NEW v \in Int
  PROVE  {[rank EXCEPT ![c] = v][b] : b \in S \cup {c}} = {rank[b] : b \in S} \cup {v}
<1> DEFINE up == [rank EXCEPT ![c] = v]
<1>1. up[c] = v /\ \A b \in S : up[b] = rank[b]
  OBVIOUS
<1> HIDE DEF up
<1>2. {up[b] : b \in S \cup {c}} = {rank[b] : b \in S} \cup {v}
  BY <1>1
<1> QED BY <1>2 DEF up

LEMMA FieldEmpty == Field({}) = [b \in Cells |-> 0]
BY FieldSum, ColumnSumEmpty

LEMMA NoMaskFits == NoMask \in DitherStates /\ NoMask.energy = Field({})
<1>1. NoMask.energy = [b \in Cells |-> 0]
  BY DEF NoMask
<1>2. NoMask \in DitherStates
  BY DEF NoMask, DitherStates, Stages
<1> QED BY <1>1, <1>2, FieldEmpty

LEMMA DitherStart == DitherInit => DitherInv
<1> SUFFICES ASSUME m = NoMask PROVE DitherInv
  BY DEF DitherInit
<1>1. m.stage = "none" /\ m.pattern = {}
  BY DEF NoMask
<1>2. m \in DitherStates /\ m.energy = Field(m.pattern)
  BY <1>1, NoMaskFits
<1> QED BY <1>1, <1>2
   DEF DitherInv, DitherShape, EnergyIsField, RanksNest, MaskBalanced

LEMMA SubsetSize ==
  ASSUME NEW s \in SUBSET Cells
  PROVE  /\ IsFiniteSet(s) /\ Cardinality(s) \in 0..N
         /\ Cardinality(s) = 0 => s = {}
         /\ Cardinality(s) = N => s = Cells
         /\ \A c \in Cells \ s : Cardinality(s \cup {c}) = Cardinality(s) + 1
         /\ \A c \in s : Cardinality(s \ {c}) = Cardinality(s) - 1
<1>1. IsFiniteSet(s) /\ Cardinality(s) <= N /\ (Cardinality(s) = N => s = Cells)
  BY MaskConstants, FS_Subset
<1>2. Cardinality(s) \in Nat
  BY <1>1, FS_CardinalityType
<1>3. Cardinality(s) = 0 => s = {}
  BY <1>1, FS_EmptySet
<1>4. \A c \in Cells \ s : Cardinality(s \cup {c}) = Cardinality(s) + 1
  BY <1>1, FS_AddElement
<1>5. \A c \in s : Cardinality(s \ {c}) = Cardinality(s) - 1
  BY <1>1, FS_RemoveElement
<1>6. Cardinality(s) \in 0..N
  BY <1>1, <1>2, MaskConstants
<1> QED BY <1>1, <1>3, <1>4, <1>5, <1>6

LEMMA SeedStep == DitherInv /\ seed_pattern => DitherInv'
<1> SUFFICES ASSUME DitherInv, seed_pattern PROVE DitherInv'
  OBVIOUS
<1>1. PICK seed \in Seeds :
        m' = [m EXCEPT !.stage = "prototype", !.pattern = seed, !.energy = Field(seed)]
  BY DEF seed_pattern
<1>2. seed \in SUBSET Cells /\ Cardinality(seed) = Ones
  BY DitherAssumption
<1>3. Field(seed) \in [Cells -> Int]
  BY <1>2, FieldType
<1>4. m' \in DitherStates /\ m'.stage = "prototype" /\ m'.pattern = seed
      /\ m'.energy = Field(seed)
  BY <1>1, <1>2, <1>3 DEF DitherInv, DitherShape, DitherStates, Stages
<1> QED BY <1>2, <1>4 DEF DitherInv, DitherShape, EnergyIsField, RanksNest, MaskBalanced

LEMMA MovePointStep == DitherInv /\ move_point => DitherInv'
<1> SUFFICES ASSUME DitherInv, move_point PROVE DitherInv'
  OBVIOUS
<1> DEFINE cluster == tightest_cluster(m)
           thinned == dither_toggle(m, cluster, FALSE)
           hole == largest_void(thinned)
           moved == dither_toggle(thinned, hole, TRUE)
<1>1. m \in DitherStates /\ m.energy = Field(m.pattern) /\ m.stage = "prototype"
      /\ m.pattern \in SUBSET Cells /\ Cardinality(m.pattern) = Ones
  BY DEF DitherInv, DitherShape, EnergyIsField, move_point, DitherStates
<1>2. m.pattern # {}
  BY <1>1, MaskConstants, FS_EmptySet
<1>3. cluster \in m.pattern /\ cluster \in Cells
  BY <1>1, <1>2, ClusterFound
<1>4. /\ thinned \in DitherStates /\ thinned.energy = Field(thinned.pattern)
      /\ thinned.pattern = m.pattern \ {cluster} /\ thinned.stage = m.stage
  <2> HIDE DEF cluster
  <2> QED BY <1>1, <1>3, ToggleKeeps
<1>5. m' = IF hole = cluster
           THEN [moved EXCEPT !.stage = "thin", !.proto = moved.pattern, !.i = Ones - 1]
           ELSE moved
  BY DEF move_point
<1> HIDE DEF cluster, thinned
<1>6. hole \in Cells \ thinned.pattern
  <2>1. thinned.pattern # Cells
    BY <1>3, <1>4
  <2> QED BY <1>4, <2>1, VoidFound
<1>7. /\ moved \in DitherStates /\ moved.energy = Field(moved.pattern)
      /\ moved.pattern = thinned.pattern \cup {hole} /\ moved.stage = m.stage
  <2> HIDE DEF hole
  <2> QED BY <1>4, <1>6, ToggleKeeps
<1>8. Cardinality(moved.pattern) = Ones
  <2>1. Cardinality(m.pattern \ {cluster}) = Ones - 1
    BY <1>1, <1>3, SubsetSize
  <2>2. thinned.pattern \in SUBSET Cells
    BY <1>4 DEF DitherStates
  <2>3. Cardinality(moved.pattern) = Cardinality(thinned.pattern) + 1
    <3> HIDE DEF hole, moved
    <3> QED BY <1>6, <1>7, <2>2, SubsetSize
  <2>4. thinned.pattern = m.pattern \ {cluster}
    BY <1>4
  <2>5. Ones \in Int
    BY MaskConstants
  <2> HIDE DEF moved, hole
  <2> QED BY <2>1, <2>3, <2>4, <2>5
<1> HIDE DEF hole, moved
<1>9. CASE hole = cluster
  <2>1. /\ m' \in DitherStates /\ m'.energy = moved.energy /\ m'.stage = "thin"
        /\ m'.pattern = moved.pattern /\ m'.proto = moved.pattern /\ m'.i = Ones - 1
    <3>1. m' = [moved EXCEPT !.stage = "thin", !.proto = moved.pattern, !.i = Ones - 1]
      BY <1>5, <1>9
    <3>2. moved \in DitherStates /\ Ones - 1 \in Int
      BY <1>7, MaskConstants
    <3> QED BY <3>1, <3>2 DEF DitherStates, Stages
  <2>2. EnergyIsField'
    BY <1>7, <2>1 DEF EnergyIsField
  <2>3. DitherShape'
    BY <1>8, <2>1, MaskConstants DEF DitherShape
  <2>4. RanksNest'
    <3>1. {m'.rank[b] : b \in m'.proto \ m'.pattern} = {}
      BY <2>1
    <3>2. (m'.i + 1)..(Ones - 1) = {} /\ m'.i + 1 = Ones
      BY <2>1, MaskConstants
    <3> QED BY <1>8, <2>1, <3>1, <3>2 DEF RanksNest
  <2> QED BY <2>1, <2>2, <2>3, <2>4 DEF DitherInv, MaskBalanced
<1>10. CASE hole # cluster
  <2>1. m' = moved
    BY <1>5, <1>10
  <2> QED BY <1>1, <1>7, <1>8, <2>1
      DEF DitherInv, DitherShape, EnergyIsField, RanksNest, MaskBalanced
<1> QED BY <1>9, <1>10

LEMMA ThinStep == DitherInv /\ thin => DitherInv'
<1> SUFFICES ASSUME DitherInv, thin PROVE DitherInv'
  OBVIOUS
<1> DEFINE cluster == tightest_cluster(m)
           t == dither_toggle(m, cluster, FALSE)
<1>1. /\ m \in DitherStates /\ m.energy = Field(m.pattern) /\ m.stage = "thin"
      /\ m.pattern \in SUBSET Cells /\ m.proto \in SUBSET Cells
      /\ m.rank \in [Cells -> Int]
      /\ m.i \in 0..(Ones - 1) /\ Cardinality(m.proto) = Ones
      /\ m.pattern \subseteq m.proto /\ Cardinality(m.pattern) = m.i + 1
      /\ {m.rank[b] : b \in m.proto \ m.pattern} = (m.i + 1)..(Ones - 1)
  BY MaskConstants DEF DitherInv, DitherShape, EnergyIsField, RanksNest, thin, DitherStates
<1>2. m.pattern # {}
  <2>1. Cardinality(m.pattern) # 0
    BY <1>1
  <2> QED BY <2>1, FS_EmptySet
<1>3. cluster \in m.pattern /\ cluster \in Cells
  BY <1>1, <1>2, ClusterFound
<1>4. m' = [t EXCEPT !.rank[cluster] = m.i, !.i = @ - 1]
  BY DEF thin
<1> HIDE DEF cluster
<1>5. /\ t \in DitherStates /\ t.energy = Field(t.pattern)
      /\ t.pattern = m.pattern \ {cluster} /\ t.stage = m.stage
      /\ t.proto = m.proto /\ t.rank = m.rank /\ t.i = m.i
  BY <1>1, <1>3, ToggleKeeps
<1> HIDE DEF t
<1>6. /\ m' \in DitherStates /\ m'.energy = t.energy /\ m'.stage = "thin"
      /\ m'.pattern = t.pattern /\ m'.proto = m.proto /\ m'.i = m.i - 1
      /\ m'.rank = [m.rank EXCEPT ![cluster] = m.i]
  <2> DEFINE rank == [m.rank EXCEPT ![cluster] = m.i]
  <2>1. rank \in [Cells -> Int] /\ m.i - 1 \in Int
    <3>1. m.i \in Int
      BY <1>1, MaskConstants
    <3>2. m.rank \in [Cells -> Int]
      BY <1>1
    <3>3. rank \in [Cells -> Int]
      BY ONLY <3>1, <3>2
    <3> QED BY <3>1, <3>3
  <2>2. m' = [t EXCEPT !.rank = rank, !.i = m.i - 1]
    <3>1. t.rank = m.rank /\ t.i = m.i
      BY <1>5
    <3> QED BY <1>4, <3>1
  <2> HIDE DEF rank
  <2>3. /\ m' \in DitherStates /\ m'.energy = t.energy /\ m'.stage = t.stage
        /\ m'.pattern = t.pattern /\ m'.proto = t.proto /\ m'.i = m.i - 1
        /\ m'.rank = rank
    BY <1>5, <2>1, <2>2 DEF DitherStates
  <2> QED BY <1>1, <1>5, <2>3 DEF rank
<1>7. EnergyIsField'
  BY <1>5, <1>6 DEF EnergyIsField
<1>8. DitherShape'
  BY <1>1, <1>6, MaskConstants DEF DitherShape
<1>9. Cardinality(m'.pattern) = m'.i + 1
  <2>1. Cardinality(m.pattern \ {cluster}) = Cardinality(m.pattern) - 1
    BY <1>1, <1>3, SubsetSize
  <2> QED BY <1>1, <1>5, <1>6, <2>1
<1>10. {m'.rank[b] : b \in m'.proto \ m'.pattern} = (m'.i + 1)..(Ones - 1)
  <2> DEFINE S == m.proto \ m.pattern
  <2>1. m'.proto \ m'.pattern = S \cup {cluster}
    BY <1>1, <1>3, <1>5, <1>6
  <2>2. S \in SUBSET Cells /\ cluster \notin S /\ {m.rank[b] : b \in S} = (m.i + 1)..(Ones - 1)
    BY <1>1, <1>3
  <2> HIDE DEF S
  <2>3. {[m.rank EXCEPT ![cluster] = m.i][b] : b \in S \cup {cluster}}
          = {m.rank[b] : b \in S} \cup {m.i}
    BY <1>1, <1>3, <2>2, RankedOnce
  <2>4. ((m.i + 1)..(Ones - 1)) \cup {m.i} = (m'.i + 1)..(Ones - 1)
    BY <1>1, <1>6, MaskConstants
  <2> QED BY <1>6, <2>1, <2>2, <2>3, <2>4
<1> QED BY <1>1, <1>5, <1>6, <1>7, <1>8, <1>9, <1>10 DEF DitherInv, RanksNest, MaskBalanced

LEMMA RestoreStep == DitherInv /\ restore => DitherInv'
<1> SUFFICES ASSUME DitherInv, restore PROVE DitherInv'
  OBVIOUS
<1>1. /\ m \in DitherStates /\ m.stage = "thin" /\ m.i = -1
      /\ m.pattern \in SUBSET Cells /\ m.proto \in SUBSET Cells
      /\ Cardinality(m.proto) = Ones /\ Cardinality(m.pattern) = 0
      /\ {m.rank[b] : b \in m.proto \ m.pattern} = (m.i + 1)..(Ones - 1)
  BY MaskConstants DEF DitherInv, DitherShape, RanksNest, restore, DitherStates
<1>2. m.pattern = {}
  BY <1>1, SubsetSize
<1>3. {m.rank[b] : b \in m.proto} = 0..(Ones - 1)
  <2>1. m.proto \ m.pattern = m.proto /\ m.i + 1 = 0
    BY <1>1, <1>2
  <2> QED BY <1>1, <2>1
<1>4. m' = [m EXCEPT !.stage = "fill", !.pattern = m.proto, !.energy = Field(m.proto),
                     !.i = Ones]
  BY DEF restore
<1>5. Field(m.proto) \in [Cells -> Int]
  BY <1>1, FieldType
<1>6. /\ m' \in DitherStates /\ m'.stage = "fill" /\ m'.pattern = m.proto
      /\ m'.energy = Field(m.proto) /\ m'.i = Ones /\ m'.rank = m.rank
  <2>1. m \in DitherStates /\ m.proto \in SUBSET Cells /\ Ones \in Int
    BY <1>1, MaskConstants
  <2> QED BY <1>4, <1>5, <2>1 DEF DitherStates, Stages
<1>7. Ones \in 0..N
  BY <1>1, SubsetSize
<1> QED BY <1>1, <1>3, <1>6, <1>7
    DEF DitherInv, DitherShape, EnergyIsField, RanksNest, MaskBalanced

LEMMA FillStep == DitherInv /\ fill => DitherInv'
<1> SUFFICES ASSUME DitherInv, fill PROVE DitherInv'
  OBVIOUS
<1> DEFINE hole == largest_void(m)
           t == dither_toggle(m, hole, TRUE)
<1>1. /\ m \in DitherStates /\ m.energy = Field(m.pattern) /\ m.stage = "fill"
      /\ m.pattern \in SUBSET Cells /\ m.rank \in [Cells -> Int]
      /\ m.i \in 0..(N - 1) /\ Cardinality(m.pattern) = m.i
      /\ {m.rank[b] : b \in m.pattern} = 0..(m.i - 1)
  BY MaskConstants DEF DitherInv, DitherShape, EnergyIsField, RanksNest, fill, DitherStates
<1>2. m.pattern # Cells
  BY <1>1, MaskConstants
<1>3. hole \in Cells \ m.pattern
  BY <1>1, <1>2, VoidFound
<1>4. m' = [t EXCEPT !.rank[hole] = m.i, !.i = @ + 1]
  BY DEF fill
<1> HIDE DEF hole
<1>5. /\ t \in DitherStates /\ t.energy = Field(t.pattern)
      /\ t.pattern = m.pattern \cup {hole} /\ t.stage = m.stage
      /\ t.rank = m.rank /\ t.i = m.i
  BY <1>1, <1>3, ToggleKeeps
<1> HIDE DEF t
<1>6. /\ m' \in DitherStates /\ m'.energy = t.energy /\ m'.stage = "fill"
      /\ m'.pattern = t.pattern /\ m'.i = m.i + 1
      /\ m'.rank = [m.rank EXCEPT ![hole] = m.i]
  <2> DEFINE rank == [m.rank EXCEPT ![hole] = m.i]
  <2>1. rank \in [Cells -> Int] /\ m.i + 1 \in Int
    <3>1. m.i \in Int
      BY <1>1, MaskConstants
    <3>2. m.rank \in [Cells -> Int]
      BY <1>1
    <3>3. rank \in [Cells -> Int]
      BY ONLY <3>1, <3>2
    <3> QED BY <3>1, <3>3
  <2>2. m' = [t EXCEPT !.rank = rank, !.i = m.i + 1]
    <3>1. t.rank = m.rank /\ t.i = m.i
      BY <1>5
    <3> QED BY <1>4, <3>1
  <2> HIDE DEF rank
  <2>3. /\ m' \in DitherStates /\ m'.energy = t.energy /\ m'.stage = t.stage
        /\ m'.pattern = t.pattern /\ m'.i = m.i + 1 /\ m'.rank = rank
    BY <1>5, <2>1, <2>2 DEF DitherStates
  <2> QED BY <1>1, <1>5, <2>3 DEF rank
<1>7. EnergyIsField'
  BY <1>5, <1>6 DEF EnergyIsField
<1>8. DitherShape'
  BY <1>1, <1>6, MaskConstants DEF DitherShape
<1>9. Cardinality(m'.pattern) = m'.i
  <2>1. Cardinality(m.pattern \cup {hole}) = Cardinality(m.pattern) + 1
    BY <1>1, <1>3, SubsetSize
  <2> QED BY <1>1, <1>5, <1>6, <2>1
<1>10. {m'.rank[b] : b \in m'.pattern} = 0..(m'.i - 1)
  <2>1. {[m.rank EXCEPT ![hole] = m.i][b] : b \in m.pattern \cup {hole}}
          = {m.rank[b] : b \in m.pattern} \cup {m.i}
    BY <1>1, <1>3, RankedOnce
  <2>2. (0..(m.i - 1)) \cup {m.i} = 0..(m'.i - 1)
    BY <1>1, <1>6, MaskConstants
  <2>3. m'.pattern = m.pattern \cup {hole}
        /\ m'.rank = [m.rank EXCEPT ![hole] = m.i]
        /\ {m.rank[b] : b \in m.pattern} = 0..(m.i - 1)
    BY <1>1, <1>5, <1>6
  <2> QED BY <2>1, <2>2, <2>3
<1> QED BY <1>1, <1>6, <1>7, <1>8, <1>9, <1>10 DEF DitherInv, RanksNest, MaskBalanced

(* All ranks are given, each to one cell, when they are spread.              *)
LEMMA SpreadBalances ==
  ASSUME NEW rank \in [Cells -> Int], {rank[b] : b \in Cells} = 0..(N - 1),
         NEW mask \in [Cells -> Int],
         \A b \in Cells : mask[b] = 1 + ((rank[b] * White) \div N)
  PROVE  /\ \A b \in Cells : mask[b] \in 1..White
         /\ \A t \in 1..White : Cardinality({b \in Cells : mask[b] = t})
                                   \in {N \div White, N \div White + 1}
<1>1. ASSUME NEW b \in Cells
      PROVE  rank[b] \in 0..(N - 1) /\ mask[b] \in Int
             /\ mask[b] - 1 = (rank[b] * White) \div N /\ mask[b] \in 1..White
  <2>1. rank[b] \in 0..(N - 1)
    OBVIOUS
  <2> DEFINE q == (rank[b] * White) \div N
  <2>2. rank[b] \in Nat /\ rank[b] <= N - 1 /\ N \in Nat \ {0} /\ White \in Nat \ {0}
    BY <2>1, MaskConstants
  <2>3. rank[b] * White \in Int /\ 0 <= rank[b] * White
    BY <2>2
  <2>4. q \in Int /\ q * N <= rank[b] * White /\ rank[b] * White < (q + 1) * N
    <3>1. q \in Int
      BY <2>2, <2>3, DivMod
    <3> QED BY <2>2, <2>3, <3>1, QuotientAt
  <2> HIDE DEF q
  <2>5. 0 <= q
    <3>1. 0 * N < (q + 1) * N
      BY <2>2, <2>3, <2>4
    <3>2. 0 < q + 1
      BY <2>2, <2>4, <3>1, CancelLess
    <3> QED BY <2>4, <3>2
  <2>6. q < White
    <3>1. rank[b] * White <= (N - 1) * White /\ (N - 1) * White = White * N - White
          /\ White * N \in Int /\ q * N \in Int
      BY <2>2, <2>4, TimesOrder
    <3> DEFINE up == White * N
               at == q * N
               of == rank[b] * White
               top == (N - 1) * White
    <3>3. at \in Int /\ of \in Int /\ up \in Int /\ top \in Int
      BY <2>2, <2>3, <2>4
    <3>4. at <= of /\ of <= top /\ top = up - White
      BY <2>4, <3>1
    <3> HIDE DEF up, at, of, top
    <3>5. at < up
      BY <2>2, <3>3, <3>4
    <3>2. q * N < White * N
      BY <3>5 DEF at, up
    <3> QED BY <2>2, <2>4, <3>2, CancelLess
  <2>7. mask[b] = 1 + q
    BY DEF q
  <2>8. mask[b] \in Int /\ mask[b] - 1 = q /\ mask[b] \in 1..White
    BY <2>2, <2>4, <2>5, <2>6, <2>7
  <2> QED BY <2>1, <2>8 DEF q
<1>2. rank \in Bijection(Cells, 0..(N - 1))
  <2>1. rank \in [Cells -> 0..(N - 1)]
    BY <1>1
  <2>2. rank \in Surjection(Cells, 0..(N - 1))
    BY <2>1 DEF Surjection
  <2>3. Cardinality(0..(N - 1)) = Cardinality(Cells) /\ IsFiniteSet(Cells)
    BY MaskConstants DEF Cells
  <2>4. rank \in Injection(Cells, 0..(N - 1))
    BY <2>2, <2>3, FS_SurjSameCardinalityImpliesInj
  <2> QED BY <2>2, <2>4 DEF Bijection
<1>3. ASSUME NEW t \in 1..White
      PROVE  Cardinality({b \in Cells : mask[b] = t}) \in {N \div White, N \div White + 1}
  <2> DEFINE K == {k \in 0..(N - 1) : (k * White) \div N = t - 1}
             B == {b \in Cells : mask[b] = t}
             f == [b \in B |-> rank[b]]
  <2>0. N \in Nat \ {0} /\ White \in 1..N /\ t \in Int
    BY MaskConstants
  <2>1. PICK lo \in Int, hi \in Int : K = lo..(hi - 1) /\ hi - lo \in {N \div White, N \div White + 1}
    BY <2>0, EqualShares
  <2>2. \A b \in Cells : mask[b] = t <=> (rank[b] * White) \div N = t - 1
    BY <1>1, <2>0
  <2>3. f \in [B -> K]
    BY <1>1, <2>2
  <2>4. \A x, y \in B : f[x] = f[y] => x = y
    <3>1. \A x, y \in Cells : rank[x] = rank[y] => x = y
      BY <1>2 DEF Bijection, Injection, IsInjective
    <3> QED BY <3>1
  <2>5. \A k \in K : \E x \in B : f[x] = k
    <3> SUFFICES ASSUME NEW k \in K PROVE \E x \in B : f[x] = k
      OBVIOUS
    <3>1. PICK x \in Cells : rank[x] = k
      BY <1>2 DEF Bijection, Surjection
    <3>2. x \in B
      BY <2>2, <3>1
    <3> QED BY <3>1, <3>2
  <2>6. IsFiniteSet(B)
    <3>1. B \in SUBSET Cells
      OBVIOUS
    <3> QED BY <3>1, MaskConstants, FS_Subset
  <2> HIDE DEF f, B, K
  <2>7. f \in Bijection(B, K)
    <3>1. f \in Injection(B, K)
      BY <2>3, <2>4 DEF Injection, IsInjective
    <3>2. f \in Surjection(B, K)
      BY <2>3, <2>5 DEF Surjection
    <3> QED BY <3>1, <3>2 DEF Bijection
  <2>8. Cardinality(K) = Cardinality(B)
    <3>1. ExistsBijection(B, K)
      BY <2>7 DEF ExistsBijection
    <3> QED BY <2>6, <3>1, FS_Bijection
  <2>9. Cardinality(K) = hi - lo
    <3>1. hi - lo >= 0
      <4>1. N \div White \in Nat
        BY <2>0
      <4> QED BY <2>1, <4>1
    <3>2. Cardinality(lo..(hi - 1)) = IF lo > hi - 1 THEN 0 ELSE hi - 1 - lo + 1
      BY <2>1, FS_Interval
    <3> QED BY <2>1, <3>1, <3>2
  <2> QED BY <2>1, <2>8, <2>9 DEF B
<1> QED BY <1>1, <1>3

LEMMA SpreadStep == DitherInv /\ spread => DitherInv'
<1> SUFFICES ASSUME DitherInv, spread PROVE DitherInv'
  OBVIOUS
<1>1. /\ m.pattern \in SUBSET Cells /\ m.rank \in [Cells -> Int] /\ m.stage = "fill"
      /\ m.i = N /\ Cardinality(m.pattern) = m.i
      /\ {m.rank[b] : b \in m.pattern} = 0..(m.i - 1)
  BY DEF DitherInv, DitherShape, RanksNest, spread, DitherStates
<1>2. {m.rank[b] : b \in Cells} = 0..(N - 1)
  <2>1. m.pattern = Cells
    BY <1>1, SubsetSize
  <2> QED BY <1>1, <2>1
<1> DEFINE mask == [b \in Cells |-> 1 + (m.rank[b] * White) \div N]
<1>3. m' = [NoMask EXCEPT !.stage = "ready", !.mask = mask]
  BY DEF spread
<1>4. \A b \in Cells : mask[b] = 1 + ((m.rank[b] * White) \div N)
  OBVIOUS
<1>5. mask \in [Cells -> Int]
  <2>1. ASSUME NEW b \in Cells PROVE mask[b] \in Int
    <3>1. m.rank[b] * White \in Int /\ N \in Nat \ {0}
      BY <1>1, MaskConstants
    <3>2. (m.rank[b] * White) \div N \in Int
      BY <3>1, DivMod
    <3> QED BY <1>4, <3>2
  <2> QED BY <2>1
<1> HIDE DEF mask
<1>6. /\ m' \in DitherStates /\ m'.stage = "ready" /\ m'.pattern = {}
      /\ m'.energy = NoMask.energy /\ m'.mask = mask
  <2>1. NoMask \in DitherStates /\ NoMask.pattern = {}
    BY NoMaskFits DEF NoMask
  <2> QED BY <1>3, <1>5, <2>1 DEF DitherStates, Stages
<1>7. MaskBalanced'
  BY <1>1, <1>2, <1>4, <1>5, <1>6, SpreadBalances DEF MaskBalanced
<1>8. EnergyIsField'
  BY <1>6, NoMaskFits DEF EnergyIsField
<1> QED BY <1>6, <1>7, <1>8 DEF DitherInv, DitherShape, RanksNest

LEMMA DitherStep == DitherInv /\ [build_dither_mask]_m => DitherInv'
<1> SUFFICES ASSUME DitherInv, [build_dither_mask]_m PROVE DitherInv'
  OBVIOUS
<1>1. CASE build_dither_mask
  BY <1>1, SeedStep, MovePointStep, ThinStep, RestoreStep, FillStep, SpreadStep
     DEF build_dither_mask
<1>2. CASE UNCHANGED m
  BY <1>2 DEF DitherInv, DitherShape, EnergyIsField, RanksNest, MaskBalanced
<1> QED BY <1>1, <1>2

-----------------------------------------------------------------------------
(* The page and the out buffer. *)

LEMMA MinPair ==
  ASSUME NEW a \in Int, NEW b \in Int
  PROVE  Min({a, b}) = IF a <= b THEN a ELSE b
<1>1. \A x \in {a, b} : (\A y \in {a, b} : x <= y) <=> x = IF a <= b THEN a ELSE b
  OBVIOUS
<1> QED BY <1>1 DEF Min

LEMMA MaxPair ==
  ASSUME NEW a \in Int, NEW b \in Int
  PROVE  Max({a, b}) = IF a >= b THEN a ELSE b
<1>1. \A x \in {a, b} : (\A y \in {a, b} : x >= y) <=> x = IF a >= b THEN a ELSE b
  OBVIOUS
<1> QED BY <1>1 DEF Max

Samples == {Paper} \cup (Int \X Int) \cup (Int \X Int \X Int)
Bytes == Samples \cup [0..(Bits - 1) -> Samples]

Margins == [top : Nat, bottom : Nat, left : Nat, right : Nat]

Blocks ==
  [first : 0..(Wrap - 1), rows : 0..(Wrap - 1), body : Nat, stride : Nat, avail : Nat]

PageStates ==
  [mode : Modes, pixels : Nat, lines : 0..Wrap, white : Margins, threshold : Int,
   building : BOOLEAN, scanning : BOOLEAN, eof : BOOLEAN, failed : BOOLEAN,
   next_row : Nat, out : Seq(Bytes), out_pos : Nat, out_cap : Nat, alloc : Nat,
   refused : BOOLEAN, got : Nat, blocks : Seq(Blocks), pages : Nat]

(* What waits to be handed out.                                              *)
Waiting(s) == Len(s.out) - s.out_pos

SameStart(s, t) ==
  /\ s.mode = t.mode /\ s.pixels = t.pixels /\ s.lines = t.lines
  /\ s.white = t.white /\ s.threshold = t.threshold /\ s.blocks = t.blocks

SameFlags(s, t) ==
  /\ s.building = t.building /\ s.scanning = t.scanning /\ s.eof = t.eof
  /\ s.failed = t.failed /\ s.got = t.got /\ s.pages = t.pages

(* The buffer's capacity is what was allocated, until a realloc is refused.  *)
Roomy(s) == s.refused \/ (s.alloc = s.out_cap /\ Len(s.out) <= s.alloc)

LEMMA RowLength ==
  ASSUME NEW s, s.mode \in Modes, s.pixels \in Nat
  PROVE  bytes_per_line(s) \in Nat
<1>1. (s.pixels + Bits - 1) \div Bits \in Nat
  <2>1. Bits \in Nat \ {0}
    BY PathAssumption
  <2> QED BY <2>1
<1> QED BY <1>1 DEF bytes_per_line

LEMMA CompactKeeps ==
  ASSUME NEW s \in PageStates, s.out_pos <= Len(s.out)
  PROVE  LET c == Compact(s) IN
           /\ c \in PageStates /\ c.out_pos = 0 /\ Len(c.out) = Waiting(s)
           /\ SameStart(s, c) /\ SameFlags(s, c) /\ c.next_row = s.next_row
           /\ c.out_cap = s.out_cap /\ c.alloc = s.alloc /\ c.refused = s.refused
           /\ \A n \in 1..Waiting(s) : c.out[n] = s.out[s.out_pos + n]
<1> DEFINE rest == SubSeq(s.out, s.out_pos + 1, Len(s.out))
<1>1. s.out \in Seq(Bytes) /\ s.out_pos \in Nat /\ Len(s.out) \in Nat
  BY DEF PageStates
<1>2. /\ rest \in Seq(Bytes) /\ Len(rest) = Len(s.out) - s.out_pos
      /\ \A n \in 1..(Len(s.out) - s.out_pos) : rest[n] = s.out[s.out_pos + n]
  BY <1>1
<1> HIDE DEF rest
<1>3. Compact(s) = [s EXCEPT !.out = rest, !.out_pos = 0]
  BY DEF Compact, rest
<1> DEFINE c == Compact(s)
<1>4. c \in PageStates /\ c.out = rest /\ c.out_pos = 0
  <2>1. rest \in Seq(Bytes) /\ 0 \in Nat
    BY <1>2
  <2>2. c = [s EXCEPT !.out = rest, !.out_pos = 0]
    BY <1>3
  <2> HIDE DEF c
  <2> QED BY <2>1, <2>2 DEF PageStates
<1>5. /\ c.next_row = s.next_row /\ c.out_cap = s.out_cap /\ c.alloc = s.alloc
      /\ c.refused = s.refused
  BY <1>3 DEF PageStates
<1>6. SameStart(s, c)
  BY <1>3 DEF PageStates, SameStart
<1>7. SameFlags(s, c)
  BY <1>3 DEF PageStates, SameFlags
<1> HIDE DEF c
<1>8. Len(c.out) = Waiting(s) /\ \A n \in 1..Waiting(s) : c.out[n] = s.out[s.out_pos + n]
  BY <1>2, <1>4 DEF Waiting
<1> QED BY <1>4, <1>5, <1>6, <1>7, <1>8 DEF c

LEMMA DoubledFits ==
  ASSUME NEW cap \in Nat, NEW need \in Nat
  PROVE  Doubled(cap, need) \in Nat /\ Doubled(cap, need) >= need
<1> DEFINE first == IF cap = 0 THEN FirstCap ELSE cap
<1>1. first \in Nat \ {0}
  BY PathAssumption
<1> HIDE DEF first
<1>2. LET grow[c \in Nat] == IF c >= need THEN c ELSE grow[2 * c]
      IN  grow[first] \in Nat /\ grow[first] >= need
  BY ONLY <1>1, Doubling, need \in Nat
<1> QED BY <1>2 DEF Doubled, first

(* out_reserve moves what waits to the front, or leaves it where it is.      *)
LEMMA ReserveKeeps ==
  ASSUME NEW s \in PageStates, s.out_pos <= Len(s.out), Roomy(s),
         NEW extra \in Nat, NEW granted \in BOOLEAN
  PROVE  LET t == out_reserve(s, extra, granted) IN
           /\ t \in PageStates /\ t.out_pos <= Len(t.out) /\ Waiting(t) = Waiting(s)
           /\ SameStart(s, t) /\ SameFlags(s, t) /\ t.next_row = s.next_row
           /\ Roomy(t)
           /\ granted /\ ~t.refused => Len(t.out) + extra <= t.alloc
           /\ \A n \in 1..Waiting(s) : t.out[t.out_pos + n] = s.out[s.out_pos + n]
<1> DEFINE c == Compact(s)
           t == out_reserve(s, extra, granted)
           cap == Doubled(s.out_cap, Len(c.out) + extra)
           Fits(u) == /\ u \in PageStates /\ u.out_pos <= Len(u.out) /\ Waiting(u) = Waiting(s)
                      /\ SameStart(s, u) /\ SameFlags(s, u) /\ u.next_row = s.next_row
                      /\ \A n \in 1..Waiting(s) : u.out[u.out_pos + n] = s.out[s.out_pos + n]
<1>1. /\ c \in PageStates /\ c.out_pos = 0 /\ Len(c.out) = Waiting(s)
      /\ SameStart(s, c) /\ SameFlags(s, c) /\ c.next_row = s.next_row
      /\ c.out_cap = s.out_cap /\ c.alloc = s.alloc /\ c.refused = s.refused
      /\ \A n \in 1..Waiting(s) : c.out[n] = s.out[s.out_pos + n]
  BY CompactKeeps
<1>2. /\ s.out_cap \in Nat /\ s.alloc \in Nat /\ s.refused \in BOOLEAN
      /\ Len(s.out) \in Nat /\ s.out_pos \in Nat /\ Waiting(s) \in Nat
      /\ Waiting(s) <= Len(s.out)
  BY DEF PageStates, Waiting
<1>3. t = IF ~(Len(c.out) + extra > s.out_cap)
          THEN IF s.out_pos = Len(s.out) \/ Len(s.out) + extra > s.out_cap THEN c ELSE s
          ELSE [c EXCEPT !.out_cap = cap, !.alloc = IF granted THEN cap ELSE @,
                         !.refused = @ \/ ~granted]
  BY DEF out_reserve, MustGrow
<1>4. cap \in Nat /\ cap >= Waiting(s) + extra
  <2>1. Len(c.out) + extra \in Nat /\ Len(c.out) = Waiting(s)
    BY <1>1, <1>2
  <2> QED BY <1>2, <2>1, DoubledFits
<1> HIDE DEF c, t, cap
<1>5. Fits(s)
  BY <1>2 DEF SameStart, SameFlags
<1>6. Fits(c)
  <2>1. c.out_pos <= Len(c.out) /\ Waiting(c) = Waiting(s)
    BY <1>1, <1>2 DEF Waiting
  <2>2. \A n \in 1..Waiting(s) : c.out[c.out_pos + n] = s.out[s.out_pos + n]
    <3> SUFFICES ASSUME NEW n \in 1..Waiting(s)
                 PROVE  c.out[c.out_pos + n] = s.out[s.out_pos + n]
      OBVIOUS
    <3>1. c.out_pos + n = n
      BY <1>1, <1>2
    <3> QED BY <1>1, <3>1
  <2> QED BY <1>1, <2>1, <2>2
<1>7. CASE ~(Len(c.out) + extra > s.out_cap)
           /\ (s.out_pos = Len(s.out) \/ Len(s.out) + extra > s.out_cap)
  <2>1. t = c
    BY <1>3, <1>7
  <2>2. Roomy(c) /\ (granted /\ ~c.refused => Len(c.out) + extra <= c.alloc)
    BY <1>1, <1>2, <1>7 DEF Roomy
  <2> QED BY <1>6, <2>1, <2>2 DEF t
<1>8. CASE ~(Len(c.out) + extra > s.out_cap)
           /\ ~(s.out_pos = Len(s.out) \/ Len(s.out) + extra > s.out_cap)
  <2>1. t = s
    BY <1>3, <1>8
  <2>2. granted /\ ~s.refused => Len(s.out) + extra <= s.alloc
    BY <1>2, <1>8 DEF Roomy
  <2> QED BY <1>5, <2>1, <2>2 DEF t
<1>9. CASE Len(c.out) + extra > s.out_cap
  <2> DEFINE alloc == IF granted THEN cap ELSE c.alloc
             refused == c.refused \/ ~granted
  <2>1. t = [c EXCEPT !.out_cap = cap, !.alloc = alloc, !.refused = refused]
    BY <1>3, <1>9
  <2>2. alloc \in Nat /\ refused \in BOOLEAN
    BY <1>1, <1>2, <1>4
  <2>3. granted => alloc = cap
    OBVIOUS
  <2>4. refused <=> c.refused \/ ~granted
    OBVIOUS
  <2> HIDE DEF alloc, refused
  <2>5. /\ t \in PageStates /\ t.out = c.out /\ t.out_pos = c.out_pos
        /\ SameStart(c, t) /\ SameFlags(c, t) /\ t.next_row = c.next_row
        /\ t.out_cap = cap /\ t.alloc = alloc /\ t.refused = refused
    BY <1>1, <1>4, <2>1, <2>2 DEF PageStates, SameStart, SameFlags
  <2>6. Fits(t)
    <3>1. SameStart(s, t) /\ SameFlags(s, t) /\ t.next_row = s.next_row
      BY <1>1, <2>5 DEF SameStart, SameFlags
    <3>2. Waiting(t) = Waiting(c)
      BY <2>5 DEF Waiting
    <3> QED BY <1>6, <2>5, <3>1, <3>2
  <2>7. Roomy(t) /\ (granted /\ ~t.refused => Len(t.out) + extra <= t.alloc)
    BY <1>1, <1>2, <1>4, <2>3, <2>4, <2>5 DEF Roomy
  <2> QED BY <2>6, <2>7 DEF t
<1> QED BY <1>7, <1>8, <1>9

LEMMA AppendKeeps ==
  ASSUME NEW s \in PageStates, s.out_pos <= Len(s.out), Roomy(s),
         NEW r, r.row \in Nat, r.bytes \in Seq(Bytes),
         Len(r.bytes) = bytes_per_line(s), ~Skipped(s, r)
  PROVE  LET t == append_row(s, r) IN
           /\ t \in PageStates /\ t.out_pos <= Len(t.out) /\ Roomy(t)
           /\ SameStart(s, t) /\ SameFlags(s, t) /\ t.next_row = r.row + 1
           /\ Waiting(t) = Waiting(s) + bytes_per_line(s)
           /\ \A n \in 1..Waiting(s) : t.out[t.out_pos + n] = s.out[s.out_pos + n]
           /\ \A x \in 1..bytes_per_line(s) :
                t.out[t.out_pos + Waiting(s) + x] = r.bytes[x]
<1> DEFINE bpl == bytes_per_line(s)
           u == out_reserve(s, bpl, TRUE)
           t == append_row(s, r)
<1>0. bpl \in Nat
  BY RowLength DEF PageStates
<1>1. /\ u \in PageStates /\ u.out_pos <= Len(u.out) /\ Waiting(u) = Waiting(s)
      /\ SameStart(s, u) /\ SameFlags(s, u) /\ Roomy(u)
      /\ ~u.refused => Len(u.out) + bpl <= u.alloc
      /\ \A n \in 1..Waiting(s) : u.out[u.out_pos + n] = s.out[s.out_pos + n]
  <2> HIDE DEF bpl
  <2> QED BY <1>0, ReserveKeeps
<1>2. t = [u EXCEPT !.out = @ \o r.bytes, !.next_row = r.row + 1]
  BY DEF append_row
<1> HIDE DEF bpl, u, t
<1> DEFINE out == u.out \o r.bytes
<1>3. u.out \in Seq(Bytes) /\ u.out_pos \in Nat /\ Len(u.out) \in Nat /\ Waiting(s) \in Int
      /\ Len(u.out) = u.out_pos + Waiting(s)
  <2>1. u.out \in Seq(Bytes) /\ u.out_pos \in Nat /\ Waiting(u) = Waiting(s)
    BY <1>1 DEF PageStates
  <2>2. Len(u.out) \in Nat
    BY <2>1
  <2> QED BY <2>1, <2>2 DEF Waiting
<1>4. /\ out \in Seq(Bytes) /\ Len(out) = Len(u.out) + bpl
      /\ \A n \in 1..Len(u.out) : out[n] = u.out[n]
      /\ \A x \in 1..bpl : out[Len(u.out) + x] = r.bytes[x]
  <2>1. u.out \in Seq(Bytes) /\ r.bytes \in Seq(Bytes) /\ Len(r.bytes) = bpl
    BY <1>3 DEF bpl
  <2>2. /\ out \in Seq(Bytes) /\ Len(out) = Len(u.out) + Len(r.bytes)
        /\ \A n \in 1..Len(u.out) : out[n] = u.out[n]
        /\ \A x \in 1..Len(r.bytes) : out[Len(u.out) + x] = r.bytes[x]
    <3> DEFINE a == u.out
               b == r.bytes
    <3>1. a \in Seq(Bytes) /\ b \in Seq(Bytes)
      BY <2>1
    <3>2. out = a \o b
      OBVIOUS
    <3> HIDE DEF a, b, out
    <3>3. /\ out \in Seq(Bytes) /\ Len(out) = Len(a) + Len(b)
          /\ \A n \in 1..Len(a) : out[n] = a[n]
          /\ \A x \in 1..Len(b) : out[Len(a) + x] = b[x]
      BY ONLY <3>1, <3>2
    <3> QED BY <3>3 DEF a, b
  <2> QED BY <2>1, <2>2
<1> HIDE DEF out
<1>5. t = [u EXCEPT !.out = out, !.next_row = r.row + 1]
  BY <1>2 DEF out
<1>6. /\ t \in PageStates /\ t.out = out /\ t.out_pos = u.out_pos
      /\ t.next_row = r.row + 1 /\ t.out_cap = u.out_cap /\ t.alloc = u.alloc
      /\ t.refused = u.refused
  <2>1. r.row + 1 \in Nat /\ out \in Seq(Bytes) /\ u \in PageStates
    BY <1>1, <1>4
  <2> QED BY <1>5, <2>1 DEF PageStates
<1>7. SameStart(s, t) /\ SameFlags(s, t)
  <2>1. SameStart(u, t)
    BY <1>1, <1>5 DEF PageStates, SameStart
  <2>2. SameFlags(u, t)
    BY <1>1, <1>5 DEF PageStates, SameFlags
  <2> QED BY <1>1, <2>1, <2>2 DEF SameStart, SameFlags
<1>8. Waiting(t) = Waiting(s) + bpl /\ t.out_pos <= Len(t.out)
  BY <1>0, <1>1, <1>3, <1>4, <1>6 DEF Waiting
<1>9. Roomy(t)
  <2>1. u.refused \/ (u.alloc = u.out_cap /\ Len(out) <= u.alloc)
    BY <1>1, <1>4 DEF Roomy
  <2> QED BY <1>6, <2>1 DEF Roomy
<1>10. ASSUME NEW n \in 1..Waiting(s)
       PROVE  t.out[t.out_pos + n] = s.out[s.out_pos + n]
  <2>1. u.out_pos + n \in 1..Len(u.out)
    BY <1>3
  <2>2. out[u.out_pos + n] = u.out[u.out_pos + n]
    BY <1>4, <2>1
  <2> QED BY <1>1, <1>6, <2>2
<1>11. ASSUME NEW x \in 1..bpl
       PROVE  t.out[t.out_pos + Waiting(s) + x] = r.bytes[x]
  <2>1. t.out_pos + Waiting(s) + x = Len(u.out) + x
    BY <1>0, <1>3, <1>6
  <2> QED BY <1>4, <1>6, <2>1
<1> QED BY <1>6, <1>7, <1>8, <1>9, <1>10, <1>11 DEF t, bpl

(* The states the loop over the rows goes through.                           *)
LEMMA AppendedRuns ==
  ASSUME NEW base, NEW n \in Nat, NEW rows, DOMAIN rows = 1..n
  PROVE  \E f : /\ f[0] = base
                /\ \A k \in 1..n : f[k] = append_row(f[k - 1], rows[k])
                /\ Appended(base, rows) = f[n]
<1> DEFINE Up(it, t) == IF t = {} THEN base ELSE append_row(it[t \ {Max(t)}], rows[Max(t)])
           Covers(it, k) == \A t \in SUBSET (1..k) : it[t] = Up(it, t)
           G == {k \in Nat : k <= n => \E it : Covers(it, k)}
<1>1. 0 \in G
  <2> DEFINE z == [t \in SUBSET (1..0) |-> base]
  <2>1. Covers(z, 0)
    OBVIOUS
  <2> HIDE DEF z, Up, Covers
  <2> QED BY <2>1
<1>2. ASSUME NEW k \in Nat, k \in G PROVE k + 1 \in G
  <2> SUFFICES ASSUME k + 1 <= n PROVE \E it : Covers(it, k + 1)
    <3> HIDE DEF Covers
    <3> QED OBVIOUS
  <2>1. PICK it : Covers(it, k)
    <3> HIDE DEF Covers
    <3> QED BY <1>2
  <2> DEFINE up == [t \in SUBSET (1..(k + 1)) |->
                      IF k + 1 \in t THEN append_row(it[t \ {k + 1}], rows[k + 1]) ELSE it[t]]
  <2>2. ASSUME NEW t \in SUBSET (1..(k + 1)) PROVE up[t] = Up(up, t)
    <3>1. CASE k + 1 \in t
      <4>1. Max(t) \in t /\ \A y \in t : Max(t) >= y
        <5>1. k + 1 \in Nat /\ t # {}
          BY <3>1
        <5> QED BY ONLY <5>1, MaxOf, t \in SUBSET (1..(k + 1))
      <4>2. Max(t) = k + 1
        <5>1. Max(t) \in 1..(k + 1) /\ Max(t) >= k + 1
          BY <3>1, <4>1
        <5> QED BY <5>1
      <4>3. t \ {k + 1} \in SUBSET (1..(k + 1)) /\ k + 1 \notin t \ {k + 1}
        OBVIOUS
      <4>4. up[t] = append_row(it[t \ {k + 1}], rows[k + 1]) /\ up[t \ {k + 1}] = it[t \ {k + 1}]
        BY <3>1, <4>3
      <4>5. Up(up, t) = append_row(up[t \ {k + 1}], rows[k + 1])
        <5> HIDE DEF up
        <5> QED BY <3>1, <4>2
      <4> QED BY <4>4, <4>5
    <3>2. CASE k + 1 \notin t
      <4>1. t \in SUBSET (1..k)
        BY <3>2
      <4>2. up[t] = it[t] /\ it[t] = Up(it, t)
        BY <2>1, <3>2, <4>1
      <4>3. CASE t = {}
        BY <4>2, <4>3
      <4>4. CASE t # {}
        <5>1. Max(t) \in t
          BY <4>1, <4>4, MaxOf
        <5>2. t \ {Max(t)} \in SUBSET (1..(k + 1)) /\ k + 1 \notin t \ {Max(t)}
          BY <3>2
        <5>3. up[t \ {Max(t)}] = it[t \ {Max(t)}]
          BY <5>2
        <5> HIDE DEF up
        <5> QED BY <4>2, <4>4, <5>3
      <4> QED BY <4>3, <4>4
    <3> QED BY <3>1, <3>2
  <2>3. Covers(up, k + 1)
    <3> HIDE DEF up, Up
    <3> QED BY <2>2
  <2> HIDE DEF up, Covers
  <2> QED BY <2>3
<1> HIDE DEF G
<1>3. n \in G
  BY <1>1, <1>2, NatInduct
<1>4. PICK it : Covers(it, n)
  <2> HIDE DEF Covers
  <2> QED BY <1>3 DEF G
<1> DEFINE Table(f) == f = [t \in SUBSET (1..n) |-> Up(f, t)]
           fun == [t \in SUBSET (1..n) |-> it[t]]
<1>5. Table(fun)
  <2>1. ASSUME NEW t \in SUBSET (1..n) PROVE fun[t] = Up(fun, t)
    <3>1. t \ {Max(t)} \in SUBSET (1..n)
      OBVIOUS
    <3>2. fun[t] = it[t] /\ fun[t \ {Max(t)}] = it[t \ {Max(t)}]
      BY <3>1
    <3> HIDE DEF fun
    <3> QED BY <1>4, <3>2
  <2>2. fun = [t \in SUBSET (1..n) |-> fun[t]]
    OBVIOUS
  <2> HIDE DEF fun, Up
  <2> QED BY <2>1, <2>2
<1> DEFINE chosen == CHOOSE f : Table(f)
<1>6. Table(chosen)
  <2> HIDE DEF Table, fun
  <2> QED BY <1>5
<1>7. Appended(base, rows) = chosen[1..n]
  BY DEF Appended, FoldLeft, MapThenFoldSet
<1> HIDE DEF chosen
<1> DEFINE run == [k \in 0..n |-> chosen[1..k]]
<1>8. run[0] = base
  <2>1. 1..0 = {} /\ {} \in SUBSET (1..n)
    OBVIOUS
  <2>2. chosen[{}] = base
    BY <1>6, <2>1
  <2> QED BY <2>1, <2>2
<1>9. ASSUME NEW k \in 1..n PROVE run[k] = append_row(run[k - 1], rows[k])
  <2>1. 1..k \in SUBSET (1..n) /\ 1..k # {} /\ k \in 1..k /\ k \in Nat
    OBVIOUS
  <2>2. Max(1..k) \in 1..k /\ Max(1..k) >= k
    BY <2>1, MaxOf
  <2>3. Max(1..k) = k
    BY <2>2
  <2>4. (1..k) \ {k} = 1..(k - 1)
    OBVIOUS
  <2>5. chosen[1..k] = append_row(chosen[1..(k - 1)], rows[k])
    BY <1>6, <2>1, <2>3, <2>4
  <2>6. k - 1 \in 0..n /\ k \in 0..n
    OBVIOUS
  <2> QED BY <2>5, <2>6
<1>10. Appended(base, rows) = run[n]
  BY <1>7
<1> HIDE DEF run
<1> QED BY <1>8, <1>9, <1>10

-----------------------------------------------------------------------------
(* What the page is. *)

LEMMA MinIn ==
  ASSUME NEW S \in SUBSET Nat, S # {}
  PROVE  Min(S) \in S /\ \A y \in S : Min(S) <= y
<1>1. \E x \in S : \A y \in S : x <= y
  BY LeastOf
<1> QED BY <1>1 DEF Min

LEMMA SamePage ==
  ASSUME NEW s, NEW t, SameStart(s, t)
  PROVE  /\ bytes_per_line(s) = bytes_per_line(t)
         /\ \A r : Reaching(s, r) = Reaching(t, r)
         /\ \A r, x : RowByte(s, r, x) = RowByte(t, r, x)
         /\ \A n : PageByte(s, n) = PageByte(t, n)
<1>1. bytes_per_line(s) = bytes_per_line(t)
  BY DEF SameStart, bytes_per_line
<1>2. ASSUME NEW r PROVE Reaching(s, r) = Reaching(t, r)
  BY DEF SameStart, Reaching
<1>3. ASSUME NEW r, NEW col PROVE Pixel(s, r, col) = Pixel(t, r, col)
  BY <1>2 DEF SameStart, Pixel
<1>4. ASSUME NEW r, NEW col PROVE Cut(s, r, col) = Cut(t, r, col)
  BY DEF SameStart, Cut
<1>5. ASSUME NEW r, NEW x PROVE RowByte(s, r, x) = RowByte(t, r, x)
  <2> DEFINE Dot(u, c) ==
               IF c >= u.pixels \/ Pixel(u, r, c) = Paper THEN Paper
               ELSE <<Pixel(u, r, c)[1], Pixel(u, r, c)[2] + c, Cut(u, r, c)>>
  <2>1. s.mode = t.mode /\ s.pixels = t.pixels
    BY DEF SameStart
  <2>2. ASSUME NEW c PROVE Dot(s, c) = Dot(t, c)
    BY <1>3, <1>4, <2>1
  <2>3. CASE Bilevel(s.mode)
    <3>1. RowByte(s, r, x) = [j \in 0..(Bits - 1) |-> Dot(s, x * Bits + j)]
      BY <2>3 DEF RowByte
    <3>2. RowByte(t, r, x) = [j \in 0..(Bits - 1) |-> Dot(t, x * Bits + j)]
      BY <2>1, <2>3 DEF RowByte
    <3> HIDE DEF Dot
    <3> QED BY <2>2, <3>1, <3>2
  <2>4. CASE ~Bilevel(s.mode)
    BY <1>3, <2>1, <2>4 DEF RowByte
  <2> QED BY <2>3, <2>4
<1> QED BY <1>1, <1>2, <1>5 DEF PageByte

LEMMA PageByteAt ==
  ASSUME NEW q \in PageStates, NEW r \in Nat, NEW x \in 1..bytes_per_line(q)
  PROVE  PageByte(q, r * bytes_per_line(q) + x - 1) = RowByte(q, r, x - 1)
<1> DEFINE bpl == bytes_per_line(q)
           n == r * bpl + x - 1
<1>1. bpl \in Nat
  BY RowLength DEF PageStates
<1> HIDE DEF bpl
<1>2. bpl \in Nat \ {0} /\ x - 1 \in 0..(bpl - 1)
  BY <1>1 DEF bpl
<1>3. n = r * bpl + (x - 1)
  BY <1>1, <1>2
<1>4. (r * bpl + (x - 1)) \div bpl = r /\ (r * bpl + (x - 1)) % bpl = x - 1
  BY ONLY <1>2, r \in Int, DivIs
<1>5. n \div bpl = r /\ n % bpl = x - 1
  BY <1>3, <1>4
<1> HIDE DEF n
<1>6. PageByte(q, n) = RowByte(q, r, x - 1)
  BY <1>5 DEF PageByte, bpl
<1> QED BY <1>6 DEF n, bpl

LEMMA MaskCell ==
  ASSUME NEW row \in Nat, NEW col \in Nat
  PROVE  ((row % Size) * Size) + (col % Size) \in Cells
<1>1. Size \in Nat \ {0}
  BY MaskConstants
<1> DEFINE a == row % Size
           b == col % Size
<1>2. a \in 0..(Size - 1) /\ b \in 0..(Size - 1)
  BY <1>1
<1> HIDE DEF a, b
<1>3. a * Size <= (Size - 1) * Size /\ (Size - 1) * Size = N - Size
      /\ a * Size \in Nat /\ N \in Nat
  <2>1. a * Size <= (Size - 1) * Size
    BY <1>1, <1>2, TimesOrder
  <2>2. a * Size \in Nat
    BY <1>1, <1>2
  <2> QED BY <1>1, <2>1, <2>2 DEF N
<1>4. (a * Size) + b \in 0..(N - 1)
  BY <1>1, <1>2, <1>3
<1> QED BY <1>4 DEF a, b, Cells

LEMMA CutType ==
  ASSUME m \in DitherStates, NEW q \in PageStates, NEW row \in Nat, NEW col \in Nat
  PROVE  Cut(q, row, col) \in Int
<1>1. m.mask \in [Cells -> Int] /\ q.threshold \in Int
  BY DEF DitherStates, PageStates
<1>2. m.mask[((row % Size) * Size) + (col % Size)] \in Int
  BY <1>1, MaskCell
<1> QED BY <1>1, <1>2 DEF Cut

LEMMA ReachingType ==
  ASSUME NEW q \in PageStates, NEW r \in Nat
  PROVE  /\ Reaching(q, r) \in SUBSET (1..Len(q.blocks)) /\ Len(q.blocks) \in Nat
         /\ \A k \in 1..Len(q.blocks) : q.blocks[k] \in Blocks
         /\ Reaching(q, r) # {} => Min(Reaching(q, r)) \in Reaching(q, r)
<1>1. q.blocks \in Seq(Blocks)
  BY DEF PageStates
<1>2. Reaching(q, r) \in SUBSET (1..Len(q.blocks))
  BY DEF Reaching
<1>3. Len(q.blocks) \in Nat /\ \A k \in 1..Len(q.blocks) : q.blocks[k] \in Blocks
  BY <1>1
<1>4. Reaching(q, r) \in SUBSET Nat
  BY <1>2, <1>3
<1> QED BY <1>2, <1>3, <1>4, MinIn

LEMMA PixelType ==
  ASSUME NEW q \in PageStates, NEW r \in Nat, NEW col \in Nat
  PROVE  Pixel(q, r, col) \in {Paper} \cup (Int \X Int)
<1> DEFINE k == Min(Reaching(q, r))
<1>1. CASE Reaching(q, r) # {}
  <2>1. k \in 1..Len(q.blocks) /\ Len(q.blocks) \in Nat /\ q.blocks[k] \in Blocks
    BY <1>1, ReachingType
  <2> HIDE DEF k
  <2>2. k \in Int /\ (r - q.blocks[k].first) * q.blocks[k].stride \in Int
    <3>1. q.blocks[k].first \in Int /\ q.blocks[k].stride \in Int
      BY <2>1 DEF Blocks
    <3> QED BY <2>1, <3>1
  <2> QED BY <2>2 DEF Pixel, k
<1>2. CASE Reaching(q, r) = {}
  BY <1>2 DEF Pixel
<1> QED BY <1>1, <1>2

LEMMA RowByteType ==
  ASSUME m \in DitherStates, NEW q \in PageStates, NEW r \in Nat, NEW x \in Nat
  PROVE  RowByte(q, r, x) \in Bytes
<1> DEFINE col == IF q.mode = "colour" THEN x \div 3 ELSE x
           at == IF q.mode = "colour" THEN 3 * col + 2 - (x % 3) ELSE x
           Dot(c) == IF c >= q.pixels \/ Pixel(q, r, c) = Paper THEN Paper
                     ELSE <<Pixel(q, r, c)[1], Pixel(q, r, c)[2] + c, Cut(q, r, c)>>
<1>0. Bits \in Nat \ {0}
  BY PathAssumption
<1>1. CASE Bilevel(q.mode)
  <2>1. ASSUME NEW c \in Nat PROVE Dot(c) \in Samples
    <3>1. Pixel(q, r, c) = Paper \/ Pixel(q, r, c) \in Int \X Int
      BY PixelType
    <3>2. Cut(q, r, c) \in Int
      BY CutType
    <3>3. CASE Pixel(q, r, c) = Paper
      BY <3>3 DEF Samples
    <3>4. CASE Pixel(q, r, c) # Paper
      <4>1. Pixel(q, r, c)[1] \in Int /\ Pixel(q, r, c)[2] + c \in Int
        BY <3>1, <3>4
      <4> QED BY <3>2, <4>1 DEF Samples
    <3> QED BY <3>3, <3>4
  <2>2. \A j \in 0..(Bits - 1) : x * Bits + j \in Nat
    BY <1>0
  <2>3. RowByte(q, r, x) = [j \in 0..(Bits - 1) |-> Dot(x * Bits + j)]
    BY <1>1 DEF RowByte
  <2> HIDE DEF Dot
  <2>4. [j \in 0..(Bits - 1) |-> Dot(x * Bits + j)] \in [0..(Bits - 1) -> Samples]
    BY <2>1, <2>2
  <2> QED BY <2>3, <2>4 DEF Bytes
<1>2. CASE ~Bilevel(q.mode)
  <2>1. col \in Nat /\ at \in Int
    OBVIOUS
  <2>2. RowByte(q, r, x) = IF Pixel(q, r, col) = Paper THEN Paper
                           ELSE <<Pixel(q, r, col)[1], Pixel(q, r, col)[2] + at>>
    BY <1>2 DEF RowByte
  <2> HIDE DEF col, at
  <2>3. Pixel(q, r, col) = Paper \/ Pixel(q, r, col) \in Int \X Int
    BY <2>1, PixelType
  <2>4. CASE Pixel(q, r, col) = Paper
    BY <2>2, <2>4 DEF Bytes, Samples
  <2>5. CASE Pixel(q, r, col) # Paper
    <3>1. Pixel(q, r, col)[1] \in Int /\ Pixel(q, r, col)[2] + at \in Int
      BY <2>1, <2>3, <2>5
    <3> QED BY <2>2, <2>5, <3>1 DEF Bytes, Samples
  <2> QED BY <2>4, <2>5
<1> QED BY <1>1, <1>2

(* A row with nothing to see.                                                *)
LEMMA BlankByte ==
  ASSUME NEW q \in PageStates, NEW r \in Nat, NEW x \in Nat,
         \A col \in Nat : Pixel(q, r, col) = Paper
  PROVE  RowByte(q, r, x) = Blank(q.mode)
<1>0. Bits \in Nat \ {0}
  BY PathAssumption
<1>1. CASE Bilevel(q.mode)
  <2>1. \A j \in 0..(Bits - 1) : Pixel(q, r, x * Bits + j) = Paper
    BY <1>0
  <2> QED BY <1>1, <2>1 DEF RowByte, Blank
<1>2. CASE ~Bilevel(q.mode)
  <2>1. x \div 3 \in Nat
    OBVIOUS
  <2> QED BY <1>2, <2>1 DEF RowByte, Blank
<1> QED BY <1>1, <1>2

-----------------------------------------------------------------------------
(* The rows of a block and the rows of a gap are those of the page. *)

RowRight(q, r) ==
  /\ r.bytes \in Seq(Bytes) /\ Len(r.bytes) = bytes_per_line(q)
  /\ \A x \in 1..bytes_per_line(q) : r.bytes[x] = RowByte(q, r.row, x - 1)

LEMMA RightFromBytes ==
  ASSUME m \in DitherStates, NEW q \in PageStates, NEW r, r.row \in Nat,
         r.bytes = [x \in 1..bytes_per_line(q) |-> RowByte(q, r.row, x - 1)]
  PROVE  RowRight(q, r)
<1> DEFINE bpl == bytes_per_line(q)
           bytes == [x \in 1..bpl |-> RowByte(q, r.row, x - 1)]
<1>1. bpl \in Nat
  BY RowLength DEF PageStates
<1> HIDE DEF bpl
<1>2. ASSUME NEW x \in 1..bpl PROVE RowByte(q, r.row, x - 1) \in Bytes
  <2>1. x - 1 \in Nat
    BY <1>1
  <2> QED BY <2>1, RowByteType
<1>3. bytes \in Seq(Bytes) /\ Len(bytes) = bpl
  BY <1>1, <1>2
<1>4. \A x \in 1..bpl : bytes[x] = RowByte(q, r.row, x - 1)
  OBVIOUS
<1>5. r.bytes = bytes
  BY DEF bpl
<1> HIDE DEF bytes
<1> QED BY <1>3, <1>4, <1>5 DEF RowRight, bpl

LEMMA WhiteRight ==
  ASSUME m \in DitherStates, NEW q \in PageStates, NEW s, SameStart(s, q),
         NEW row \in Nat, \A k \in Reaching(q, row) : row < q.blocks[k].first
  PROVE  RowRight(q, WhiteRow(s, row))
<1>1. ASSUME NEW col \in Nat PROVE Pixel(q, row, col) = Paper
  <2>1. CASE Reaching(q, row) = {}
    BY <2>1 DEF Pixel
  <2>2. CASE Reaching(q, row) # {}
    <3>1. row < q.blocks[Min(Reaching(q, row))].first
      BY <2>2, ReachingType
    <3> QED BY <3>1 DEF Pixel
  <2> QED BY <2>1, <2>2
<1> DEFINE bpl == bytes_per_line(q)
<1>2. bpl \in Nat
  BY RowLength DEF PageStates
<1>3. ASSUME NEW x \in 1..bpl PROVE RowByte(q, row, x - 1) = Blank(q.mode)
  <2>1. x - 1 \in Nat
    BY <1>2
  <2> QED BY <1>1, <2>1, BlankByte
<1>4. s.mode = q.mode /\ bytes_per_line(s) = bpl
  BY SamePage DEF SameStart
<1> HIDE DEF bpl
<1>5. WhiteRow(s, row).row = row
      /\ WhiteRow(s, row).bytes = [x \in 1..bpl |-> Blank(q.mode)]
  BY <1>4 DEF WhiteRow
<1>6. WhiteRow(s, row).bytes = [x \in 1..bpl |-> RowByte(q, row, x - 1)]
  BY <1>3, <1>5
<1> QED BY <1>5, <1>6, RightFromBytes DEF bpl

(* What a pixel of the page is when only block k reaches its row.            *)
LEMMA PixelOfBlock ==
  ASSUME NEW q \in PageStates, NEW k \in 1..Len(q.blocks), NEW i \in Nat,
         i < q.blocks[k].rows, NEW row \in Nat, row = q.blocks[k].first + i,
         row < q.lines, Reaching(q, row) = {k}, NEW col \in Nat
  PROVE  Pixel(q, row, col)
           = IF InMargin(q, row) \/ col >= q.pixels \/ ~Shown(q, q.blocks[k], col)
             THEN Paper ELSE <<k, i * q.blocks[k].stride>>
<1> DEFINE b == q.blocks[k]
<1>1. b \in Blocks
  BY DEF PageStates
<1>2. b.first \in Nat /\ b.avail \in Nat /\ b.stride \in Nat
  BY <1>1 DEF Blocks
<1>3. /\ q.white.top \in Nat /\ q.white.bottom \in Nat
      /\ q.white.left \in Nat /\ q.white.right \in Nat
      /\ q.pixels \in Nat /\ q.lines \in Int
  <2>1. q.white \in Margins /\ q.pixels \in Nat /\ q.lines \in 0..Wrap
    BY DEF PageStates
  <2> QED BY <2>1, PathAssumption DEF Margins
<1>4. Min(Reaching(q, row)) = k
  <2>1. Min({k}) = k
    BY DEF Min
  <2> QED BY <2>1
<1>5. row - b.first = i /\ ~(row < b.first)
  BY <1>2
<1>6. Min({q.white.left, q.pixels})
        = IF q.white.left <= q.pixels THEN q.white.left ELSE q.pixels
  BY <1>3, MinPair
<1>7. Min({q.white.right, q.pixels})
        = IF q.white.right <= q.pixels THEN q.white.right ELSE q.pixels
  BY <1>3, MinPair
<1>8. Pixel(q, row, col)
        = IF \/ row < q.white.top \/ row >= q.lines - q.white.bottom
             \/ col < q.white.left \/ col >= q.pixels - q.white.right \/ col >= b.avail
          THEN Paper ELSE <<k, i * b.stride>>
  <2> HIDE DEF b
  <2>1. Reaching(q, row) # {} /\ q.blocks[k] = b
    BY DEF b
  <2> QED BY <1>4, <1>5, <2>1 DEF Pixel
<1>9. InMargin(q, row) <=> row < q.white.top \/ row >= q.lines - q.white.bottom
  BY <1>3 DEF InMargin
<1> HIDE DEF b
<1>10. col >= q.pixels \/ ~Shown(q, b, col)
         <=> \/ col < q.white.left \/ col >= q.pixels - q.white.right \/ col >= b.avail
  BY <1>2, <1>3, <1>6, <1>7 DEF Shown
<1>11. Pixel(q, row, col)
         = IF InMargin(q, row) \/ col >= q.pixels \/ ~Shown(q, b, col)
           THEN Paper ELSE <<k, i * b.stride>>
  BY <1>8, <1>9, <1>10
<1> QED BY <1>11 DEF b

(* convert_row: blue first in colour, one sample a pixel in grey, a bit a    *)
(* pixel otherwise.                                                          *)
LEMMA DataRight ==
  ASSUME m \in DitherStates, NEW q \in PageStates, NEW k \in 1..Len(q.blocks),
         NEW i \in Nat, i < q.blocks[k].rows, NEW row \in Nat,
         row = q.blocks[k].first + i, row < q.lines, Reaching(q, row) = {k}
  PROVE  RowRight(q, convert_row(q, q.blocks[k], k, i, row))
<1> DEFINE b == q.blocks[k]
           bpl == bytes_per_line(q)
           r == convert_row(q, b, k, i, row)
           Sample(col, at) == IF Shown(q, b, col) THEN <<k, i * b.stride + at>> ELSE Paper
           Bit(col) == IF Shown(q, b, col)
                       THEN <<k, i * b.stride + col, Cut(q, row, col)>> ELSE Paper
           Byte(y) ==
             CASE q.mode = "colour" -> Sample(y \div 3, 3 * (y \div 3) + 2 - (y % 3))
               [] q.mode = "gray" -> Sample(y, y)
               [] OTHER -> [j \in 0..(Bits - 1) |-> Bit(y * Bits + j)]
<1>0. bpl \in Nat /\ Bits \in Nat \ {0} /\ q.pixels \in Nat /\ q.mode \in Modes
  BY RowLength, PathAssumption DEF PageStates
<1>1. r.row = row /\ r.bytes = IF InMargin(q, row) THEN WhiteRow(q, row).bytes
                                ELSE [x \in 1..bpl |-> Byte(x - 1)]
  BY DEF convert_row
<1> HIDE DEF r
<1>2. ASSUME NEW col \in Nat
      PROVE  Pixel(q, row, col) = IF InMargin(q, row) \/ col >= q.pixels \/ ~Shown(q, b, col)
                                  THEN Paper ELSE <<k, i * b.stride>>
  BY PixelOfBlock
<1>3. CASE InMargin(q, row)
  <2>1. \A col \in Nat : Pixel(q, row, col) = Paper
    BY <1>2, <1>3
  <2>2. \A x \in 1..bpl : x - 1 \in Nat
    BY <1>0
  <2> HIDE DEF bpl
  <2>3. \A x \in 1..bpl : RowByte(q, row, x - 1) = Blank(q.mode)
    BY <2>1, <2>2, BlankByte
  <2>4. r.bytes = [x \in 1..bpl |-> Blank(q.mode)]
    BY <1>1, <1>3 DEF WhiteRow, bpl
  <2>5. r.bytes = [x \in 1..bpl |-> RowByte(q, r.row, x - 1)]
    BY <1>1, <2>3, <2>4
  <2> QED BY <1>1, <2>5, RightFromBytes DEF r, bpl
<1>4. CASE ~InMargin(q, row)
  <2>1. b.stride \in Nat
    <3>1. q.blocks \in Seq(Blocks)
      BY DEF PageStates
    <3>2. b \in Blocks
      BY <3>1
    <3> QED BY <3>2 DEF Blocks
  <2> DEFINE of == i * b.stride
  <2>2. of \in Int
    BY <2>1
  <2>3. ASSUME NEW col \in Nat
        PROVE  Pixel(q, row, col) = IF col >= q.pixels \/ ~Shown(q, b, col)
                                    THEN Paper ELSE <<k, of>>
    BY <1>2, <1>4
  <2>4. ASSUME NEW col \in Nat, col >= q.pixels PROVE ~Shown(q, b, col)
    <3>1. q.white.right \in Nat
      BY DEF PageStates, Margins
    <3> DEFINE cut == Min({q.white.right, q.pixels})
    <3>2. cut = IF q.white.right <= q.pixels THEN q.white.right ELSE q.pixels
      BY <1>0, <3>1, MinPair
    <3> HIDE DEF cut
    <3>3. cut \in Nat
      BY <1>0, <3>1, <3>2
    <3>4. ~(col < q.pixels - cut)
      BY <1>0, <2>4, <3>3
    <3> QED BY <3>4 DEF Shown, cut
  <2>5. \A z : <<k, z>> # Paper
    BY DEF Paper
  <2>6. ASSUME NEW y \in 0..(bpl - 1) PROVE Byte(y) = RowByte(q, row, y)
    <3>0. y \in Nat
      BY <1>0
    <3>1. CASE q.mode = "colour"
      <4> DEFINE col == y \div 3
                 at == 3 * col + 2 - (y % 3)
      <4>1. bpl = 3 * q.pixels
        BY <3>1 DEF bytes_per_line
      <4>2. col \in Nat /\ col < q.pixels /\ at \in Int
        <5>1. y \in 0..(3 * q.pixels - 1)
          BY <4>1
        <5> QED BY <1>0, <3>0, <5>1
      <4>3. RowByte(q, row, y) = IF Pixel(q, row, col) = Paper THEN Paper
              ELSE <<Pixel(q, row, col)[1], Pixel(q, row, col)[2] + at>>
        BY <3>1 DEF RowByte, Bilevel
      <4>4. Byte(y) = IF Shown(q, b, col) THEN <<k, of + at>> ELSE Paper
        BY <3>1
      <4> HIDE DEF col, at, of, Byte
      <4>5. Pixel(q, row, col) = IF ~Shown(q, b, col) THEN Paper ELSE <<k, of>>
        BY <1>0, <2>3, <4>2
      <4> QED BY <2>5, <4>3, <4>4, <4>5
    <3>2. CASE q.mode = "gray"
      <4>1. bpl = q.pixels
        BY <3>2 DEF bytes_per_line
      <4>2. y < q.pixels
        BY <1>0, <4>1
      <4>3. RowByte(q, row, y) = IF Pixel(q, row, y) = Paper THEN Paper
              ELSE <<Pixel(q, row, y)[1], Pixel(q, row, y)[2] + y>>
        BY <3>2 DEF RowByte, Bilevel
      <4>4. Byte(y) = IF Shown(q, b, y) THEN <<k, of + y>> ELSE Paper
        BY <3>2
      <4> HIDE DEF of, Byte
      <4>5. Pixel(q, row, y) = IF ~Shown(q, b, y) THEN Paper ELSE <<k, of>>
        BY <1>0, <2>3, <3>0, <4>2
      <4> QED BY <2>5, <4>3, <4>4, <4>5
    <3>3. CASE q.mode \notin {"colour", "gray"}
      <4> DEFINE Dot(c) == IF c >= q.pixels \/ Pixel(q, row, c) = Paper THEN Paper
                 ELSE <<Pixel(q, row, c)[1], Pixel(q, row, c)[2] + c, Cut(q, row, c)>>
      <4>1. Bilevel(q.mode)
        BY <1>0, <3>3 DEF Bilevel, Modes
      <4>2. RowByte(q, row, y) = [j \in 0..(Bits - 1) |-> Dot(y * Bits + j)]
        BY <4>1 DEF RowByte
      <4>3. Byte(y) = [j \in 0..(Bits - 1) |-> Bit(y * Bits + j)]
        BY <3>3
      <4>4. ASSUME NEW c \in Nat PROVE Bit(c) = Dot(c)
        <5>1. Bit(c) = IF Shown(q, b, c) THEN <<k, of + c, Cut(q, row, c)>> ELSE Paper
          OBVIOUS
        <5>2. Pixel(q, row, c) = IF c >= q.pixels \/ ~Shown(q, b, c) THEN Paper ELSE <<k, of>>
          BY <2>3
        <5>3. CASE c >= q.pixels
          BY <2>4, <5>3
        <5>4. CASE ~(c >= q.pixels) /\ ~Shown(q, b, c)
          BY <5>2, <5>4
        <5>5. CASE ~(c >= q.pixels) /\ Shown(q, b, c)
          <6>1. Pixel(q, row, c) = <<k, of>>
            BY <5>2, <5>5
          <6> HIDE DEF of
          <6>2. Dot(c) = <<k, of + c, Cut(q, row, c)>>
            BY <2>5, <5>5, <6>1
          <6> QED BY <5>1, <5>5, <6>2
        <5> QED BY <5>3, <5>4, <5>5
      <4>5. \A j \in 0..(Bits - 1) : y * Bits + j \in Nat
        BY <1>0, <3>0
      <4> HIDE DEF Bit, Dot, Byte
      <4> QED BY <4>2, <4>3, <4>4, <4>5
    <3> QED BY <3>1, <3>2, <3>3
  <2> HIDE DEF Byte, bpl
  <2>7. \A x \in 1..bpl : x - 1 \in 0..(bpl - 1)
    BY <1>0
  <2>8. \A x \in 1..bpl : Byte(x - 1) = RowByte(q, row, x - 1)
    BY <2>6, <2>7
  <2>9. r.bytes = [x \in 1..bpl |-> RowByte(q, r.row, x - 1)]
    BY <1>1, <1>4, <2>8
  <2> QED BY <1>1, <2>9, RightFromBytes DEF r, bpl
<1> QED BY <1>3, <1>4

-----------------------------------------------------------------------------
(* The loop over the rows of a block or a gap. *)

(* s is on its way to hold page q, and what waits in it is the page from the *)
(* byte on that the frontend gets next.                                      *)
Stream(q, s) ==
  /\ s \in PageStates /\ s.out_pos <= Len(s.out) /\ Roomy(s)
  /\ SameStart(q, s) /\ SameFlags(q, s) /\ s.next_row <= s.lines
  /\ \A n \in 1..Waiting(s) : s.out[s.out_pos + n] = PageByte(q, s.got + n - 1)
  /\ s.got + Waiting(s) = s.next_row * bytes_per_line(q)

(* The rows come in the order of the page, but for those that are skipped:   *)
(* next[j] is the page's next row when j of them have been looked at.        *)
Ordered(q, rows, n, next) ==
  \A j \in 1..n :
    IF rows[j].wrapped \/ rows[j].row < next[j - 1] \/ rows[j].row >= q.lines
    THEN next[j] = next[j - 1]
    ELSE rows[j].row = next[j - 1] /\ next[j] = next[j - 1] + 1 /\ RowRight(q, rows[j])

LEMMA StreamAppends ==
  ASSUME NEW q \in PageStates, NEW s, Stream(q, s), NEW r, RowRight(q, r),
         ~Skipped(s, r), r.row = s.next_row
  PROVE  Stream(q, append_row(s, r)) /\ append_row(s, r).next_row = s.next_row + 1
<1> DEFINE t == append_row(s, r)
           bpl == bytes_per_line(q)
<1>1. /\ s \in PageStates /\ s.out_pos <= Len(s.out) /\ Roomy(s)
      /\ SameStart(q, s) /\ SameFlags(q, s)
      /\ s.got + Waiting(s) = s.next_row * bpl
      /\ \A n \in 1..Waiting(s) : s.out[s.out_pos + n] = PageByte(q, s.got + n - 1)
  BY DEF Stream
<1>2. /\ s.next_row \in Nat /\ s.lines \in Int /\ s.got \in Nat /\ s.out_pos \in Nat
      /\ Len(s.out) \in Nat /\ Waiting(s) \in Nat /\ bpl \in Nat /\ s.next_row * bpl \in Int
  <2>1. /\ s.next_row \in Nat /\ s.lines \in 0..Wrap /\ s.got \in Nat /\ s.out_pos \in Nat
        /\ s.out \in Seq(Bytes)
    BY <1>1 DEF PageStates
  <2>2. bpl \in Nat
    BY RowLength DEF PageStates
  <2> HIDE DEF bpl
  <2>3. s.next_row * bpl \in Int /\ Len(s.out) \in Nat
    BY <2>1, <2>2
  <2>4. s.lines \in Int
    BY <2>1, PathAssumption
  <2> QED BY <1>1, <2>1, <2>2, <2>3, <2>4 DEF Waiting
<1>3. bytes_per_line(s) = bpl
  BY <1>1, SamePage
<1>4. r.bytes \in Seq(Bytes) /\ Len(r.bytes) = bpl
      /\ \A x \in 1..bpl : r.bytes[x] = RowByte(q, s.next_row, x - 1)
  BY DEF RowRight
<1>5. /\ t \in PageStates /\ t.out_pos <= Len(t.out) /\ Roomy(t)
      /\ SameStart(s, t) /\ SameFlags(s, t) /\ t.next_row = s.next_row + 1
      /\ Waiting(t) = Waiting(s) + bpl
      /\ \A n \in 1..Waiting(s) : t.out[t.out_pos + n] = s.out[s.out_pos + n]
      /\ \A x \in 1..bpl : t.out[t.out_pos + Waiting(s) + x] = r.bytes[x]
  <2>1. r.row \in Nat
    BY <1>2
  <2>2. Len(r.bytes) = bytes_per_line(s)
    BY <1>3, <1>4
  <2>3. s \in PageStates /\ s.out_pos <= Len(s.out) /\ Roomy(s) /\ r.bytes \in Seq(Bytes)
    BY <1>1, <1>4
  <2> HIDE DEF bpl, t
  <2>4. LET w == append_row(s, r) IN
          /\ w \in PageStates /\ w.out_pos <= Len(w.out) /\ Roomy(w)
          /\ SameStart(s, w) /\ SameFlags(s, w) /\ w.next_row = r.row + 1
          /\ Waiting(w) = Waiting(s) + bytes_per_line(s)
          /\ \A n \in 1..Waiting(s) : w.out[w.out_pos + n] = s.out[s.out_pos + n]
          /\ \A x \in 1..bytes_per_line(s) :
               w.out[w.out_pos + Waiting(s) + x] = r.bytes[x]
    BY ONLY <2>1, <2>2, <2>3, ~Skipped(s, r), AppendKeeps
  <2> QED BY <1>3, <2>4 DEF t
<1> HIDE DEF t, bpl
<1>6. SameStart(q, t) /\ SameFlags(q, t) /\ t.got = s.got /\ t.lines = s.lines
      /\ t.out_pos \in Nat
  BY <1>1, <1>5 DEF SameStart, SameFlags, PageStates
<1>7. t.next_row <= t.lines
  BY <1>2, <1>5, <1>6 DEF Skipped
<1>8. t.got + Waiting(t) = t.next_row * bpl
  <2>1. (s.next_row + 1) * bpl = s.next_row * bpl + bpl
    BY <1>2
  <2> DEFINE before == s.next_row * bpl
             after == (s.next_row + 1) * bpl
  <2>2. /\ after = before + bpl /\ before \in Int /\ bpl \in Int
        /\ s.got + Waiting(s) = before /\ s.got \in Int /\ Waiting(s) \in Int
    BY <1>1, <1>2, <2>1
  <2>3. t.got + Waiting(t) = s.got + (Waiting(s) + bpl) /\ t.next_row = s.next_row + 1
    BY <1>5, <1>6
  <2> HIDE DEF before, after
  <2>4. s.got + (Waiting(s) + bpl) = after
    BY ONLY <2>2
  <2> QED BY <2>3, <2>4 DEF after
<1>9. ASSUME NEW n \in 1..Waiting(t)
      PROVE  t.out[t.out_pos + n] = PageByte(q, t.got + n - 1)
  <2>1. CASE n <= Waiting(s)
    <3>1. n \in 1..Waiting(s)
      BY <1>2, <1>5, <2>1
    <3> QED BY <1>1, <1>5, <1>6, <3>1
  <2>2. CASE ~(n <= Waiting(s))
    <3> DEFINE x == n - Waiting(s)
    <3>1. x \in 1..bpl /\ n = Waiting(s) + x
      BY <1>2, <1>5, <2>2
    <3> HIDE DEF x
    <3>2. t.out_pos + n = t.out_pos + Waiting(s) + x
      BY <1>2, <1>6, <3>1
    <3>3. t.got + n - 1 = s.next_row * bpl + x - 1
      <4> DEFINE done == s.next_row * bpl
      <4>1. s.got + Waiting(s) = done /\ done \in Int /\ s.got \in Int
            /\ Waiting(s) \in Int /\ t.got = s.got
        BY <1>1, <1>2, <1>6
      <4>2. x \in Int /\ n = Waiting(s) + x
        BY <1>2, <3>1
      <4> HIDE DEF done
      <4>3. s.got + (Waiting(s) + x) - 1 = done + x - 1
        BY <4>1, <4>2
      <4> QED BY <4>1, <4>2, <4>3 DEF done
    <3>4. PageByte(q, s.next_row * bpl + x - 1) = RowByte(q, s.next_row, x - 1)
      BY <1>2, <3>1, PageByteAt DEF bpl
    <3> QED BY <1>4, <1>5, <3>1, <3>2, <3>3, <3>4
  <2> QED BY <2>1, <2>2
<1>10. Stream(q, t)
  BY <1>5, <1>6, <1>7, <1>8, <1>9 DEF Stream, bpl
<1> QED BY <1>5, <1>10 DEF t

LEMMA LoopKeeps ==
  ASSUME NEW q \in PageStates, NEW s, Stream(q, s), NEW n \in Nat,
         NEW rows, DOMAIN rows = 1..n, NEW next, next[0] = s.next_row,
         Ordered(q, rows, n, next)
  PROVE  Stream(q, Appended(s, rows)) /\ Appended(s, rows).next_row = next[n]
<1>1. PICK f : /\ f[0] = s
               /\ \A k \in 1..n : f[k] = append_row(f[k - 1], rows[k])
               /\ Appended(s, rows) = f[n]
  BY AppendedRuns
<1> DEFINE H == {k \in Nat : k <= n => Stream(q, f[k]) /\ f[k].next_row = next[k]}
<1>2. 0 \in H
  BY <1>1
<1>3. ASSUME NEW k \in Nat, k \in H PROVE k + 1 \in H
  <2> SUFFICES ASSUME k + 1 <= n
               PROVE  Stream(q, f[k + 1]) /\ f[k + 1].next_row = next[k + 1]
    OBVIOUS
  <2>1. k + 1 \in 1..n /\ k + 1 - 1 = k /\ k <= n
    OBVIOUS
  <2>2. Stream(q, f[k]) /\ f[k].next_row = next[k]
    BY <1>3, <2>1
  <2> HIDE DEF H
  <2> DEFINE r == rows[k + 1]
             u == f[k]
  <2>3. f[k + 1] = append_row(u, r)
    BY <1>1, <2>1
  <2>4. u.lines = q.lines
    BY <2>2 DEF Stream, SameStart
  <2>5. Skipped(u, r) <=> r.wrapped \/ r.row < next[k] \/ r.row >= q.lines
    BY <2>2, <2>4 DEF Skipped
  <2>6. IF r.wrapped \/ r.row < next[k] \/ r.row >= q.lines
        THEN next[k + 1] = next[k]
        ELSE r.row = next[k] /\ next[k + 1] = next[k] + 1 /\ RowRight(q, r)
    BY <2>1 DEF Ordered
  <2> HIDE DEF r, u
  <2>7. CASE Skipped(u, r)
    <3>1. f[k + 1] = u
      BY <2>3, <2>7 DEF append_row
    <3>2. Stream(q, u) /\ u.next_row = next[k]
      BY <2>2 DEF u
    <3> QED BY <2>5, <2>6, <2>7, <3>1, <3>2
  <2>8. CASE ~Skipped(u, r)
    <3>1. Stream(q, u) /\ u.next_row = next[k]
      BY <2>2 DEF u
    <3>2. r.row = u.next_row /\ RowRight(q, r) /\ next[k + 1] = next[k] + 1
      BY <2>5, <2>6, <2>8, <3>1
    <3>3. Stream(q, append_row(u, r)) /\ append_row(u, r).next_row = u.next_row + 1
      BY <2>8, <3>1, <3>2, StreamAppends
    <3> QED BY <2>3, <3>1, <3>2, <3>3
  <2> QED BY <2>7, <2>8
<1> HIDE DEF H
<1>4. n \in H
  BY <1>2, <1>3, NatInduct
<1> QED BY <1>1, <1>4 DEF H

(* out_reserve moves no byte of the stream, whether memory is found or not.  *)
LEMMA StreamReserves ==
  ASSUME NEW q \in PageStates, NEW s, Stream(q, s), NEW extra \in Nat,
         NEW granted \in BOOLEAN
  PROVE  Stream(q, out_reserve(s, extra, granted))
<1> DEFINE t == out_reserve(s, extra, granted)
<1>1. /\ s \in PageStates /\ s.out_pos <= Len(s.out) /\ Roomy(s)
  BY DEF Stream
<1>2. /\ t \in PageStates /\ t.out_pos <= Len(t.out) /\ Waiting(t) = Waiting(s)
      /\ SameStart(s, t) /\ SameFlags(s, t) /\ t.next_row = s.next_row /\ Roomy(t)
      /\ \A n \in 1..Waiting(s) : t.out[t.out_pos + n] = s.out[s.out_pos + n]
  BY <1>1, ReserveKeeps
<1> HIDE DEF t
<1>3. SameStart(q, t) /\ SameFlags(q, t) /\ t.got = s.got /\ t.lines = s.lines
  BY <1>2 DEF Stream, SameStart, SameFlags
<1>4. Stream(q, t)
  BY <1>2, <1>3 DEF Stream
<1> QED BY <1>4 DEF t

LEMMA MemoryRunsOut ==
  ASSUME NEW q \in PageStates, NEW s, Stream(q, s), NEW S, NEW rows \in Seq(S),
         NEW next, next[0] = s.next_row, Ordered(q, rows, Len(rows), next)
  PROVE  \A t \in OutOfMemory(s, rows) : Stream(q, t)
<1> SUFFICES ASSUME NEW t \in OutOfMemory(s, rows) PROVE Stream(q, t)
  OBVIOUS
<1>1. PICK k \in 0..(Len(rows) - 1) :
        t = out_reserve(Appended(s, SubSeq(rows, 1, k)), bytes_per_line(s), FALSE)
  BY DEF OutOfMemory
<1> DEFINE some == SubSeq(rows, 1, k)
<1>2. k \in Nat /\ k <= Len(rows) /\ Len(rows) \in Nat
  OBVIOUS
<1>3. DOMAIN some = 1..k /\ \A j \in 1..k : some[j] = rows[j]
  BY <1>2
<1> HIDE DEF some
<1>4. Ordered(q, some, k, next)
  <2>1. \A j \in 1..k : j \in 1..Len(rows)
    BY <1>2
  <2> QED BY <1>3, <2>1 DEF Ordered
<1>5. Stream(q, Appended(s, some))
  BY <1>2, <1>3, <1>4, LoopKeeps
<1>6. bytes_per_line(s) \in Nat
  BY RowLength DEF Stream, PageStates
<1>7. Stream(q, out_reserve(Appended(s, some), bytes_per_line(s), FALSE))
  BY <1>5, <1>6, StreamReserves
<1> QED BY <1>1, <1>7 DEF some

-----------------------------------------------------------------------------
(* emit_white_rows and the rows of a block come in the page's order. *)

Lesser(a, b) == IF a <= b THEN a ELSE b
Greater(a, b) == IF a >= b THEN a ELSE b

(* How many rows emit_white_rows has to add.                                 *)
GapSize(s, upto) == Greater(0, Lesser(upto, s.lines) - s.next_row)

LEMMA PageNumbers ==
  ASSUME NEW q \in PageStates
  PROVE  /\ q.next_row \in Nat /\ q.lines \in Nat /\ q.lines <= Wrap /\ Wrap \in Nat
         /\ Len(q.blocks) \in Nat
         /\ \A k \in 1..Len(q.blocks) : q.blocks[k] \in Blocks
<1>1. q.next_row \in Nat /\ q.lines \in 0..Wrap /\ q.blocks \in Seq(Blocks)
  BY DEF PageStates
<1> QED BY <1>1, PathAssumption

LEMMA GapRows ==
  ASSUME NEW s \in PageStates, NEW upto \in Nat
  PROVE  /\ GapSize(s, upto) \in Nat
         /\ emit_white_rows(s, upto)
              = [k \in 1..GapSize(s, upto) |-> WhiteRow(s, s.next_row + k - 1)]
<1>1. s.next_row \in Nat /\ s.lines \in Nat
  BY PageNumbers
<1> DEFINE low == Min({upto, s.lines})
<1>2. low = Lesser(upto, s.lines)
  BY <1>1, MinPair DEF Lesser
<1>3. low \in Nat
  BY <1>1, <1>2 DEF Lesser
<1> HIDE DEF low
<1>4. Max({0, low - s.next_row}) = Greater(0, low - s.next_row)
  <2>1. low - s.next_row \in Int
    BY <1>1, <1>3
  <2> QED BY <2>1, MaxPair DEF Greater
<1>5. GapSize(s, upto) = Greater(0, low - s.next_row)
  BY <1>2 DEF GapSize
<1>6. GapSize(s, upto) \in Nat
  BY <1>1, <1>3, <1>5 DEF Greater
<1> QED BY <1>4, <1>5, <1>6 DEF emit_white_rows, low

(* Every row block k reaches has been handed out.                            *)
Covered(q, k) ==
  q.blocks[k].first + q.blocks[k].rows <= q.next_row \/ q.lines <= q.next_row

LEMMA NewRows ==
  ASSUME NEW q \in PageStates, NEW row \in Nat, q.next_row <= row, row < q.lines,
         NEW k \in 1..Len(q.blocks), Covered(q, k)
  PROVE  k \notin Reaching(q, row)
<1>1. q.blocks[k].first \in Nat /\ q.blocks[k].rows \in Nat
  BY PageNumbers DEF Blocks
<1>2. ~(q.lines <= q.next_row)
  BY PageNumbers
<1> QED BY <1>1, <1>2, PageNumbers DEF Covered, Reaching

LEMMA WhiteOrdered ==
  ASSUME m \in DitherStates, NEW q \in PageStates, NEW s \in PageStates,
         SameStart(s, q), s.next_row = q.next_row,
         NEW upto \in Nat, NEW j \in 1..GapSize(s, upto),
         \A k \in 1..Len(q.blocks) : Covered(q, k) \/ upto <= q.blocks[k].first
  PROVE  LET r == WhiteRow(s, s.next_row + j - 1) IN
           /\ ~r.wrapped /\ r.row = q.next_row + j - 1 /\ r.row < q.lines
           /\ RowRight(q, r)
<1>1. s.next_row \in Nat /\ s.lines = q.lines /\ q.lines \in Nat /\ GapSize(s, upto) \in Nat
  BY PageNumbers, GapRows DEF SameStart
<1> DEFINE row == s.next_row + j - 1
<1>2. row \in Nat /\ row < upto /\ row < q.lines /\ q.next_row <= row
  BY <1>1 DEF GapSize, Greater, Lesser
<1> HIDE DEF row
<1>3. ASSUME NEW k \in Reaching(q, row) PROVE row < q.blocks[k].first
  <2>1. k \in 1..Len(q.blocks)
    BY <1>2, ReachingType
  <2>2. ~Covered(q, k)
    BY <1>2, <2>1, NewRows
  <2>3. q.blocks[k].first \in Nat
    BY <2>1, PageNumbers DEF Blocks
  <2> QED BY <1>2, <2>1, <2>2, <2>3
<1>4. RowRight(q, WhiteRow(s, row))
  BY <1>2, <1>3, WhiteRight
<1>5. WhiteRow(s, row).row = row /\ ~WhiteRow(s, row).wrapped
  BY DEF WhiteRow
<1> QED BY <1>1, <1>2, <1>4, <1>5 DEF row

(* The rows to the end of the page.                                          *)
LEMMA EndOrdered ==
  ASSUME m \in DitherStates, NEW q \in PageStates, NEW s \in PageStates,
         SameStart(s, q), s.next_row = q.next_row, q.next_row <= q.lines,
         \A k \in 1..Len(q.blocks) : Covered(q, k)
  PROVE  LET rows == emit_white_rows(s, s.lines) IN
           \E S, next :
             /\ rows \in Seq(S) /\ next[0] = q.next_row
             /\ Ordered(q, rows, Len(rows), next) /\ next[Len(rows)] = q.lines
<1> DEFINE w == GapSize(s, s.lines)
           rows == emit_white_rows(s, s.lines)
           next == [j \in 0..w |-> q.next_row + j]
           S == {WhiteRow(s, s.next_row + j - 1) : j \in 1..w}
<1>1. s.next_row \in Nat /\ s.lines = q.lines /\ s.lines \in Nat /\ w \in Nat
      /\ rows = [j \in 1..w |-> WhiteRow(s, s.next_row + j - 1)]
  BY PageNumbers, GapRows DEF SameStart
<1>2. q.next_row + w = q.lines
  BY <1>1 DEF GapSize, Greater, Lesser
<1> HIDE DEF w, rows
<1>3. rows \in Seq(S) /\ Len(rows) = w
  <2>1. \A j \in 1..w : WhiteRow(s, s.next_row + j - 1) \in S
    OBVIOUS
  <2>2. rows \in [1..w -> S]
    <3> HIDE DEF S
    <3> QED BY <1>1, <2>1
  <2> HIDE DEF S
  <2> QED BY <1>1, <2>2
<1>4. ASSUME NEW j \in 1..w
      PROVE  /\ ~rows[j].wrapped /\ rows[j].row = q.next_row + j - 1
             /\ rows[j].row < q.lines /\ RowRight(q, rows[j])
  <2>1. rows[j] = WhiteRow(s, s.next_row + j - 1)
    BY <1>1
  <2> QED BY <1>1, <2>1, WhiteOrdered DEF w
<1>5. next[0] = q.next_row /\ next[w] = q.lines
  BY <1>1, <1>2
<1>6. ASSUME NEW j \in 1..w PROVE next[j - 1] = q.next_row + j - 1 /\ next[j] = next[j - 1] + 1
  BY <1>1
<1> HIDE DEF next, S
<1>7. Ordered(q, rows, w, next)
  <2> SUFFICES ASSUME NEW j \in 1..w
               PROVE  IF rows[j].wrapped \/ rows[j].row < next[j - 1] \/ rows[j].row >= q.lines
                      THEN next[j] = next[j - 1]
                      ELSE rows[j].row = next[j - 1] /\ next[j] = next[j - 1] + 1
                             /\ RowRight(q, rows[j])
    BY DEF Ordered
  <2>1. rows[j].row \in Int /\ q.lines \in Int
    BY <1>1, <1>4
  <2>2. ~(rows[j].row < next[j - 1]) /\ ~(rows[j].row >= q.lines)
    BY <1>4, <1>6, <2>1
  <2> QED BY <1>4, <1>6, <2>2
<1>8. rows \in Seq(S) /\ next[0] = q.next_row /\ Ordered(q, rows, Len(rows), next)
      /\ next[Len(rows)] = q.lines
  BY <1>3, <1>5, <1>7
<1>9. \E T, f : /\ rows \in Seq(T) /\ f[0] = q.next_row
                /\ Ordered(q, rows, Len(rows), f) /\ f[Len(rows)] = q.lines
  BY <1>8
<1> QED BY <1>9 DEF rows

(* Row i of the block lies at b.first + i on the page until its index wraps; *)
(* from there on nothing of the block is left that the page wants.           *)
LEMMA BlockRow ==
  ASSUME m \in DitherStates, NEW q \in PageStates, NEW k \in 1..Len(q.blocks),
         NEW n \in 1..q.blocks[k].rows,
         \A j \in 1..Len(q.blocks) : j # k => Covered(q, j)
  PROVE  LET b == q.blocks[k]
             a == b.first + n - 1
             r == convert_row(q, b, k, n - 1, a % Wrap)
         IN IF a < Wrap
            THEN /\ ~r.wrapped /\ r.row = a
                 /\ q.next_row <= a /\ a < q.lines => RowRight(q, r)
            ELSE r.wrapped
<1> DEFINE b == q.blocks[k]
           a == b.first + n - 1
           r == convert_row(q, b, k, n - 1, a % Wrap)
<1>1. Wrap \in Nat /\ q.lines \in Nat /\ q.next_row \in Nat /\ Len(q.blocks) \in Nat
      /\ b \in Blocks
  BY PageNumbers
<1> HIDE DEF b
<1>2. b.first \in 0..(Wrap - 1) /\ b.rows \in 0..(Wrap - 1)
  BY <1>1 DEF Blocks
<1>3. n \in 1..b.rows
  BY DEF b
<1>4. r.row = a % Wrap /\ (r.wrapped <=> a % Wrap < b.first)
  BY DEF convert_row
<1>5. Wrap \in Nat \ {0} /\ a \in Nat /\ b.first <= a /\ a < Wrap + b.first
      /\ a < b.first + b.rows /\ n - 1 \in Nat /\ n - 1 < b.rows
  BY <1>1, <1>2, <1>3
<1>6. CASE a < Wrap
  <2>1. a % Wrap = a
    <3>1. Wrap \in Nat \ {0} /\ a \in 0..(Wrap - 1)
      BY <1>5, <1>6
    <3> HIDE DEF a
    <3> QED BY ONLY <3>1, SmallMod
  <2>2. ~r.wrapped /\ r.row = a
    <3>1. ~(a < b.first)
      BY <1>2, <1>5
    <3> HIDE DEF r, a
    <3> QED BY <1>4, <2>1, <3>1
  <2>3. ASSUME q.next_row <= a, a < q.lines PROVE RowRight(q, r)
    <3> HIDE DEF a, r
    <3>1. k \in Reaching(q, a)
      BY <1>5 DEF Reaching, b
    <3>2. ASSUME NEW j \in Reaching(q, a) PROVE j = k
      <4>1. j \in 1..Len(q.blocks)
        BY DEF Reaching
      <4> QED BY <1>5, <2>3, <3>2, <4>1, NewRows
    <3>3. Reaching(q, a) = {k}
      BY <3>1, <3>2
    <3>4. a = b.first + (n - 1)
      BY <1>2, <1>3, <1>1 DEF a
    <3>5. RowRight(q, convert_row(q, q.blocks[k], k, n - 1, a))
      BY <1>5, <2>3, <3>3, <3>4, DataRight DEF b
    <3> QED BY <2>1, <3>5 DEF r, b
  <2> HIDE DEF r
  <2> QED BY <1>6, <2>2, <2>3 DEF r, a, b
<1>7. CASE ~(a < Wrap)
  <2>1. a - Wrap \in 0..(Wrap - 1) /\ a - Wrap < b.first
    BY <1>2, <1>5, <1>7
  <2>2. a % Wrap = a - Wrap
    <3>1. Wrap \in Nat \ {0} /\ a - Wrap \in 0..(Wrap - 1) /\ a \in Int
      BY <1>5, <2>1
    <3> HIDE DEF a
    <3> QED BY ONLY <3>1, WrappedMod
  <2>3. r.wrapped
    BY <1>4, <2>1, <2>2
  <2> HIDE DEF r
  <2> QED BY <1>7, <2>3 DEF r, a, b
<1> QED BY <1>6, <1>7

(* Where the page is when the gap before a block and some of its rows have   *)
(* been looked at.                                                           *)
BlockNext(q, first, w, j) ==
  IF j <= w THEN q.next_row + j
  ELSE Greater(q.next_row + w, Lesser(first + (j - w), q.lines))

LEMMA BlockNextIs ==
  ASSUME NEW q \in PageStates, q.next_row <= q.lines, NEW first \in Nat,
         NEW n \in Nat
  PROVE  LET w == GapSize(q, first) IN
           BlockNext(q, first, w, w + n)
             = Greater(q.next_row + w, Lesser(first + n, q.lines))
<1> DEFINE w == GapSize(q, first)
<1>1. w \in Nat /\ q.next_row \in Nat /\ q.lines \in Nat
  BY PageNumbers, GapRows
<1>2. w = IF first <= q.lines THEN Greater(0, first - q.next_row)
          ELSE q.lines - q.next_row
  BY <1>1 DEF GapSize, Greater, Lesser
<1> HIDE DEF w
<1>3. CASE n = 0
  <2>1. BlockNext(q, first, w, w + n) = q.next_row + w
    BY <1>1, <1>3 DEF BlockNext
  <2>2. Lesser(first + n, q.lines) <= q.next_row + w
    BY <1>1, <1>2, <1>3 DEF Greater, Lesser
  <2>3. Greater(q.next_row + w, Lesser(first + n, q.lines)) = q.next_row + w
    <3>1. Lesser(first + n, q.lines) \in Int /\ q.next_row + w \in Int
      BY <1>1 DEF Lesser
    <3> QED BY <2>2, <3>1 DEF Greater
  <2> QED BY <2>1, <2>3 DEF w
<1>4. CASE n # 0
  <2> DEFINE j == w + n
  <2>1. ~(j <= w) /\ j - w = n
    BY <1>1, <1>4
  <2> HIDE DEF j
  <2>2. BlockNext(q, first, w, j) = Greater(q.next_row + w, Lesser(first + n, q.lines))
    BY <2>1 DEF BlockNext
  <2> QED BY <2>2 DEF j, w
<1> QED BY <1>3, <1>4

(* Row n of a block is what the page wants next, or is skipped.              *)
LEMMA BlockStep ==
  ASSUME m \in DitherStates, NEW q \in PageStates, q.next_row <= q.lines,
         NEW k \in 1..Len(q.blocks), NEW n \in 1..q.blocks[k].rows,
         \A j \in 1..Len(q.blocks) : j # k => Covered(q, j)
  PROVE  LET b == q.blocks[k]
             w == GapSize(q, b.first)
             old == BlockNext(q, b.first, w, w + n - 1)
             new == BlockNext(q, b.first, w, w + n)
             r == convert_row(q, b, k, n - 1, (b.first + n - 1) % Wrap)
         IN IF r.wrapped \/ r.row < old \/ r.row >= q.lines THEN new = old
            ELSE r.row = old /\ new = old + 1 /\ RowRight(q, r)
<1> DEFINE b == q.blocks[k]
           w == GapSize(q, b.first)
           old == BlockNext(q, b.first, w, w + n - 1)
           new == BlockNext(q, b.first, w, w + n)
           a == b.first + n - 1
           r == convert_row(q, b, k, n - 1, a % Wrap)
           base == q.next_row + w
<1>1. q.lines \in Nat /\ q.lines <= Wrap /\ Wrap \in Nat /\ q.next_row \in Nat
      /\ b \in Blocks
  BY PageNumbers
<1>2. b.first \in Nat /\ b.rows \in Nat /\ n \in 1..b.rows
  BY <1>1 DEF Blocks
<1>3. w \in Nat
  BY <1>2, GapRows
<1>4. /\ old = Greater(base, Lesser(b.first + (n - 1), q.lines))
      /\ new = Greater(base, Lesser(b.first + n, q.lines))
  <2>1. n - 1 \in Nat /\ n \in Nat
    BY <1>2
  <2>2. w + (n - 1) = w + n - 1
    BY <1>2, <1>3
  <2> HIDE DEF b
  <2>3. BlockNext(q, b.first, w, w + (n - 1))
          = Greater(base, Lesser(b.first + (n - 1), q.lines))
    BY <1>2, <2>1, BlockNextIs
  <2>4. BlockNext(q, b.first, w, w + n) = Greater(base, Lesser(b.first + n, q.lines))
    BY <1>2, <2>1, BlockNextIs
  <2> QED BY <2>2, <2>3, <2>4
<1>5. IF a < Wrap
      THEN /\ ~r.wrapped /\ r.row = a
           /\ q.next_row <= a /\ a < q.lines => RowRight(q, r)
      ELSE r.wrapped
  <2> HIDE DEF r, a, b
  <2> QED BY BlockRow DEF r, a, b
<1>6. a \in Nat /\ b.first + (n - 1) = a /\ b.first + n = a + 1 /\ base \in Nat
      /\ q.next_row <= base
  <2> HIDE DEF b, w
  <2> QED BY <1>1, <1>2, <1>3
<1> HIDE DEF old, new, a, r, base, b, w
<1>7. /\ old = Greater(base, Lesser(a, q.lines))
      /\ new = Greater(base, Lesser(a + 1, q.lines))
  BY <1>4, <1>6
<1>8. CASE a < Wrap
  <2>1. IF a < old \/ a >= q.lines THEN new = old ELSE a = old /\ new = old + 1
    BY <1>1, <1>6, <1>7 DEF Greater, Lesser
  <2>2. a >= old => q.next_row <= a
    BY <1>1, <1>6, <1>7 DEF Greater, Lesser
  <2>3. old \in Int
    BY <1>1, <1>6, <1>7 DEF Greater, Lesser
  <2>4. IF r.wrapped \/ r.row < old \/ r.row >= q.lines THEN new = old
        ELSE r.row = old /\ new = old + 1 /\ RowRight(q, r)
    <3>1. ~r.wrapped /\ r.row = a
      BY <1>5, <1>8
    <3>2. a \in Int /\ q.lines \in Int
      BY <1>1, <1>6
    <3>3. a >= old /\ ~(a >= q.lines) => RowRight(q, r)
      BY <1>5, <1>8, <2>2, <3>2
    <3> QED BY <2>1, <2>3, <3>1, <3>2, <3>3
  <2> QED BY <2>4 DEF old, new, a, r, b, w
<1>9. CASE ~(a < Wrap)
  <2>1. new = old
    BY <1>1, <1>6, <1>7, <1>9 DEF Greater, Lesser
  <2>2. r.wrapped
    BY <1>5, <1>9
  <2> QED BY <2>1, <2>2 DEF old, new, a, r, b, w
<1> QED BY <1>8, <1>9

(* The gap before a block and its rows come in the page's order, and lead    *)
(* past the block.                                                           *)
LEMMA BlockOrdered ==
  ASSUME m \in DitherStates, NEW q \in PageStates, q.next_row <= q.lines,
         NEW k \in 1..Len(q.blocks),
         \A j \in 1..Len(q.blocks) : j # k => Covered(q, j)
  PROVE  LET b == q.blocks[k]
             rows == block_rows(q, b, k)
         IN \E S, next :
              /\ rows \in Seq(S) /\ next[0] = q.next_row
              /\ Ordered(q, rows, Len(rows), next)
              /\ next[Len(rows)] >= q.next_row
              /\ next[Len(rows)] >= Lesser(b.first + b.rows, q.lines)
<1> DEFINE b == q.blocks[k]
           w == GapSize(q, b.first)
           gap == emit_white_rows(q, b.first)
           Own(n) == convert_row(q, b, k, n - 1, (b.first + n - 1) % Wrap)
           own == [n \in 1..b.rows |-> Own(n)]
           rows == gap \o own
           next == [j \in 0..(w + b.rows) |-> BlockNext(q, b.first, w, j)]
           S == {WhiteRow(q, q.next_row + j - 1) : j \in 1..w}
                  \cup {Own(n) : n \in 1..b.rows}
<1>1. q.lines \in Nat /\ q.next_row \in Nat /\ b \in Blocks /\ Wrap \in Nat
  BY PageNumbers
<1>2. b.first \in Nat /\ b.rows \in Nat
  BY <1>1 DEF Blocks
<1> HIDE DEF b
<1>3. w \in Nat /\ gap = [j \in 1..w |-> WhiteRow(q, q.next_row + j - 1)]
  BY <1>2, GapRows
<1> HIDE DEF w, gap, Own
<1>4. /\ gap \in Seq(S) /\ Len(gap) = w
      /\ \A j \in 1..w : gap[j] = WhiteRow(q, q.next_row + j - 1)
  <2>1. \A j \in 1..w : WhiteRow(q, q.next_row + j - 1) \in S
    OBVIOUS
  <2>2. gap \in [1..w -> S]
    <3> HIDE DEF S
    <3> QED BY <1>3, <2>1
  <2>3. \A j \in 1..w : gap[j] = WhiteRow(q, q.next_row + j - 1)
    BY <1>3
  <2> HIDE DEF S
  <2> QED BY <1>3, <2>2, <2>3
<1>5. own \in Seq(S) /\ Len(own) = b.rows /\ \A n \in 1..b.rows : own[n] = Own(n)
  <2>1. \A n \in 1..b.rows : Own(n) \in S
    OBVIOUS
  <2>2. own \in [1..b.rows -> S]
    <3> HIDE DEF S
    <3> QED BY <2>1
  <2>3. \A n \in 1..b.rows : own[n] = Own(n)
    OBVIOUS
  <2> HIDE DEF S, own
  <2> QED BY <1>2, <2>2, <2>3
<1> HIDE DEF S, own
<1>6. /\ rows \in Seq(S) /\ Len(rows) = w + b.rows
      /\ \A j \in 1..w : rows[j] = gap[j]
      /\ \A n \in 1..b.rows : rows[w + n] = own[n]
  <2>1. gap \in Seq(S) /\ own \in Seq(S) /\ Len(gap) = w /\ Len(own) = b.rows
    BY <1>4, <1>5
  <2>2. w \in Nat /\ b.rows \in Nat
    BY <1>2, <1>3
  <2>3. rows \in Seq(S) /\ Len(rows) = w + b.rows
    BY <2>1
  <2>4. ASSUME NEW j \in 1..w PROVE rows[j] = gap[j]
    BY <2>1, <2>2
  <2>5. ASSUME NEW n \in 1..b.rows PROVE rows[w + n] = own[n]
    BY <2>1, <2>2
  <2> HIDE DEF rows
  <2> QED BY <2>3, <2>4, <2>5
<1> HIDE DEF rows
<1>7. \A j \in 0..(w + b.rows) : next[j] = BlockNext(q, b.first, w, j)
  OBVIOUS
<1> HIDE DEF next
<1>8. next[0] = q.next_row
  <2>1. 0 \in 0..(w + b.rows) /\ 0 <= w /\ q.next_row + 0 = q.next_row
    BY <1>1, <1>2, <1>3
  <2>2. BlockNext(q, b.first, w, 0) = q.next_row
    BY <2>1 DEF BlockNext
  <2> QED BY <1>7, <2>1, <2>2
<1>9. ASSUME NEW j \in 1..(w + b.rows)
      PROVE  IF rows[j].wrapped \/ rows[j].row < next[j - 1] \/ rows[j].row >= q.lines
             THEN next[j] = next[j - 1]
             ELSE rows[j].row = next[j - 1] /\ next[j] = next[j - 1] + 1
                    /\ RowRight(q, rows[j])
  <2>1. j - 1 \in 0..(w + b.rows) /\ j \in 0..(w + b.rows)
    BY <1>2, <1>3
  <2>2. CASE j <= w
    <3>1. j \in 1..w
      BY <1>3, <2>2
    <3>2. rows[j] = WhiteRow(q, q.next_row + j - 1)
      BY <1>4, <1>6, <3>1
    <3>3. next[j] = q.next_row + j /\ next[j - 1] = q.next_row + (j - 1)
      <4>1. j - 1 <= w
        BY <1>3, <3>1
      <4> QED BY <1>7, <2>1, <2>2, <4>1 DEF BlockNext
    <3>4. /\ ~rows[j].wrapped /\ rows[j].row = q.next_row + j - 1
          /\ rows[j].row < q.lines /\ RowRight(q, rows[j])
      <4>1. \A i \in 1..Len(q.blocks) : Covered(q, i) \/ b.first <= q.blocks[i].first
        BY <1>2 DEF b
      <4>2. j \in 1..GapSize(q, b.first) /\ SameStart(q, q)
        BY <3>1 DEF w, SameStart
      <4>3. LET r == WhiteRow(q, q.next_row + j - 1) IN
              /\ ~r.wrapped /\ r.row = q.next_row + j - 1 /\ r.row < q.lines
              /\ RowRight(q, r)
        BY <1>2, <4>1, <4>2, WhiteOrdered
      <4> QED BY <3>2, <4>3
    <3>5. next[j - 1] = q.next_row + j - 1 /\ next[j] = next[j - 1] + 1
          /\ next[j - 1] \in Int
      BY <1>1, <3>1, <3>3
    <3>6. ~(rows[j].row < next[j - 1]) /\ ~(rows[j].row >= q.lines)
      <4>1. q.next_row + j - 1 < q.lines /\ q.next_row + j - 1 \in Int
        BY <1>1, <3>1, <3>4
      <4> QED BY <1>1, <3>4, <3>5, <4>1
    <3> QED BY <3>4, <3>5, <3>6
  <2>3. CASE ~(j <= w)
    <3> DEFINE n == j - w
    <3>1. n \in 1..b.rows /\ j = w + n /\ j - 1 = w + n - 1
      BY <1>2, <1>3, <2>3
    <3> HIDE DEF n
    <3>2. rows[j] = Own(n)
      BY <1>5, <1>6, <3>1
    <3>3. next[j] = BlockNext(q, b.first, w, w + n)
          /\ next[j - 1] = BlockNext(q, b.first, w, w + n - 1)
      BY <1>7, <2>1, <3>1
    <3>4. LET old == BlockNext(q, b.first, w, w + n - 1)
              new == BlockNext(q, b.first, w, w + n)
              r == Own(n)
          IN IF r.wrapped \/ r.row < old \/ r.row >= q.lines THEN new = old
             ELSE r.row = old /\ new = old + 1 /\ RowRight(q, r)
      BY <3>1, BlockStep DEF Own, w, b
    <3> QED BY <3>2, <3>3, <3>4
  <2> QED BY <2>2, <2>3
<1>10. Ordered(q, rows, Len(rows), next)
  <2> SUFFICES Ordered(q, rows, w + b.rows, next)
    BY <1>6
  <2> QED BY <1>9 DEF Ordered
<1>11. next[Len(rows)] = Greater(q.next_row + w, Lesser(b.first + b.rows, q.lines))
  <2>1. w + b.rows \in 0..(w + b.rows)
    BY <1>2, <1>3
  <2>2. BlockNext(q, b.first, w, w + b.rows)
          = Greater(q.next_row + w, Lesser(b.first + b.rows, q.lines))
    BY <1>2, BlockNextIs DEF w
  <2> QED BY <1>6, <1>7, <2>1, <2>2
<1>12. next[Len(rows)] >= q.next_row
       /\ next[Len(rows)] >= Lesser(b.first + b.rows, q.lines)
  BY <1>1, <1>2, <1>3, <1>11 DEF Greater, Lesser
<1>13. rows = block_rows(q, b, k)
  BY DEF block_rows, rows, own, gap, Own
<1>14. \E T, f :
         /\ block_rows(q, b, k) \in Seq(T) /\ f[0] = q.next_row
         /\ Ordered(q, block_rows(q, b, k), Len(block_rows(q, b, k)), f)
         /\ f[Len(block_rows(q, b, k))] >= q.next_row
         /\ f[Len(block_rows(q, b, k))] >= Lesser(b.first + b.rows, q.lines)
  BY <1>6, <1>8, <1>10, <1>12, <1>13
<1> QED BY <1>14 DEF b

-----------------------------------------------------------------------------
(* The inductive invariant of the path. *)

(* No row of a block ends past its body, no useful pixel past its row.       *)
Solid(s) ==
  \A k \in 1..Len(s.blocks) :
    LET b == s.blocks[k] IN
    /\ b.rows * b.stride <= b.body
    /\ (IF s.mode = "colour" THEN 3 * b.avail ELSE b.avail) <= b.stride

(* What waits is the page from the byte on that the frontend gets next.      *)
Holds(s) ==
  \A n \in 1..Waiting(s) : s.out[s.out_pos + n] = PageByte(s, s.got + n - 1)

(* Got and waiting together are the page up to its next row, unless a read   *)
(* was cancelled.                                                            *)
Accounted(s) ==
  \/ s.eof /\ s.failed /\ Waiting(s) = 0
  \/ s.got + Waiting(s) = s.next_row * bytes_per_line(s)

(* Nothing waits while the mask is built; every block taken is a part of the *)
(* page before the next one; only the whole page ends well.                  *)
Phases(s) ==
  /\ s.building => /\ ~s.scanning /\ ~s.eof /\ ~s.failed
                   /\ s.blocks = <<>> /\ Waiting(s) = 0
  /\ s.scanning => ~s.eof /\ ~s.failed /\ \A k \in 1..Len(s.blocks) : Covered(s, k)
  /\ s.eof /\ ~s.failed => s.next_row = s.lines

Kept(s) ==
  /\ s \in PageStates /\ s.out_pos <= Len(s.out) /\ s.next_row <= s.lines
  /\ Roomy(s) /\ Solid(s) /\ Holds(s) /\ Accounted(s)

Sound(s) == Kept(s) /\ Phases(s)

PathInv == DitherInv /\ Sound(p)

LEMMA KeptNumbers ==
  ASSUME NEW s \in PageStates, s.out_pos <= Len(s.out)
  PROVE  /\ s.out_pos \in Nat /\ Len(s.out) \in Nat /\ Waiting(s) \in Nat
         /\ s.got \in Nat /\ bytes_per_line(s) \in Nat
         /\ s.next_row * bytes_per_line(s) \in Nat
<1>1. s.out_pos \in Nat /\ s.out \in Seq(Bytes) /\ s.got \in Nat /\ s.next_row \in Nat
      /\ s.mode \in Modes /\ s.pixels \in Nat
  BY DEF PageStates
<1> DEFINE bpl == bytes_per_line(s)
<1>2. bpl \in Nat
  BY <1>1, RowLength
<1> HIDE DEF bpl
<1>3. s.next_row * bpl \in Nat
  BY <1>1, <1>2
<1>4. Len(s.out) \in Nat /\ Waiting(s) \in Nat
  BY <1>1 DEF Waiting
<1> QED BY <1>1, <1>2, <1>3, <1>4 DEF bpl

(* Any state of a page that holds its bytes is a stream of itself.           *)
LEMMA KeptStreams ==
  ASSUME NEW s, Kept(s), ~(s.eof /\ s.failed)
  PROVE  Stream(s, s)
<1>1. s.got + Waiting(s) = s.next_row * bytes_per_line(s)
  BY DEF Kept, Accounted
<1> QED BY <1>1 DEF Kept, Holds, Stream, SameStart, SameFlags

LEMMA StreamKept ==
  ASSUME NEW q \in PageStates, Solid(q), NEW s, Stream(q, s)
  PROVE  Kept(s)
<1>1. SameStart(q, s)
  BY DEF Stream
<1>2. Holds(s) /\ Accounted(s)
  BY <1>1, SamePage DEF Stream, Holds, Accounted
<1>3. Solid(s)
  BY <1>1 DEF SameStart, Solid
<1> QED BY <1>2, <1>3 DEF Stream, Kept

(* The same page and buffer, further on or given up.                         *)
SamePath(s, t) ==
  /\ SameStart(s, t)
  /\ s.out = t.out /\ s.out_pos = t.out_pos /\ s.next_row = t.next_row
  /\ s.got = t.got /\ s.refused = t.refused /\ s.alloc = t.alloc
  /\ s.out_cap = t.out_cap /\ s.eof = t.eof /\ (s.failed => t.failed)

LEMMA PathKept ==
  ASSUME NEW s, Kept(s), NEW t \in PageStates, SamePath(s, t)
  PROVE  Kept(t) /\ Waiting(t) = Waiting(s)
<1>1. SameStart(s, t) /\ Waiting(t) = Waiting(s)
  BY DEF SamePath, Waiting
<1>2. Holds(t) /\ Accounted(t)
  BY <1>1, SamePage DEF SamePath, Kept, Holds, Accounted
<1>3. Solid(t) /\ Roomy(t) /\ t.lines = s.lines
  BY <1>1 DEF SamePath, SameStart, Kept, Solid, Roomy
<1> QED BY <1>1, <1>2, <1>3 DEF SamePath, Kept

(* A page given up keeps what it holds.                                      *)
LEMMA FailKept ==
  ASSUME NEW s, Kept(s), ~s.building
  PROVE  Sound([s EXCEPT !.scanning = FALSE, !.failed = TRUE])
<1> DEFINE t == [s EXCEPT !.scanning = FALSE, !.failed = TRUE]
<1>1. s \in PageStates
  BY DEF Kept
<1>2. t \in PageStates /\ SamePath(s, t) /\ t.failed /\ ~t.scanning /\ ~t.building
  BY <1>1 DEF PageStates, SamePath, SameStart
<1> HIDE DEF t
<1>3. Kept(t)
  BY <1>2, PathKept
<1>4. Phases(t)
  BY <1>2 DEF Phases
<1> QED BY <1>3, <1>4 DEF Sound, t

(* With the mask left alone, the page and its bytes do not change.           *)
LEMMA SoundNext ==
  ASSUME m' = m, NEW s, p' = s, Sound(s)
  PROVE  Sound(p)'
<1>1. ASSUME NEW r, NEW col PROVE Cut(p, r, col)' = Cut(s, r, col)
  BY DEF Cut
<1>2. ASSUME NEW r, NEW col PROVE Pixel(p, r, col)' = Pixel(s, r, col)
  BY DEF Pixel, Reaching
<1>3. ASSUME NEW r, NEW x PROVE RowByte(p, r, x)' = RowByte(s, r, x)
  BY <1>1, <1>2 DEF RowByte, Bilevel
<1>4. bytes_per_line(p)' = bytes_per_line(s)
  BY DEF bytes_per_line
<1>5. ASSUME NEW n PROVE PageByte(p, n)' = PageByte(s, n)
  BY <1>3, <1>4 DEF PageByte
<1>6. Holds(p)'
  BY <1>5 DEF Sound, Kept, Holds, Waiting
<1>7. Accounted(p)'
  BY <1>4 DEF Sound, Kept, Accounted, Waiting
<1>8. Roomy(p)' /\ Solid(p)'
  BY DEF Sound, Kept, Roomy, Solid
<1>9. Kept(p)'
  BY <1>6, <1>7, <1>8 DEF Sound, Kept
<1>10. Phases(p)'
  BY DEF Sound, Phases, Waiting, Covered
<1> QED BY <1>9, <1>10 DEF Sound

-----------------------------------------------------------------------------
(* One lemma per action. *)

LEMMA MarginsFit ==
  ASSUME NEW feeder, NEW top, NEW left, NEW dpi \in Nat
  PROVE  margins(feeder, top, left, dpi) \in Margins
<1>1. \A n \in Nat : Strip(dpi, n) \in Nat
  <2> SUFFICES ASSUME NEW n \in Nat PROVE Strip(dpi, n) \in Nat
    OBVIOUS
  <2>1. dpi * n \in Nat
    OBVIOUS
  <2> DEFINE area == dpi * n
  <2> HIDE DEF area
  <2>2. area \in Nat => area \div 254 \in Nat
    OBVIOUS
  <2> QED BY <2>1, <2>2 DEF Strip, area
<1> QED BY <1>1 DEF margins, NoMargin, Margins

LEMMA StartKeeps == PathInv /\ sane_start => PathInv'
<1> SUFFICES ASSUME PathInv, sane_start PROVE PathInv'
  OBVIOUS
<1>1. m' = m /\ DitherInv'
  BY DitherStep DEF sane_start, PathInv
<1>2. PICK mode \in Modes, size \in Sizes, percent \in Percent, dpi \in Resolutions,
           feeder \in BOOLEAN, top \in BOOLEAN, left \in BOOLEAN :
        p' = Started(mode, size, percent, margins(feeder, top, left, dpi),
                     mode = "halftone" /\ m.stage # "ready")
  BY DEF sane_start
<1> DEFINE build == (mode = "halftone" /\ m.stage # "ready")
           cut == (percent * White) \div 100
           white == margins(feeder, top, left, dpi)
           s == Started(mode, size, percent, white, build)
<1>3. cut \in Int
  <2>1. percent * White \in Int
    BY <1>2, PathAssumption, MaskConstants
  <2> QED BY <2>1
<1>4. white \in Margins
  BY <1>2, PathAssumption, MarginsFit
<1>5. size[1] \in Nat /\ size[2] \in 0..Wrap /\ size[2] \in Nat
  <2>1. size \in Nat \X (0..(Wrap - 1)) /\ Wrap \in Nat
    BY <1>2, PathAssumption
  <2> QED BY <2>1
<1>6. p' = s /\ build \in BOOLEAN
  BY <1>2
<1> HIDE DEF white, build
<1>7. p \in PageStates /\ Roomy(p)
  BY DEF PathInv, Sound, Kept
<1> DEFINE wide == size[1]
           long == size[2]
           more == p.pages + 1
<1>8. s \in PageStates
  <2>1. s = [p EXCEPT !.mode = mode, !.pixels = wide, !.lines = long,
               !.threshold = cut, !.white = white,
               !.building = build, !.scanning = ~build, !.pages = more,
               !.eof = FALSE, !.failed = FALSE, !.next_row = 0, !.out = <<>>,
               !.out_pos = 0, !.got = 0, !.blocks = <<>>]
    BY DEF Started
  <2>2. more \in Nat
    BY <1>7 DEF PageStates
  <2>3. wide \in Nat /\ long \in 0..Wrap /\ <<>> \in Seq(Bytes) /\ <<>> \in Seq(Blocks)
        /\ 0 \in Nat
    BY <1>5
  <2>4. (~build) \in BOOLEAN
    OBVIOUS
  <2> HIDE DEF s, cut, wide, long, more
  <2> QED BY <1>2, <1>3, <1>4, <1>6, <1>7, <2>1, <2>2, <2>3, <2>4 DEF PageStates
<1>9. /\ s.out = <<>> /\ s.out_pos = 0 /\ s.next_row = 0 /\ s.got = 0 /\ s.blocks = <<>>
      /\ s.scanning = ~s.building /\ ~s.eof /\ ~s.failed /\ s.lines \in Nat
      /\ s.refused = p.refused /\ s.alloc = p.alloc /\ s.out_cap = p.out_cap
  BY <1>5, <1>6, <1>7 DEF PageStates, Started
<1> HIDE DEF s
<1>10. Len(s.out) = 0 /\ Waiting(s) = 0 /\ Len(s.blocks) = 0 /\ s.lines >= 0
  BY <1>9 DEF Waiting
<1>11. Roomy(s)
  <2>1. s.alloc \in Nat
    BY <1>8 DEF PageStates
  <2> QED BY <1>7, <1>9, <1>10, <2>1 DEF Roomy
<1>12. Solid(s) /\ Holds(s)
  BY <1>10 DEF Solid, Holds
<1>13. Accounted(s)
  <2> DEFINE bpl == bytes_per_line(s)
  <2>1. bpl \in Nat
    BY <1>8, RowLength DEF PageStates
  <2> HIDE DEF bpl
  <2>2. 0 + 0 = 0 * bpl
    BY <2>1
  <2> QED BY <1>9, <1>10, <2>2 DEF Accounted, bpl
<1>14. Phases(s)
  <2>1. s.building \in BOOLEAN /\ s.scanning \in BOOLEAN
    BY <1>8 DEF PageStates
  <2>2. ASSUME NEW k \in 1..Len(s.blocks) PROVE FALSE
    BY <1>10
  <2> QED BY <1>9, <1>10, <2>1, <2>2 DEF Phases
<1>15. Sound(s)
  BY <1>8, <1>9, <1>10, <1>11, <1>12, <1>13, <1>14 DEF Sound, Kept
<1> QED BY <1>1, <1>6, <1>15, SoundNext DEF PathInv

(* The cut of a halftone page changes only while nothing of it waits.        *)
LEMMA BuildKeeps == PathInv /\ build_step => PathInv'
<1> SUFFICES ASSUME PathInv, build_step PROVE PathInv'
  OBVIOUS
<1>1. p' = p /\ p.building /\ DitherInv'
  BY DitherStep DEF build_step, PathInv
<1>2. Waiting(p) = 0
  BY <1>1 DEF PathInv, Sound, Phases
<1>3. Waiting(p)' = 0
  BY <1>1, <1>2 DEF Waiting
<1>4. Holds(p)'
  BY <1>3 DEF Holds
<1>5. Accounted(p)' /\ Roomy(p)' /\ Solid(p)'
  BY <1>1 DEF PathInv, Sound, Kept, Accounted, Roomy, Solid, Waiting, bytes_per_line
<1>6. Kept(p)'
  BY <1>1, <1>4, <1>5 DEF PathInv, Sound, Kept
<1>7. Phases(p)'
  BY <1>1 DEF PathInv, Sound, Phases, Waiting, Covered
<1> QED BY <1>1, <1>6, <1>7 DEF PathInv, Sound

LEMMA DoneKeeps == PathInv /\ build_done => PathInv'
<1> SUFFICES ASSUME PathInv, build_done PROVE PathInv'
  OBVIOUS
<1> DEFINE s == [p EXCEPT !.building = FALSE, !.scanning = TRUE]
<1>1. m' = m /\ DitherInv' /\ p' = s /\ p.building
  BY DitherStep DEF build_done, PathInv
<1>2. Kept(p) /\ Phases(p) /\ p \in PageStates
  BY DEF PathInv, Sound, Kept
<1>3. s \in PageStates /\ SamePath(p, s) /\ ~s.building /\ s.blocks = p.blocks
      /\ s.eof = p.eof /\ s.failed = p.failed
  BY <1>2 DEF PageStates, SamePath, SameStart
<1> HIDE DEF s
<1>4. Kept(s)
  BY <1>2, <1>3, PathKept
<1>5. ~s.eof /\ ~s.failed /\ s.blocks = <<>>
  BY <1>1, <1>2, <1>3 DEF Phases
<1>6. ASSUME NEW k \in 1..Len(s.blocks) PROVE FALSE
  BY <1>5
<1>7. Phases(s)
  BY <1>3, <1>5, <1>6 DEF Phases
<1> QED BY <1>1, <1>4, <1>7, SoundNext DEF PathInv, Sound

LEMMA NomemKeeps == PathInv /\ build_nomem => PathInv'
<1> SUFFICES ASSUME PathInv, build_nomem PROVE PathInv'
  OBVIOUS
<1> DEFINE s == [p EXCEPT !.building = FALSE, !.failed = TRUE]
<1>1. m' = m /\ DitherInv' /\ p' = s /\ p.building
  BY DitherStep DEF build_nomem, PathInv
<1>2. Kept(p) /\ Phases(p) /\ p \in PageStates
  BY DEF PathInv, Sound, Kept
<1>3. s \in PageStates /\ SamePath(p, s) /\ ~s.building /\ s.failed
      /\ s.scanning = p.scanning
  BY <1>2 DEF PageStates, SamePath, SameStart
<1> HIDE DEF s
<1>4. Kept(s)
  BY <1>2, <1>3, PathKept
<1>5. ~s.scanning
  BY <1>1, <1>2, <1>3 DEF Phases
<1>6. Phases(s)
  BY <1>3, <1>5 DEF Phases
<1> QED BY <1>1, <1>4, <1>6, SoundNext DEF PathInv, Sound

LEMMA BadBlockKeeps == PathInv /\ bad_block => PathInv'
<1> SUFFICES ASSUME PathInv, bad_block PROVE PathInv'
  OBVIOUS
<1>1. m' = m /\ DitherInv' /\ p.scanning
  BY DitherStep DEF bad_block, Pumping, PathInv
<1>2. Kept(p) /\ ~p.building
  BY <1>1 DEF PathInv, Sound, Phases
<1>3. Sound([p EXCEPT !.scanning = FALSE, !.failed = TRUE])
  BY <1>2, FailKept
<1>4. p' = [p EXCEPT !.scanning = FALSE, !.failed = TRUE]
  BY DEF bad_block, Fails
<1> QED BY <1>1, <1>3, <1>4, SoundNext DEF PathInv

LEMMA CancelKeeps == PathInv /\ read_cancelled => PathInv'
<1> SUFFICES ASSUME PathInv, read_cancelled PROVE PathInv'
  OBVIOUS
<1> DEFINE s == [p EXCEPT !.out = <<>>, !.out_pos = 0, !.eof = TRUE,
                          !.scanning = FALSE, !.failed = TRUE]
<1>1. m' = m /\ DitherInv' /\ p' = s /\ p.scanning
  BY DitherStep DEF read_cancelled, PathInv
<1>2. Kept(p) /\ Phases(p) /\ p \in PageStates
  BY DEF PathInv, Sound, Kept
<1>3. <<>> \in Seq(Bytes)
  OBVIOUS
<1>4. s \in PageStates
  BY <1>2, <1>3 DEF PageStates
<1>5. /\ s.out = <<>> /\ s.out_pos = 0 /\ s.eof /\ ~s.scanning /\ s.failed
      /\ s.next_row = p.next_row /\ s.lines = p.lines /\ s.building = p.building
      /\ s.refused = p.refused /\ s.alloc = p.alloc /\ s.out_cap = p.out_cap
      /\ s.blocks = p.blocks /\ s.mode = p.mode
  BY <1>2 DEF PageStates
<1> HIDE DEF s
<1>6. Len(s.out) = 0 /\ Waiting(s) = 0 /\ s.alloc \in Nat
  BY <1>4, <1>5 DEF Waiting, PageStates
<1>7. Holds(s) /\ Accounted(s)
  BY <1>5, <1>6 DEF Holds, Accounted
<1>8. Solid(s) /\ Roomy(s)
  BY <1>2, <1>5, <1>6 DEF Solid, Roomy, Kept
<1>9. s.out_pos <= Len(s.out) /\ s.next_row <= s.lines
  BY <1>2, <1>5, <1>6 DEF Kept
<1>10. Phases(s)
  BY <1>1, <1>2, <1>5 DEF Phases
<1> QED BY <1>1, <1>4, <1>7, <1>8, <1>9, <1>10, SoundNext DEF PathInv, Sound, Kept

(* What the frontend gets moves the page on by as much as the buffer.        *)
LEMMA ReadKeeps == PathInv /\ sane_read => PathInv'
<1> SUFFICES ASSUME PathInv, sane_read PROVE PathInv'
  OBVIOUS
<1>1. m' = m /\ DitherInv' /\ p.out_pos < Len(p.out)
  BY DitherStep DEF sane_read, PathInv
<1>2. Kept(p) /\ Phases(p) /\ p \in PageStates /\ p.out_pos <= Len(p.out)
  BY DEF PathInv, Sound, Kept
<1>3. PICK max_length \in ReadSizes :
        LET n == Min({max_length, Len(p.out) - p.out_pos}) IN
        p' = [p EXCEPT !.out_pos = @ + n, !.got = @ + n]
  BY DEF sane_read
<1> DEFINE n == Min({max_length, Len(p.out) - p.out_pos})
           pos == p.out_pos + n
           got == p.got + n
           s == [p EXCEPT !.out_pos = pos, !.got = got]
<1>4. p.out_pos \in Nat /\ Len(p.out) \in Nat /\ p.got \in Nat /\ Waiting(p) \in Nat
  BY <1>2, KeptNumbers
<1>5. n \in Nat /\ n <= Len(p.out) - p.out_pos
  <2>1. max_length \in Nat
    BY PathAssumption
  <2> DEFINE rest == Len(p.out) - p.out_pos
  <2>2. rest \in Nat
    BY <1>1, <1>4
  <2> HIDE DEF rest
  <2>3. Min({max_length, rest}) = IF max_length <= rest THEN max_length ELSE rest
    BY <2>1, <2>2, MinPair
  <2>4. Min({max_length, rest}) \in Nat /\ Min({max_length, rest}) <= rest
    BY <2>1, <2>2, <2>3
  <2> QED BY <2>4 DEF rest
<1>6. p' = s
  BY <1>3
<1> HIDE DEF n
<1>7. pos \in Nat /\ got \in Nat
  BY <1>4, <1>5
<1>8. s \in PageStates
  <2> HIDE DEF pos, got
  <2> QED BY <1>2, <1>7 DEF PageStates
<1>9. /\ s.out_pos = p.out_pos + n /\ s.got = p.got + n /\ s.out = p.out
      /\ s.next_row = p.next_row /\ s.lines = p.lines /\ s.building = p.building
      /\ s.scanning = p.scanning /\ s.eof = p.eof /\ s.failed = p.failed
      /\ s.refused = p.refused /\ s.alloc = p.alloc /\ s.out_cap = p.out_cap
      /\ SameStart(p, s)
  BY <1>2 DEF PageStates, SameStart
<1> HIDE DEF s
<1>10. Waiting(s) = Waiting(p) - n /\ s.out_pos <= Len(s.out) /\ n <= Waiting(p)
       /\ s.got + Waiting(s) = p.got + Waiting(p) /\ Waiting(p) # 0
  BY <1>1, <1>4, <1>5, <1>9 DEF Waiting
<1>11. Holds(s)
  <2> SUFFICES ASSUME NEW j \in 1..Waiting(s)
               PROVE  s.out[s.out_pos + j] = PageByte(s, s.got + j - 1)
    BY DEF Holds
  <2>1. n + j \in 1..Waiting(p)
    BY <1>4, <1>5, <1>10
  <2>2. p.out[p.out_pos + (n + j)] = PageByte(p, p.got + (n + j) - 1)
    BY <1>2, <2>1 DEF Kept, Holds
  <2>3. p.out_pos + (n + j) = s.out_pos + j /\ p.got + (n + j) - 1 = s.got + j - 1
    BY <1>4, <1>5, <1>9, <1>10
  <2> QED BY <1>9, <2>2, <2>3, SamePage
<1>12. Accounted(s)
  BY <1>2, <1>9, <1>10, SamePage DEF Kept, Accounted
<1>13. Solid(s) /\ Roomy(s)
  BY <1>2, <1>9 DEF SameStart, Solid, Roomy, Kept
<1>14. Phases(s)
  BY <1>2, <1>9, <1>10 DEF Phases, SameStart, Covered
<1>15. Kept(s)
  BY <1>2, <1>8, <1>9, <1>10, <1>11, <1>12, <1>13 DEF Kept
<1> QED BY <1>1, <1>6, <1>14, <1>15, SoundNext DEF PathInv, Sound

(* A block that is not Refused fits its body.                                *)
LEMMA BlockSolid ==
  ASSUME NEW s, s.mode \in Modes, NEW b \in Headers, ~Refused(s, b)
  PROVE  /\ Block(b) \in Blocks
         /\ Block(b).rows * Block(b).stride <= Block(b).body
         /\ (IF s.mode = "colour" THEN 3 * Block(b).avail ELSE Block(b).avail)
              <= Block(b).stride
<1> DEFINE stride == b.body \div b.rows
           room == stride \div b.planes
           avail == Min({b.pixels, room})
<1>1. /\ b.first \in 0..(Wrap - 1) /\ b.rows \in 0..(Wrap - 1) /\ b.planes \in Nat
      /\ b.pixels \in Nat /\ b.body \in Nat /\ Wrap \in Nat
  BY PathAssumption
<1>2. b.rows # 0 /\ b.planes = (IF s.mode = "colour" THEN 3 ELSE 1)
  BY DEF Refused
<1>3. b.rows \in Nat \ {0} /\ b.planes \in {1, 3} /\ b.body \in Int
  BY <1>1, <1>2
<1>4. stride \in Nat /\ b.rows * stride <= b.body
  <2> DEFINE w == b.rows
             a == b.body
             c == a \div w
             r == a % w
  <2>1. w \in Nat \ {0} /\ a \in Nat
    BY <1>1, <1>3
  <2> HIDE DEF w, a
  <2>2. c \in Int /\ r \in 0..(w - 1) /\ a = c * w + r
    BY <2>1, DivMod
  <2>3. c \in Nat
    BY <2>1
  <2> HIDE DEF c, r
  <2>4. c * w \in Int /\ w * c = c * w
    BY <2>1, <2>2
  <2>5. w * c <= a
    BY <2>1, <2>2, <2>4
  <2> QED BY <2>3, <2>5 DEF w, a, c
<1> HIDE DEF stride
<1>5. room \in Nat /\ b.planes * room <= stride
  <2>1. CASE b.planes = 1
    BY <1>4, <2>1
  <2>2. CASE b.planes = 3
    BY <1>4, <2>2
  <2> QED BY <1>3, <2>1, <2>2
<1> HIDE DEF room
<1>6. avail \in Nat /\ avail <= room
  <2>1. avail = IF b.pixels <= room THEN b.pixels ELSE room
    BY <1>1, <1>5, MinPair
  <2> QED BY <1>1, <1>5, <2>1
<1> HIDE DEF avail
<1>7. Block(b) = [first |-> b.first, rows |-> b.rows, body |-> b.body,
                  stride |-> stride, avail |-> avail]
  BY DEF Block, stride, room, avail
<1>8. Block(b) \in Blocks
  BY <1>1, <1>4, <1>6, <1>7 DEF Blocks
<1>9. /\ Block(b).rows = b.rows /\ Block(b).stride = stride
      /\ Block(b).body = b.body /\ Block(b).avail = avail
  BY <1>7
<1>10. (IF s.mode = "colour" THEN 3 * avail ELSE avail) <= stride
  BY <1>2, <1>4, <1>5, <1>6
<1> QED BY <1>4, <1>8, <1>9, <1>10

(* The page with a block more, before its rows are appended.                 *)
LEMMA BlockTaken ==
  ASSUME Sound(p), Pumping, NEW b \in Headers, ~Refused(p, b)
  PROVE  LET s == [p EXCEPT !.blocks = Append(@, Block(b))] IN
           /\ s \in PageStates /\ Stream(s, s) /\ Solid(s)
           /\ ~s.building /\ s.scanning /\ ~s.eof /\ ~s.failed
           /\ Len(s.blocks) \in 1..Len(s.blocks)
           /\ s.blocks[Len(s.blocks)] = Block(b) /\ Len(s.blocks) \in Nat
           /\ \A k \in 1..Len(s.blocks) : k # Len(s.blocks) => Covered(s, k)
<1> DEFINE blocks == Append(p.blocks, Block(b))
           s == [p EXCEPT !.blocks = blocks]
<1>1. /\ p \in PageStates /\ p.out_pos <= Len(p.out) /\ p.next_row <= p.lines
      /\ Roomy(p) /\ Solid(p) /\ Accounted(p) /\ p.scanning /\ p.out_pos = Len(p.out)
      /\ ~p.building /\ ~p.eof /\ ~p.failed
      /\ \A k \in 1..Len(p.blocks) : Covered(p, k)
  BY DEF Sound, Kept, Phases, Pumping
<1>2. p.mode \in Modes /\ p.blocks \in Seq(Blocks)
  BY <1>1 DEF PageStates
<1>3. /\ Block(b) \in Blocks
      /\ Block(b).rows * Block(b).stride <= Block(b).body
      /\ (IF p.mode = "colour" THEN 3 * Block(b).avail ELSE Block(b).avail)
           <= Block(b).stride
  BY <1>2, BlockSolid
<1> DEFINE n == Len(p.blocks)
<1>4. n \in Nat /\ blocks \in Seq(Blocks) /\ Len(blocks) = n + 1
      /\ blocks[n + 1] = Block(b) /\ \A k \in 1..n : blocks[k] = p.blocks[k]
  BY <1>2, <1>3
<1> HIDE DEF blocks
<1>5. s \in PageStates /\ s.blocks = blocks
  BY <1>1, <1>4 DEF PageStates
<1>6. /\ s.out = p.out /\ s.out_pos = p.out_pos /\ s.next_row = p.next_row
      /\ s.lines = p.lines /\ s.got = p.got /\ s.refused = p.refused
      /\ s.alloc = p.alloc /\ s.out_cap = p.out_cap /\ s.eof = p.eof
      /\ s.failed = p.failed /\ s.scanning = p.scanning /\ s.building = p.building
      /\ s.mode = p.mode /\ s.pixels = p.pixels
  BY <1>1 DEF PageStates
<1> HIDE DEF s
<1>7. Len(p.out) \in Nat /\ Waiting(p) = 0 /\ Waiting(s) = 0
  BY <1>1, <1>6, KeptNumbers DEF Waiting
<1>8. Holds(s) /\ Roomy(s) /\ Accounted(s)
  BY <1>1, <1>6, <1>7 DEF Holds, Roomy, Accounted, bytes_per_line
<1>9. ASSUME NEW k \in 1..(n + 1)
      PROVE  k \in 1..n \/ k = n + 1
  BY <1>4
<1> HIDE DEF n
<1>10. Solid(s)
  <2> SUFFICES ASSUME NEW k \in 1..(n + 1)
               PROVE  /\ s.blocks[k].rows * s.blocks[k].stride <= s.blocks[k].body
                      /\ (IF s.mode = "colour" THEN 3 * s.blocks[k].avail
                          ELSE s.blocks[k].avail) <= s.blocks[k].stride
    BY <1>4, <1>5 DEF Solid
  <2>1. CASE k \in 1..n
    <3>1. s.blocks[k] = p.blocks[k]
      BY <1>4, <1>5, <2>1
    <3> QED BY <1>1, <1>6, <2>1, <3>1 DEF Solid, n
  <2>2. CASE k = n + 1
    BY <1>3, <1>4, <1>5, <1>6, <2>2
  <2> QED BY <1>9, <2>1, <2>2
<1>11. ASSUME NEW k \in 1..(n + 1), k # n + 1 PROVE Covered(s, k)
  <2>1. k \in 1..n
    BY <1>9, <1>11
  <2>2. s.blocks[k] = p.blocks[k] /\ Covered(p, k)
    BY <1>1, <1>4, <1>5, <2>1 DEF n
  <2> QED BY <1>6, <2>2 DEF Covered
<1>12. Kept(s)
  BY <1>1, <1>5, <1>6, <1>8, <1>10 DEF Kept
<1>13. Stream(s, s)
  BY <1>1, <1>6, <1>12, KeptStreams
<1>14. Len(s.blocks) = n + 1 /\ n + 1 \in 1..(n + 1) /\ n + 1 \in Nat
  BY <1>4, <1>5
<1>15. /\ s \in PageStates /\ Stream(s, s) /\ Solid(s)
       /\ ~s.building /\ s.scanning /\ ~s.eof /\ ~s.failed
       /\ Len(s.blocks) \in 1..Len(s.blocks)
       /\ s.blocks[Len(s.blocks)] = Block(b) /\ Len(s.blocks) \in Nat
       /\ \A k \in 1..Len(s.blocks) : k # Len(s.blocks) => Covered(s, k)
  BY <1>1, <1>4, <1>5, <1>6, <1>10, <1>11, <1>13, <1>14
<1> QED BY <1>15 DEF s, blocks

(* The rows appended, or memory run out on the way.                          *)
LEMMA RowsKept ==
  ASSUME NEW q \in PageStates, Stream(q, q), Solid(q), ~q.building,
         NEW S, NEW rows \in Seq(S), NEW next, next[0] = q.next_row,
         Ordered(q, rows, Len(rows), next)
  PROVE  /\ Kept(Appended(q, rows)) /\ SameStart(q, Appended(q, rows))
         /\ SameFlags(q, Appended(q, rows))
         /\ Appended(q, rows).next_row = next[Len(rows)]
         /\ \A t \in OutOfMemory(q, rows) :
              Sound([t EXCEPT !.scanning = FALSE, !.failed = TRUE])
<1>1. Len(rows) \in Nat /\ DOMAIN rows = 1..Len(rows)
  OBVIOUS
<1>2. Stream(q, Appended(q, rows)) /\ Appended(q, rows).next_row = next[Len(rows)]
  BY <1>1, LoopKeeps
<1>3. ASSUME NEW t \in OutOfMemory(q, rows)
      PROVE  Sound([t EXCEPT !.scanning = FALSE, !.failed = TRUE])
  <2>1. Stream(q, t)
    BY MemoryRunsOut
  <2>2. Kept(t)
    BY <2>1, StreamKept
  <2>3. ~t.building
    BY <2>1 DEF Stream, SameFlags
  <2> QED BY <2>2, <2>3, FailKept
<1>4. Kept(Appended(q, rows))
  BY <1>2, StreamKept
<1> QED BY <1>2, <1>3, <1>4 DEF Stream

LEMMA DataBlockKeeps == PathInv /\ data_block => PathInv'
<1> SUFFICES ASSUME PathInv, data_block PROVE PathInv'
  OBVIOUS
<1>1. m' = m /\ DitherInv' /\ Pumping /\ Sound(p) /\ m \in DitherStates
  BY DitherStep DEF data_block, Pumping, PathInv, DitherInv, DitherShape
<1>2. PICK b \in Headers :
        /\ ~Refused(p, b)
        /\ LET s == [p EXCEPT !.blocks = Append(@, Block(b))]
               rows == block_rows(s, Block(b), Len(s.blocks))
           IN \/ p' = Appended(s, rows)
              \/ \E t \in OutOfMemory(s, rows) : Fails(t)
  BY DEF data_block
<1> DEFINE s == [p EXCEPT !.blocks = Append(@, Block(b))]
           k == Len(s.blocks)
           rows == block_rows(s, Block(b), k)
           full == Appended(s, rows)
<1>3. /\ s \in PageStates /\ Stream(s, s) /\ Solid(s)
      /\ ~s.building /\ s.scanning /\ ~s.eof /\ ~s.failed
      /\ k \in 1..k /\ s.blocks[k] = Block(b) /\ k \in Nat
      /\ \A j \in 1..k : j # k => Covered(s, j)
  BY <1>1, <1>2, BlockTaken
<1>4. p' = full \/ \E t \in OutOfMemory(s, rows) : Fails(t)
  BY <1>2
<1> HIDE DEF s
<1>5. \E S, next :
        /\ rows \in Seq(S) /\ next[0] = s.next_row
        /\ Ordered(s, rows, Len(rows), next)
        /\ next[Len(rows)] >= s.next_row
        /\ next[Len(rows)] >= Lesser(s.blocks[k].first + s.blocks[k].rows, s.lines)
  <2>1. s.next_row <= s.lines
    BY <1>3 DEF Stream
  <2>2. k \in 1..Len(s.blocks)
    BY <1>3
  <2>3. block_rows(s, s.blocks[k], k) = rows
    BY <1>3
  <2> QED BY <1>1, <1>3, <2>1, <2>2, <2>3, BlockOrdered
<1>6. PICK S, next :
        /\ rows \in Seq(S) /\ next[0] = s.next_row
        /\ Ordered(s, rows, Len(rows), next)
        /\ next[Len(rows)] >= s.next_row
        /\ next[Len(rows)] >= Lesser(s.blocks[k].first + s.blocks[k].rows, s.lines)
  BY <1>5
<1> HIDE DEF rows
<1>7. /\ Kept(full) /\ SameStart(s, full) /\ SameFlags(s, full)
      /\ full.next_row = next[Len(rows)]
      /\ \A t \in OutOfMemory(s, rows) :
           Sound([t EXCEPT !.scanning = FALSE, !.failed = TRUE])
  BY <1>3, <1>6, RowsKept
<1> HIDE DEF full
<1>8. ASSUME NEW j \in 1..Len(full.blocks) PROVE Covered(full, j)
  <2>1. full.blocks = s.blocks /\ full.lines = s.lines /\ j \in 1..k
    BY <1>7 DEF SameStart
  <2>2. /\ s.blocks[j].first \in Nat /\ s.blocks[j].rows \in Nat
        /\ s.lines \in Nat /\ s.next_row \in Nat /\ full.next_row \in Nat
    <3>1. full \in PageStates /\ s.blocks[j] \in Blocks
      BY <1>3, <1>7, <2>1, PageNumbers DEF Kept
    <3> QED BY <1>3, <3>1, PageNumbers DEF Blocks
  <2> DEFINE end == s.blocks[j].first + s.blocks[j].rows
  <2>3. end \in Nat
    BY <2>2
  <2> HIDE DEF end
  <2>4. CASE j = k
    <3>1. full.next_row >= Lesser(end, s.lines)
      BY <1>6, <1>7, <2>4 DEF end
    <3>2. end <= full.next_row \/ s.lines <= full.next_row
      BY <2>2, <2>3, <3>1 DEF Lesser
    <3> QED BY <2>1, <3>2 DEF Covered, end
  <2>5. CASE j # k
    <3>1. end <= s.next_row \/ s.lines <= s.next_row
      BY <1>3, <2>1, <2>5 DEF Covered, end
    <3>2. full.next_row >= s.next_row
      BY <1>6, <1>7
    <3>3. end <= full.next_row \/ s.lines <= full.next_row
      BY <2>2, <2>3, <3>1, <3>2
    <3> QED BY <2>1, <3>3 DEF Covered, end
  <2> QED BY <2>4, <2>5
<1>9. Sound(full)
  <2>1. ~full.building /\ full.scanning /\ ~full.eof /\ ~full.failed
    BY <1>3, <1>7 DEF SameFlags
  <2>2. Phases(full)
    BY <1>8, <2>1 DEF Phases
  <2> QED BY <1>7, <2>2 DEF Sound
<1>10. CASE p' = full
  BY <1>1, <1>9, <1>10, SoundNext DEF PathInv
<1>11. CASE \E t \in OutOfMemory(s, rows) : Fails(t)
  <2>1. PICK t \in OutOfMemory(s, rows) : Fails(t)
    BY <1>11
  <2>2. p' = [t EXCEPT !.scanning = FALSE, !.failed = TRUE]
    BY <2>1 DEF Fails
  <2>3. Sound([t EXCEPT !.scanning = FALSE, !.failed = TRUE])
    BY <1>7, <2>1
  <2> QED BY <1>1, <2>2, <2>3, SoundNext DEF PathInv
<1> QED BY <1>4, <1>10, <1>11

LEMMA PageEndKeeps == PathInv /\ page_end => PathInv'
<1> SUFFICES ASSUME PathInv, page_end PROVE PathInv'
  OBVIOUS
<1>1. /\ m' = m /\ DitherInv' /\ m \in DitherStates /\ p \in PageStates
      /\ Kept(p) /\ Phases(p) /\ p.scanning /\ p.out_pos = Len(p.out)
  BY DitherStep DEF page_end, Pumping, PathInv, DitherInv, DitherShape, Sound, Kept
<1> DEFINE s == [p EXCEPT !.eof = TRUE, !.scanning = FALSE]
           rows == emit_white_rows(p, p.lines)
           full == Appended(s, rows)
<1>2. p' = full \/ \E t \in OutOfMemory(s, rows) : Fails(t)
  BY DEF page_end
<1>3. ~p.building /\ ~p.failed /\ \A k \in 1..Len(p.blocks) : Covered(p, k)
  BY <1>1 DEF Phases
<1>4. /\ s \in PageStates /\ SameStart(p, s) /\ s.out = p.out /\ s.out_pos = p.out_pos
      /\ s.next_row = p.next_row /\ s.got = p.got /\ s.refused = p.refused
      /\ s.alloc = p.alloc /\ s.out_cap = p.out_cap /\ s.eof /\ ~s.scanning
      /\ s.failed = p.failed /\ s.building = p.building
  BY <1>1 DEF PageStates, SameStart
<1> HIDE DEF s
<1>5. Waiting(p) = 0 /\ Waiting(s) = 0
  <2>1. Len(p.out) \in Nat
    BY <1>1, KeptNumbers DEF Kept
  <2> QED BY <1>1, <1>4, <2>1 DEF Waiting
<1>6. Holds(s) /\ Accounted(s) /\ Solid(s) /\ Roomy(s)
  <2>1. Accounted(s)
    BY <1>1, <1>3, <1>4, <1>5, SamePage DEF Kept, Accounted
  <2> QED BY <1>1, <1>4, <1>5, <2>1 DEF Kept, Holds, SameStart, Solid, Roomy
<1>7. Kept(s) /\ Stream(s, s)
  <2>1. Kept(s)
    BY <1>1, <1>4, <1>6 DEF Kept, SameStart
  <2> QED BY <1>3, <1>4, <2>1, KeptStreams
<1>8. \A k \in 1..Len(s.blocks) : Covered(s, k)
  BY <1>3, <1>4 DEF Covered, SameStart
<1>9. \E S, next :
        /\ rows \in Seq(S) /\ next[0] = s.next_row
        /\ Ordered(s, rows, Len(rows), next) /\ next[Len(rows)] = s.lines
  <2>1. SameStart(p, s) /\ p.next_row = s.next_row /\ s.next_row <= s.lines
    BY <1>1, <1>4 DEF Kept, SameStart
  <2> QED BY <1>1, <1>4, <1>8, <2>1, EndOrdered
<1>10. PICK S, next :
        /\ rows \in Seq(S) /\ next[0] = s.next_row
        /\ Ordered(s, rows, Len(rows), next) /\ next[Len(rows)] = s.lines
  BY <1>9
<1> HIDE DEF rows
<1>11. /\ Kept(full) /\ SameStart(s, full) /\ SameFlags(s, full)
       /\ full.next_row = s.lines
       /\ \A t \in OutOfMemory(s, rows) :
            Sound([t EXCEPT !.scanning = FALSE, !.failed = TRUE])
  BY <1>3, <1>4, <1>6, <1>7, <1>10, RowsKept
<1> HIDE DEF full
<1>12. Sound(full)
  <2>1. ~full.building /\ ~full.scanning /\ full.next_row = full.lines
    BY <1>3, <1>4, <1>11 DEF SameFlags, SameStart
  <2>2. Phases(full)
    BY <2>1 DEF Phases
  <2> QED BY <1>11, <2>2 DEF Sound
<1>13. CASE p' = full
  BY <1>1, <1>12, <1>13, SoundNext DEF PathInv
<1>14. CASE \E t \in OutOfMemory(s, rows) : Fails(t)
  <2>1. PICK t \in OutOfMemory(s, rows) : Fails(t)
    BY <1>14
  <2>2. p' = [t EXCEPT !.scanning = FALSE, !.failed = TRUE]
    BY <2>1 DEF Fails
  <2>3. Sound([t EXCEPT !.scanning = FALSE, !.failed = TRUE])
    BY <1>11, <2>1
  <2> QED BY <1>1, <2>2, <2>3, SoundNext DEF PathInv
<1> QED BY <1>2, <1>13, <1>14

-----------------------------------------------------------------------------
(* The invariant, and what follows from it. *)

LEMMA PathStart == PathInit => PathInv
<1> SUFFICES ASSUME PathInit PROVE PathInv
  OBVIOUS
<1>1. DitherInv
  BY DitherStart DEF PathInit
<1>2. /\ p.mode = "gray" /\ p.pixels = 0 /\ p.lines = 0 /\ p.white = NoMargin
      /\ p.threshold = 0 /\ ~p.building /\ ~p.scanning /\ ~p.eof /\ ~p.failed
      /\ p.next_row = 0 /\ p.out = <<>> /\ p.out_pos = 0 /\ p.out_cap = 0
      /\ p.alloc = 0 /\ ~p.refused /\ p.got = 0 /\ p.blocks = <<>> /\ p.pages = 0
  BY DEF PathInit
<1>3. p \in PageStates
  <2>1. NoMargin \in Margins /\ "gray" \in Modes /\ 0 \in 0..Wrap
    BY PathAssumption DEF NoMargin, Margins, Modes
  <2>2. <<>> \in Seq(Bytes) /\ <<>> \in Seq(Blocks)
    OBVIOUS
  <2> QED BY <2>1, <2>2 DEF PathInit, PageStates
<1>4. Len(p.out) = 0 /\ Waiting(p) = 0 /\ Len(p.blocks) = 0
  BY <1>2 DEF Waiting
<1>5. Holds(p) /\ Solid(p) /\ Roomy(p)
  BY <1>2, <1>4 DEF Holds, Solid, Roomy
<1>6. Accounted(p)
  <2> DEFINE bpl == bytes_per_line(p)
  <2>1. bpl \in Nat
    BY <1>3, RowLength DEF PageStates
  <2> HIDE DEF bpl
  <2>2. 0 + 0 = 0 * bpl
    BY <2>1
  <2> QED BY <1>2, <1>4, <2>2 DEF Accounted, bpl
<1>7. Kept(p) /\ Phases(p)
  BY <1>2, <1>3, <1>4, <1>5, <1>6 DEF Kept, Phases
<1> QED BY <1>1, <1>7 DEF PathInv, Sound

LEMMA PathStep == PathInv /\ [PathNext]_<<m, p>> => PathInv'
<1> SUFFICES ASSUME PathInv, [PathNext]_<<m, p>> PROVE PathInv'
  OBVIOUS
<1>1. CASE PathNext
  BY <1>1, StartKeeps, BuildKeeps, DoneKeeps, NomemKeeps, BadBlockKeeps,
     DataBlockKeeps, PageEndKeeps, ReadKeeps, CancelKeeps DEF PathNext
<1>2. CASE UNCHANGED <<m, p>>
  <2>1. m' = m /\ p' = p
    BY <1>2
  <2>2. DitherInv'
    BY <2>1, DitherStep DEF PathInv
  <2> QED BY <2>1, <2>2, SoundNext DEF PathInv
<1> QED BY <1>1, <1>2

(* The mask is built right, and every page holds what it should: the         *)
(* inductive invariant of the image path (handle_data_block, pump_frame and  *)
(* sane_pantum_read over the buffer of out_reserve).                         *)
THEOREM PathSound == PathSpec => []PathInv
BY PathStart, PathStep, PTL DEF PathSpec

(* build_dither_mask keeps the energies of all cells up to date by one       *)
(* dither_toggle per change: they are always those of the pattern.           *)
THEOREM EnergyStays == PathSpec => []EnergyIsField
<1>1. PathInv => EnergyIsField
  BY DEF PathInv, DitherInv
<1> QED BY <1>1, PathSound, PTL

(* While build_dither_mask thins and fills the pattern no cell is ranked     *)
(* twice and none is left out.                                               *)
THEOREM RanksStay == PathSpec => []RanksNest
<1>1. PathInv => RanksNest
  BY DEF PathInv, DitherInv
<1> QED BY <1>1, PathSound, PTL

(* When build_dither_mask is done every grey level has its share of the      *)
(* cells, to within one.                                                     *)
THEOREM MaskStays == PathSpec => []MaskBalanced
<1>1. PathInv => MaskBalanced
  BY DEF PathInv, DitherInv
<1> QED BY <1>1, PathSound, PTL

(* What sane_pantum_read hands out and what waits in the out buffer is the   *)
(* page that handle_data_block and emit_white_rows make of the blocks, byte  *)
(* by byte, and at a good end it is all of it.                               *)
THEOREM StreamStays == PathSpec => []StreamIsThePage
<1>1. PathInv => StreamIsThePage
  <2> SUFFICES ASSUME PathInv PROVE StreamIsThePage
    OBVIOUS
  <2>1. Kept(p) /\ Phases(p) /\ p \in PageStates /\ p.out_pos <= Len(p.out)
    BY DEF PathInv, Sound, Kept
  <2>2. p.out_pos \in Nat /\ Len(p.out) \in Nat /\ p.got \in Nat
    BY <2>1, KeptNumbers
  <2>3. \A n \in 1..(Len(p.out) - p.out_pos) :
          p.out[p.out_pos + n] = PageByte(p, p.got + n - 1)
    BY <2>1 DEF Kept, Holds, Waiting
  <2>4. ~(p.eof /\ p.failed) =>
          p.got + Len(p.out) - p.out_pos = p.next_row * bytes_per_line(p)
    <3>1. p.got + Waiting(p) = p.got + Len(p.out) - p.out_pos
      BY <2>2 DEF Waiting
    <3> QED BY <2>1, <3>1 DEF Kept, Accounted
  <2>5. p.eof /\ ~p.failed => p.next_row = p.lines
    BY <2>1 DEF Phases
  <2> QED BY <2>3, <2>4, <2>5 DEF StreamIsThePage
<1> QED BY <1>1, PathSound, PTL

(* out_reserve's capacity counts what already waits: append_row and          *)
(* emit_white_rows never write past the allocation, unless a realloc was     *)
(* refused before.                                                           *)
THEOREM WritesStay == PathSpec => []WritesFit
<1>1. PathInv => WritesFit
  BY DEF PathInv, Sound, Kept, Roomy, WritesFit
<1> QED BY <1>1, PathSound, PTL

(* A pixel the page takes from a block lies inside the block's body, and so  *)
(* do all its colours.                                                       *)
LEMMA PixelWithin ==
  ASSUME NEW q \in PageStates, Solid(q), NEW r \in Nat, NEW col \in Nat,
         Pixel(q, r, col) # Paper, NEW at \in Int,
         at <= (IF q.mode = "colour" THEN 3 * col + 2 ELSE col)
  PROVE  Pixel(q, r, col)[2] + at < q.blocks[Pixel(q, r, col)[1]].body
<1> DEFINE k == Min(Reaching(q, r))
           b == q.blocks[k]
<1>1. Reaching(q, r) # {}
  BY DEF Pixel
<1>2. k \in Reaching(q, r) /\ k \in 1..Len(q.blocks) /\ b \in Blocks
  BY <1>1, ReachingType
<1>3. r < b.first + b.rows
  BY <1>2 DEF Reaching
<1>4. /\ ~(r < b.first \/ col >= b.avail)
      /\ Pixel(q, r, col) = <<k, (r - b.first) * b.stride>>
  <2> HIDE DEF k
  <2> QED BY <1>1 DEF Pixel, k
<1>5. b.rows * b.stride <= b.body
      /\ (IF q.mode = "colour" THEN 3 * b.avail ELSE b.avail) <= b.stride
  BY <1>2 DEF Solid
<1> HIDE DEF k, b
<1>6. /\ b.first \in Nat /\ b.rows \in Nat /\ b.stride \in Nat /\ b.avail \in Nat
      /\ b.body \in Nat
  BY <1>2, PathAssumption DEF Blocks
<1>7. at < b.stride
  BY <1>4, <1>5, <1>6
<1> DEFINE i == r - b.first
           of == i * b.stride
           next == (i + 1) * b.stride
           all == b.rows * b.stride
<1>8. i \in Int /\ i + 1 <= b.rows
  BY <1>3, <1>6
<1> HIDE DEF i
<1>9. of \in Int /\ all \in Int /\ next = of + b.stride
  <2> DEFINE w == b.stride
             h == b.rows
  <2>1. w \in Nat /\ h \in Nat /\ i \in Int
    BY <1>6, <1>8
  <2> HIDE DEF w, h
  <2>2. i * w \in Int /\ h * w \in Int /\ (i + 1) * w = i * w + w
    BY <2>1
  <2> QED BY <2>2 DEF w, h
<1>10. next <= all
  BY <1>6, <1>8, TimesOrder
<1>11. Pixel(q, r, col) = <<k, of>>
  BY <1>4 DEF i
<1> HIDE DEF of, next
<1>12. of + at < b.body
  <2>1. all <= b.body
    BY <1>5
  <2> HIDE DEF all
  <2> QED BY <1>6, <1>7, <1>9, <1>10, <2>1
<1> QED BY <1>11, <1>12 DEF b

Within(q, v) == v = Paper \/ v[2] < q.blocks[v[1]].body

LEMMA RowByteWithin ==
  ASSUME NEW q \in PageStates, Solid(q), NEW r \in Nat, NEW x \in Nat
  PROVE  IF Bilevel(q.mode)
         THEN \A j \in 0..(Bits - 1) : Within(q, RowByte(q, r, x)[j])
         ELSE Within(q, RowByte(q, r, x))
<1>1. Bits \in Nat \ {0}
  BY PathAssumption
<1>2. CASE Bilevel(q.mode)
  <2> DEFINE Dot(c) == IF c >= q.pixels \/ Pixel(q, r, c) = Paper THEN Paper
                 ELSE <<Pixel(q, r, c)[1], Pixel(q, r, c)[2] + c, Cut(q, r, c)>>
  <2>1. ASSUME NEW c \in Nat PROVE Within(q, Dot(c))
    <3>1. CASE Dot(c) = Paper
      <4> HIDE DEF Dot
      <4> QED BY <3>1 DEF Within
    <3>2. CASE Pixel(q, r, c) # Paper
             /\ Dot(c) = <<Pixel(q, r, c)[1], Pixel(q, r, c)[2] + c, Cut(q, r, c)>>
      <4>1. q.mode # "colour"
        BY <1>2 DEF Bilevel
      <4>2. Pixel(q, r, c)[2] + c < q.blocks[Pixel(q, r, c)[1]].body
        BY <3>2, <4>1, PixelWithin
      <4> HIDE DEF Dot
      <4>3. Dot(c)[1] = Pixel(q, r, c)[1] /\ Dot(c)[2] = Pixel(q, r, c)[2] + c
        BY <3>2
      <4> QED BY <4>2, <4>3 DEF Within
    <3>3. Dot(c) = Paper \/ (Pixel(q, r, c) # Paper
             /\ Dot(c) = <<Pixel(q, r, c)[1], Pixel(q, r, c)[2] + c, Cut(q, r, c)>>)
      OBVIOUS
    <3> HIDE DEF Dot
    <3> QED BY <3>1, <3>2, <3>3
  <2>2. RowByte(q, r, x) = [j \in 0..(Bits - 1) |-> Dot(x * Bits + j)]
    BY <1>2 DEF RowByte
  <2>3. ASSUME NEW j \in 0..(Bits - 1) PROVE x * Bits + j \in Nat
    BY <1>1
  <2> HIDE DEF Dot
  <2>4. \A j \in 0..(Bits - 1) : Within(q, RowByte(q, r, x)[j])
    BY <2>1, <2>2, <2>3
  <2> QED BY <1>2, <2>4
<1>3. CASE ~Bilevel(q.mode)
  <2> DEFINE col == IF q.mode = "colour" THEN x \div 3 ELSE x
             at == IF q.mode = "colour" THEN 3 * col + 2 - (x % 3) ELSE x
  <2>1. col \in Nat /\ at \in Int /\ at <= (IF q.mode = "colour" THEN 3 * col + 2 ELSE col)
    <3>1. x \div 3 \in Nat /\ x % 3 \in Nat
      OBVIOUS
    <3> QED BY <3>1
  <2>2. RowByte(q, r, x) = IF Pixel(q, r, col) = Paper THEN Paper
                           ELSE <<Pixel(q, r, col)[1], Pixel(q, r, col)[2] + at>>
    BY <1>3 DEF RowByte
  <2> HIDE DEF col, at
  <2>3. CASE Pixel(q, r, col) = Paper
    BY <1>3, <2>2, <2>3 DEF Within
  <2>4. CASE Pixel(q, r, col) # Paper
    <3>1. Pixel(q, r, col)[2] + at < q.blocks[Pixel(q, r, col)[1]].body
      BY <2>1, <2>4, PixelWithin
    <3>2. RowByte(q, r, x)[1] = Pixel(q, r, col)[1]
          /\ RowByte(q, r, x)[2] = Pixel(q, r, col)[2] + at
      BY <2>2, <2>4
    <3> QED BY <1>3, <3>1, <3>2 DEF Within
  <2> QED BY <2>3, <2>4
<1> QED BY <1>2, <1>3

(* convert_row never reads a sample from past the end of the block's payload *)
(* that handle_data_block read, whatever the header claims.                  *)
THEOREM SamplesStay == PathSpec => []SamplesInBlock
<1>1. PathInv => SamplesInBlock
  <2> SUFFICES ASSUME PathInv, NEW n \in (p.out_pos + 1)..Len(p.out)
               PROVE  IF Bilevel(p.mode)
                      THEN \A j \in 0..(Bits - 1) : Within(p, p.out[n][j])
                      ELSE Within(p, p.out[n])
    BY DEF SamplesInBlock, Within
  <2>1. Kept(p) /\ p \in PageStates /\ p.out_pos <= Len(p.out) /\ Solid(p)
    BY DEF PathInv, Sound, Kept
  <2>2. p.out_pos \in Nat /\ Len(p.out) \in Nat /\ p.got \in Nat /\ bytes_per_line(p) \in Nat
        /\ Waiting(p) \in Nat /\ p.next_row \in Nat
    BY <2>1, KeptNumbers, PageNumbers
  <2> DEFINE i == n - p.out_pos
             at == p.got + i - 1
             bpl == bytes_per_line(p)
             r == at \div bpl
             x == at % bpl
  <2>3. i \in 1..Waiting(p) /\ p.out_pos + i = n /\ at \in Nat
    <3>1. n \in Int /\ p.out_pos + 1 <= n /\ n <= Len(p.out)
      BY <2>2
    <3>2. i \in 1..Waiting(p) /\ p.out_pos + i = n
      BY <2>2, <3>1 DEF Waiting
    <3> HIDE DEF i
    <3>3. at \in Nat
      BY <2>2, <3>2
    <3> QED BY <3>2, <3>3
  <2>4. p.out[n] = PageByte(p, at)
    BY <2>1, <2>3 DEF Kept, Holds
  <2>5. bpl # 0
    <3>1. p.got + Waiting(p) = p.next_row * bpl
      <4>1. Waiting(p) # 0
        BY <2>2, <2>3
      <4> QED BY <2>1, <4>1 DEF Kept, Accounted
    <3>2. p.got + Waiting(p) # 0
      BY <2>2, <2>3
    <3>3. p.next_row * 0 = 0
      BY <2>2
    <3> HIDE DEF bpl
    <3> QED BY <3>1, <3>2, <3>3
  <2>6. p.out[n] = RowByte(p, r, x)
    BY <2>4 DEF PageByte
  <2>7. r \in Nat /\ x \in Nat
    <3>1. bpl \in Nat \ {0} /\ at \in Nat
      BY <2>2, <2>3, <2>5
    <3> HIDE DEF bpl, at
    <3> QED BY <3>1
  <2> HIDE DEF r, x
  <2> QED BY <2>1, <2>6, <2>7, RowByteWithin
<1> QED BY <1>1, PathSound, PTL
=============================================================================
