----------------------------- MODULE DataInduction -----------------------------
(***************************************************************************)
(* Induction over data: numbers, finite sets and sequences.  A property of *)
(* numbers is given as the set of those that have it, so that a minimal    *)
(* counterexample (WFMin) can be taken; folds are unfolded by showing that *)
(* the function they choose exists.                                        *)
(***************************************************************************)
EXTENDS Integers, SequencesExt, FiniteSetTheorems, WellFoundedInduction, TLAPS

-----------------------------------------------------------------------------
(* Numbers. *)

LEMMA LeastOf ==
  ASSUME NEW S \in SUBSET Nat, S # {}
  PROVE  \E x \in S : \A y \in S : x <= y
<1> DEFINE R == OpToRel(<, Nat)
<1>1. IsWellFoundedOn(R, Nat)
  BY NatLessThanWellFounded
<1> HIDE DEF R
<1>2. PICK x \in S : \A y \in S : <<y, x>> \notin R
  BY <1>1, WFMin
<1>3. \A y \in S : ~(y < x)
  BY <1>2 DEF R, OpToRel
<1>4. \A y \in S : x <= y
  BY <1>3
<1> QED BY <1>4

LEMMA NatInduct ==
  ASSUME NEW S, 0 \in S, \A n \in Nat : n \in S => n + 1 \in S
  PROVE  Nat \subseteq S
<1> DEFINE T == Nat \ S
<1>1. SUFFICES ASSUME T # {} PROVE FALSE
  OBVIOUS
<1>2. T \in SUBSET Nat
  OBVIOUS
<1> HIDE DEF T
<1>3. PICK x \in T : \A y \in T : x <= y
  BY <1>1, <1>2, LeastOf
<1>4. x \in Nat /\ x # 0
  BY <1>2, <1>3 DEF T
<1>5. x - 1 \in Nat /\ ~(x <= x - 1) /\ x - 1 + 1 = x
  BY <1>4
<1>6. x - 1 \in T
  BY <1>3, <1>4, <1>5 DEF T
<1> QED BY <1>3, <1>5, <1>6

LEMMA MaxOf ==
  ASSUME NEW n \in Nat, NEW S \in SUBSET (1..n), S # {}
  PROVE  Max(S) \in S /\ \A y \in S : Max(S) >= y
<1> DEFINE D == {d \in 0..n : n - d \in S}
<1>1. D \in SUBSET Nat /\ D # {}
  <2>1. PICK x \in S : TRUE
    OBVIOUS
  <2>2. x \in 1..n /\ n - x \in 0..n /\ n - (n - x) = x
    OBVIOUS
  <2>3. n - x \in D
    BY <2>2
  <2>4. D \in SUBSET Nat
    OBVIOUS
  <2> HIDE DEF D
  <2> QED BY <2>3, <2>4
<1>2. PICK d \in D : \A e \in D : d <= e
  <2> HIDE DEF D
  <2> QED BY <1>1, LeastOf
<1>3. n - d \in S
  BY <1>2
<1>4. ASSUME NEW y \in S PROVE n - d >= y
  <2>1. n - y \in 0..n /\ n - (n - y) = y /\ y \in 1..n /\ d \in 0..n
    BY <1>2
  <2>2. n - y \in D
    BY <2>1
  <2>3. d <= n - y
    BY <1>2, <2>2
  <2> QED BY <2>1, <2>3
<1>5. \E x \in S : \A y \in S : x >= y
  BY <1>3, <1>4
<1> QED BY <1>5 DEF Max

-----------------------------------------------------------------------------
(* The capacity that is doubled until it is enough. *)

LEMMA Doubling ==
  ASSUME NEW need \in Nat, NEW first \in Nat \ {0}
  PROVE  LET grow[c \in Nat] == IF c >= need THEN c ELSE grow[2 * c]
         IN grow[first] \in Nat /\ grow[first] >= need
<1> DEFINE Known(g, c) == g[c] = IF c >= need THEN c ELSE g[2 * c]
           Reach(d) == {c \in Nat : c + d >= need /\ (c > 0 \/ c >= need)}
           S == {d \in Nat : \E g \in [Nat -> Nat] :
                   \A c \in Reach(d) : Known(g, c) /\ g[c] >= need}
<1>1. 0 \in S
  <2> DEFINE g == [c \in Nat |-> c]
  <2>1. \A c \in Reach(0) : Known(g, c) /\ g[c] >= need
    OBVIOUS
  <2>2. g \in [Nat -> Nat]
    OBVIOUS
  <2> QED BY <2>1, <2>2
<1>2. ASSUME NEW d \in Nat, d \in S PROVE d + 1 \in S
  <2>1. PICK g \in [Nat -> Nat] : \A c \in Reach(d) : Known(g, c) /\ g[c] >= need
    BY <1>2
  <2> DEFINE f == [c \in Nat |-> IF c + d >= need THEN g[c] ELSE g[2 * c]]
  <2>2. f \in [Nat -> Nat]
    OBVIOUS
  <2>3. ASSUME NEW c \in Reach(d + 1) PROVE Known(f, c) /\ f[c] >= need
    <3>1. CASE c + d >= need
      <4>1. c \in Nat /\ c \in Reach(d) /\ f[c] = g[c]
        BY <3>1
      <4>2. ~(c >= need) => 2 * c \in Nat /\ 2 * c + d >= need
        BY <3>1
      <4>3. ~(c >= need) => f[2 * c] = g[2 * c]
        BY <4>2
      <4> QED BY <2>1, <4>1, <4>3
    <3>2. CASE ~(c + d >= need)
      <4>1. c \in Nat /\ c > 0 /\ ~(c >= need) /\ f[c] = g[2 * c]
        BY <3>2
      <4>2. 2 * c \in Nat /\ 2 * c + d >= need /\ 2 * c > 0
        BY <4>1
      <4>3. f[2 * c] = g[2 * c] /\ 2 * c \in Reach(d)
        BY <4>2
      <4> QED BY <2>1, <4>1, <4>3
    <3> QED BY <3>1, <3>2
  <2>4. \E e \in [Nat -> Nat] : \A c \in Reach(d + 1) : Known(e, c) /\ e[c] >= need
    <3> HIDE DEF f, Known, Reach
    <3> QED BY <2>2, <2>3
  <2> HIDE DEF f, Known, Reach
  <2> QED BY <2>4
<1> HIDE DEF S
<1>3. need \in S
  BY <1>1, <1>2, NatInduct
<1> USE DEF S
<1>4. PICK g \in [Nat -> Nat] : \A c \in Reach(need) : Known(g, c) /\ g[c] >= need
  BY <1>3
<1>5. g = [c \in Nat |-> IF c >= need THEN c ELSE g[2 * c]]
  <2>1. ASSUME NEW c \in Nat PROVE Known(g, c)
    <3>1. CASE c > 0 \/ c >= need
      BY <1>4, <3>1
    <3>2. CASE ~(c > 0 \/ c >= need)
      <4>1. c = 0 /\ 2 * c = c
        BY <3>2
      <4> QED BY <3>2, <4>1
    <3> QED BY <3>1, <3>2
  <2> QED BY <2>1
<1> DEFINE h == CHOOSE h : h = [c \in Nat |-> IF c >= need THEN c ELSE h[2 * c]]
<1>6. h = [c \in Nat |-> IF c >= need THEN c ELSE h[2 * c]]
  BY <1>5
<1> DEFINE U == {d \in Nat : \A c \in Nat \ {0} :
                   c + d >= need => h[c] \in Nat /\ h[c] >= need}
<1> HIDE DEF h
<1>7. 0 \in U
  BY <1>6
<1>8. ASSUME NEW d \in Nat, d \in U PROVE d + 1 \in U
  <2> SUFFICES ASSUME NEW c \in Nat \ {0}, c + (d + 1) >= need
               PROVE  h[c] \in Nat /\ h[c] >= need
    OBVIOUS
  <2>1. CASE c >= need
    BY <1>6, <2>1
  <2>2. CASE ~(c >= need)
    <3>1. 2 * c \in Nat \ {0} /\ 2 * c + d >= need /\ h[c] = h[2 * c]
      BY <1>6, <2>2
    <3> QED BY <1>8, <3>1
  <2> QED BY <2>1, <2>2
<1> HIDE DEF U
<1>9. need \in U
  BY <1>7, <1>8, NatInduct
<1>10. h[first] \in Nat /\ h[first] >= need
  BY <1>9 DEF U
<1> QED BY <1>10 DEF h
-----------------------------------------------------------------------------
(* Sums over finite sets: the column b of K, at the rows of S. *)

ColumnSum(K, b, S) == MapThenSumSet(LAMBDA a : K[a][b], S)

(* The function ColumnSum chooses. *)
SumTable(K, b, S, it) ==
  it = [s \in SUBSET S |-> IF s = {} THEN 0
                           ELSE K[CHOOSE x \in s : TRUE][b] + it[s \ {CHOOSE x \in s : TRUE}]]

LEMMA ColumnSumTable ==
  ASSUME NEW K, NEW b, NEW S
  PROVE  ColumnSum(K, b, S) = (CHOOSE it : SumTable(K, b, S, it))[S]
BY DEF ColumnSum, MapThenSumSet, MapThenFoldSet, SumTable

(* What holds of a set when it holds of the set without any one element      *)
(* holds of every finite set.                                                *)
LEMMA SubsetInduct ==
  ASSUME NEW U, IsFiniteSet(U), NEW H, {} \in H,
         \A s \in SUBSET U : s # {} /\ (\A y \in s : s \ {y} \in H) => s \in H
  PROVE  SUBSET U \subseteq H
<1> DEFINE G == {n \in Nat : \A s \in SUBSET U : Cardinality(s) <= n => s \in H}
<1>1. \A s \in SUBSET U : IsFiniteSet(s) /\ Cardinality(s) \in Nat
  BY FS_Subset, FS_CardinalityType
<1>2. 0 \in G
  <2> SUFFICES ASSUME NEW s \in SUBSET U, Cardinality(s) <= 0 PROVE s \in H
    OBVIOUS
  <2>1. Cardinality(s) = 0
    BY <1>1
  <2>2. s = {}
    BY <1>1, <2>1, FS_EmptySet
  <2> QED BY <2>2
<1>3. ASSUME NEW n \in Nat, n \in G PROVE n + 1 \in G
  <2> SUFFICES ASSUME NEW s \in SUBSET U, Cardinality(s) <= n + 1 PROVE s \in H
    OBVIOUS
  <2>1. ASSUME NEW y \in s PROVE s \ {y} \in H
    <3>1. Cardinality(s \ {y}) = Cardinality(s) - 1
      BY <1>1, FS_RemoveElement
    <3>2. s \ {y} \in SUBSET U /\ Cardinality(s \ {y}) <= n
      BY <1>1, <3>1
    <3> QED BY <1>3, <3>2
  <2> QED BY <2>1
<1> HIDE DEF G
<1>4. \A n \in Nat : n \in G
  BY <1>2, <1>3, NatInduct
<1> QED BY <1>1, <1>4 DEF G

(* A total and transitive relation has a first member in every finite set.   *)
LEMMA FirstOf ==
  ASSUME NEW U, IsFiniteSet(U), NEW R,
         \A a, b \in U : <<a, b>> \in R \/ <<b, a>> \in R,
         \A a, b, c \in U : <<a, b>> \in R /\ <<b, c>> \in R => <<a, c>> \in R
  PROVE  \A s \in SUBSET U : s # {} => \E a \in s : \A b \in s : <<a, b>> \in R
<1> DEFINE H == {s \in SUBSET U : s # {} => \E a \in s : \A b \in s : <<a, b>> \in R}
<1>1. {} \in H
  OBVIOUS
<1>2. ASSUME NEW s \in SUBSET U, s # {}, \A y \in s : s \ {y} \in H PROVE s \in H
  <2>1. PICK y \in s : TRUE
    BY <1>2
  <2>2. CASE s \ {y} = {}
    <3>1. \A b \in s : b = y
      BY <2>2
    <3>2. <<y, y>> \in R
      BY <2>1
    <3> QED BY <2>1, <3>1, <3>2
  <2>3. CASE s \ {y} # {}
    <3>1. PICK a \in s \ {y} : \A b \in s \ {y} : <<a, b>> \in R
      BY <1>2, <2>1, <2>3
    <3>2. CASE <<a, y>> \in R
      BY <2>1, <3>1, <3>2
    <3>3. CASE <<y, a>> \in R
      <4>1. <<y, y>> \in R
        BY <2>1
      <4>2. \A b \in s : <<y, b>> \in R
        BY <2>1, <3>1, <3>3, <4>1
      <4> QED BY <2>1, <4>2
    <3> QED BY <2>1, <3>1, <3>2, <3>3
  <2> QED BY <2>2, <2>3
<1> HIDE DEF H
<1>3. SUBSET U \subseteq H
  BY <1>1, <1>2, SubsetInduct
<1> QED BY <1>3 DEF H

LEMMA SumTableExists ==
  ASSUME NEW K, NEW b, NEW U, IsFiniteSet(U)
  PROVE  \E it : SumTable(K, b, U, it)
<1> DEFINE Next(it, s) == IF s = {} THEN 0
                          ELSE K[CHOOSE x \in s : TRUE][b] + it[s \ {CHOOSE x \in s : TRUE}]
           G == {n \in Nat : \E it : \A s \in SUBSET U : Cardinality(s) <= n => it[s] = Next(it, s)}
<1>1. \A s \in SUBSET U : IsFiniteSet(s) /\ Cardinality(s) \in Nat
  BY FS_Subset, FS_CardinalityType
<1>2. 0 \in G
  <2> DEFINE z == [s \in SUBSET U |-> 0]
  <2>1. ASSUME NEW s \in SUBSET U, Cardinality(s) <= 0 PROVE z[s] = Next(z, s)
    <3>1. Cardinality(s) = 0
      BY <1>1, <2>1
    <3>2. s = {}
      BY <1>1, <3>1, FS_EmptySet
    <3> QED BY <3>2
  <2> HIDE DEF z, Next
  <2>2. \E it : \A s \in SUBSET U : Cardinality(s) <= 0 => it[s] = Next(it, s)
    BY <2>1
  <2> QED BY <2>2
<1>3. ASSUME NEW n \in Nat, n \in G PROVE n + 1 \in G
  <2>1. PICK it : \A s \in SUBSET U : Cardinality(s) <= n => it[s] = Next(it, s)
    BY <1>3
  <2> DEFINE up == [s \in SUBSET U |-> Next(it, s)]
  <2>2. ASSUME NEW s \in SUBSET U, Cardinality(s) <= n + 1 PROVE up[s] = Next(up, s)
    <3>1. CASE s = {}
      BY <3>1
    <3>2. CASE s # {}
      <4> DEFINE x == CHOOSE x \in s : TRUE
      <4>1. x \in s
        BY <3>2
      <4> HIDE DEF x
      <4>2. Cardinality(s \ {x}) = Cardinality(s) - 1 /\ s \ {x} \in SUBSET U
        BY <1>1, <4>1, FS_RemoveElement
      <4>3. Cardinality(s \ {x}) <= n
        BY <1>1, <2>2, <4>2
      <4>4. it[s \ {x}] = up[s \ {x}]
        BY <2>1, <4>2, <4>3
      <4>5. up[s] = K[x][b] + it[s \ {x}]
        BY <3>2 DEF x
      <4>6. Next(up, s) = K[x][b] + up[s \ {x}]
        <5> HIDE DEF up
        <5> QED BY <3>2 DEF x
      <4> QED BY <4>4, <4>5, <4>6
    <3> QED BY <3>1, <3>2
  <2> HIDE DEF up, Next
  <2>3. \E f : \A s \in SUBSET U : Cardinality(s) <= n + 1 => f[s] = Next(f, s)
    BY <2>2
  <2> QED BY <2>3
<1> HIDE DEF G
<1>4. Cardinality(U) \in G
  BY <1>1, <1>2, <1>3, NatInduct
<1>5. PICK it : \A s \in SUBSET U : Cardinality(s) <= Cardinality(U) => it[s] = Next(it, s)
  BY <1>4 DEF G
<1>6. \A s \in SUBSET U : it[s] = Next(it, s)
  BY <1>5, FS_Subset
<1> DEFINE f == [s \in SUBSET U |-> it[s]]
<1>7. ASSUME NEW s \in SUBSET U PROVE f[s] = Next(f, s)
  <2>1. CASE s = {}
    BY <1>6, <2>1
  <2>2. CASE s # {}
    <3>1. s \ {CHOOSE x \in s : TRUE} \in SUBSET U
      OBVIOUS
    <3>2. f[s] = it[s] /\ f[s \ {CHOOSE x \in s : TRUE}] = it[s \ {CHOOSE x \in s : TRUE}]
      BY <3>1
    <3> HIDE DEF f
    <3> QED BY <1>6, <2>2, <3>2
  <2> QED BY <2>1, <2>2
<1>8. f = [s \in SUBSET U |-> f[s]]
  OBVIOUS
<1>9. f = [s \in SUBSET U |-> Next(f, s)]
  <2> HIDE DEF Next, f
  <2> QED BY <1>7, <1>8
<1>10. SumTable(K, b, U, f)
  <2> HIDE DEF f
  <2> QED BY <1>9 DEF SumTable
<1> QED BY <1>10

(* A table holds the sums of all subsets.                                    *)
LEMMA SumTableHolds ==
  ASSUME NEW K, NEW b, NEW U, IsFiniteSet(U), NEW it, SumTable(K, b, U, it)
  PROVE  \A s \in SUBSET U : it[s] = ColumnSum(K, b, s)
<1> DEFINE H == {s \in SUBSET U : \A V \in SUBSET U : \A other :
                   s \in SUBSET V /\ SumTable(K, b, V, other) => it[s] = other[s]}
<1>1. {} \in H
  BY DEF SumTable
<1>2. ASSUME NEW s \in SUBSET U, s # {}, \A y \in s : s \ {y} \in H PROVE s \in H
  <2> SUFFICES ASSUME NEW V \in SUBSET U, NEW other, s \in SUBSET V,
                      SumTable(K, b, V, other)
               PROVE  it[s] = other[s]
    OBVIOUS
  <2> DEFINE x == CHOOSE x \in s : TRUE
  <2>1. x \in s
    BY <1>2
  <2>2. it[s] = K[x][b] + it[s \ {x}] /\ other[s] = K[x][b] + other[s \ {x}]
    BY <1>2 DEF SumTable
  <2> HIDE DEF x
  <2>3. s \ {x} \in H /\ s \ {x} \in SUBSET V
    BY <1>2, <2>1
  <2>4. it[s \ {x}] = other[s \ {x}]
    BY <2>3
  <2> QED BY <2>2, <2>4
<1> HIDE DEF H
<1>3. SUBSET U \subseteq H
  BY <1>1, <1>2, SubsetInduct
<1>4. ASSUME NEW s \in SUBSET U PROVE it[s] = ColumnSum(K, b, s)
  <2> DEFINE other == CHOOSE o : SumTable(K, b, s, o)
  <2>1. \E o : SumTable(K, b, s, o)
    BY FS_Subset, SumTableExists
  <2>2. SumTable(K, b, s, other)
    BY <2>1
  <2>3. it[s] = other[s]
    <3> HIDE DEF other
    <3> QED BY <1>3, <2>2 DEF H
  <2> QED BY <2>3, ColumnSumTable
<1> QED BY <1>4

LEMMA ColumnSumEmpty ==
  ASSUME NEW K, NEW b
  PROVE  ColumnSum(K, b, {}) = 0
<1>1. IsFiniteSet({})
  BY FS_EmptySet
<1>2. PICK it : SumTable(K, b, {}, it)
  BY <1>1, SumTableExists
<1>3. it[{}] = 0
  BY <1>2 DEF SumTable
<1> QED BY <1>1, <1>2, <1>3, SumTableHolds

LEMMA ColumnSumFirst ==
  ASSUME NEW K, NEW b, NEW S, IsFiniteSet(S), S # {}
  PROVE  \E x \in S : ColumnSum(K, b, S) = K[x][b] + ColumnSum(K, b, S \ {x})
<1>1. PICK it : SumTable(K, b, S, it)
  BY SumTableExists
<1> DEFINE x == CHOOSE x \in S : TRUE
<1>2. x \in S
  OBVIOUS
<1>3. it[S] = K[x][b] + it[S \ {x}]
  BY <1>1 DEF SumTable
<1> HIDE DEF x
<1>4. it[S] = ColumnSum(K, b, S) /\ it[S \ {x}] = ColumnSum(K, b, S \ {x})
  BY <1>1, SumTableHolds
<1> QED BY <1>2, <1>3, <1>4

LEMMA ColumnSumType ==
  ASSUME NEW K, NEW b, NEW U, IsFiniteSet(U), \A a \in U : K[a][b] \in Int
  PROVE  \A s \in SUBSET U : ColumnSum(K, b, s) \in Int
<1> DEFINE H == {s \in SUBSET U : ColumnSum(K, b, s) \in Int}
<1>1. {} \in H
  BY ColumnSumEmpty
<1>2. ASSUME NEW s \in SUBSET U, s # {}, \A y \in s : s \ {y} \in H PROVE s \in H
  <2>1. IsFiniteSet(s)
    BY FS_Subset
  <2>2. PICK x \in s : ColumnSum(K, b, s) = K[x][b] + ColumnSum(K, b, s \ {x})
    BY <1>2, <2>1, ColumnSumFirst
  <2>3. ColumnSum(K, b, s \ {x}) \in Int
    BY <1>2
  <2> QED BY <2>2, <2>3
<1> HIDE DEF H
<1>3. SUBSET U \subseteq H
  BY <1>1, <1>2, SubsetInduct
<1> QED BY <1>3 DEF H

(* Any one row may be split off, not only the one the sum begins with.       *)
IntColumn(K, b, U) == \A a \in U : K[a][b] \in Int

Splits(K, b, s, y) == ColumnSum(K, b, s) = K[y][b] + ColumnSum(K, b, s \ {y})

LEMMA ColumnSumSplit ==
  ASSUME NEW K, NEW b, NEW U, IsFiniteSet(U), IntColumn(K, b, U)
  PROVE  \A s \in SUBSET U : \A y \in s : Splits(K, b, s, y)
<1>0. \A a \in U : K[a][b] \in Int
  BY DEF IntColumn
<1> DEFINE H == {s \in SUBSET U : \A y \in s :
                   ColumnSum(K, b, s) = K[y][b] + ColumnSum(K, b, s \ {y})}
<1>1. {} \in H
  OBVIOUS
<1>2. ASSUME NEW s \in SUBSET U, s # {}, \A y \in s : s \ {y} \in H PROVE s \in H
  <2> SUFFICES ASSUME NEW y \in s
               PROVE  ColumnSum(K, b, s) = K[y][b] + ColumnSum(K, b, s \ {y})
    OBVIOUS
  <2>1. IsFiniteSet(s)
    BY FS_Subset
  <2>2. PICK x \in s : ColumnSum(K, b, s) = K[x][b] + ColumnSum(K, b, s \ {x})
    BY <1>2, <2>1, ColumnSumFirst
  <2>3. CASE x = y
    BY <2>2, <2>3
  <2>4. CASE x # y
    <3>1. s \ {x} \in H /\ s \ {y} \in H /\ y \in s \ {x} /\ x \in s \ {y}
      BY <1>2, <2>4
    <3>2. (s \ {x}) \ {y} = (s \ {y}) \ {x}
      OBVIOUS
    <3>3. ColumnSum(K, b, s \ {x}) = K[y][b] + ColumnSum(K, b, (s \ {x}) \ {y})
      BY <3>1
    <3>4. ColumnSum(K, b, s \ {y}) = K[x][b] + ColumnSum(K, b, (s \ {y}) \ {x})
      BY <3>1
    <3>5. ColumnSum(K, b, (s \ {y}) \ {x}) \in Int /\ K[x][b] \in Int /\ K[y][b] \in Int
      <4>1. (s \ {y}) \ {x} \in SUBSET U
        OBVIOUS
      <4> QED BY <1>0, <4>1, ColumnSumType
    <3> DEFINE rest == ColumnSum(K, b, (s \ {y}) \ {x})
    <3>6. ColumnSum(K, b, s) = K[x][b] + (K[y][b] + rest)
          /\ ColumnSum(K, b, s \ {y}) = K[x][b] + rest
      BY <2>2, <3>2, <3>3, <3>4
    <3> HIDE DEF rest
    <3>7. K[x][b] + (K[y][b] + rest) = K[y][b] + (K[x][b] + rest)
      BY <3>5 DEF rest
    <3> QED BY <3>6, <3>7
  <2> QED BY <2>3, <2>4
<1> HIDE DEF H
<1>3. SUBSET U \subseteq H
  BY <1>1, <1>2, SubsetInduct
<1> QED BY <1>3 DEF H, Splits

-----------------------------------------------------------------------------
(* Sums over sequences. *)

SeqSum(base, seq) == FoldLeft(LAMBDA a, b : a + b, base, seq)

(* f[k] is the sum of the first k members.                                   *)
RunningSum(base, seq, n, f) ==
  f[0] = base /\ \A k \in 1..n : f[k] = f[k - 1] + seq[k]

LEMMA SeqSumRuns ==
  ASSUME NEW base, NEW n \in Nat, NEW seq, DOMAIN seq = 1..n
  PROVE  \E f : RunningSum(base, seq, n, f) /\ SeqSum(base, seq) = f[n]
<1> DEFINE Up(it, t) == IF t = {} THEN base ELSE it[t \ {Max(t)}] + seq[Max(t)]
           Covers(it, k) == \A t \in SUBSET (1..k) : it[t] = Up(it, t)
           G == {k \in Nat : k <= n => \E it : Covers(it, k)}
<1>1. 0 \in G
  <2> DEFINE z == [t \in SUBSET (1..0) |-> base]
  <2>1. Covers(z, 0)
    OBVIOUS
  <2> HIDE DEF z, Up, Covers
  <2> QED BY <2>1
<1>2. ASSUME NEW k \in Nat, k \in G PROVE k + 1 \in G
  <2> SUFFICES ASSUME k + 1 <= n PROVE \E it : Covers(it, k + 1)
    <3> HIDE DEF Covers
    <3> QED OBVIOUS
  <2>1. PICK it : Covers(it, k)
    <3> HIDE DEF Covers
    <3> QED BY <1>2
  <2> DEFINE up == [t \in SUBSET (1..(k + 1)) |->
                      IF k + 1 \in t THEN it[t \ {k + 1}] + seq[k + 1] ELSE it[t]]
  <2>2. ASSUME NEW t \in SUBSET (1..(k + 1)) PROVE up[t] = Up(up, t)
    <3>1. CASE k + 1 \in t
      <4>1. Max(t) \in t /\ \A y \in t : Max(t) >= y
        <5>1. k + 1 \in Nat /\ t # {}
          BY <3>1
        <5> QED BY ONLY <5>1, MaxOf, t \in SUBSET (1..(k + 1))
      <4>2. Max(t) = k + 1
        <5>1. Max(t) \in 1..(k + 1) /\ Max(t) >= k + 1
          BY <3>1, <4>1
        <5> QED BY <5>1
      <4>3. t \ {k + 1} \in SUBSET (1..(k + 1)) /\ k + 1 \notin t \ {k + 1}
        OBVIOUS
      <4>4. up[t] = it[t \ {k + 1}] + seq[k + 1] /\ up[t \ {k + 1}] = it[t \ {k + 1}]
        BY <3>1, <4>3
      <4>5. Up(up, t) = up[t \ {k + 1}] + seq[k + 1]
        <5> HIDE DEF up
        <5> QED BY <3>1, <4>2
      <4> QED BY <4>4, <4>5
    <3>2. CASE k + 1 \notin t
      <4>1. t \in SUBSET (1..k)
        BY <3>2
      <4>2. up[t] = it[t] /\ it[t] = Up(it, t)
        BY <2>1, <3>2, <4>1
      <4>3. CASE t = {}
        BY <4>2, <4>3
      <4>4. CASE t # {}
        <5>1. Max(t) \in t
          BY <4>1, <4>4, MaxOf
        <5>2. t \ {Max(t)} \in SUBSET (1..(k + 1)) /\ k + 1 \notin t \ {Max(t)}
          BY <3>2
        <5>3. up[t \ {Max(t)}] = it[t \ {Max(t)}]
          BY <5>2
        <5> HIDE DEF up
        <5> QED BY <4>2, <4>4, <5>3
      <4> QED BY <4>3, <4>4
    <3> QED BY <3>1, <3>2
  <2>3. Covers(up, k + 1)
    <3> HIDE DEF up, Up
    <3> QED BY <2>2
  <2> HIDE DEF up, Covers
  <2> QED BY <2>3
<1> HIDE DEF G
<1>3. n \in G
  BY <1>1, <1>2, NatInduct
<1>4. PICK it : Covers(it, n)
  <2> HIDE DEF Covers
  <2> QED BY <1>3 DEF G
<1> DEFINE Table(f) == f = [t \in SUBSET (1..n) |-> Up(f, t)]
           fun == [t \in SUBSET (1..n) |-> it[t]]
<1>5. Table(fun)
  <2>1. ASSUME NEW t \in SUBSET (1..n) PROVE fun[t] = Up(fun, t)
    <3>1. t \ {Max(t)} \in SUBSET (1..n)
      OBVIOUS
    <3>2. fun[t] = it[t] /\ fun[t \ {Max(t)}] = it[t \ {Max(t)}]
      BY <3>1
    <3> HIDE DEF fun
    <3> QED BY <1>4, <3>2
  <2>2. fun = [t \in SUBSET (1..n) |-> fun[t]]
    OBVIOUS
  <2> HIDE DEF fun, Up
  <2> QED BY <2>1, <2>2
<1> DEFINE chosen == CHOOSE f : Table(f)
<1>6. Table(chosen)
  <2> HIDE DEF Table, fun
  <2> QED BY <1>5
<1>7. SeqSum(base, seq) = chosen[1..n]
  BY DEF SeqSum, FoldLeft, MapThenFoldSet
<1> HIDE DEF chosen
<1> DEFINE run == [k \in 0..n |-> chosen[1..k]]
<1>8. run[0] = base
  <2>1. 1..0 = {} /\ {} \in SUBSET (1..n)
    OBVIOUS
  <2>2. chosen[{}] = base
    BY <1>6, <2>1
  <2> QED BY <2>1, <2>2
<1>9. ASSUME NEW k \in 1..n PROVE run[k] = run[k - 1] + seq[k]
  <2>1. 1..k \in SUBSET (1..n) /\ 1..k # {} /\ k \in 1..k /\ k \in Nat
    OBVIOUS
  <2>2. Max(1..k) \in 1..k /\ Max(1..k) >= k
    BY <2>1, MaxOf
  <2>3. Max(1..k) = k
    BY <2>2
  <2>4. (1..k) \ {k} = 1..(k - 1)
    OBVIOUS
  <2>5. chosen[1..k] = chosen[1..(k - 1)] + seq[k]
    BY <1>6, <2>1, <2>3, <2>4
  <2>6. k - 1 \in 0..n /\ k \in 0..n
    OBVIOUS
  <2> QED BY <2>5, <2>6
<1>10. SeqSum(base, seq) = run[n]
  BY <1>7
<1> HIDE DEF run
<1>11. RunningSum(base, seq, n, run)
  BY <1>8, <1>9 DEF RunningSum
<1> QED BY <1>10, <1>11

(* Whatever grows by the members of seq from base on ends at their sum.      *)
LEMMA SeqSumIs ==
  ASSUME NEW base, NEW n \in Nat, NEW seq, DOMAIN seq = 1..n,
         NEW g, RunningSum(base, seq, n, g)
  PROVE  SeqSum(base, seq) = g[n]
<1>0. PICK f : RunningSum(base, seq, n, f) /\ SeqSum(base, seq) = f[n]
  BY SeqSumRuns
<1>1. /\ f[0] = base /\ \A k \in 1..n : f[k] = f[k - 1] + seq[k]
      /\ g[0] = base /\ \A k \in 1..n : g[k] = g[k - 1] + seq[k]
  BY <1>0 DEF RunningSum
<1> DEFINE H == {k \in Nat : k <= n => f[k] = g[k]}
<1>2. 0 \in H
  BY <1>1
<1>3. ASSUME NEW k \in Nat, k \in H PROVE k + 1 \in H
  <2> SUFFICES ASSUME k + 1 <= n PROVE f[k + 1] = g[k + 1]
    OBVIOUS
  <2>1. k + 1 \in 1..n /\ (k + 1) - 1 = k /\ k <= n
    OBVIOUS
  <2>2. f[k + 1] = f[k] + seq[k + 1] /\ g[k + 1] = g[k] + seq[k + 1]
    BY <1>1, <2>1
  <2>3. f[k] = g[k]
    BY <1>3, <2>1
  <2> QED BY <2>2, <2>3
<1> HIDE DEF H
<1>4. n \in H
  BY <1>2, <1>3, NatInduct
<1> QED BY <1>0, <1>4 DEF H

(* One member more.                                                          *)
LEMMA SeqSumAppend ==
  ASSUME NEW base, NEW seq \in Seq(Int), NEW e \in Int
  PROVE  SeqSum(base, Append(seq, e)) = SeqSum(base, seq) + e
<1> DEFINE n == Len(seq)
           more == Append(seq, e)
<1>1. n \in Nat /\ DOMAIN seq = 1..n
  OBVIOUS
<1>2. DOMAIN more = 1..(n + 1) /\ more[n + 1] = e /\ \A k \in 1..n : more[k] = seq[k]
  OBVIOUS
<1> HIDE DEF more, n
<1>3. PICK f : RunningSum(base, more, n + 1, f) /\ SeqSum(base, more) = f[n + 1]
  <2>1. n + 1 \in Nat
    BY <1>1
  <2> QED BY <1>2, <2>1, SeqSumRuns
<1>4. RunningSum(base, seq, n, f)
  <2>1. \A k \in 1..n : k \in 1..(n + 1)
    BY <1>1
  <2> QED BY <1>2, <1>3, <2>1 DEF RunningSum
<1>5. SeqSum(base, seq) = f[n]
  BY <1>1, <1>4, SeqSumIs
<1>6. f[n + 1] = f[n] + e
  <2>1. n + 1 \in 1..(n + 1) /\ (n + 1) - 1 = n
    BY <1>1
  <2> QED BY <1>2, <1>3, <2>1 DEF RunningSum
<1> QED BY <1>3, <1>5, <1>6 DEF more

LEMMA SeqSumEmpty ==
  ASSUME NEW base
  PROVE  SeqSum(base, <<>>) = base
<1> DEFINE z == [k \in {0} |-> base]
<1>1. z[0] = base /\ DOMAIN <<>> = 1..0 /\ RunningSum(base, <<>>, 0, z)
  BY DEF RunningSum
<1> HIDE DEF z
<1> QED BY <1>1, SeqSumIs
================================================================================
