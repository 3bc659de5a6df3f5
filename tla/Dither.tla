-------------------------------- MODULE Dither --------------------------------
(***************************************************************************)
(* build_dither_mask of src/src/pantum.c: the void-and-cluster             *)
(* construction of the halftone mask, one action per round of its loops.   *)
(* The mask is a torus of Size x Size cells numbered in scan order; the    *)
(* float energies of the code are exact numbers here, and its fixed seed   *)
(* is any of Seeds.                                                        *)
(***************************************************************************)
EXTENDS Integers, FiniteSets, FiniteSetsExt

CONSTANTS Size,     \* DITHER_SIZE
          Radius,   \* DITHER_RADIUS
          Gauss,    \* the kernel, by squared distance
          Density,  \* one cell in so many is set at first: 10
          White,    \* 255, the number of thresholds and the whitest sample
          Seeds     \* the patterns the xorshift may come up with

N == Size * Size
Cells == 0..(N - 1)
Ones == N \div Density

ASSUME DitherAssumption ==
  /\ Size \in Nat \ {0} /\ Radius \in Nat
  /\ 2 * Radius + 1 <= Size
  /\ Gauss \in [0..(2 * Radius * Radius) -> Nat]
  /\ Density \in Nat \ {0, 1} /\ Ones > 0
  /\ White \in 1..N
  /\ \A seed \in Seeds : seed \subseteq Cells /\ Cardinality(seed) = Ones

VARIABLE m  \* the pattern being grown or thinned, and what comes of it

Stages == {"none", "prototype", "thin", "fill", "ready"}

(* From a to b along one axis of the torus, plus the radius.                 *)
Offset(a, b) == (b - a + Radius) % Size

(* What a cell that is set adds to the energy of another.                    *)
Pull(a, b) ==
  LET x == Offset(a % Size, b % Size)
      y == Offset(a \div Size, b \div Size)
      reach == 0..(2 * Radius)
  IN IF x \in reach /\ y \in reach
     THEN Gauss[(x - Radius) * (x - Radius) + (y - Radius) * (y - Radius)]
     ELSE 0

Kernel == [a \in Cells |-> [b \in Cells |-> Pull(a, b)]]

Field(pattern) == [b \in Cells |-> MapThenSumSet(LAMBDA a : Kernel[a][b], pattern)]

-----------------------------------------------------------------------------
(* Mutant: a cell that is cleared keeps its energy in its own place. *)
dither_toggle_own(s, cell, set) ==
  [s EXCEPT !.pattern = IF set THEN @ \cup {cell} ELSE @ \ {cell},
            !.energy = [b \in Cells |->
              IF set THEN @[b] + Kernel[cell][b]
              ELSE IF b = cell THEN @[b] ELSE @[b] - Kernel[cell][b]]]

dither_toggle(s, cell, set) ==
  [s EXCEPT !.pattern = IF set THEN @ \cup {cell} ELSE @ \ {cell},
            !.energy = [b \in Cells |->
              IF set THEN @[b] + Kernel[cell][b] ELSE @[b] - Kernel[cell][b]]]

(* Ties go to the first cell in scan order.                                  *)
tightest_cluster(s) ==
  CHOOSE a \in s.pattern : \A b \in s.pattern :
    s.energy[a] > s.energy[b] \/ (s.energy[a] = s.energy[b] /\ a <= b)

largest_void(s) ==
  CHOOSE a \in Cells \ s.pattern : \A b \in Cells \ s.pattern :
    s.energy[a] < s.energy[b] \/ (s.energy[a] = s.energy[b] /\ a <= b)

-----------------------------------------------------------------------------
NoMask ==
  [stage |-> "none", pattern |-> {}, energy |-> [b \in Cells |-> 0],
   proto |-> {}, rank |-> [b \in Cells |-> 0], i |-> 0,
   mask |-> [b \in Cells |-> 0]]

seed_pattern ==
  /\ m.stage = "none"
  /\ \E seed \in Seeds :
       m' = [m EXCEPT !.stage = "prototype", !.pattern = seed,
                      !.energy = Field(seed)]

(* Mutant: the void is looked for before the cluster's cell is cleared. *)
move_point_early ==
  /\ m.stage = "prototype"
  /\ LET cluster == tightest_cluster(m)
         hole == largest_void(m)
         moved == dither_toggle(dither_toggle(m, cluster, FALSE), hole, TRUE)
     IN m' = IF hole = cluster
             THEN [moved EXCEPT !.stage = "thin", !.proto = moved.pattern,
                                !.i = Ones - 1]
             ELSE moved

(* A point moves from the tightest cluster to the largest void, until that   *)
(* is where it came from.                                                    *)
move_point ==
  /\ m.stage = "prototype"
  /\ LET cluster == tightest_cluster(m)
         thinned == dither_toggle(m, cluster, FALSE)
         hole == largest_void(thinned)
         moved == dither_toggle(thinned, hole, TRUE)
     IN m' = IF hole = cluster
             THEN [moved EXCEPT !.stage = "thin", !.proto = moved.pattern,
                                !.i = Ones - 1]
             ELSE moved

(* Mutant: the ranks below the prototype's are counted from the other end. *)
thin_upwards ==
  /\ m.stage = "thin" /\ m.i >= 0
  /\ LET cluster == tightest_cluster(m) IN
       m' = [dither_toggle(m, cluster, FALSE) EXCEPT
               !.rank[cluster] = m.i + 1, !.i = @ - 1]

thin ==
  /\ m.stage = "thin" /\ m.i >= 0
  /\ LET cluster == tightest_cluster(m) IN
       m' = [dither_toggle(m, cluster, FALSE) EXCEPT
               !.rank[cluster] = m.i, !.i = @ - 1]

(* Back to the prototype, its energies summed up afresh.                     *)
restore ==
  /\ m.stage = "thin" /\ m.i < 0
  /\ m' = [m EXCEPT !.stage = "fill", !.pattern = m.proto,
                    !.energy = Field(m.proto), !.i = Ones]

fill ==
  /\ m.stage = "fill" /\ m.i < N
  /\ LET hole == largest_void(m) IN
       m' = [dither_toggle(m, hole, TRUE) EXCEPT
               !.rank[hole] = m.i, !.i = @ + 1]

(* Mutant: the last rank gets a threshold of its own. *)
spread_wide ==
  /\ m.stage = "fill" /\ m.i = N
  /\ m' = [NoMask EXCEPT !.stage = "ready",
             !.mask = [b \in Cells |-> 1 + (m.rank[b] * White) \div (N - 1)]]

(* The ranks are spread over the thresholds 1 .. White.                      *)
spread ==
  /\ m.stage = "fill" /\ m.i = N
  /\ m' = [NoMask EXCEPT !.stage = "ready",
             !.mask = [b \in Cells |-> 1 + (m.rank[b] * White) \div N]]

build_dither_mask ==
  seed_pattern \/ move_point \/ thin \/ restore \/ fill \/ spread

DitherInit == m = NoMask

DitherSpec == DitherInit /\ [][build_dither_mask]_m /\ WF_m(build_dither_mask)

-----------------------------------------------------------------------------
(* The energies, kept up to date cell by cell, are those of the pattern:     *)
(* what every choice of a cluster or a void rests on.                        *)
EnergyIsField == m.energy = Field(m.pattern)

(* While the pattern is thinned it holds the cells whose rank is still to    *)
(* come, and while it is filled those whose rank was given: no cell is       *)
(* ranked twice and no rank is left out.                                     *)
RanksNest ==
  /\ m.stage = "thin" =>
       /\ m.pattern \subseteq m.proto /\ Cardinality(m.pattern) = m.i + 1
       /\ {m.rank[b] : b \in m.proto \ m.pattern} = (m.i + 1)..(Ones - 1)
  /\ m.stage = "fill" =>
       {m.rank[b] : b \in m.pattern} = 0..(m.i - 1)
         /\ Cardinality(m.pattern) = m.i

(* Every threshold from 1 to White is used equally often but for one, so a   *)
(* flat tone comes out as that share of dots; a pixel of 0 is always black   *)
(* and one of White always white.                                            *)
MaskBalanced ==
  m.stage = "ready" =>
    /\ \A b \in Cells : m.mask[b] \in 1..White
    /\ \A t \in 1..White :
         Cardinality({b \in Cells : m.mask[b] = t})
           \in {N \div White, N \div White + 1}

(* The prototype loop ends, and with it the build.                           *)
MaskCompletes == m.stage = "prototype" ~> m.stage = "ready"
=============================================================================
