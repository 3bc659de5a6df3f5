--------------------------- MODULE ScanOptionsProofs --------------------------
(***************************************************************************)
(* What holds of the option table, of the scan window and, between         *)
(* sane_start and the last row, of the parameters, for every bed, every    *)
(* grid of coordinates and everything a frontend may set.                  *)
(***************************************************************************)
EXTENDS ScanParameters, TLAPS

-----------------------------------------------------------------------------
(* The pure functions. *)

(* constrain_word of a coordinate stays between 0 and the maximum. *)
LEMMA RangeConstrained ==
  ASSUME NEW v \in Int, NEW max \in Nat
  PROVE  constrain_range(v, max) \in 0..max
BY DEF constrain_range, AtLeast, AtMost

(* constrain_word of a word list returns a member of the list. *)
LEMMA ListConstrained ==
  ASSUME NEW v \in Int, NEW list \in {resolution_list, resolution_list_adf}
  PROVE  constrain_list(v, list) \in Members(list)
<1> DEFINE D(k) == Distance(list[k], v)
           Nearest(k) == \A j \in DOMAIN list :
             IF j < k THEN D(j) > D(k) ELSE D(j) >= D(k)
<1>1. ASSUME list = resolution_list PROVE \E k \in DOMAIN list : Nearest(k)
  <2>1. DOMAIN list = {1, 2, 3, 4, 5}
    BY <1>1 DEF resolution_list
  <2>2. \A k \in DOMAIN list : D(k) \in Int
    BY <1>1 DEF resolution_list, Distance
  <2> HIDE DEF D
  <2> QED BY <2>1, <2>2
<1>2. ASSUME list = resolution_list_adf PROVE \E k \in DOMAIN list : Nearest(k)
  <2>1. DOMAIN list = {1, 2, 3, 4}
    BY <1>2 DEF resolution_list_adf
  <2>2. \A k \in DOMAIN list : D(k) \in Int
    BY <1>2 DEF resolution_list_adf, Distance
  <2> HIDE DEF D
  <2> QED BY <2>1, <2>2
<1>3. (CHOOSE k \in DOMAIN list : Nearest(k)) \in DOMAIN list
  BY <1>1, <1>2
<1> QED BY <1>3 DEF constrain_list, Members

(* So does what an overflowing distance makes of it.                         *)
LEMMA SnappedInList ==
  ASSUME NEW v \in Int, NEW list \in {resolution_list, resolution_list_adf}
  PROVE  snapped(v, list) \subseteq Members(list)
BY ListConstrained DEF snapped

(* The lists hold resolutions, and the feeder's is a part of the other one.  *)
LEMMA Lists ==
  /\ Members(resolution_list) = {75, 150, 300, 600, 1200}
  /\ Members(resolution_list_adf) = {75, 150, 300, 600}
<1>1. DOMAIN resolution_list = {1, 2, 3, 4, 5}
  BY DEF resolution_list
<1>2. DOMAIN resolution_list_adf = {1, 2, 3, 4}
  BY DEF resolution_list_adf
<1> QED BY <1>1, <1>2 DEF Members, resolution_list, resolution_list_adf

(* A coordinate converts to a natural number of units. *)
LEMMA UnitsType ==
  ASSUME NEW v \in Nat
  PROVE  mm_to_units(v) \in Nat
<1>1. Grid \in Nat /\ Grid > 0
  BY WindowAssumption
<1>2. Grid \div 2 \in Nat
  BY <1>1
<1> DEFINE n == v + Grid \div 2
<1>3. n \in Nat
  BY <1>2
<1> HIDE DEF n
<1>4. n \div Grid \in Nat
  BY <1>1, <1>3
<1> QED BY <1>4 DEF n, mm_to_units

(* One axis of the window is an interval that starts no lower than 0 and     *)
(* ends no higher than the bed does.                                         *)
LEMMA SpanInBed ==
  ASSUME NEW a \in Nat, NEW b \in Nat, NEW max \in Nat
  PROVE  LET s == Span(a, b, max)
         IN 0 <= s[1] /\ s[1] <= s[2] /\ s[2] <= max
<1> DEFINE l == mm_to_units(a)
           r == mm_to_units(b)
<1>1. l \in Nat /\ r \in Nat
  BY UnitsType
<1> HIDE DEF l, r
<1>2. MinWindow \in Nat /\ MinWindow > 0
  BY WindowAssumption
<1>3. /\ Span(a, b, max)[1] = Clamped(Ordered(l, r)[1], AtMost(Ordered(l, r)[2], max))[1]
      /\ Span(a, b, max)[2] = Clamped(Ordered(l, r)[1], AtMost(Ordered(l, r)[2], max))[2]
  BY DEF Span, l, r
<1>4. CASE r < l
  BY <1>1, <1>2, <1>3, <1>4 DEF Ordered, Clamped, AtMost, AtLeast
<1>5. CASE ~(r < l)
  BY <1>1, <1>2, <1>3, <1>5 DEF Ordered, Clamped, AtMost, AtLeast
<1> QED BY <1>4, <1>5

(* A multiple of the divisor bounds the quotient. *)
LEMMA QuotientBound ==
  ASSUME NEW g \in Nat, g > 0, NEW n \in Nat, NEW m \in Nat, n < g * (m + 1)
  PROVE  n \div g <= m
<1> DEFINE q == n \div g
<1>1. q \in Nat /\ g * q <= n
  OBVIOUS
<1> HIDE DEF q
<1>2. ASSUME q >= m + 1 PROVE FALSE
  <2>1. PICK d \in Nat : q = (m + 1) + d
    <3>1. q - (m + 1) \in Nat
      BY <1>1, <1>2
    <3> QED BY <1>1, <3>1
  <2>2. g * q = g * (m + 1) + g * d
    BY <2>1
  <2>3. g * d >= 0 /\ g * d \in Int /\ g * (m + 1) \in Int
    BY <2>1
  <2> QED BY <1>1, <2>2, <2>3
<1>3. q <= m
  BY <1>1, <1>2
<1> QED BY <1>3 DEF q

(* A coordinate within the bed converts to a unit within the bed. *)
LEMMA UnitsInBed ==
  ASSUME NEW v \in Nat, NEW max \in Nat, v <= Grid * max
  PROVE  mm_to_units(v) <= max
<1>1. Grid \in Nat /\ Grid > 0
  BY WindowAssumption
<1>2. Grid \div 2 \in Nat /\ Grid \div 2 < Grid
  BY <1>1
<1>3. Grid * (max + 1) = Grid * max + Grid /\ Grid * max \in Nat
  BY <1>1
<1> DEFINE n == v + Grid \div 2
<1>4. n \in Nat /\ n < Grid * (max + 1)
  BY <1>1, <1>2, <1>3
<1> HIDE DEF n
<1>5. n \div Grid <= max
  BY <1>1, <1>4, QuotientBound
<1> QED BY <1>5 DEF n, mm_to_units

(* One axis of the window holds both corners when both lie within the bed,   *)
(* and is shorter than the least window only when it begins at 0.            *)
LEMMA SpanCovers ==
  ASSUME NEW a \in Nat, NEW b \in Nat, NEW max \in Nat
  PROVE  LET s == Span(a, b, max)
         IN /\ s[2] - s[1] < MinWindow => s[1] = 0
            /\ a <= Grid * max /\ b <= Grid * max =>
                 /\ s[1] <= mm_to_units(a) /\ mm_to_units(a) <= s[2]
                 /\ s[1] <= mm_to_units(b) /\ mm_to_units(b) <= s[2]
<1> DEFINE l == mm_to_units(a)
           r == mm_to_units(b)
<1>1. l \in Nat /\ r \in Nat
  BY UnitsType
<1>2. a <= Grid * max /\ b <= Grid * max => l <= max /\ r <= max
  BY UnitsInBed
<1> HIDE DEF l, r
<1>3. MinWindow \in Nat /\ MinWindow > 0
  BY WindowAssumption
<1> DEFINE o == Ordered(l, r)
           s == Clamped(o[1], AtMost(o[2], max))
<1>4. o[1] \in Nat /\ o[2] \in Nat
  BY <1>1 DEF Ordered
<1>5. AtMost(o[2], max) \in Nat
  BY <1>4 DEF AtMost
<1>6. s[2] - s[1] < MinWindow => s[1] = 0
  <2> HIDE DEF o
  <2> DEFINE top == AtMost(o[2], max)
  <2>1. top \in Nat
    BY <1>5
  <2> HIDE DEF top
  <2>2. s = Clamped(o[1], top)
    BY DEF top
  <2> QED BY <1>3, <1>4, <2>1, <2>2 DEF Clamped, AtLeast
<1>7. l <= max /\ r <= max => s[1] <= l /\ l <= s[2] /\ s[1] <= r /\ r <= s[2]
  <2>1. CASE r < l
    BY <1>1, <1>3, <2>1 DEF Ordered, Clamped, AtMost, AtLeast
  <2>2. CASE ~(r < l)
    BY <1>1, <1>3, <2>2 DEF Ordered, Clamped, AtMost, AtLeast
  <2> QED BY <2>1, <2>2
<1>8. Span(a, b, max) = s
  BY DEF Span, l, r
<1> HIDE DEF s, o
<1> QED BY <1>2, <1>6, <1>7, <1>8 DEF l, r

(* constrain_word of the threshold returns a whole percentage, whatever a    *)
(* step is worth: where the range clamps, half a step leads to no further    *)
(* step.                                                                     *)
LEMMA QuantConstrained ==
  ASSUME NEW v \in Int
  PROVE  OnScale(constrain_quant(v, 100 * Percent, Percent))
<1>1. Percent \in Nat /\ Percent > 0
  BY OptionsAssumption
<1>2. Percent \div 2 \in Nat /\ Percent \div 2 < Percent
  BY <1>1
<1> DEFINE n == constrain_range(v, 100 * Percent) + Percent \div 2
           q == n \div Percent
<1>3. constrain_range(v, 100 * Percent) \in 0..(100 * Percent)
  <2>1. 100 * Percent \in Nat
    BY <1>1
  <2> QED BY <2>1, RangeConstrained
<1>4. n \in Nat /\ n < Percent * (100 + 1)
  BY <1>1, <1>2, <1>3
<1> HIDE DEF n
<1>5. q \in Nat /\ q <= 100
  <2>1. q \in Nat
    BY <1>1, <1>4
  <2>2. q <= 100
    BY <1>1, <1>4, QuotientBound
  <2> QED BY <2>1, <2>2
<1>6. constrain_quant(v, 100 * Percent, Percent) = AtMost(q * Percent, 100 * Percent)
  BY DEF constrain_quant, n
<1> HIDE DEF q
<1>7. AtMost(q * Percent, 100 * Percent) \in {q * Percent, 100 * Percent}
  BY DEF AtMost
<1> QED BY <1>5, <1>6, <1>7 DEF OnScale

(* A whole percentage is a natural number of steps. *)
LEMMA ScaleType == ASSUME NEW t, OnScale(t) PROVE t \in Nat
<1>1. PICK k \in 0..100 : t = k * Percent
  BY DEF OnScale
<1> QED BY <1>1, OptionsAssumption

-----------------------------------------------------------------------------
(* What a new handle shows. *)
LEMMA Untouched ==
  ASSUME init_options
  PROVE  /\ val.mode \in {"Gray", Unset} /\ val.source \in {"Flatbed", Unset}
         /\ val.resolution = 300 /\ val.tl_x = 0 /\ val.tl_y = 0
         /\ val.br_x = Grid * MaxX /\ val.br_y = Grid * MaxY
         /\ val \in OptionValues(Nat)
<1>1. PICK mode \in Copied("Gray"), source \in Copied("Flatbed") :
        val = [mode |-> mode, source |-> source, resolution |-> 300,
               preview |-> FALSE, tl_x |-> 0, tl_y |-> 0,
               br_x |-> Grid * MaxX, br_y |-> Grid * MaxY]
  BY DEF init_options
<1>2. mode \in {"Gray", Unset} /\ source \in {"Flatbed", Unset}
  BY DEF Copied
<1>3. Grid * MaxX \in Nat /\ Grid * MaxY \in Nat
  BY WindowAssumption
<1>4. mode \in Modes \cup {Unset} /\ source \in Sources \cup {Unset}
  BY <1>2 DEF Modes, Sources
<1> QED BY <1>1, <1>2, <1>3, <1>4 DEF OptionValues

(* No setting takes the option table out of its type. *)
LEMMA OptionsTypeStep == OptionsTypeOK /\ [control_option]_table => OptionsTypeOK'
<1> USE WindowAssumption, OptionsAssumption
<1> SUFFICES ASSUME OptionsTypeOK, [control_option]_table PROVE OptionsTypeOK'
  OBVIOUS
<1>0. /\ has_adf \in BOOLEAN /\ val \in OptionValues(Nat) /\ threshold \in Nat
      /\ opt \in [threshold : BOOLEAN, max_y : Nat,
                  resolutions : {resolution_list, resolution_list_adf}]
  BY DEF OptionsTypeOK
<1>1. ASSUME NEW v \in OptionValues(Nat), update_option_state(v),
             UNCHANGED <<has_adf, threshold>>
      PROVE  OptionsTypeOK'
  <2>1. MaxDown(v) \in Nat /\ Grid * MaxDown(v) \in Nat
    BY DEF MaxDown
  <2>2. AtMost(v.tl_y, Grid * MaxDown(v)) \in Nat /\ AtMost(v.br_y, Grid * MaxDown(v)) \in Nat
    BY <2>1 DEF AtMost, OptionValues
  <2>3. AtMost(v.resolution, 600) \in Nat
    BY DEF AtMost, OptionValues
  <2>4. val' \in OptionValues(Nat)
    <3> DEFINE ty == AtMost(v.tl_y, Grid * MaxDown(v))
               by == AtMost(v.br_y, Grid * MaxDown(v))
               dpi == IF source_is_adf(v) THEN AtMost(v.resolution, 600) ELSE v.resolution
    <3>1. ty \in Nat /\ by \in Nat /\ dpi \in Nat
      BY <2>2, <2>3 DEF OptionValues
    <3>2. val' = [v EXCEPT !.tl_y = ty, !.br_y = by, !.resolution = dpi]
      BY <1>1 DEF update_option_state
    <3> HIDE DEF ty, by, dpi
    <3> QED BY <3>1, <3>2 DEF OptionValues
  <2>5. opt' \in [threshold : BOOLEAN, max_y : Nat,
                  resolutions : {resolution_list, resolution_list_adf}]
    BY <1>1, <2>1 DEF update_option_state
  <2> QED BY <1>0, <1>1, <2>4, <2>5 DEF OptionsTypeOK
<1>2. ASSUME NEW m \in AskedModes, set_mode(m) PROVE OptionsTypeOK'
  <2>1. [val EXCEPT !.mode = m] \in OptionValues(Nat)
    BY <1>0 DEF OptionValues
  <2>2. [val EXCEPT !.mode = Unset] \in OptionValues(Nat)
    BY <1>0 DEF OptionValues
  <2> QED BY <1>0, <1>1, <1>2, <2>1, <2>2 DEF set_mode, OptionsTypeOK
<1>3. ASSUME NEW s \in Sources, set_source(s) PROVE OptionsTypeOK'
  <2>1. [val EXCEPT !.source = s] \in OptionValues(Nat)
    BY <1>0 DEF OptionValues
  <2>2. [val EXCEPT !.source = Unset] \in OptionValues(Nat)
    BY <1>0 DEF OptionValues
  <2> QED BY <1>0, <1>1, <1>3, <2>1, <2>2 DEF set_source, OptionsTypeOK
<1>4. ASSUME NEW dpi \in AskedDpi, set_resolution(dpi) PROVE OptionsTypeOK'
  <2>1. snapped(dpi, opt.resolutions) \subseteq Nat
    <3>1. dpi \in Int /\ opt.resolutions \in {resolution_list, resolution_list_adf}
      BY <1>0
    <3> QED BY <3>1, SnappedInList, Lists
  <2>2. val' \in OptionValues(Nat)
    BY <1>0, <1>4, <2>1 DEF set_resolution, OptionValues
  <2> QED BY <1>0, <1>4, <2>2 DEF set_resolution, OptionsTypeOK
<1>5. ASSUME NEW p \in BOOLEAN, set_preview(p) PROVE OptionsTypeOK'
  <2>1. val' \in OptionValues(Nat)
    BY <1>0, <1>5 DEF set_preview, OptionValues
  <2> QED BY <1>0, <1>5, <2>1 DEF set_preview, OptionsTypeOK
<1>6. ASSUME set_corner PROVE OptionsTypeOK'
  <2>1. \A v \in AskedX : constrain_range(v, Grid * MaxX) \in Nat
    <3>1. Grid * MaxX \in Nat
      OBVIOUS
    <3> QED BY <3>1, RangeConstrained
  <2>2. \A v \in AskedY : constrain_range(v, opt.max_y) \in Nat
    BY <1>0, RangeConstrained
  <2>3. val' \in OptionValues(Nat)
    BY <1>0, <1>6, <2>1, <2>2 DEF set_corner, OptionValues
  <2> QED BY <1>0, <1>6, <2>3 DEF set_corner, OptionsTypeOK
<1>7. ASSUME NEW v \in AskedThresholds, set_threshold(v) PROVE OptionsTypeOK'
  <2>1. threshold' \in Nat
    <3>1. v \in Int
      OBVIOUS
    <3> QED BY <1>7, <3>1, QuantConstrained, ScaleType DEF set_threshold
  <2> QED BY <1>0, <1>7, <2>1 DEF set_threshold, OptionsTypeOK
<1>8. CASE UNCHANGED table
  BY <1>0, <1>8 DEF table, OptionsTypeOK
<1> QED BY <1>2, <1>3, <1>4, <1>5, <1>6, <1>7, <1>8 DEF control_option

(* Nor does the table start outside it. *)
LEMMA OptionsTypeInit == init_options => OptionsTypeOK
<1> USE WindowAssumption, OptionsAssumption
<1> SUFFICES ASSUME init_options PROVE OptionsTypeOK
  OBVIOUS
<1>1. Grid * MaxY \in Nat
  OBVIOUS
<1>2. has_adf \in BOOLEAN /\ threshold \in Nat
  BY DEF init_options
<1>3. val \in OptionValues(Nat)
  BY Untouched
<1> QED BY <1>1, <1>2, <1>3 DEF init_options, OptionsTypeOK

(* The option table has its type, for every bed and everything asked of it. *)
THEOREM OptionsTypeCorrect == Spec => []OptionsTypeOK
BY OptionsTypeInit, OptionsTypeStep, PTL DEF Spec

(* Whatever corners are set, in whatever order, the window sent to the       *)
(* device lies within the bed or the feeder's sheet and is never inverted.   *)
THEOREM WindowInBedHolds == Spec => []WindowInBed
<1>1. OptionsTypeOK => WindowInBed
  <2> SUFFICES ASSUME OptionsTypeOK PROVE WindowInBed
    OBVIOUS
  <2>1. /\ val.tl_x \in Nat /\ val.br_x \in Nat
        /\ val.tl_y \in Nat /\ val.br_y \in Nat
    BY DEF OptionsTypeOK, OptionValues
  <2>2. MaxX \in Nat /\ MaxDown(val) \in Nat
    BY WindowAssumption DEF MaxDown
  <2> DEFINE x == Span(val.tl_x, val.br_x, MaxX)
             y == Span(val.tl_y, val.br_y, MaxDown(val))
  <2>3. /\ 0 <= x[1] /\ x[1] <= x[2] /\ x[2] <= MaxX
        /\ 0 <= y[1] /\ y[1] <= y[2] /\ y[2] <= MaxDown(val)
    BY <2>1, <2>2, SpanInBed
  <2>4. compute_window(val) = [left |-> x[1], right |-> x[2], top |-> y[1], bottom |-> y[2]]
    BY DEF compute_window
  <2> HIDE DEF x, y
  <2> QED BY <2>3, <2>4 DEF WindowInBed
<1> QED BY <1>1, OptionsTypeCorrect, PTL

-----------------------------------------------------------------------------
(* The threshold is offered exactly in the mode it acts on, and the          *)
(* constraints in force are those of the source, while neither is lost.      *)
DescriptorsFollow ==
  /\ val.mode # Unset => opt.threshold = (val.mode = "Lineart")
  /\ val.source # Unset =>
       /\ opt.max_y = Grid * MaxDown(val)
       /\ opt.resolutions = (IF source_is_adf(val) THEN resolution_list_adf ELSE resolution_list)

(* What the option values and their constraints share at every step: the     *)
(* values obey the constraints, and the constraints are those of the source. *)
TableInv == OptionsTypeOK /\ InRange /\ DescriptorsFollow

(* Every value that is not lost for want of memory obeys its own descriptor, *)
(* and the descriptors follow the mode and the source.                       *)
THEOREM ValuesObeyDescriptors == Spec => [](InRange /\ DescriptorsFollow)
<1> USE WindowAssumption, OptionsAssumption
<1>1. init_options => InRange /\ DescriptorsFollow
  <2> SUFFICES ASSUME init_options PROVE InRange /\ DescriptorsFollow
    OBVIOUS
  <2>1. ~source_is_adf(val) /\ MaxDown(val) = MaxY
    BY Untouched DEF Unset, source_is_adf, MaxDown
  <2>2. 300 \in Members(resolution_list)
    BY Lists
  <2>3. /\ 0 <= Grid * MaxX /\ Grid * MaxX <= Grid * MaxX
        /\ 0 <= Grid * MaxY /\ Grid * MaxY <= Grid * MaxY
    OBVIOUS
  <2>4. OnScale(threshold)
    BY DEF init_options, OnScale
  <2>5. InRange
    <3>1. opt.max_y = Grid * MaxY /\ opt.resolutions = resolution_list
      BY DEF init_options
    <3>2. val.mode \in Modes \cup {Unset} /\ val.source \in SourceList \cup {Unset}
      BY Untouched DEF Modes, SourceList, Sources
    <3>3. val.resolution \in Members(opt.resolutions)
      BY <2>2, <3>1, Untouched
    <3>4. /\ \A v \in {val.tl_x, val.br_x} : 0 <= v /\ v <= Grid * MaxX
          /\ \A v \in {val.tl_y, val.br_y} : 0 <= v /\ v <= opt.max_y
      BY <2>3, <3>1, Untouched
    <3> QED BY <2>4, <3>2, <3>3, <3>4 DEF InRange
  <2>6. DescriptorsFollow
    <3>1. opt = [threshold |-> FALSE, max_y |-> Grid * MaxY, resolutions |-> resolution_list]
      BY DEF init_options
    <3> QED BY <2>1, <3>1, Untouched DEF DescriptorsFollow, Unset
  <2> QED BY <2>5, <2>6
<1>2. TableInv /\ [control_option]_table => InRange' /\ DescriptorsFollow'
  <2> SUFFICES ASSUME TableInv, [control_option]_table
               PROVE  InRange' /\ DescriptorsFollow'
    OBVIOUS
  <2>0. /\ val \in OptionValues(Nat)
        /\ opt \in [threshold : BOOLEAN, max_y : Nat,
                    resolutions : {resolution_list, resolution_list_adf}]
        /\ InRange /\ DescriptorsFollow
    BY DEF TableInv, OptionsTypeOK
  <2>12. OnScale(threshold')
    <3>1. ASSUME NEW v \in AskedThresholds, set_threshold(v) PROVE OnScale(threshold')
      <4>1. v \in Int
        OBVIOUS
      <4> QED BY <3>1, <4>1, QuantConstrained DEF set_threshold
    <3>2. ~(\E v \in AskedThresholds : set_threshold(v)) => threshold' = threshold
      BY DEF control_option, table, set_mode, set_source, set_resolution, set_preview, set_corner
    <3> QED BY <2>0, <3>1, <3>2 DEF InRange
  <2>1. ASSUME NEW v \in OptionValues(Nat), update_option_state(v), UNCHANGED has_adf,
               v.mode \in Modes \cup {Unset}, v.source \in SourceList \cup {Unset},
               v.resolution \in Members(resolution_list),
               0 <= v.tl_x, v.tl_x <= Grid * MaxX, 0 <= v.br_x, v.br_x <= Grid * MaxX
        PROVE  InRange' /\ DescriptorsFollow'
    <3> DEFINE max == Grid * MaxDown(v)
               ty == AtMost(v.tl_y, max)
               by == AtMost(v.br_y, max)
               dpi == IF source_is_adf(v) THEN AtMost(v.resolution, 600) ELSE v.resolution
               list == IF source_is_adf(v) THEN resolution_list_adf ELSE resolution_list
    <3>1. max \in Nat
      BY DEF MaxDown
    <3>2. 0 <= ty /\ ty <= max /\ 0 <= by /\ by <= max
      <4> HIDE DEF max
      <4> QED BY <3>1 DEF AtMost, OptionValues
    <3>3. dpi \in Members(list)
      BY <2>1, Lists DEF AtMost, OptionValues
    <3>4. opt' = [threshold |-> v.mode = "Lineart", max_y |-> max, resolutions |-> list]
      BY <2>1 DEF update_option_state
    <3>5. val' = [v EXCEPT !.tl_y = ty, !.br_y = by, !.resolution = dpi]
      BY <2>1 DEF update_option_state
    <3>6. /\ opt'.threshold = (v.mode = "Lineart")
          /\ opt'.max_y = max /\ opt'.resolutions = list
      BY <3>4
    <3>7. /\ val'.mode = v.mode /\ val'.source = v.source
          /\ val'.tl_x = v.tl_x /\ val'.br_x = v.br_x
          /\ val'.tl_y = ty /\ val'.br_y = by /\ val'.resolution = dpi
      BY <3>5 DEF OptionValues
    <3>8. SourceList' = SourceList
      BY <2>1 DEF SourceList
    <3>9. source_is_adf(val') = source_is_adf(v) /\ MaxDown(val') = MaxDown(v)
      BY <3>7 DEF source_is_adf, MaxDown
    <3>10. InRange'
      <4> HIDE DEF max, ty, by, dpi, list
      <4> QED BY <2>1, <2>12, <3>2, <3>3, <3>6, <3>7, <3>8 DEF InRange
    <3>11. DescriptorsFollow'
      BY <3>6, <3>7, <3>9 DEF DescriptorsFollow
    <3> QED BY <3>10, <3>11
  <2>2. val.resolution \in Members(resolution_list)
    BY <2>0, Lists DEF InRange
  <2>3. /\ val.mode \in Modes \cup {Unset} /\ val.source \in SourceList \cup {Unset}
        /\ 0 <= val.tl_x /\ val.tl_x <= Grid * MaxX
        /\ 0 <= val.br_x /\ val.br_x <= Grid * MaxX
        /\ 0 <= val.tl_y /\ val.tl_y <= opt.max_y
        /\ 0 <= val.br_y /\ val.br_y <= opt.max_y
        /\ val.resolution \in Members(opt.resolutions)
    BY <2>0 DEF InRange
  (* A lost string leaves the words and the constraints as they were. *)
  <2>11. ASSUME opt' = opt, has_adf' = has_adf,
                val'.mode \in {val.mode, Unset}, val'.source \in {val.source, Unset},
                val'.resolution = val.resolution,
                val'.tl_x = val.tl_x, val'.br_x = val.br_x,
                val'.tl_y = val.tl_y, val'.br_y = val.br_y
         PROVE  InRange' /\ DescriptorsFollow'
    <3>1. SourceList' = SourceList
      BY <2>11 DEF SourceList
    <3>2. InRange'
      BY <2>3, <2>11, <2>12, <3>1 DEF InRange
    <3>3. val'.source # Unset => /\ source_is_adf(val') = source_is_adf(val)
                                 /\ MaxDown(val') = MaxDown(val)
      BY <2>11 DEF source_is_adf, MaxDown
    <3>4. DescriptorsFollow'
      BY <2>0, <2>11, <3>3 DEF DescriptorsFollow
    <3> QED BY <3>2, <3>4
  <2>4. ASSUME NEW m \in AskedModes, set_mode(m) PROVE InRange' /\ DescriptorsFollow'
    <3> DEFINE v == [val EXCEPT !.mode = m]
    <3>1. v \in OptionValues(Nat)
      BY <2>0 DEF OptionValues
    <3>2. \/ update_option_state(v) /\ UNCHANGED has_adf
          \/ val' = [val EXCEPT !.mode = Unset] /\ UNCHANGED <<opt, has_adf>>
      BY <2>4 DEF set_mode
    <3>3. /\ v.mode \in Modes /\ v.source = val.source /\ v.resolution = val.resolution
          /\ v.tl_x = val.tl_x /\ v.br_x = val.br_x
      BY <2>0 DEF OptionValues
    <3>4. ASSUME val' = [val EXCEPT !.mode = Unset], UNCHANGED <<opt, has_adf>>
          PROVE  InRange' /\ DescriptorsFollow'
      BY <2>11, <3>4, <2>0 DEF OptionValues
    <3> HIDE DEF v
    <3> QED BY <2>1, <2>2, <2>3, <3>1, <3>2, <3>3, <3>4
  <2>5. ASSUME NEW s \in Sources, set_source(s) PROVE InRange' /\ DescriptorsFollow'
    <3> DEFINE v == [val EXCEPT !.source = s]
    <3>1. v \in OptionValues(Nat)
      BY <2>0 DEF OptionValues
    <3>2. /\ s \in SourceList
          /\ \/ update_option_state(v) /\ UNCHANGED has_adf
             \/ val' = [val EXCEPT !.source = Unset] /\ UNCHANGED <<opt, has_adf>>
      BY <2>5 DEF set_source
    <3>3. /\ v.source = s /\ v.mode = val.mode /\ v.resolution = val.resolution
          /\ v.tl_x = val.tl_x /\ v.br_x = val.br_x
      BY <2>0 DEF OptionValues
    <3>4. ASSUME val' = [val EXCEPT !.source = Unset], UNCHANGED <<opt, has_adf>>
          PROVE  InRange' /\ DescriptorsFollow'
      BY <2>11, <3>4, <2>0 DEF OptionValues
    <3> HIDE DEF v
    <3> QED BY <2>1, <2>2, <2>3, <3>1, <3>2, <3>3, <3>4
  <2>6. ASSUME opt' = opt, has_adf' = has_adf,
               NEW v \in OptionValues(Nat), val' = v,
               v.mode = val.mode, v.source = val.source,
               v.resolution \in Members(opt.resolutions),
               0 <= v.tl_x, v.tl_x <= Grid * MaxX, 0 <= v.br_x, v.br_x <= Grid * MaxX,
               0 <= v.tl_y, v.tl_y <= opt.max_y, 0 <= v.br_y, v.br_y <= opt.max_y
        PROVE  InRange' /\ DescriptorsFollow'
    <3>1. SourceList' = SourceList
      BY <2>6 DEF SourceList
    <3>2. InRange'
      BY <2>3, <2>6, <2>12, <3>1 DEF InRange
    <3>3. source_is_adf(val') = source_is_adf(val) /\ MaxDown(val') = MaxDown(val)
      BY <2>6 DEF source_is_adf, MaxDown
    <3>4. DescriptorsFollow'
      BY <2>0, <2>6, <3>3 DEF DescriptorsFollow
    <3> QED BY <3>2, <3>4
  <2>7. ASSUME NEW dpi \in AskedDpi, set_resolution(dpi) PROVE InRange' /\ DescriptorsFollow'
    <3> PICK r \in snapped(dpi, opt.resolutions) : val' = [val EXCEPT !.resolution = r]
      BY <2>7 DEF set_resolution
    <3> DEFINE v == [val EXCEPT !.resolution = r]
    <3>1. r \in Members(opt.resolutions)
      BY <2>0, SnappedInList
    <3>2. r \in Nat
      BY <2>0, <3>1, Lists
    <3>3. val' = v /\ opt' = opt /\ has_adf' = has_adf
      BY <2>7 DEF set_resolution
    <3>4. v \in OptionValues(Nat)
      BY <2>0, <3>2 DEF OptionValues
    <3>5. /\ v.mode = val.mode /\ v.source = val.source /\ v.resolution = r
          /\ v.tl_x = val.tl_x /\ v.br_x = val.br_x
          /\ v.tl_y = val.tl_y /\ v.br_y = val.br_y
      BY <2>0 DEF OptionValues
    <3> HIDE DEF v
    <3> QED BY <2>3, <2>6, <3>1, <3>3, <3>4, <3>5
  <2>8. ASSUME NEW p \in BOOLEAN, set_preview(p) PROVE InRange' /\ DescriptorsFollow'
    <3> DEFINE v == [val EXCEPT !.preview = p]
    <3>1. val' = v /\ opt' = opt /\ has_adf' = has_adf
      BY <2>8 DEF set_preview
    <3>2. v \in OptionValues(Nat)
      BY <2>0 DEF OptionValues
    <3>3. /\ v.mode = val.mode /\ v.source = val.source /\ v.resolution = val.resolution
          /\ v.tl_x = val.tl_x /\ v.br_x = val.br_x
          /\ v.tl_y = val.tl_y /\ v.br_y = val.br_y
      BY <2>0 DEF OptionValues
    <3> HIDE DEF v
    <3> QED BY <2>3, <2>6, <3>1, <3>2, <3>3
  <2>9. ASSUME set_corner PROVE InRange' /\ DescriptorsFollow'
    <3>1. \A a \in AskedX : constrain_range(a, Grid * MaxX) \in 0..(Grid * MaxX)
      <4>1. Grid * MaxX \in Nat
        OBVIOUS
      <4> QED BY <4>1, RangeConstrained
    <3>2. \A a \in AskedY : constrain_range(a, opt.max_y) \in 0..opt.max_y
      BY <2>0, RangeConstrained
    <3>3. opt' = opt /\ has_adf' = has_adf
      BY <2>9 DEF set_corner
    <3>4. /\ val' \in OptionValues(Nat)
          /\ val'.mode = val.mode /\ val'.source = val.source
          /\ val'.resolution = val.resolution
          /\ val'.tl_x = val.tl_x \/ val'.tl_x \in 0..(Grid * MaxX)
          /\ val'.br_x = val.br_x \/ val'.br_x \in 0..(Grid * MaxX)
          /\ val'.tl_y = val.tl_y \/ val'.tl_y \in 0..opt.max_y
          /\ val'.br_y = val.br_y \/ val'.br_y \in 0..opt.max_y
      BY <2>0, <2>9, <3>1, <3>2 DEF set_corner, OptionValues
    <3>5. Grid * MaxX \in Nat /\ opt.max_y \in Nat
      BY <2>0
    <3>6. /\ 0 <= val'.tl_x /\ val'.tl_x <= Grid * MaxX
          /\ 0 <= val'.br_x /\ val'.br_x <= Grid * MaxX
          /\ 0 <= val'.tl_y /\ val'.tl_y <= opt.max_y
          /\ 0 <= val'.br_y /\ val'.br_y <= opt.max_y
      BY <2>3, <3>4, <3>5
    <3> QED BY <2>3, <2>6, <3>3, <3>4, <3>6
  <2>13. ASSUME NEW t \in AskedThresholds, set_threshold(t) PROVE InRange' /\ DescriptorsFollow'
    BY <2>0, <2>11, <2>13 DEF set_threshold, OptionValues
  <2>10. CASE UNCHANGED table
    BY <2>0, <2>10 DEF table, InRange, DescriptorsFollow, SourceList, source_is_adf,
       MaxDown
  <2> QED BY <2>4, <2>5, <2>7, <2>8, <2>9, <2>10, <2>13 DEF control_option
<1> QED BY <1>1, <1>2, OptionsTypeCorrect, PTL DEF Spec, TableInv
-----------------------------------------------------------------------------
(* The window sent to the device holds all of the selection, for every order *)
(* in which its corners, the source and the mode are set.                    *)
THEOREM WindowCoversHolds == Spec => []WindowCovers
<1>1. OptionsTypeOK /\ InRange /\ DescriptorsFollow => WindowCovers
  <2> SUFFICES ASSUME OptionsTypeOK, InRange, DescriptorsFollow PROVE WindowCovers
    OBVIOUS
  <2>1. /\ val.tl_x \in Nat /\ val.br_x \in Nat
        /\ val.tl_y \in Nat /\ val.br_y \in Nat
    BY DEF OptionsTypeOK, OptionValues
  <2>2. MaxX \in Nat /\ MaxDown(val) \in Nat
    BY WindowAssumption DEF MaxDown
  <2>3. val.tl_x <= Grid * MaxX /\ val.br_x <= Grid * MaxX
    BY DEF InRange
  <2>4. val.source # Unset =>
          val.tl_y <= Grid * MaxDown(val) /\ val.br_y <= Grid * MaxDown(val)
    BY DEF InRange, DescriptorsFollow
  <2> DEFINE x == Span(val.tl_x, val.br_x, MaxX)
             y == Span(val.tl_y, val.br_y, MaxDown(val))
  <2>5. \A v \in {val.tl_x, val.br_x} : x[1] <= mm_to_units(v) /\ mm_to_units(v) <= x[2]
    BY <2>1, <2>2, <2>3, SpanCovers
  <2>6. val.source # Unset => \A v \in {val.tl_y, val.br_y} :
          y[1] <= mm_to_units(v) /\ mm_to_units(v) <= y[2]
    BY <2>1, <2>2, <2>4, SpanCovers
  <2>7. compute_window(val) = [left |-> x[1], right |-> x[2], top |-> y[1], bottom |-> y[2]]
    BY DEF compute_window
  <2> HIDE DEF x, y
  <2> QED BY <2>5, <2>6, <2>7 DEF WindowCovers
<1> QED BY <1>1, OptionsTypeCorrect, ValuesObeyDescriptors, PTL

(* A window too small for the firmware begins at the edge of the glass, for  *)
(* every bed and every least window.                                         *)
THEOREM SmallOnlyAtOriginHolds == Spec => []SmallOnlyAtOrigin
<1>1. OptionsTypeOK => SmallOnlyAtOrigin
  <2> SUFFICES ASSUME OptionsTypeOK PROVE SmallOnlyAtOrigin
    OBVIOUS
  <2>1. /\ val.tl_x \in Nat /\ val.br_x \in Nat
        /\ val.tl_y \in Nat /\ val.br_y \in Nat
    BY DEF OptionsTypeOK, OptionValues
  <2>2. MaxX \in Nat /\ MaxDown(val) \in Nat
    BY WindowAssumption DEF MaxDown
  <2> DEFINE x == Span(val.tl_x, val.br_x, MaxX)
             y == Span(val.tl_y, val.br_y, MaxDown(val))
  <2>3. /\ x[2] - x[1] < MinWindow => x[1] = 0
        /\ y[2] - y[1] < MinWindow => y[1] = 0
    BY <2>1, <2>2, SpanCovers
  <2>4. compute_window(val) = [left |-> x[1], right |-> x[2], top |-> y[1], bottom |-> y[2]]
    BY DEF compute_window
  <2> HIDE DEF x, y
  <2> QED BY <2>3, <2>4 DEF SmallOnlyAtOrigin
<1> QED BY <1>1, OptionsTypeCorrect, PTL

-----------------------------------------------------------------------------
(* The parameters: the size of a window in pixels, and of a row in bytes, is *)
(* never nothing.                                                            *)

LEMMA PixelsType ==
  ASSUME NEW units \in Nat, NEW dpi \in Nat
  PROVE  Pixels(units, dpi) \in Nat \ {0}
<1> DEFINE q == (units * dpi) \div 100
<1>1. q \in Nat
  OBVIOUS
<1> HIDE DEF q
<1>2. AtLeast(q, 1) \in Nat \ {0}
  BY <1>1 DEF AtLeast
<1> QED BY <1>2 DEF Pixels, q

LEMMA BytesType ==
  ASSUME NEW pixels \in Nat \ {0}, NEW frame
  PROVE  BytesPerLine(pixels, frame) \in Nat \ {0}
<1>1. (pixels + 7) \div 8 \in Nat \ {0}
  OBVIOUS
<1>2. pixels * 3 \in Nat \ {0}
  OBVIOUS
<1> QED BY <1>1, <1>2 DEF BytesPerLine

LEMMA SpanLength ==
  ASSUME NEW a \in Nat, NEW b \in Nat, NEW max \in Nat
  PROVE  Span(a, b, max)[2] - Span(a, b, max)[1] \in Nat
<1> DEFINE l == mm_to_units(a)
           r == mm_to_units(b)
           s == Span(a, b, max)
<1>1. l \in Nat /\ r \in Nat /\ MinWindow \in Nat
  BY UnitsType, WindowAssumption
<1>2. s = Clamped(Ordered(l, r)[1], AtMost(Ordered(l, r)[2], max))
  BY DEF Span
<1>3. s[1] <= s[2]
  BY SpanInBed
<1> HIDE DEF l, r, s
<1>4. s[1] \in Int /\ s[2] \in Int
  <2>1. CASE r < l
    BY <1>1, <1>2, <2>1 DEF Ordered, Clamped, AtMost, AtLeast
  <2>2. CASE ~(r < l)
    BY <1>1, <1>2, <2>2 DEF Ordered, Clamped, AtMost, AtLeast
  <2> QED BY <2>1, <2>2
<1>5. s[2] - s[1] \in Nat
  BY <1>3, <1>4
<1> QED BY <1>5 DEF s

LEMMA ParametersType ==
  ASSUME OptionsTypeOK
  PROVE  compute_parameters(val) \in Parameters
<1>1. /\ val.tl_x \in Nat /\ val.br_x \in Nat /\ val.tl_y \in Nat /\ val.br_y \in Nat
      /\ val.resolution \in Nat
  BY DEF OptionsTypeOK, OptionValues
<1>2. MaxX \in Nat /\ MaxDown(val) \in Nat
  BY WindowAssumption DEF MaxDown
<1> DEFINE x == Span(val.tl_x, val.br_x, MaxX)
           y == Span(val.tl_y, val.br_y, MaxDown(val))
           w == compute_window(val)
           dpi == effective_resolution(val)
           p == compute_parameters(val)
           pixels == Pixels(w.right - w.left, dpi)
           lines == Pixels(w.bottom - w.top, dpi)
<1>3. x[2] - x[1] \in Nat /\ y[2] - y[1] \in Nat
  BY <1>1, <1>2, SpanLength
<1>4. w = [left |-> x[1], right |-> x[2], top |-> y[1], bottom |-> y[2]]
  BY DEF compute_window
<1>5. w.right - w.left \in Nat /\ w.bottom - w.top \in Nat
  BY <1>3, <1>4
<1>6. dpi \in Nat
  BY <1>1 DEF effective_resolution
<1>7. p = [pixels |-> pixels, lines |-> lines, frame |-> Frame(val),
           bytes_per_line |-> BytesPerLine(pixels, Frame(val))]
  BY DEF compute_parameters
<1> HIDE DEF w, dpi, p
<1>8. pixels \in Nat \ {0} /\ lines \in Nat \ {0}
  BY <1>5, <1>6, PixelsType
<1> HIDE DEF pixels, lines
<1>9. BytesPerLine(pixels, Frame(val)) \in Nat \ {0}
  BY <1>8, BytesType
<1>10. Frame(val) \in {"RGB8", "GRAY1", "GRAY8"}
  BY DEF Frame
<1>11. p \in Parameters
  BY <1>7, <1>8, <1>9, <1>10 DEF Parameters
<1> QED BY <1>11 DEF p

-----------------------------------------------------------------------------
(* The types hold, and no page the frontend is told of is without a row or a *)
(* byte, for every bed and every resolution.                                 *)
THEOREM ParametersTypeCorrect == ParametersSpec => []ParametersTypeOK
<1>1. Init => ParametersTypeOK
  BY OptionsTypeInit, ParametersType DEF Init, ParametersTypeOK
<1>2. ParametersTypeOK /\ [Next]_<<table, session>> => ParametersTypeOK'
  <2> SUFFICES ASSUME ParametersTypeOK, [Next]_<<table, session>> PROVE ParametersTypeOK'
    OBVIOUS
  <2>0. /\ OptionsTypeOK
        /\ scanning \in BOOLEAN /\ cancelled \in BOOLEAN /\ starved \in BOOLEAN
        /\ params \in Parameters /\ rows \in Parameters \cup {NoRows}
    BY DEF ParametersTypeOK
  <2>1. compute_parameters(val) \in Parameters
    BY <2>0, ParametersType
  <2>2. UNCHANGED table => OptionsTypeOK'
    BY <2>0, OptionsTypeStep
  <2>3. CASE set_option
    BY <2>0, <2>3, OptionsTypeStep DEF set_option, session, ParametersTypeOK
  <2>4. CASE get_parameters
    BY <2>0, <2>1, <2>2, <2>4 DEF get_parameters, ParametersTypeOK
  <2>5. CASE start
    BY <2>0, <2>1, <2>2, <2>5 DEF start, ParametersTypeOK
  <2>6. CASE pump \/ stop \/ read \/ read_cancelled \/ cancel
    BY <2>0, <2>2, <2>6 DEF pump, stop, read, read_cancelled, cancel, ParametersTypeOK
  <2>7. CASE UNCHANGED <<table, session>>
    BY <2>0, <2>2, <2>7 DEF session, ParametersTypeOK
  <2> QED BY <2>3, <2>4, <2>5, <2>6, <2>7 DEF Next
<1> QED BY <1>1, <1>2, PTL DEF ParametersSpec

(* The rows a frontend reads have the shape it was told, whatever options it *)
(* changes after the job ended, unless a start found no memory for the mask. *)
THEOREM RowsMatchParamsHolds == ParametersSpec => []RowsMatchParams
<1>1. Init => RowsMatchParams
  BY DEF Init, RowsMatchParams
<1>2. RowsMatchParams /\ [Next]_<<table, session>> => RowsMatchParams'
  <2> SUFFICES ASSUME RowsMatchParams, [Next]_<<table, session>> PROVE RowsMatchParams'
    OBVIOUS
  <2>1. CASE set_option
    BY <2>1 DEF set_option, session, RowsMatchParams
  <2>2. CASE get_parameters
    BY <2>2 DEF get_parameters, RowsMatchParams
  <2>3. CASE start
    BY <2>3 DEF start, RowsMatchParams
  <2>4. CASE pump
    BY <2>4 DEF pump, RowsMatchParams
  <2>5. CASE stop \/ cancel
    BY <2>5 DEF stop, cancel, RowsMatchParams
  <2>6. CASE read \/ read_cancelled
    BY <2>6 DEF read, read_cancelled, RowsMatchParams
  <2>7. CASE UNCHANGED <<table, session>>
    BY <2>7 DEF session, RowsMatchParams
  <2> QED BY <2>1, <2>2, <2>3, <2>4, <2>5, <2>6, <2>7 DEF Next
<1> QED BY <1>1, <1>2, PTL DEF ParametersSpec

(* The settings the device works by and the parameters the frontend was told *)
(* describe one page, as long as the job runs.                               *)
THEOREM SettingsMatchParamsHolds == ParametersSpec => []SettingsMatchParams
<1>1. Init => SettingsMatchParams
  BY DEF Init, SettingsMatchParams
<1>2. SettingsMatchParams /\ [Next]_<<table, session>> => SettingsMatchParams'
  <2> SUFFICES ASSUME SettingsMatchParams, [Next]_<<table, session>>
               PROVE  SettingsMatchParams'
    OBVIOUS
  <2>1. CASE set_option
    BY <2>1 DEF set_option, session, SettingsMatchParams
  <2>2. CASE get_parameters
    BY <2>2 DEF get_parameters, SettingsMatchParams
  <2>3. CASE start
    <3> SUFFICES ASSUME scanning'
                 PROVE  LET w == job'.window
                        IN /\ params'.pixels = Pixels(w.right - w.left, job'.dpi)
                           /\ params'.lines = Pixels(w.bottom - w.top, job'.dpi)
                           /\ job'.colour = (params'.frame = "RGB8")
      BY DEF SettingsMatchParams
    <3>1. params' = compute_parameters(val) /\ job' = setup_job(val)
      BY <2>3 DEF start
    <3>2. (val.mode = "Color") = (Frame(val) = "RGB8")
      BY DEF Frame
    <3> QED BY <3>1, <3>2 DEF compute_parameters, setup_job
  <2>4. CASE pump \/ read \/ cancel
    BY <2>4 DEF pump, read, cancel, SettingsMatchParams
  <2>5. CASE stop \/ read_cancelled
    BY <2>5 DEF stop, read_cancelled, SettingsMatchParams
  <2>6. CASE UNCHANGED <<table, session>>
    BY <2>6 DEF session, SettingsMatchParams
  <2> QED BY <2>1, <2>2, <2>3, <2>4, <2>5, <2>6 DEF Next
<1> QED BY <1>1, <1>2, PTL DEF ParametersSpec
===============================================================================
