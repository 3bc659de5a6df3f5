------------------------------ MODULE ScanOptions -----------------------------
(***************************************************************************)
(* The option table of one handle (src/src/pantum.c, init_options to       *)
(* sane_pantum_control_option): which values an option accepts depends on  *)
(* other options.                                                          *)
(***************************************************************************)
EXTENDS ScanWindow

CONSTANTS Feeders,    \* does the scanner have a feeder
          AskedModes, AskedDpi, AskedX, AskedY,
          AskedThresholds,  \* what a frontend sets
          Percent,    \* steps of the threshold word in one percent
          NoMem       \* allocations that may fail: subset of {"string", "mask"}

ASSUME OptionsAssumption ==
  /\ Feeders \subseteq BOOLEAN
  /\ AskedModes \subseteq Modes
  /\ AskedDpi \subseteq Int /\ AskedX \subseteq Int /\ AskedY \subseteq Int
  /\ AskedThresholds \subseteq Int /\ Percent \in Nat \ {0}
  /\ NoMem \subseteq {"string", "mask"}

VARIABLES has_adf,
          val,        \* option values the parameters depend on
          threshold,  \* the value of the threshold option
          opt         \* the part of the descriptors that changes

table == <<has_adf, val, threshold, opt>>

SourceList == IF has_adf THEN Sources ELSE {"Flatbed"}

Members(list) == {list[k] : k \in DOMAIN list}

-----------------------------------------------------------------------------
(* Mutant: only the upper end is looked at. *)
constrain_range_top(v, max) == AtMost(v, max)

(* constrain_word of a coordinate: its range has no step. *)
constrain_range(v, max) == AtLeast(AtMost(v, max), 0)

(* constrain_word of the threshold: the nearest of its steps.                *)
constrain_quant(v, max, quant) ==
  AtMost(((constrain_range(v, max) + quant \div 2) \div quant) * quant, max)

Distance(a, b) == IF a > b THEN a - b ELSE b - a

(* constrain_word of a word list: the first of the nearest. *)
constrain_list(v, list) ==
  LET Nearest(k) == \A j \in DOMAIN list :
        IF j < k THEN Distance(list[j], v) > Distance(list[k], v)
                 ELSE Distance(list[j], v) >= Distance(list[k], v)
  IN list[CHOOSE k \in DOMAIN list : Nearest(k)]

(* The words a frontend may end up with: where the distance to an entry does *)
(* not fit an int, any entry of the list may be taken for the nearest.       *)
MaxWord == 2147483647

snapped(v, list) ==
  IF \E k \in DOMAIN list : list[k] - MaxWord > v THEN Members(list)
  ELSE {constrain_list(v, list)}

(* Mutant: the new constraints leave the values alone. *)
update_option_state_lax(v) ==
  /\ opt' = [threshold |-> v.mode = "Lineart",
             max_y |-> Grid * MaxDown(v),
             resolutions |-> IF source_is_adf(v) THEN resolution_list_adf
                                                 ELSE resolution_list]
  /\ val' = v

(* v with the constraints that follow from its mode and source. *)
update_option_state(v) ==
  /\ opt' = [threshold |-> v.mode = "Lineart",
             max_y |-> Grid * MaxDown(v),
             resolutions |-> IF source_is_adf(v) THEN resolution_list_adf
                                                 ELSE resolution_list]
  /\ val' = [v EXCEPT !.tl_y = AtMost(@, Grid * MaxDown(v)),
                      !.br_y = AtMost(@, Grid * MaxDown(v)),
                      !.resolution = IF source_is_adf(v) THEN AtMost(@, 600) ELSE @]

-----------------------------------------------------------------------------
(* sane_control_option, SANE_ACTION_SET_VALUE. *)

(* The old string is freed before the new one is allocated. *)
set_mode(m) ==
  /\ \/ update_option_state([val EXCEPT !.mode = m])
     \/ "string" \in NoMem /\ val' = [val EXCEPT !.mode = Unset] /\ UNCHANGED opt
  /\ UNCHANGED <<has_adf, threshold>>

set_source(s) ==
  /\ s \in SourceList
  /\ \/ update_option_state([val EXCEPT !.source = s])
     \/ "string" \in NoMem /\ val' = [val EXCEPT !.source = Unset] /\ UNCHANGED opt
  /\ UNCHANGED <<has_adf, threshold>>

set_resolution(dpi) ==
  /\ \E word \in snapped(dpi, opt.resolutions) :
       val' = [val EXCEPT !.resolution = word]
  /\ UNCHANGED <<has_adf, threshold, opt>>

set_preview(p) ==
  /\ val' = [val EXCEPT !.preview = p]
  /\ UNCHANGED <<has_adf, threshold, opt>>

set_corner ==
  /\ \/ \E v \in AskedX : val' = [val EXCEPT !.tl_x = constrain_range(v, Grid * MaxX)]
     \/ \E v \in AskedX : val' = [val EXCEPT !.br_x = constrain_range(v, Grid * MaxX)]
     \/ \E v \in AskedY : val' = [val EXCEPT !.tl_y = constrain_range(v, opt.max_y)]
     \/ \E v \in AskedY : val' = [val EXCEPT !.br_y = constrain_range(v, opt.max_y)]
  /\ UNCHANGED <<has_adf, threshold, opt>>

(* The option is active in one mode only.                                    *)
set_threshold(v) ==
  /\ opt.threshold
  /\ threshold' = constrain_quant(v, 100 * Percent, Percent)
  /\ UNCHANGED <<has_adf, val, opt>>

control_option ==
  \/ \E m \in AskedModes : set_mode(m)
  \/ \E s \in Sources : set_source(s)
  \/ \E dpi \in AskedDpi : set_resolution(dpi)
  \/ \E p \in BOOLEAN : set_preview(p)
  \/ \E v \in AskedThresholds : set_threshold(v)
  \/ set_corner

-----------------------------------------------------------------------------
(* A string the handle keeps a copy of, if there is memory for it.           *)
Copied(s) == {s} \cup (IF "string" \in NoMem THEN {Unset} ELSE {})

init_options ==
  /\ has_adf \in Feeders
  /\ \E mode \in Copied("Gray"), source \in Copied("Flatbed") :
       val = [mode |-> mode, source |-> source, resolution |-> 300,
              preview |-> FALSE, tl_x |-> 0, tl_y |-> 0,
              br_x |-> Grid * MaxX, br_y |-> Grid * MaxY]
  /\ threshold = 50 * Percent
  /\ opt = [threshold |-> FALSE, max_y |-> Grid * MaxY,
            resolutions |-> resolution_list]

Spec == init_options /\ [][control_option]_table

-----------------------------------------------------------------------------
(* The option table has its type. *)
OptionsTypeOK ==
  /\ has_adf \in BOOLEAN
  /\ val \in OptionValues(Nat) /\ threshold \in Nat
  /\ opt \in [threshold : BOOLEAN, max_y : Nat,
              resolutions : {resolution_list, resolution_list_adf}]

(* A whole percentage. *)
OnScale(t) == \E k \in 0..100 : t = k * Percent

(* Every option reports a value its own descriptor allows, whatever was set  *)
(* before its constraint changed.  Only a string that found no memory is     *)
(* outside its list, and even a lost source leaves the words in range.       *)
InRange ==
  /\ val.mode \in Modes \cup {Unset}
  /\ val.source \in SourceList \cup {Unset}
  /\ val.resolution \in Members(opt.resolutions)
  /\ OnScale(threshold)
  /\ \A v \in {val.tl_x, val.br_x} : 0 <= v /\ v <= Grid * MaxX
  /\ \A v \in {val.tl_y, val.br_y} : 0 <= v /\ v <= opt.max_y

(* Whatever the corners, the window lies on the glass, or in the feeder's    *)
(* sheet when that is the source.                                            *)
WindowInBed ==
  LET w == compute_window(val)
  IN /\ 0 <= w.left /\ w.left <= w.right /\ w.right <= MaxX
     /\ 0 <= w.top /\ w.top <= w.bottom /\ w.bottom <= MaxDown(val)

(* The window holds all of the selection, in whatever order its corners were *)
(* set and wherever they were pulled to: no part the frontend selected is    *)
(* cut off (a lost source counts as the flatbed, whatever length was asked). *)
WindowCovers ==
  LET w == compute_window(val)
  IN /\ \A v \in {val.tl_x, val.br_x} :
          w.left <= mm_to_units(v) /\ mm_to_units(v) <= w.right
     /\ \A v \in {val.tl_y, val.br_y} : val.source # Unset =>
          w.top <= mm_to_units(v) /\ mm_to_units(v) <= w.bottom

(* A window is only smaller than the firmware accepts where it cannot grow:  *)
(* it begins at the edge, and its far side is the selection's.               *)
SmallOnlyAtOrigin ==
  LET w == compute_window(val)
  IN /\ w.right - w.left < MinWindow => w.left = 0
     /\ w.bottom - w.top < MinWindow => w.top = 0
===============================================================================
