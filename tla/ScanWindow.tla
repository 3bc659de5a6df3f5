------------------------------ MODULE ScanWindow ------------------------------
(***************************************************************************)
(* The arithmetic of src/src/pantum.c between the option values of a       *)
(* handle and what the device and the frontend are told: the resolution,   *)
(* the window in hundredths of an inch and the SANE parameters.  A         *)
(* coordinate is a fixed-point number of millimetres in the code; here it  *)
(* counts Grid steps per hundredth of an inch.                             *)
(***************************************************************************)
EXTENDS Integers, Sequences

CONSTANTS MaxX, MaxY, MaxYAdf,   \* PANTUM_MAX_*
          MinWindow,             \* PANTUM_MIN_WINDOW
          Grid                   \* steps of a coordinate in one unit

ASSUME WindowAssumption ==
  /\ MaxX \in Nat /\ MaxY \in Nat /\ MaxYAdf \in Nat
  /\ MaxY <= MaxYAdf
  /\ MinWindow \in Nat \ {0}
  /\ Grid \in Nat \ {0}

Modes == {"Lineart", "Halftone", "Gray", "Color"}
Sources == {"Flatbed", "ADF", "ADF Duplex"}

(* An option string whose copy could not be allocated. *)
Unset == "(null)"

resolution_list == <<75, 150, 300, 600, 1200>>
resolution_list_adf == <<75, 150, 300, 600>>

OptionValues(coords) ==
  [mode : Modes \cup {Unset}, source : Sources \cup {Unset},
   resolution : Nat, preview : BOOLEAN,
   tl_x : coords, tl_y : coords, br_x : coords, br_y : coords]

source_is_adf(val) == val.source \in {"ADF", "ADF Duplex"}

MaxDown(val) == IF source_is_adf(val) THEN MaxYAdf ELSE MaxY

effective_resolution(val) ==
  IF val.preview THEN 75
  ELSE IF val.resolution > 600 /\ source_is_adf(val) THEN 600
  ELSE val.resolution

(* Rounded to the nearest unit. *)
mm_to_units(v) == (v + Grid \div 2) \div Grid

AtMost(v, max) == IF v > max THEN max ELSE v
AtLeast(v, min) == IF v < min THEN min ELSE v

(* Mutant: the corners are taken in the order the frontend set them. *)
Ordered_as_set(a, b) == <<a, b>>

(* The corners may come in either order. *)
Ordered(a, b) == IF b < a THEN <<b, a>> ELSE <<a, b>>

(* Mutant: a window stretched over the edge of the glass stays there. *)
Clamped_below(l, h) == <<IF h - l < MinWindow THEN h - MinWindow ELSE l, h>>

(* Mutant: a window grows up to one unit less than the firmware accepts. *)
Clamped_short(l, h) ==
  <<AtLeast(IF h - l < MinWindow - 1 THEN h - MinWindow + 1 ELSE l, 0), h>>

(* A window that is too small grows towards the origin, as far as it goes. *)
Clamped(l, h) ==
  <<AtLeast(IF h - l < MinWindow THEN h - MinWindow ELSE l, 0), h>>

(* One axis of compute_window. *)
Span(a, b, max) ==
  LET o == Ordered(mm_to_units(a), mm_to_units(b))
  IN Clamped(o[1], AtMost(o[2], max))

compute_window(val) ==
  LET x == Span(val.tl_x, val.br_x, MaxX)
      y == Span(val.tl_y, val.br_y, MaxDown(val))
  IN [left |-> x[1], right |-> x[2], top |-> y[1], bottom |-> y[2]]

(* Mutant: a window may round down to nothing. *)
Pixels_zero(units, dpi) == (units * dpi) \div 100

Pixels(units, dpi) == AtLeast((units * dpi) \div 100, 1)

Frame(val) ==
  CASE val.mode = "Color" -> "RGB8"
    [] val.mode \in {"Lineart", "Halftone"} -> "GRAY1"
    [] OTHER -> "GRAY8"

BytesPerLine(pixels, frame) ==
  CASE frame = "RGB8" -> pixels * 3
    [] frame = "GRAY1" -> (pixels + 7) \div 8
    [] OTHER -> pixels

compute_parameters(val) ==
  LET w == compute_window(val)
      dpi == effective_resolution(val)
      pixels == Pixels(w.right - w.left, dpi)
  IN [pixels |-> pixels,
      lines |-> Pixels(w.bottom - w.top, dpi),
      frame |-> Frame(val),
      bytes_per_line |-> BytesPerLine(pixels, Frame(val))]

(* Mutant: the preview's resolution is not what the device is told. *)
setup_job_no_preview(val) ==
  [window |-> compute_window(val), dpi |-> val.resolution,
   source |-> val.source, colour |-> val.mode = "Color"]

(* The fields of CMD_SET_SETTINGS that setup_job fills in. *)
setup_job(val) ==
  [window |-> compute_window(val), dpi |-> effective_resolution(val),
   source |-> val.source, colour |-> val.mode = "Color"]
===============================================================================
