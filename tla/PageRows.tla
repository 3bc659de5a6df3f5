------------------------------- MODULE PageRows -------------------------------
(***************************************************************************)
(* The row arithmetic of one page: what emit_white_rows and the row loop   *)
(* of handle_data_block do to next_row.  The loops are written as their    *)
(* results; every row they produce goes to the out buffer, so the change   *)
(* of next_row is also the number of rows appended.                        *)
(***************************************************************************)
EXTENDS Naturals

Lower(a, b) == IF a < b THEN a ELSE b
Upper(a, b) == IF a < b THEN b ELSE a

(* Mutant: stops one row early at the end of the page. *)
emit_white_rows_short(next, upto, lines) ==
  Upper(next, Lower(upto, lines - 1))

(* next_row after emit_white_rows (h, upto). *)
emit_white_rows(next, upto, lines) == Upper(next, Lower(upto, lines))

(* next_row after the whole of handle_data_block for rows first ..           *)
(* first + rows - 1: the gap before them is white, rows already handed out   *)
(* and rows past the page are dropped.                                       *)
handle_rows(next, first, rows, lines) ==
  Upper(emit_white_rows(next, first, lines), Lower(first + rows, lines))
=============================================================================
