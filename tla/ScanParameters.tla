---------------------------- MODULE ScanParameters ----------------------------
(***************************************************************************)
(* The parameters one handle of src/src/pantum.c reports: an estimate from *)
(* the options while nothing runs, and those of the job while it runs or   *)
(* its rows are read.  The job itself is ScanSession's; here it starts,    *)
(* hands out rows and stops.                                               *)
(***************************************************************************)
EXTENDS ScanOptions

VARIABLES scanning,
          cancelled,
          params,     \* h->params
          job,        \* settings of the job that runs
          rows,       \* parameters of the rows not read yet
          starved     \* history: the last start had no memory for the mask

session == <<scanning, cancelled, params, job, rows, starved>>

NoRows == [pixels |-> 0, lines |-> 0, frame |-> "GRAY8", bytes_per_line |-> 0]
NoJob == [window |-> [left |-> 0, right |-> 0, top |-> 0, bottom |-> 0],
          dpi |-> 0, source |-> "Flatbed", colour |-> FALSE]

-----------------------------------------------------------------------------
(* sane_control_option is refused while a job runs. *)
set_option ==
  /\ ~scanning
  /\ control_option
  /\ UNCHANGED session

(* Mutant: the estimate is renewed although rows are still to be read. *)
get_parameters_thaws ==
  /\ ~scanning
  /\ params' = compute_parameters(val)
  /\ UNCHANGED <<table, scanning, cancelled, job, rows, starved>>

get_parameters ==
  /\ ~scanning /\ rows = NoRows
  /\ params' = compute_parameters(val)
  /\ UNCHANGED <<table, scanning, cancelled, job, rows, starved>>

(* A job that is neither running nor held between pages starts; a cancelled  *)
(* one is torn down first.  No memory for the halftone mask ends the start   *)
(* after the parameters are computed; an attempt of run_job first forgets    *)
(* the rows of the last job.                                                 *)
start ==
  /\ ~scanning \/ cancelled
  /\ params' = compute_parameters(val)
  /\ cancelled' = FALSE
  /\ \/ /\ val.mode = "Halftone" /\ "mask" \in NoMem
        /\ scanning' = FALSE /\ job' = NoJob
        /\ starved' = TRUE
        /\ UNCHANGED rows
     \/ /\ rows' = NoRows
        /\ starved' = FALSE
        /\ scanning' \in BOOLEAN
        /\ job' = IF scanning' THEN setup_job(val) ELSE NoJob
  /\ UNCHANGED table

(* A data block is converted under the parameters of its time. *)
pump ==
  /\ scanning /\ rows = NoRows
  /\ rows' = params
  /\ UNCHANGED <<table, scanning, cancelled, params, job, starved>>

(* The job ends or breaks off; rows may be left. *)
stop ==
  /\ scanning
  /\ scanning' = FALSE /\ job' = NoJob
  /\ UNCHANGED <<table, cancelled, params, rows, starved>>

read ==
  /\ ~cancelled /\ rows # NoRows
  /\ rows' = NoRows
  /\ UNCHANGED <<table, scanning, cancelled, params, job, starved>>

(* The first read after a cancel tears the job down. *)
read_cancelled ==
  /\ cancelled
  /\ rows' = NoRows
  /\ scanning' = FALSE /\ job' = NoJob
  /\ UNCHANGED <<table, cancelled, params, starved>>

cancel ==
  /\ ~cancelled
  /\ cancelled' = TRUE
  /\ UNCHANGED <<table, scanning, params, job, rows, starved>>

-----------------------------------------------------------------------------
(* sane_open computes a first estimate. *)
Init ==
  /\ init_options
  /\ scanning = FALSE /\ cancelled = FALSE
  /\ params = compute_parameters(val)
  /\ job = NoJob
  /\ rows = NoRows
  /\ starved = FALSE

Next == set_option \/ get_parameters \/ start \/ pump \/ stop \/ read \/ read_cancelled \/ cancel

ParametersSpec == Init /\ [][Next]_<<table, session>>

-----------------------------------------------------------------------------
Parameters ==
  [pixels : Nat \ {0}, lines : Nat \ {0}, frame : {"RGB8", "GRAY1", "GRAY8"},
   bytes_per_line : Nat \ {0}]

(* The job and its parameters have their types; no page is without a row. *)
ParametersTypeOK ==
  /\ OptionsTypeOK
  /\ scanning \in BOOLEAN /\ cancelled \in BOOLEAN /\ starved \in BOOLEAN
  /\ params \in Parameters /\ rows \in Parameters \cup {NoRows}

(* The parameters the frontend gets are those of the rows it is about to     *)
(* read: nothing it does between two reads reshapes them, except a start     *)
(* that finds no memory for the halftone mask.                               *)
RowsMatchParams == rows # NoRows /\ ~starved => rows = params

(* While a job runs, the frontend was told the size, depth and colour the    *)
(* device was told.                                                          *)
SettingsMatchParams ==
  scanning =>
    /\ params.pixels = Pixels(job.window.right - job.window.left, job.dpi)
    /\ params.lines = Pixels(job.window.bottom - job.window.top, job.dpi)
    /\ job.colour = (params.frame = "RGB8")
===============================================================================
