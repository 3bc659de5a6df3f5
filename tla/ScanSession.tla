----------------------------- MODULE ScanSession -----------------------------
(***************************************************************************)
(* One frontend, one handle, one scanner: the session layer of             *)
(* src/src/pantum.c.  The SANE entry points run to completion one at a     *)
(* time; sane_cancel may interrupt any of them between two instructions,   *)
(* and the device answers in its own time.  A call is cut at its USB       *)
(* transfers: each action is the code from the end of one transfer to the  *)
(* start of the next, so c.pc names the transfer the call waits in or the  *)
(* statement it is about to run.                                           *)
(***************************************************************************)
EXTENDS Scanner, PageRows

CONSTANTS MaxSkip,    \* COMMAND_MAX_SKIP
          LockTries,  \* lock attempts of lock_device
          Attempts,   \* job attempts of sane_start
          MaxDrain,   \* the 4096 frames (reads) end_scan (flush_input) allows
          MaxLines,   \* rows of the longest page
          MaxStarts,  \* sane_start calls of one behaviour (a bound, not code)
          Lengths,    \* the page lengths the frontend asks for
          Modes       \* the I/O modes it sets: \subseteq BOOLEAN

ASSUME SessionAssumption ==
  /\ MaxSkip \in Nat \ {0}
  /\ LockTries \in Nat \ {0}
  /\ Attempts \in Nat \ {0}
  /\ MaxDrain \in Nat \ {0}
  /\ MaxLines \in Nat \ {0}
  /\ MaxStarts \in Nat
  /\ Lengths \subseteq 1..MaxLines
  /\ Modes \subseteq BOOLEAN

VARIABLES h,  \* the Pantum_Handle, out counted in rows not yet read
          c,  \* the SANE call in progress: its locals and where it stands
          g   \* history, read by the properties only

vars == <<h, c, g, d, outq, inq, faults>>

Calls == {"none", "open", "start", "resume", "read", "close"}

PCs == {"idle", "flush", "send", "recv", "test", "clear", "loop", "abort",
        "drain", "unlock", "unlock_recv", "retry", "cancelled", "return"}

Handles == [open : BOOLEAN, has_adf : BOOLEAN, source : Sources,
            scanning : BOOLEAN, locked : BOOLEAN, cancelled : BOOLEAN,
            eof : BOOLEAN, non_blocking : BOOLEAN, feeding : BOOLEAN,
            next_row : Nat, lines : Nat, want : Nat, out : Nat]

CallStates == [call : Calls, pc : PCs, cmd : Cmds, n : Nat, tries : Nat,
               attempt : Nat, code : Nat, st : Statuses, then : PCs]

Histories == [ok : BOOLEAN, promised : Nat, given : Nat, begun : BOOLEAN,
              asked : BOOLEAN, lost : BOOLEAN, alone : BOOLEAN,
              starts : 0..MaxStarts]

TypeOK ==
  /\ h \in Handles
  /\ c \in CallStates
  /\ g \in Histories
  /\ DeviceTypeOK
  /\ outq \in Seq(Requests)
  /\ inq \in Seq(Frames)
  /\ faults \in Nat

NoHandle ==
  [open |-> FALSE, has_adf |-> FALSE, source |-> "FLATBED",
   scanning |-> FALSE, locked |-> FALSE, cancelled |-> FALSE, eof |-> FALSE,
   non_blocking |-> FALSE, feeding |-> FALSE, next_row |-> 0,
   lines |-> MaxLines, want |-> MaxLines, out |-> 0]

NoCall ==
  [call |-> "none", pc |-> "idle", cmd |-> "LOCK", n |-> 0, tries |-> 0,
   attempt |-> 0, code |-> 0, st |-> "GOOD", then |-> "return"]

NoHistory(lost, starts) ==
  [ok |-> FALSE, promised |-> 0, given |-> 0, begun |-> FALSE,
   asked |-> FALSE, lost |-> lost, alone |-> FALSE, starts |-> starts]

Entering(call, pc) == [NoCall EXCEPT !.call = call, !.pc = pc]

source_is_adf == h.source # "FLATBED"

-----------------------------------------------------------------------------
(* Ways on from a transfer. *)

Commanding(cmd) == c' = [c EXCEPT !.pc = "send", !.cmd = cmd, !.n = 0]

Returning(st) == c' = [c EXCEPT !.pc = "return", !.st = st]

(* unlock_device: nothing to send unless the lock is held, and the lock is   *)
(* given up before the CMD_UNLOCK goes out.  cc goes on at "then".           *)
unlock_device(hh, cc, then) ==
  /\ h' = [hh EXCEPT !.feeding = FALSE, !.locked = FALSE]
  /\ c' = [cc EXCEPT !.pc = IF hh.locked THEN "unlock" ELSE then,
                     !.then = then]

(* unlock_device and return st. *)
GivingUp(hh, st) == unlock_device(hh, [c EXCEPT !.st = st], "return")

(* end_scan up to its first transfer. *)
end_scan(cc, then) ==
  IF h.scanning
  THEN /\ c' = [cc EXCEPT !.pc = "abort", !.then = then]
       /\ UNCHANGED h
  ELSE unlock_device(h, cc, then)

(* Mutant: the unlock is owed only once the reply is in. *)
run_job_owes_late(hh, attempt) ==
  /\ h' = [hh EXCEPT !.next_row = 0, !.out = 0, !.eof = FALSE]
  /\ c' = [c EXCEPT !.pc = "send", !.cmd = "LOCK", !.n = 0, !.tries = 0,
                    !.attempt = attempt]

(* The top of run_job, up to the first CMD_LOCK of lock_device. *)
run_job(hh, attempt) ==
  /\ h' = [hh EXCEPT !.next_row = 0, !.out = 0, !.eof = FALSE,
                     !.locked = TRUE]
  /\ c' = [c EXCEPT !.pc = "send", !.cmd = "LOCK", !.n = 0, !.tries = 0,
                    !.attempt = attempt]

-----------------------------------------------------------------------------
(* The calls of the frontend. *)

sane_open ==
  /\ c.pc = "idle" /\ ~h.open
  /\ h' = NoHandle
  /\ c' = Entering("open", "flush")
  /\ UNCHANGED <<g, d, outq, inq, faults>>

sane_close ==
  /\ c.pc = "idle" /\ h.open
  /\ end_scan(Entering("close", "return"), "return")
  /\ UNCHANGED <<g, d, outq, inq, faults>>

sane_start ==
  /\ c.pc = "idle" /\ h.open
  /\ g.starts < MaxStarts
  /\ c' = Entering("start", "test")
  /\ g' = [NoHistory(g.lost, g.starts + 1)
             EXCEPT !.alone = ~Outstanding("START")]
  /\ UNCHANGED <<h, d, outq, inq, faults>>

(* Mutant: the flag is looked at only by the next start. *)
sane_read_deaf ==
  /\ c.pc = "idle" /\ h.open
  /\ c' = Entering("read", "loop")
  /\ UNCHANGED <<h, g, d, outq, inq, faults>>

sane_read ==
  /\ c.pc = "idle" /\ h.open
  /\ IF h.cancelled
     THEN end_scan(Entering("read", "cancelled"), "cancelled")
     ELSE c' = Entering("read", "loop") /\ UNCHANGED h
  /\ UNCHANGED <<g, d, outq, inq, faults>>

(* From a signal handler, so between any two steps of another call. *)
sane_cancel ==
  /\ h.open /\ ~h.cancelled
  /\ h' = [h EXCEPT !.cancelled = TRUE]
  /\ g' = [g EXCEPT !.asked = c.call = "start"]
  /\ UNCHANGED <<c, d, outq, inq, faults>>

sane_set_io_mode ==
  /\ c.pc = "idle" /\ h.open
  /\ \E mode \in Modes : h' = [h EXCEPT !.non_blocking = mode]
  /\ h' # h
  /\ UNCHANGED <<c, g, d, outq, inq, faults>>

(* Only what the session depends on: the source and the page length. *)
control_option ==
  /\ c.pc = "idle" /\ h.open /\ ~h.scanning
  /\ \/ \E s \in {"FLATBED"} \cup (IF h.has_adf THEN {"ADF"} ELSE {}) :
          h' = [h EXCEPT !.source = s]
     \/ \E n \in Lengths : h' = [h EXCEPT !.want = n]
  /\ h' # h
  /\ UNCHANGED <<c, g, d, outq, inq, faults>>

get_parameters ==
  /\ c.pc = "idle" /\ h.open /\ ~h.scanning /\ h.out = 0
  /\ h' = [h EXCEPT !.lines = h.want]
  /\ UNCHANGED <<c, g, d, outq, inq, faults>>

(* The call returns; open hands the handle out, close frees it. *)
Return ==
  /\ c.pc = "return"
  /\ c' = NoCall
  /\ h' = CASE c.call = "open" -> [h EXCEPT !.open = TRUE]
            [] c.call = "close" -> NoHandle
            [] OTHER -> h
  /\ g' = CASE c.call \in {"start", "resume"} /\ c.st = "GOOD" ->
                 [g EXCEPT !.ok = TRUE, !.promised = h.lines, !.begun = FALSE,
                           !.asked = FALSE, !.alone = FALSE]
            [] c.call = "read" /\ c.st \in {"GOOD", "EOF"} -> g
            [] OTHER -> NoHistory(g.lost, g.starts)
  /\ UNCHANGED <<d, outq, inq, faults>>

-----------------------------------------------------------------------------
(* flush_input: raw reads until the endpoint is empty for 200 ms, then       *)
(* probe_adf owes the unlock and sends its CMD_LOCK.  The last of the reads  *)
(* allowed, or a failing one, may end inside a frame.                        *)

Flushes ==
  /\ c.pc = "flush" /\ c.n < MaxDrain
  /\ inq # <<>> /\ inq' = Tail(inq)
  /\ c' = [c EXCEPT !.n = @ + 1]
  /\ UNCHANGED <<h, g, d, outq, faults>>

probe_adf ==
  /\ c.pc = "flush"
  /\ \/ inq = <<>> /\ UNCHANGED <<inq, faults>>
     \/ c.n = MaxDrain /\ CutShort /\ UNCHANGED faults
     \/ CutShort /\ Fault
  /\ h' = [h EXCEPT !.has_adf = FALSE, !.locked = TRUE]
  /\ Commanding("LOCK")
  /\ UNCHANGED <<g, d, outq>>

-----------------------------------------------------------------------------
(* command and check_adf, and what their callers do with the outcome:        *)
(* probe_adf in an open; lock_device, run_job and setup_job in a start.      *)

(* Mutant: a lock that stays busy is reported without an unlock. *)
CommandFailed_no_unlock(st, status) ==
  LET busy == c.call # "open" /\ c.cmd = "LOCK" /\ status = 2 IN
  \/ c.call = "open" /\ GivingUp(h, "GOOD")
  \/ /\ busy /\ c.tries + 1 < LockTries
     /\ c' = [c EXCEPT !.pc = "send", !.n = 0, !.tries = @ + 1]
     /\ UNCHANGED h
  \/ busy /\ c.tries + 1 >= LockTries /\ Returning("DEVICE_BUSY")
     /\ UNCHANGED h
  \/ c.call # "open" /\ ~busy /\ GivingUp(h, st)

(* status is the word in the frame lock_device looks at: 0 if none came.     *)
CommandFailed(st, status) ==
  LET busy == c.call # "open" /\ c.cmd = "LOCK" /\ status = 2 IN
  \/ c.call = "open" /\ GivingUp(h, "GOOD")
  \/ /\ busy /\ c.tries + 1 < LockTries
     /\ h' = [h EXCEPT !.locked = TRUE]
     /\ c' = [c EXCEPT !.pc = "send", !.n = 0, !.tries = @ + 1]
  \/ busy /\ c.tries + 1 >= LockTries /\ GivingUp(h, "DEVICE_BUSY")
  \/ c.call # "open" /\ ~busy /\ GivingUp(h, st)

check_adf(f) ==
  \/ /\ c.call = "open"
     /\ GivingUp([h EXCEPT !.has_adf = f.status = 0], "GOOD")
  \/ /\ c.call # "open"
     /\ \/ f.status # 0 /\ GivingUp(h, "UNSUPPORTED")
        \/ f.status = 0 /\ f.arg0 # 1 /\ GivingUp(h, "NO_DOCS")
        \/ /\ f.status = 0 /\ f.arg0 = 1
           /\ Commanding("SET_DEFAULTS") /\ UNCHANGED h

(* Mutant: whatever comes first answers the command. *)
Acks_anything(f) == f.cmd \in Cmds

Acks(f) == f.cmd = c.cmd

(* The command after one that setup_job (or probe_adf, or run_job) got       *)
(* acknowledged.                                                             *)
NextCommand(cmd) ==
  CASE cmd = "LOCK" -> IF c.call = "open" \/ source_is_adf
                       THEN "ADF_STATUS" ELSE "SET_DEFAULTS"
    [] cmd = "SET_DEFAULTS" -> "GET_SETTINGS"
    [] cmd = "GET_SETTINGS" -> "SET_SETTINGS"
    [] OTHER -> "START"

CommandDone ==
  \/ c.cmd # "START" /\ Commanding(NextCommand(c.cmd)) /\ UNCHANGED h
  \/ /\ c.cmd = "START"
     /\ h' = [h EXCEPT !.scanning = TRUE]
     /\ c' = [c EXCEPT !.pc = "loop", !.n = 0]

command_sends ==
  /\ c.pc = "send"
  /\ \/ Sent(c.cmd, h.source) /\ c' = [c EXCEPT !.pc = "recv"] /\ UNCHANGED h
     \/ /\ \E delivered \in BOOLEAN : SendFails(c.cmd, h.source, delivered)
        /\ CommandFailed("IO_ERROR", 0)
  /\ UNCHANGED <<g, d, inq>>

command_acked ==
  /\ c.pc = "recv"
  /\ Received /\ Acks(Head(inq))
  /\ LET f == Head(inq) IN
       \/ c.cmd = "ADF_STATUS" /\ check_adf(f)
       \/ /\ c.cmd # "ADF_STATUS"
          /\ \/ f.body # "ok" /\ CommandFailed("IO_ERROR", 0)
             \/ /\ f.body = "ok" /\ f.status # 0
                /\ CommandFailed(map_status(f.status), f.status)
             \/ f.body = "ok" /\ f.status = 0 /\ CommandDone
  /\ UNCHANGED <<g, d, outq>>

(* command steps over a frame that answers another request; check_adf        *)
(* gives up on it.                                                           *)
command_skips ==
  /\ c.pc = "recv"
  /\ Received /\ ~Acks(Head(inq))
  /\ IF c.cmd = "ADF_STATUS" \/ c.n + 1 >= MaxSkip
     THEN CommandFailed("IO_ERROR", 0)
     ELSE c' = [c EXCEPT !.n = @ + 1] /\ UNCHANGED h
  /\ UNCHANGED <<g, d, outq>>

command_breaks_off ==
  /\ c.pc = "recv"
  /\ \/ RecvFails(Quiet)
     \/ ReceivedPart
  /\ CommandFailed("IO_ERROR", 0)
  /\ UNCHANGED <<g, d, outq>>

-----------------------------------------------------------------------------
(* unlock_device's exchange; its own errors are ignored. *)

unlock_sends ==
  /\ c.pc = "unlock"
  /\ \/ /\ Sent("UNLOCK", h.source)
        /\ c' = [c EXCEPT !.pc = "unlock_recv"]
        /\ g' = [g EXCEPT !.lost = FALSE]
     \/ \E delivered \in BOOLEAN :
          /\ SendFails("UNLOCK", h.source, delivered)
          /\ c' = [c EXCEPT !.pc = c.then]
          /\ g' = [g EXCEPT !.lost = ~delivered]
  /\ UNCHANGED <<h, d, inq>>

unlock_recv ==
  /\ c.pc = "unlock_recv"
  /\ \/ RecvFails(Quiet)
     \/ Received \/ ReceivedPart
  /\ c' = [c EXCEPT !.pc = c.then]
  /\ UNCHANGED <<h, g, d, outq>>

-----------------------------------------------------------------------------
(* end_scan of a running job: abort, drain to the end of the job, unlock.    *)

abort_sends ==
  /\ c.pc = "abort"
  /\ \/ Sent("ABORT", h.source)
     \/ \E delivered \in BOOLEAN : SendFails("ABORT", h.source, delivered)
  /\ c' = [c EXCEPT !.pc = "drain", !.n = 0]
  /\ UNCHANGED <<h, g, d, inq>>

(* Mutant: the aborted job is not unlocked. *)
Drained_no_unlock ==
  /\ h' = [h EXCEPT !.scanning = FALSE]
  /\ c' = [c EXCEPT !.pc = c.then]

Drained == unlock_device([h EXCEPT !.scanning = FALSE], c, c.then)

(* Mutant: the drain stops at the end of a page. *)
EndsDrain_page(cmd) == cmd \in {"PAGE_END", "JOB_END", "ABORTED"}

EndsDrain(cmd) == cmd \in {"JOB_END", "ABORTED"}

drain_frame ==
  /\ c.pc = "drain"
  /\ Received
  /\ IF EndsDrain(Head(inq).cmd) \/ c.n + 1 = MaxDrain
     THEN Drained
     ELSE c' = [c EXCEPT !.n = @ + 1] /\ UNCHANGED h
  /\ UNCHANGED <<g, d, outq>>

drain_breaks_off ==
  /\ c.pc = "drain"
  /\ \/ RecvFails(Quiet)
     \/ ReceivedPart
  /\ Drained
  /\ UNCHANGED <<g, d, outq>>

(* The tail of a cancelled sane_read. *)
read_cancelled ==
  /\ c.pc = "cancelled"
  /\ h' = [h EXCEPT !.out = 0, !.eof = TRUE]
  /\ Returning("CANCELLED")
  /\ UNCHANGED <<g, d, outq, inq, faults>>

-----------------------------------------------------------------------------
(* sane_start up to run_job, resume_job, and the retry of a refused job.     *)

start_tests_cancelled ==
  /\ c.pc = "test"
  /\ IF h.cancelled
     THEN end_scan(c, "clear")
     ELSE c' = [c EXCEPT !.pc = "clear"] /\ UNCHANGED h
  /\ UNCHANGED <<g, d, outq, inq, faults>>

resume_job ==
  /\ c.pc = "clear" /\ h.feeding
  /\ h' = [h EXCEPT !.next_row = 0, !.out = 0, !.eof = FALSE,
                    !.feeding = FALSE]
  /\ c' = [c EXCEPT !.call = "resume", !.pc = "loop"]
  /\ UNCHANGED <<g, d, outq, inq, faults>>

start_busy ==
  /\ c.pc = "clear" /\ ~h.feeding /\ h.scanning
  /\ Returning("DEVICE_BUSY")
  /\ UNCHANGED <<h, g, d, outq, inq, faults>>

start_job ==
  /\ c.pc = "clear" /\ ~h.feeding /\ ~h.scanning
  /\ LET hh == [h EXCEPT !.cancelled = FALSE, !.eof = FALSE,
                         !.lines = h.want] IN
       \/ run_job(hh, 0) /\ UNCHANGED faults
       \/ Fault /\ h' = hh /\ Returning("NO_MEM")  \* build_dither_mask
  /\ UNCHANGED <<g, d, outq, inq>>

start_retry ==
  /\ c.pc = "retry"
  /\ \/ c.code \notin {0, 2} /\ Returning(map_status(c.code)) /\ UNCHANGED h
     \/ /\ c.code \in {0, 2} /\ c.attempt + 1 >= Attempts
        /\ Returning("DEVICE_BUSY") /\ UNCHANGED h
     \/ /\ c.code \in {0, 2} /\ c.attempt + 1 < Attempts
        /\ run_job(h, c.attempt + 1)
  /\ UNCHANGED <<g, d, outq, inq, faults>>

-----------------------------------------------------------------------------
(* pump_frame, in the loop of await_first_rows (start, resume) and in that   *)
(* of sane_read; the two loops have the same condition.                      *)

Waiting == c.pc = "loop" /\ h.out = 0 /\ ~h.eof /\ h.scanning

(* Mutant: a failing read forgets the unlock. *)
Stopping_no_unlock(hh, st) ==
  /\ h' = [hh EXCEPT !.scanning = FALSE]
  /\ Returning(st)

(* Both loops answer an error of pump_frame alike. *)
Stopping(hh, st) == GivingUp([hh EXCEPT !.scanning = FALSE], st)

(* Rows up to next are appended to out; a failing out_reserve keeps those    *)
(* that fitted.                                                              *)
Appending(hh, next) ==
  [hh EXCEPT !.next_row = next, !.out = @ + (next - hh.next_row)]

(* out_reserve finds no memory for a row on the way to next. *)
OutOfMemory(next, eof) ==
  /\ Fault
  /\ \E k \in h.next_row..(next - 1) :
       Stopping(Appending([h EXCEPT !.eof = eof], k), "NO_MEM")

(* The frame pump_frame handles next, once read in full. *)
Pumping(cmd) ==
  /\ Waiting
  /\ inq # <<>> /\ Head(inq).cmd = cmd
  /\ inq' = Tail(inq)
  /\ UNCHANGED <<d, outq>>

Begun == g' = [g EXCEPT !.begun = c.call = "resume"]

handle_data_block ==
  /\ Pumping("DATA")
  /\ LET f == Head(inq)
         next == handle_rows(h.next_row, f.first, f.rows, h.lines) IN
       \/ /\ f.body = "ok"
          /\ h' = Appending(h, next)
          /\ UNCHANGED <<c, faults>>
       \/ f.body = "ok" /\ OutOfMemory(next, h.eof)
       \/ f.body = "ok" /\ Fault /\ Stopping(h, "NO_MEM")  \* for h->raw
       \/ f.body = "bad" /\ Stopping(h, "IO_ERROR") /\ UNCHANGED faults
       \/ f.body = "jpeg" /\ Stopping(h, "UNSUPPORTED") /\ UNCHANGED faults
  /\ Begun

pump_aborted ==
  /\ Pumping("ABORTED")
  /\ LET code == Head(inq).status
         hh == [h EXCEPT !.scanning = FALSE] IN
       \/ /\ c.call = "start"
          /\ unlock_device(hh, [c EXCEPT !.code = code], "retry")
       \/ /\ c.call = "resume"
          /\ GivingUp(hh, IF code = 0 THEN "NO_DOCS" ELSE map_status(code))
       \/ /\ c.call = "read"
          /\ GivingUp(hh, IF code = 0 THEN "IO_ERROR" ELSE map_status(code))
  /\ UNCHANGED <<g, faults>>

(* The rest of the page is white, even when the page never began. *)
pump_job_end ==
  /\ Pumping("JOB_END")
  /\ LET next == emit_white_rows(h.next_row, h.lines, h.lines) IN
       \/ /\ unlock_device([Appending(h, next) EXCEPT !.eof = TRUE,
                                                     !.scanning = FALSE],
                           c, "loop")
          /\ UNCHANGED faults
       \/ OutOfMemory(next, TRUE)
  /\ UNCHANGED g

pump_page_end ==
  /\ Pumping("PAGE_END")
  /\ IF ~source_is_adf
     THEN UNCHANGED <<h, c, faults>>
     ELSE LET next == emit_white_rows(h.next_row, h.lines, h.lines) IN
          \/ /\ h' = [Appending(h, next) EXCEPT !.eof = TRUE,
                                                !.feeding = TRUE]
             /\ UNCHANGED <<c, faults>>
          \/ OutOfMemory(next, TRUE)
  /\ UNCHANGED g

(* A settings echo, a begin frame, a late reply: read and dropped. *)
pump_other ==
  /\ Waiting
  /\ Received
  /\ Head(inq).cmd \notin {"DATA", "ABORTED", "JOB_END", "PAGE_END"}
  /\ IF Head(inq).cmd = "PAGE_BEGIN" THEN Begun ELSE UNCHANGED g
  /\ UNCHANGED <<h, c, d, outq>>

(* Mutant: every read looks whether there is anything to wait for. *)
Probing_always == c.call = "read"

Probing == c.call = "read" /\ h.non_blocking

pump_breaks_off ==
  /\ Waiting
  /\ \/ RecvFails(Quiet /\ ~Probing)
     \/ ReceivedPart
  /\ Stopping(h, "IO_ERROR")
  /\ UNCHANGED <<g, d, outq>>

(* A non-blocking read that finds the endpoint empty. *)
pump_idle ==
  /\ Waiting /\ Probing
  /\ inq = <<>>
  /\ Returning("GOOD")
  /\ UNCHANGED <<h, g, d, outq, inq, faults>>

pump_frame ==
  \/ handle_data_block \/ pump_aborted \/ pump_job_end \/ pump_page_end
  \/ pump_other \/ pump_breaks_off \/ pump_idle

(* The end of await_first_rows. *)
first_rows ==
  /\ c.pc = "loop" /\ ~Waiting /\ c.call # "read"
  /\ Returning(IF c.call = "resume" /\ h.out = 0 THEN "NO_DOCS" ELSE "GOOD")
  /\ UNCHANGED <<h, g, d, outq, inq, faults>>

(* The end of sane_read: some of the rows, or the end of the page.  A job    *)
(* that stopped without an end of page ends the page as well.                *)
deliver ==
  /\ c.pc = "loop" /\ ~Waiting /\ c.call = "read"
  /\ \/ /\ h.out = 0
        /\ h' = [h EXCEPT !.eof = TRUE]
        /\ Returning("EOF")
        /\ UNCHANGED g
     \/ \E k \in 1..h.out :
          /\ h' = [h EXCEPT !.out = @ - k]
          /\ Returning("GOOD")
          /\ g' = IF g.ok THEN [g EXCEPT !.given = @ + k] ELSE g
  /\ UNCHANGED <<d, outq, inq, faults>>

-----------------------------------------------------------------------------
(* The frontend dies: the kernel closes the device node, the scanner is told *)
(* nothing and both pipes keep what was in them, the frame that was being    *)
(* read perhaps without its head.                                            *)
Reading == {"flush", "recv", "unlock_recv", "drain", "loop"}

Settled ==
  /\ d.locked => \E i \in DOMAIN outq : outq[i].cmd = "UNLOCK"
  /\ \A i \in DOMAIN outq :
       outq[i].cmd = "LOCK" =>
         \E j \in DOMAIN outq : j > i /\ outq[j].cmd = "UNLOCK"

crash ==
  /\ h.open \/ c.call # "none"
  /\ Fault
  /\ h' = NoHandle /\ c' = NoCall
  /\ g' = NoHistory(~Settled, g.starts)
  /\ UNCHANGED inq \/ (c.pc \in Reading /\ CutShort)
  /\ UNCHANGED <<d, outq>>

-----------------------------------------------------------------------------
Init ==
  /\ h = NoHandle
  /\ c = NoCall
  /\ g = NoHistory(FALSE, 0)
  /\ DeviceInit
  /\ WireInit

Frontend ==
  \/ sane_open \/ sane_close \/ sane_start \/ sane_read
  \/ sane_set_io_mode \/ control_option \/ get_parameters

Backend ==
  \/ Flushes \/ probe_adf
  \/ command_sends \/ command_acked \/ command_skips \/ command_breaks_off
  \/ unlock_sends \/ unlock_recv
  \/ abort_sends \/ drain_frame \/ drain_breaks_off \/ read_cancelled
  \/ start_tests_cancelled \/ resume_job \/ start_busy \/ start_job
  \/ start_retry
  \/ pump_frame \/ first_rows \/ deliver
  \/ Return

Device == DeviceStep /\ UNCHANGED <<h, c, g>>

Next ==
  \/ Frontend \/ Backend \/ sane_cancel \/ crash
  \/ Device
  \/ LoadPaper /\ UNCHANGED <<h, c, g>>

Spec == Init /\ [][Next]_vars

(* The C code never stops between two statements, every blocking transfer    *)
(* has a timeout, and the firmware goes on with its queue and its job.       *)
FairSpec == Spec /\ WF_vars(Backend) /\ WF_vars(Device)

-----------------------------------------------------------------------------
(* Properties. *)

(* Between calls the lock is held exactly while a job runs, and a feeder     *)
(* between pages holds a finished page of a running job: no return path of   *)
(* sane_start, sane_read or sane_open leaks the lock or drops it under a job.*)
LockMatchesJob ==
  c.pc = "idle" => /\ h.locked <=> h.scanning
                   /\ h.feeding => h.scanning /\ h.eof

(* A call that fails leaves the scanner unlocked and no job running; only    *)
(* the sane_start that finds its own earlier job still running may not.      *)
FailureReleases ==
  (/\ c.pc = "return"
   /\ c.st \notin {"GOOD", "EOF"}
   /\ ~(c.call = "start" /\ c.st = "DEVICE_BUSY" /\ h.scanning))
    => ~h.locked /\ ~h.scanning /\ ~h.feeding

(* Whenever the handle says no unlock is owed (and no unlock ever failed to  *)
(* be sent, nor did the frontend die owing one), every CMD_LOCK the scanner  *)
(* took or will take is followed by a CMD_UNLOCK already on its way.         *)
UnlockOwed ==
  ~h.locked /\ c.pc # "unlock" /\ ~g.lost => Settled

(* A page that sane_start announced and that sane_read ends with EOF, and no *)
(* error in between, has exactly the rows promised, whatever blocks, gaps    *)
(* and repeats the scanner sent and whatever the frontend did meanwhile.     *)
PageWhole ==
  c.pc = "return" /\ c.call = "read" /\ c.st = "EOF" /\ g.ok
    => g.given = g.promised

(* Without faults every finished job leaves both pipes empty, so that the    *)
(* next session starts on a frame boundary with no stale reply in front.     *)
CleanBoundary ==
  c.pc = "idle" /\ ~h.scanning /\ faults = MaxFaults
    => outq = <<>> /\ inq = <<>>

(* command takes the frame in front for its acknowledgement. *)
TakesAck(cmd) ==
  c.pc = "recv" /\ c.cmd = cmd /\ inq # <<>> /\ Acks(Head(inq))
    /\ inq' = Tail(inq)

(* A start that begins with no CMD_START of an earlier one in either pipe,   *)
(* nor an answer to one, never takes an old acknowledgement for that of its  *)
(* own: when it takes one, no request or answer of that name is left, so the *)
(* rows that follow belong to this job, whatever other late replies lie      *)
(* about, however often the lock or the job is retried, and whichever of the *)
(* transfers fail.  The condition matters: command tells replies apart by    *)
(* name only, and with an old answer to a CMD_START still in the pipe the    *)
(* new start may take that.                                                  *)
StartAckIsFresh ==
  [][g.alone /\ TakesAck("START") => ~Outstanding("START")']_vars

(* Every call returns: each wait of the code is bounded by a timeout and     *)
(* each of its loops by a count or by the end of the job.                    *)
CallsReturn == c.pc # "idle" ~> c.pc = "idle"

(* Once the handle is closed the scanner is unlocked again, unless the       *)
(* unlock was lost, the handle was opened anew, or the scanner is stuck      *)
(* behind frames nobody will read.                                           *)
ClosedReleases ==
  ~h.open /\ c.pc = "idle" ~>
    ~d.locked \/ g.lost \/ c.call = "open" \/ h.open \/ Len(inq) >= QMax

(* What the comments of the code say, and the code does not do.              *)

(* command: "Every ack names the command it answers, so a leftover is        *)
(* stepped over here rather than left to shift every following reply by one  *)
(* frame": the frame that meets check_adf is the answer to its request.      *)
AdfReplyInStep ==
  c.pc = "recv" /\ c.cmd = "ADF_STATUS" /\ inq # <<>>
    => Head(inq).cmd \in {"ADF_STATUS", "GARBAGE"}

(* resume_job: "The job ended instead of starting another page: the feeder   *)
(* is empty."                                                                *)
ResumedPageBegan ==
  c.pc = "return" /\ c.call = "resume" /\ c.st = "GOOD" => g.begun
=============================================================================
