-------------------------- MODULE ScanSessionProofs --------------------------
(***************************************************************************)
(* Proofs about ScanSession, for every value of its constants.  The sets   *)
(* of names (PCs, Cmds, ...) stay opaque to the provers: what is needed of *)
(* them is stated once, in PCNames and the lemmas after it.                *)
(***************************************************************************)
EXTENDS ScanSession, TLAPS

LEMMA PCNames ==
  /\ "idle" \in PCs /\ "flush" \in PCs /\ "send" \in PCs /\ "recv" \in PCs
  /\ "test" \in PCs /\ "clear" \in PCs /\ "loop" \in PCs /\ "abort" \in PCs
  /\ "drain" \in PCs /\ "unlock" \in PCs /\ "unlock_recv" \in PCs
  /\ "retry" \in PCs /\ "cancelled" \in PCs /\ "return" \in PCs
  BY DEF PCs

LEMMA CallNames ==
  /\ "none" \in Calls /\ "open" \in Calls /\ "start" \in Calls
  /\ "resume" \in Calls /\ "read" \in Calls /\ "close" \in Calls
  BY DEF Calls

LEMMA CmdNames ==
  /\ "LOCK" \in Cmds /\ "UNLOCK" \in Cmds /\ "START" \in Cmds
  /\ "ABORT" \in Cmds /\ "GET_SETTINGS" \in Cmds /\ "SET_SETTINGS" \in Cmds
  /\ "SET_DEFAULTS" \in Cmds /\ "ADF_STATUS" \in Cmds
  BY DEF Cmds

LEMMA StatusNames ==
  /\ "GOOD" \in Statuses /\ "UNSUPPORTED" \in Statuses
  /\ "CANCELLED" \in Statuses /\ "DEVICE_BUSY" \in Statuses
  /\ "EOF" \in Statuses /\ "NO_DOCS" \in Statuses
  /\ "IO_ERROR" \in Statuses /\ "NO_MEM" \in Statuses
  BY DEF Statuses

(* map_status never leaves the SANE status codes. *)
LEMMA MapStatusType == \A s : map_status(s) \in Statuses
  BY DEF map_status, Statuses

-----------------------------------------------------------------------------
(* Types of the wire. *)

LEMMA SentType ==
  ASSUME NEW cmd \in Cmds, NEW source \in Sources, outq \in Seq(Requests),
         faults \in Nat,
         \/ Sent(cmd, source)
         \/ \E delivered \in BOOLEAN : SendFails(cmd, source, delivered)
  PROVE  outq' \in Seq(Requests) /\ faults' \in Nat
<1>1. [cmd |-> cmd, source |-> source] \in Requests
  BY DEF Requests
<1> QED
  BY <1>1 DEF Sent, SendFails, Fault

LEMMA GarbageType == Garbage \in Frames
  BY DEF Garbage, Frames

LEMMA ReceivedType ==
  ASSUME inq \in Seq(Frames), faults \in Nat,
         Received \/ ReceivedPart \/ \E quiet \in BOOLEAN : RecvFails(quiet)
  PROVE  inq' \in Seq(Frames) /\ faults' \in Nat
<1>1. <<Garbage>> \in Seq(Frames)
  BY GarbageType
<1>2. inq # <<>> => Tail(inq) \in Seq(Frames)
  OBVIOUS
<1>3. inq # <<>> => <<Garbage>> \o Tail(inq) \in Seq(Frames)
  BY <1>1, <1>2
<1>4. faults' \in Nat
  BY DEF Received, ReceivedPart, RecvFails, Fault
<1>5. inq' = inq \/ (inq # <<>> /\ inq' = Tail(inq))
        \/ (inq # <<>> /\ inq' = <<Garbage>> \o Tail(inq))
  BY DEF Received, ReceivedPart, RecvFails, CutShort
<1> QED
  BY <1>2, <1>3, <1>4, <1>5

LEMMA CutShortType ==
  ASSUME inq \in Seq(Frames), CutShort
  PROVE  inq' \in Seq(Frames)
<1>1. <<Garbage>> \in Seq(Frames) /\ Tail(inq) \in Seq(Frames)
  BY GarbageType DEF CutShort
<1>2. <<Garbage>> \o Tail(inq) \in Seq(Frames)
  BY <1>1
<1> QED BY <1>2 DEF CutShort

LEMMA HeadType ==
  ASSUME inq \in Seq(Frames), inq # <<>>
  PROVE  /\ Head(inq) \in Frames
         /\ Head(inq).status \in Nat /\ Head(inq).first \in Nat
         /\ Head(inq).rows \in Nat
<1>1. Head(inq) \in Frames
  OBVIOUS
<1> QED
  BY <1>1 DEF Frames

-----------------------------------------------------------------------------
(* Types of the ways on from a transfer. *)

LEMMA UnlockType ==
  ASSUME NEW hh \in Handles, NEW cc \in CallStates, NEW then \in PCs,
         unlock_device(hh, cc, then)
  PROVE  h' \in Handles /\ c' \in CallStates
  BY PCNames DEF unlock_device, Handles, CallStates

LEMMA GivingUpType ==
  ASSUME NEW hh \in Handles, c \in CallStates, NEW st \in Statuses,
         GivingUp(hh, st)
  PROVE  h' \in Handles /\ c' \in CallStates
<1>1. [c EXCEPT !.st = st] \in CallStates
  BY DEF CallStates
<1> QED
  BY <1>1, UnlockType, PCNames DEF GivingUp

LEMMA StoppingType ==
  ASSUME NEW hh \in Handles, c \in CallStates, NEW st \in Statuses,
         Stopping(hh, st)
  PROVE  h' \in Handles /\ c' \in CallStates
<1>1. [hh EXCEPT !.scanning = FALSE] \in Handles
  BY DEF Handles
<1> QED
  BY <1>1, GivingUpType DEF Stopping

LEMMA EndScanType ==
  ASSUME h \in Handles, NEW cc \in CallStates, NEW then \in PCs,
         end_scan(cc, then)
  PROVE  h' \in Handles /\ c' \in CallStates
<1>1. CASE h.scanning
  BY <1>1, PCNames DEF end_scan, CallStates
<1>2. CASE ~h.scanning
  BY <1>2, UnlockType DEF end_scan
<1> QED
  BY <1>1, <1>2

LEMMA CommandingType ==
  ASSUME c \in CallStates, NEW cmd \in Cmds, Commanding(cmd)
  PROVE  c' \in CallStates
  BY PCNames DEF Commanding, CallStates

LEMMA ReturningType ==
  ASSUME c \in CallStates, NEW st \in Statuses, Returning(st)
  PROVE  c' \in CallStates
  BY PCNames DEF Returning, CallStates

LEMMA RunJobType ==
  ASSUME NEW hh \in Handles, c \in CallStates, NEW attempt \in Nat,
         run_job(hh, attempt)
  PROVE  h' \in Handles /\ c' \in CallStates
  BY PCNames, CmdNames DEF run_job, Handles, CallStates

LEMMA NoCallType == NoCall \in CallStates
  BY PCNames, CallNames, CmdNames, StatusNames DEF NoCall, CallStates

LEMMA EnteringType ==
  ASSUME NEW call \in Calls, NEW pc \in PCs
  PROVE  Entering(call, pc) \in CallStates
  BY NoCallType DEF Entering, CallStates

LEMMA NoHandleType == NoHandle \in Handles
  BY SessionAssumption DEF NoHandle, Handles, Sources

LEMMA NoHistoryType ==
  ASSUME NEW lost \in BOOLEAN, NEW starts \in 0..MaxStarts
  PROVE  NoHistory(lost, starts) \in Histories
  BY DEF NoHistory, Histories

LEMMA AppendingType ==
  ASSUME NEW hh \in Handles, NEW next \in Nat, next >= hh.next_row
  PROVE  Appending(hh, next) \in Handles
<1>1. hh.next_row \in Nat /\ hh.out \in Nat
  BY DEF Handles
<1>2. hh.out + (next - hh.next_row) \in Nat
  BY <1>1
<1> QED
  BY <1>2 DEF Appending, Handles

(* Rows only ever move forward. *)
LEMMA RowsForward ==
  ASSUME NEW next \in Nat, NEW first \in Nat, NEW rows \in Nat,
         NEW lines \in Nat
  PROVE  /\ emit_white_rows(next, first, lines) \in Nat
         /\ emit_white_rows(next, first, lines) >= next
         /\ handle_rows(next, first, rows, lines) \in Nat
         /\ handle_rows(next, first, rows, lines) >= next
  BY DEF handle_rows, emit_white_rows, Upper, Lower

LEMMA OutOfMemoryType ==
  ASSUME h \in Handles, c \in CallStates, faults \in Nat, NEW next \in Nat,
         NEW eof \in BOOLEAN, OutOfMemory(next, eof)
  PROVE  h' \in Handles /\ c' \in CallStates /\ faults' \in Nat
<1>1. faults' \in Nat
  BY DEF OutOfMemory, Fault
<1>2. PICK k \in h.next_row..(next - 1) :
        Stopping(Appending([h EXCEPT !.eof = eof], k), "NO_MEM")
  BY DEF OutOfMemory
<1>3. [h EXCEPT !.eof = eof] \in Handles
        /\ [h EXCEPT !.eof = eof].next_row = h.next_row /\ h.next_row \in Nat
  BY DEF Handles
<1>4. k \in Nat /\ k >= h.next_row
  BY <1>3
<1>5. Appending([h EXCEPT !.eof = eof], k) \in Handles
  BY <1>3, <1>4, AppendingType
<1> QED
  BY <1>1, <1>2, <1>5, StoppingType, StatusNames

-----------------------------------------------------------------------------
(* Type correctness. *)

LEMMA TypeInit == Init => TypeOK
<1> SUFFICES ASSUME Init PROVE TypeOK
  OBVIOUS
<1>1. h \in Handles /\ c \in CallStates
  BY NoHandleType, NoCallType DEF Init
<1>2. g \in Histories
  <2>1. 0 \in 0..MaxStarts /\ FALSE \in BOOLEAN
    BY SessionAssumption
  <2>2. NoHistory(FALSE, 0) \in Histories
    BY <2>1, NoHistoryType
  <2> QED
    BY <2>2 DEF Init
<1>3. DeviceTypeOK
  <2>1. d \in [locked : {FALSE}, job : {"none"}, source : {"FLATBED"},
               blocks : {0}, feeder : Feeders, sheets : 0..MaxSheets]
    BY DEF Init, DeviceInit
  <2>2. Feeders \subseteq BOOLEAN /\ 0..MaxSheets \subseteq Nat
    BY ScannerAssumption
  <2>3. "none" \in Jobs /\ "FLATBED" \in Sources
    BY DEF Jobs, Sources
  <2>4. PICK feeder \in Feeders, sheets \in 0..MaxSheets :
          d = [locked |-> FALSE, job |-> "none", source |-> "FLATBED",
               blocks |-> 0, feeder |-> feeder, sheets |-> sheets]
    BY <2>1
  <2>5. feeder \in BOOLEAN /\ sheets \in Nat
    BY <2>2
  <2> QED
    BY <2>3, <2>4, <2>5 DEF DeviceTypeOK
<1>4. outq \in Seq(Requests) /\ inq \in Seq(Frames) /\ faults \in Nat
  BY WireAssumption DEF Init, WireInit
<1> QED
  BY <1>1, <1>2, <1>3, <1>4 DEF TypeOK

LEMMA TypeFrontend == TypeOK /\ Frontend => TypeOK'
<1> SUFFICES ASSUME TypeOK, Frontend PROVE TypeOK'
  OBVIOUS
<1> USE DEF TypeOK, DeviceTypeOK
<1>0. g.lost \in BOOLEAN /\ g.starts \in 0..MaxStarts
  BY DEF Histories
<1>1. CASE sane_open
  BY <1>1, NoHandleType, EnteringType, CallNames, PCNames DEF sane_open
<1>2. CASE sane_close
  BY <1>2, EnteringType, EndScanType, CallNames, PCNames DEF sane_close
<1>3. CASE sane_start
  <2>1. g.starts + 1 \in 0..MaxStarts
    BY <1>0, <1>3, SessionAssumption DEF sane_start
  <2>2. NoHistory(g.lost, g.starts + 1) \in Histories
    BY <1>0, <2>1, NoHistoryType
  <2>3. (~Outstanding("START")) \in BOOLEAN
    OBVIOUS
  <2>4. g' \in Histories
    BY <1>3, <2>2, <2>3 DEF sane_start, Histories
  <2> QED
    BY <1>3, <2>4, EnteringType, CallNames, PCNames DEF sane_start
<1>4. CASE sane_read
  BY <1>4, EnteringType, EndScanType, CallNames, PCNames DEF sane_read
<1>5. CASE sane_set_io_mode
  <2>1. h' \in Handles
    BY <1>5, SessionAssumption DEF sane_set_io_mode, Handles
  <2> QED
    BY <1>5, <2>1 DEF sane_set_io_mode
<1>6. CASE control_option
  <2>1. h' \in Handles
    <3>1. ASSUME NEW s \in Sources, h' = [h EXCEPT !.source = s]
          PROVE  h' \in Handles
      BY <3>1 DEF Handles
    <3>2. ASSUME NEW n \in Lengths, h' = [h EXCEPT !.want = n]
          PROVE  h' \in Handles
      <4>1. n \in Nat
        BY SessionAssumption
      <4> QED
        BY <3>2, <4>1 DEF Handles
    <3>3. {"FLATBED"} \cup (IF h.has_adf THEN {"ADF"} ELSE {}) \subseteq Sources
      BY DEF Sources
    <3> QED
      BY <1>6, <3>1, <3>2, <3>3 DEF control_option
  <2> QED
    BY <1>6, <2>1 DEF control_option
<1>7. CASE get_parameters
  <2>1. h' \in Handles
    BY <1>7 DEF get_parameters, Handles
  <2> QED
    BY <1>7, <2>1 DEF get_parameters
<1> QED
  BY <1>1, <1>2, <1>3, <1>4, <1>5, <1>6, <1>7 DEF Frontend

LEMMA CommandFailedType ==
  ASSUME h \in Handles, c \in CallStates, NEW st \in Statuses,
         NEW status \in Nat, CommandFailed(st, status)
  PROVE  h' \in Handles /\ c' \in CallStates
<1>1. CASE GivingUp(h, "GOOD") \/ GivingUp(h, "DEVICE_BUSY") \/ GivingUp(h, st)
  BY <1>1, GivingUpType, StatusNames
<1>2. CASE /\ h' = [h EXCEPT !.locked = TRUE]
           /\ c' = [c EXCEPT !.pc = "send", !.n = 0, !.tries = @ + 1]
  <2>1. h' \in Handles
    BY <1>2 DEF Handles
  <2>2. c' \in CallStates
    <3>1. c.tries + 1 \in Nat /\ 0 \in Nat
      BY DEF CallStates
    <3>2. c' = [c EXCEPT !.pc = "send", !.n = 0, !.tries = c.tries + 1]
      BY <1>2
    <3> QED
      BY <3>1, <3>2, PCNames DEF CallStates
  <2> QED
    BY <2>1, <2>2
<1> QED
  BY <1>1, <1>2 DEF CommandFailed

LEMMA CheckAdfType ==
  ASSUME h \in Handles, c \in CallStates, NEW f, check_adf(f)
  PROVE  h' \in Handles /\ c' \in CallStates
<1>1. [h EXCEPT !.has_adf = f.status = 0] \in Handles
  BY DEF Handles
<1> QED
  BY <1>1, GivingUpType, CommandingType, StatusNames, CmdNames DEF check_adf

LEMMA CommandDoneType ==
  ASSUME h \in Handles, c \in CallStates, CommandDone
  PROVE  h' \in Handles /\ c' \in CallStates
<1>1. CASE /\ h' = [h EXCEPT !.scanning = TRUE]
           /\ c' = [c EXCEPT !.pc = "loop", !.n = 0]
  BY <1>1, PCNames DEF Handles, CallStates
<1>2. CASE Commanding(NextCommand(c.cmd)) /\ UNCHANGED h
  <2>1. NextCommand(c.cmd) \in Cmds
    BY CmdNames DEF NextCommand
  <2> QED
    BY <1>2, <2>1, CommandingType
<1> QED
  BY <1>1, <1>2 DEF CommandDone

(* The exchange of one command: send, acknowledge, skip, fail. *)
CommandStep ==
  command_sends \/ command_acked \/ command_skips \/ command_breaks_off

LEMMA TypeCommand == TypeOK /\ CommandStep => TypeOK'
<1> SUFFICES ASSUME TypeOK, CommandStep PROVE TypeOK'
  OBVIOUS
<1> USE DEF TypeOK, DeviceTypeOK
<1>0. c.cmd \in Cmds /\ c.n \in Nat /\ h.source \in Sources
  BY DEF CallStates, Handles
<1>1. CASE command_sends
  <2>1. outq' \in Seq(Requests) /\ faults' \in Nat
    BY <1>0, <1>1, SentType DEF command_sends
  <2>2. h' \in Handles /\ c' \in CallStates
    <3>1. CASE UNCHANGED h /\ c' = [c EXCEPT !.pc = "recv"]
      BY <3>1, PCNames DEF CallStates
    <3>2. CASE CommandFailed("IO_ERROR", 0)
      BY <3>2, CommandFailedType, StatusNames
    <3> QED
      BY <1>1, <3>1, <3>2 DEF command_sends
  <2> QED
    BY <1>1, <2>1, <2>2 DEF command_sends
<1>2. CASE command_acked
  <2>1. inq' \in Seq(Frames) /\ faults' \in Nat /\ inq # <<>>
    BY <1>2, ReceivedType DEF command_acked, Received
  <2>2. h' \in Handles /\ c' \in CallStates
    BY <1>2, <2>1, HeadType, MapStatusType, CommandFailedType, CheckAdfType,
       CommandDoneType, StatusNames DEF command_acked
  <2> QED
    BY <1>2, <2>1, <2>2 DEF command_acked
<1>3. CASE command_skips
  <2>1. inq' \in Seq(Frames) /\ faults' \in Nat
    BY <1>3, ReceivedType DEF command_skips
  <2>2. h' \in Handles /\ c' \in CallStates
    <3>1. CASE UNCHANGED h /\ c' = [c EXCEPT !.n = @ + 1]
      BY <3>1 DEF CallStates
    <3>2. CASE CommandFailed("IO_ERROR", 0)
      BY <3>2, CommandFailedType, StatusNames
    <3> QED
      BY <1>3, <3>1, <3>2 DEF command_skips
  <2> QED
    BY <1>3, <2>1, <2>2 DEF command_skips
<1>4. CASE command_breaks_off
  <2>1. inq' \in Seq(Frames) /\ faults' \in Nat
    BY <1>4, ReceivedType DEF command_breaks_off, Quiet
  <2>2. h' \in Handles /\ c' \in CallStates
    BY <1>4, CommandFailedType, StatusNames DEF command_breaks_off
  <2> QED
    BY <1>4, <2>1, <2>2 DEF command_breaks_off
<1> QED
  BY <1>1, <1>2, <1>3, <1>4 DEF CommandStep

(* flush_input, unlock_device and end_scan on the wire. *)
TeardownStep ==
  \/ Flushes \/ probe_adf \/ unlock_sends \/ unlock_recv
  \/ abort_sends \/ drain_frame \/ drain_breaks_off \/ read_cancelled

LEMMA TypeTeardown == TypeOK /\ TeardownStep => TypeOK'
<1> SUFFICES ASSUME TypeOK, TeardownStep PROVE TypeOK'
  OBVIOUS
<1> USE DEF TypeOK, DeviceTypeOK
<1>0. /\ c.n + 1 \in Nat /\ c.then \in PCs /\ h.source \in Sources
      /\ g.lost \in BOOLEAN
  BY DEF CallStates, Handles, Histories
<1>a. ASSUME c' = [c EXCEPT !.n = c.n + 1] PROVE c' \in CallStates
  BY <1>0, <1>a DEF CallStates
<1>b. ASSUME NEW pc \in PCs, c' = [c EXCEPT !.pc = pc] PROVE c' \in CallStates
  BY <1>b DEF CallStates
<1>c. ASSUME Drained PROVE h' \in Handles /\ c' \in CallStates
  <2>1. [h EXCEPT !.scanning = FALSE] \in Handles
    BY DEF Handles
  <2> QED
    BY <1>0, <1>c, <2>1, UnlockType DEF Drained
<1>1. CASE Flushes
  BY <1>1, <1>a DEF Flushes
<1>2. CASE probe_adf
  <2>1. h' \in Handles
    BY <1>2 DEF probe_adf, Handles
  <2>2. inq' \in Seq(Frames) /\ faults' \in Nat
    BY <1>2, CutShortType DEF probe_adf, Fault
  <2> QED
    BY <1>2, <2>1, <2>2, CommandingType, CmdNames DEF probe_adf
<1>3. CASE unlock_sends
  <2>1. outq' \in Seq(Requests) /\ faults' \in Nat
    BY <1>0, <1>3, SentType, CmdNames DEF unlock_sends
  <2>2. c' \in CallStates
    BY <1>0, <1>3, <1>b, PCNames DEF unlock_sends
  <2>3. g' \in Histories
    BY <1>3 DEF unlock_sends, Histories
  <2> QED
    BY <1>3, <2>1, <2>2, <2>3 DEF unlock_sends
<1>4. CASE unlock_recv
  <2>1. inq' \in Seq(Frames) /\ faults' \in Nat
    BY <1>4, ReceivedType DEF unlock_recv, Quiet
  <2> QED
    BY <1>0, <1>4, <1>b, <2>1 DEF unlock_recv
<1>5. CASE abort_sends
  <2>1. outq' \in Seq(Requests) /\ faults' \in Nat
    BY <1>0, <1>5, SentType, CmdNames DEF abort_sends
  <2>2. c' \in CallStates
    BY <1>5, PCNames DEF abort_sends, CallStates
  <2> QED
    BY <1>5, <2>1, <2>2 DEF abort_sends
<1>6. CASE drain_frame
  <2>1. inq' \in Seq(Frames) /\ faults' \in Nat
    BY <1>6, ReceivedType DEF drain_frame
  <2> QED
    BY <1>6, <1>a, <1>c, <2>1 DEF drain_frame
<1>7. CASE drain_breaks_off
  <2>1. inq' \in Seq(Frames) /\ faults' \in Nat
    BY <1>7, ReceivedType DEF drain_breaks_off, Quiet
  <2> QED
    BY <1>7, <1>c, <2>1 DEF drain_breaks_off
<1>8. CASE read_cancelled
  <2>1. h' \in Handles
    BY <1>8 DEF read_cancelled, Handles
  <2> QED
    BY <1>8, <2>1, ReturningType, StatusNames DEF read_cancelled
<1> QED
  BY <1>1, <1>2, <1>3, <1>4, <1>5, <1>6, <1>7, <1>8 DEF TeardownStep

(* sane_start before its first transfer. *)
StartStep ==
  start_tests_cancelled \/ resume_job \/ start_busy \/ start_job \/ start_retry

LEMMA TypeStart == TypeOK /\ StartStep => TypeOK'
<1> SUFFICES ASSUME TypeOK, StartStep PROVE TypeOK'
  OBVIOUS
<1> USE DEF TypeOK, DeviceTypeOK
<1>1. CASE start_tests_cancelled
  <2>1. CASE h.cancelled
    BY <1>1, <2>1, EndScanType, PCNames DEF start_tests_cancelled
  <2>2. CASE ~h.cancelled
    <3>1. c' \in CallStates
      BY <1>1, <2>2, PCNames DEF start_tests_cancelled, CallStates
    <3> QED
      BY <1>1, <2>2, <3>1 DEF start_tests_cancelled
  <2> QED
    BY <1>1, <2>1, <2>2 DEF start_tests_cancelled
<1>2. CASE resume_job
  <2>1. h' \in Handles
    BY <1>2 DEF resume_job, Handles
  <2>2. c' \in CallStates
    BY <1>2, PCNames, CallNames DEF resume_job, CallStates
  <2> QED
    BY <1>2, <2>1, <2>2 DEF resume_job
<1>3. CASE start_busy
  BY <1>3, ReturningType, StatusNames DEF start_busy
<1>4. CASE start_job
  <2> DEFINE hh == [h EXCEPT !.cancelled = FALSE, !.eof = FALSE,
                             !.lines = h.want]
  <2>1. hh \in Handles
    BY DEF Handles
  <2>2. CASE run_job(hh, 0) /\ UNCHANGED faults
    <3>1. h' \in Handles /\ c' \in CallStates
      BY <2>1, <2>2, RunJobType
    <3> QED
      BY <1>4, <2>2, <3>1 DEF start_job
  <2>3. CASE Fault /\ h' = hh /\ Returning("NO_MEM")
    <3>1. c' \in CallStates /\ faults' \in Nat
      BY <2>3, ReturningType, StatusNames DEF Fault
    <3> QED
      BY <1>4, <2>1, <2>3, <3>1 DEF start_job
  <2> QED
    BY <1>4, <2>2, <2>3 DEF start_job
<1>5. CASE start_retry
  <2>1. h' \in Handles /\ c' \in CallStates
    <3>1. c.attempt + 1 \in Nat
      BY DEF CallStates
    <3> QED
      BY <1>5, <3>1, ReturningType, RunJobType, MapStatusType, StatusNames
         DEF start_retry
  <2> QED
    BY <1>5, <2>1 DEF start_retry
<1> QED
  BY <1>1, <1>2, <1>3, <1>4, <1>5 DEF StartStep

LEMMA TypePump == TypeOK /\ pump_frame => TypeOK'
<1> SUFFICES ASSUME TypeOK, pump_frame PROVE TypeOK'
  OBVIOUS
<1> USE DEF TypeOK, DeviceTypeOK
<1>0. /\ h.next_row \in Nat /\ h.lines \in Nat /\ h.eof \in BOOLEAN
      /\ inq # <<>> => Tail(inq) \in Seq(Frames)
  BY DEF Handles
<1>a. [g EXCEPT !.begun = c.call = "resume"] \in Histories
  BY DEF Histories
<1>b. [h EXCEPT !.scanning = FALSE] \in Handles
  BY DEF Handles
<1>1. CASE handle_data_block
  <2> DEFINE f == Head(inq)
             next == handle_rows(h.next_row, f.first, f.rows, h.lines)
  <2>1. inq # <<>> /\ f.first \in Nat /\ f.rows \in Nat
    BY <1>1, HeadType DEF handle_data_block, Pumping
  <2>2. next \in Nat /\ next >= h.next_row
    BY <1>0, <2>1, RowsForward
  <2> HIDE DEF next
  <2>3. h' \in Handles /\ c' \in CallStates /\ faults' \in Nat
    <3>1. CASE h' = Appending(h, next) /\ UNCHANGED <<c, faults>>
      BY <2>2, <3>1, AppendingType
    <3>2. CASE OutOfMemory(next, h.eof)
      BY <1>0, <2>2, <3>2, OutOfMemoryType
    <3>3. CASE /\ \/ Stopping(h, "IO_ERROR") \/ Stopping(h, "UNSUPPORTED")
                  \/ Stopping(h, "NO_MEM")
               /\ UNCHANGED faults \/ Fault
      <4>1. faults' \in Nat
        BY <3>3 DEF Fault
      <4> QED
        BY <3>3, <4>1, StoppingType, StatusNames
    <3> QED
      BY <1>1, <3>1, <3>2, <3>3 DEF handle_data_block, next
  <2> QED
    BY <1>0, <1>1, <1>a, <2>1, <2>3 DEF handle_data_block, Pumping, Begun
<1>2. CASE pump_aborted
  <2>1. inq # <<>> /\ Head(inq).status \in Nat
    BY <1>2, HeadType DEF pump_aborted, Pumping
  <2>2. [c EXCEPT !.code = Head(inq).status] \in CallStates
    BY <2>1 DEF CallStates
  <2>3. h' \in Handles /\ c' \in CallStates
    BY <1>2, <1>b, <2>2, UnlockType, GivingUpType, MapStatusType, StatusNames,
       PCNames DEF pump_aborted
  <2> QED
    BY <1>0, <1>2, <2>1, <2>3 DEF pump_aborted, Pumping
<1>c. emit_white_rows(h.next_row, h.lines, h.lines) \in Nat
        /\ emit_white_rows(h.next_row, h.lines, h.lines) >= h.next_row
  BY <1>0, RowsForward
<1>3. CASE pump_job_end
  <2> DEFINE next == emit_white_rows(h.next_row, h.lines, h.lines)
             hh == [Appending(h, next) EXCEPT !.eof = TRUE, !.scanning = FALSE]
  <2>1. Appending(h, next) \in Handles
    BY <1>c, AppendingType
  <2>2. hh \in Handles
    BY <2>1 DEF Handles
  <2>3. h' \in Handles /\ c' \in CallStates /\ faults' \in Nat
    <3>1. CASE unlock_device(hh, c, "loop") /\ UNCHANGED faults
      BY <2>2, <3>1, UnlockType, PCNames
    <3>2. CASE OutOfMemory(next, TRUE)
      BY <1>c, <3>2, OutOfMemoryType
    <3> QED
      BY <1>3, <3>1, <3>2 DEF pump_job_end
  <2> QED
    BY <1>0, <1>3, <2>3 DEF pump_job_end, Pumping
<1>4. CASE pump_page_end
  <2> DEFINE next == emit_white_rows(h.next_row, h.lines, h.lines)
  <2>1. Appending(h, next) \in Handles
    BY <1>c, AppendingType
  <2>2. h' \in Handles /\ c' \in CallStates /\ faults' \in Nat
    <3>1. CASE /\ h' = [Appending(h, next) EXCEPT !.eof = TRUE,
                                                 !.feeding = TRUE]
               /\ UNCHANGED <<c, faults>>
      BY <2>1, <3>1 DEF Handles
    <3>2. CASE OutOfMemory(next, TRUE)
      BY <1>c, <3>2, OutOfMemoryType
    <3>3. CASE UNCHANGED <<h, c, faults>>
      BY <3>3
    <3> QED
      BY <1>4, <3>1, <3>2, <3>3 DEF pump_page_end
  <2> QED
    BY <1>0, <1>4, <2>2 DEF pump_page_end, Pumping
<1>5. CASE pump_other
  <2>1. inq' \in Seq(Frames) /\ faults' \in Nat
    BY <1>5, ReceivedType DEF pump_other
  <2> QED
    BY <1>5, <1>a, <2>1 DEF pump_other, Begun
<1>6. CASE pump_breaks_off
  <2>1. inq' \in Seq(Frames) /\ faults' \in Nat
    BY <1>6, ReceivedType DEF pump_breaks_off, Quiet
  <2> QED
    BY <1>6, <2>1, StoppingType, StatusNames DEF pump_breaks_off
<1>7. CASE pump_idle
  BY <1>7, ReturningType, StatusNames DEF pump_idle
<1> QED
  BY <1>1, <1>2, <1>3, <1>4, <1>5, <1>6, <1>7 DEF pump_frame

LEMMA TypeReturn == TypeOK /\ (first_rows \/ deliver \/ Return) => TypeOK'
<1> SUFFICES ASSUME TypeOK, first_rows \/ deliver \/ Return PROVE TypeOK'
  OBVIOUS
<1> USE DEF TypeOK, DeviceTypeOK
<1>1. CASE first_rows
  BY <1>1, ReturningType, StatusNames DEF first_rows
<1>2. CASE deliver
  <2>1. c' \in CallStates
    BY <1>2, ReturningType, StatusNames DEF deliver
  <2>2. CASE h.out = 0 /\ h' = [h EXCEPT !.eof = TRUE] /\ UNCHANGED g
    <3>1. h' \in Handles
      BY <2>2 DEF Handles
    <3> QED
      BY <1>2, <2>1, <2>2, <3>1 DEF deliver
  <2>3. ASSUME NEW k \in 1..h.out, h' = [h EXCEPT !.out = @ - k],
               g' = IF g.ok THEN [g EXCEPT !.given = @ + k] ELSE g
        PROVE  TypeOK'
    <3>1. h.out \in Nat /\ g.given \in Nat
      BY DEF Handles, Histories
    <3>2. h.out - k \in Nat /\ g.given + k \in Nat
      BY <3>1
    <3>3. h' \in Handles
      BY <2>3, <3>2 DEF Handles
    <3>4. g' \in Histories
      BY <2>3, <3>2 DEF Histories
    <3> QED
      BY <1>2, <2>1, <3>3, <3>4 DEF deliver
  <2> QED
    BY <1>2, <2>2, <2>3 DEF deliver
<1>3. CASE Return
  <2>1. h' \in Handles
    <3>1. [h EXCEPT !.open = TRUE] \in Handles
      BY DEF Handles
    <3> QED
      BY <1>3, <3>1, NoHandleType DEF Return
  <2>2. g' \in Histories
    <3>1. [g EXCEPT !.ok = TRUE, !.promised = h.lines, !.begun = FALSE,
                    !.asked = FALSE, !.alone = FALSE] \in Histories
      BY DEF Histories, Handles
    <3>2. NoHistory(g.lost, g.starts) \in Histories
      BY NoHistoryType DEF Histories
    <3> QED
      BY <1>3, <3>1, <3>2 DEF Return
  <2> QED
    BY <1>3, <2>1, <2>2, NoCallType DEF Return
<1> QED
  BY <1>1, <1>2, <1>3

LEMMA TypeAsync == TypeOK /\ (sane_cancel \/ crash) => TypeOK'
<1> SUFFICES ASSUME TypeOK, sane_cancel \/ crash PROVE TypeOK'
  OBVIOUS
<1> USE DEF TypeOK, DeviceTypeOK
<1>1. CASE sane_cancel
  <2>1. h' \in Handles
    BY <1>1 DEF sane_cancel, Handles
  <2>2. g' \in Histories
    BY <1>1 DEF sane_cancel, Histories
  <2> QED
    BY <1>1, <2>1, <2>2 DEF sane_cancel
<1>2. CASE crash
  <2>1. (~Settled) \in BOOLEAN /\ g.starts \in 0..MaxStarts
    BY DEF Histories, Settled
  <2>2. g' \in Histories
    BY <1>2, <2>1, NoHistoryType DEF crash
  <2>3. faults' \in Nat /\ inq' \in Seq(Frames)
    BY <1>2, CutShortType DEF crash, Fault
  <2> QED
    BY <1>2, <2>2, <2>3, NoHandleType, NoCallType DEF crash
<1> QED
  BY <1>1, <1>2

-----------------------------------------------------------------------------
(* The device side. *)

LEMMA ReplyType ==
  ASSUME NEW cmd \in Cmds \cup Evts, NEW status \in Nat, NEW arg0 \in Nat
  PROVE  Reply(cmd, status, arg0) \in Frames
  BY DEF Reply, Frames

LEMMA DataType ==
  ASSUME NEW first \in Nat, NEW rows \in Nat, NEW body \in {"ok", "bad", "jpeg"}
  PROVE  Data(first, rows, body) \in Frames
  BY DEF Data, Frames, Evts

LEMMA SaysType ==
  ASSUME inq \in Seq(Frames), NEW f \in Frames, Says(f)
  PROVE  inq' \in Seq(Frames)
  BY DEF Says

LEMMA AnswersType ==
  ASSUME inq \in Seq(Frames), faults \in Nat, NEW f \in Frames, Answers(f)
  PROVE  inq' \in Seq(Frames) /\ faults' \in Nat
  BY SaysType DEF Answers, Fault

LEMMA TypeDevice == TypeOK /\ (DeviceStep \/ LoadPaper) /\ UNCHANGED <<h, c, g>>
                      => TypeOK'
<1> SUFFICES ASSUME TypeOK, DeviceStep \/ LoadPaper, UNCHANGED <<h, c, g>>
             PROVE  TypeOK'
  OBVIOUS
<1> USE DEF TypeOK
<1>0. outq # <<>> => Tail(outq) \in Seq(Requests)
  OBVIOUS
<1>1. CASE TakesLock
  <2>1. PICK s \in LockCodes : /\ Answers(Reply("LOCK", s, 0))
                               /\ d' = [d EXCEPT !.locked = @ \/ s = 0]
    BY <1>1 DEF TakesLock
  <2>2. Reply("LOCK", s, 0) \in Frames
    BY ReplyType, CmdNames, ScannerAssumption
  <2>3. DeviceTypeOK'
    BY <2>1 DEF DeviceTypeOK
  <2> QED
    BY <1>0, <1>1, <2>1, <2>2, <2>3, AnswersType DEF TakesLock, Taking
<1>2. CASE TakesUnlock
  <2>1. Reply("UNLOCK", 0, 0) \in Frames
    BY ReplyType, CmdNames
  <2>2. DeviceTypeOK'
    BY <1>2 DEF TakesUnlock, DeviceTypeOK, Jobs
  <2> QED
    BY <1>0, <1>2, <2>1, <2>2, AnswersType DEF TakesUnlock, Taking
<1>3. CASE TakesAdfStatus
  <2>1. /\ Reply("ADF_STATUS", 0, 1) \in Frames
        /\ Reply("ADF_STATUS", 0, 0) \in Frames
        /\ Reply("ADF_STATUS", 1, 0) \in Frames
    BY ReplyType, CmdNames
  <2>2. DeviceTypeOK'
    BY <1>3 DEF TakesAdfStatus, DeviceTypeOK
  <2>3. inq' \in Seq(Frames) /\ faults' \in Nat
    BY <1>3, <2>1, AnswersType DEF TakesAdfStatus
  <2> QED
    BY <1>0, <1>3, <2>2, <2>3 DEF TakesAdfStatus, Taking
<1>4. CASE TakesSettings
  <2>1. PICK cmd \in {"SET_DEFAULTS", "GET_SETTINGS", "SET_SETTINGS"} :
          /\ Taking(cmd)
          /\ \/ Answers(Reply(cmd, IF d.locked THEN 0 ELSE 1, 0))
             \/ Fault /\ Says([Reply(cmd, 0, 0) EXCEPT !.body = "bad"])
    BY <1>4 DEF TakesSettings
  <2>2. cmd \in Cmds
    BY CmdNames
  <2>3. /\ Reply(cmd, 0, 0) \in Frames
        /\ Reply(cmd, IF d.locked THEN 0 ELSE 1, 0) \in Frames
    BY <2>2, ReplyType
  <2>4. [Reply(cmd, 0, 0) EXCEPT !.body = "bad"] \in Frames
    BY <2>3 DEF Frames
  <2>5. inq' \in Seq(Frames) /\ faults' \in Nat
    BY <2>1, <2>3, <2>4, AnswersType, SaysType DEF Fault
  <2> QED
    BY <1>0, <1>4, <2>1, <2>5 DEF TakesSettings, Taking, DeviceTypeOK
<1>5. CASE TakesStart
  <2>1. Reply("START", IF d.locked /\ d.job = "none" THEN 0 ELSE 1, 0)
          \in Frames
    BY ReplyType, CmdNames
  <2>2. inq' \in Seq(Frames) /\ faults' \in Nat
    BY <1>5, <2>1, AnswersType DEF TakesStart
  <2>3. Head(outq).source \in Sources
    <3>1. Head(outq) \in Requests
      BY <1>5 DEF TakesStart, Taking
    <3> QED
      BY <3>1 DEF Requests
  <2>4. DeviceTypeOK'
    BY <1>5, <2>3 DEF TakesStart, DeviceTypeOK, Jobs
  <2> QED
    BY <1>0, <1>5, <2>2, <2>4 DEF TakesStart, Taking
<1>6. CASE TakesAbort
  <2>1. Reply("ABORTED", 0, 0) \in Frames
    BY ReplyType DEF Evts
  <2>2. inq' \in Seq(Frames) /\ faults' \in Nat
    BY <1>6, <2>1, SaysType DEF TakesAbort
  <2>3. DeviceTypeOK'
    BY <1>6 DEF TakesAbort, DeviceTypeOK, Jobs
  <2> QED
    BY <1>0, <1>6, <2>2, <2>3 DEF TakesAbort, Taking
<1>7. CASE BeginsPage
  <2>1. Reply("SETTINGS", 0, 0) \in Frames /\ Reply("PAGE_BEGIN", 0, 0) \in Frames
    BY ReplyType DEF Evts
  <2>2. inq' \in Seq(Frames)
    BY <1>7, <2>1, SaysType DEF BeginsPage
  <2>3. d.source = "ADF" => d.sheets - 1 \in Nat
    BY <1>7 DEF BeginsPage, DeviceTypeOK
  <2>4. DeviceTypeOK'
    BY <1>7, <2>3 DEF BeginsPage, DeviceTypeOK, Jobs
  <2> QED
    BY <1>7, <2>2, <2>4 DEF BeginsPage
<1>8. CASE SendsBlock
  <2>1. PICK b \in Blocks :
          \/ Says(Data(b[1], b[2], "ok")) /\ UNCHANGED faults
          \/ Fault /\ \E body \in {"bad", "jpeg"} :
                        Says(Data(b[1], b[2], body))
    BY <1>8 DEF SendsBlock
  <2>2. b[1] \in Nat /\ b[2] \in Nat
    BY ScannerAssumption
  <2>3. inq' \in Seq(Frames) /\ faults' \in Nat
    BY <2>1, <2>2, DataType, SaysType DEF Fault
  <2>4. DeviceTypeOK'
    BY <1>8 DEF SendsBlock, DeviceTypeOK
  <2> QED
    BY <1>8, <2>3, <2>4 DEF SendsBlock
<1>9. CASE EndsPage \/ EndsJob \/ GivesUp
  <2>1. /\ Reply("PAGE_END", 0, 0) \in Frames
        /\ Reply("JOB_END", 0, 0) \in Frames
        /\ \A s \in JobCodes : Reply("ABORTED", s, 0) \in Frames
    BY ReplyType, ScannerAssumption DEF Evts
  <2>2. inq' \in Seq(Frames)
    BY <1>9, <2>1, SaysType DEF EndsPage, EndsJob, GivesUp
  <2>3. DeviceTypeOK'
    BY <1>9 DEF EndsPage, EndsJob, GivesUp, DeviceTypeOK, Jobs
  <2> QED
    BY <1>9, <2>2, <2>3 DEF EndsPage, EndsJob, GivesUp
<1>10. CASE LoadPaper
  BY <1>10 DEF LoadPaper, DeviceTypeOK
<1> QED
  BY <1>1, <1>2, <1>3, <1>4, <1>5, <1>6, <1>7, <1>8, <1>9, <1>10
     DEF DeviceStep, TakesCommand, RunsJob

-----------------------------------------------------------------------------
LEMMA TypeNext == TypeOK /\ [Next]_vars => TypeOK'
<1> SUFFICES ASSUME TypeOK, [Next]_vars PROVE TypeOK'
  OBVIOUS
<1>1. CASE Frontend
  BY <1>1, TypeFrontend
<1>2. CASE CommandStep \/ TeardownStep \/ StartStep \/ pump_frame
  BY <1>2, TypeCommand, TypeTeardown, TypeStart, TypePump
<1>3. CASE first_rows \/ deliver \/ Return \/ sane_cancel \/ crash
  BY <1>3, TypeReturn, TypeAsync
<1>4. CASE (DeviceStep \/ LoadPaper) /\ UNCHANGED <<h, c, g>>
  BY <1>4, TypeDevice
<1>5. CASE UNCHANGED vars
  BY <1>5 DEF vars, TypeOK, DeviceTypeOK
<1> QED
  BY <1>1, <1>2, <1>3, <1>4, <1>5
     DEF Next, Backend, Device, CommandStep, TeardownStep, StartStep

(* Every reachable handle, call, device and pipe has its type: no step hands *)
(* the frontend something that is not a SANE status, puts a request on the   *)
(* wire that is not a command, or counts rows below zero.                    *)
THEOREM TypeCorrect == Spec => []TypeOK
  BY TypeInit, TypeNext, PTL DEF Spec

-----------------------------------------------------------------------------
(* The lock and the job, at every point of every call.  LockMatchesJob says  *)
(* it of the idle handle only, which is not inductive: a command goes out    *)
(* under a lock with no job yet, and the lock is given up before CMD_UNLOCK. *)

Thens == {"return", "clear", "retry", "cancelled", "loop"}

LockInv ==
  /\ h.scanning => h.locked
  /\ h.locked => h.scanning \/ c.pc \in {"send", "recv"}
  /\ h.feeding => h.scanning /\ h.eof
  /\ c.pc \in {"send", "recv"} => h.locked /\ ~h.scanning
  /\ c.pc \in {"abort", "drain"} => h.scanning
  /\ c.pc \in {"flush", "unlock", "unlock_recv", "retry", "cancelled"}
       => ~h.locked
  /\ c.call = "close" =>
       /\ c.pc \in {"abort", "drain", "unlock", "unlock_recv", "return"}
       /\ c.then = "return"
       /\ c.pc = "return" => ~h.locked
  /\ c.pc = "idle" /\ ~h.open => ~h.locked
  /\ c.pc \in {"test", "clear"} \/ c.then = "clear"
       => c.call \in {"start", "resume"}
  /\ c.then \in Thens

LEMMA LockInit == Init => LockInv
  BY DEF Init, LockInv, NoHandle, NoCall, Thens

(* unlock_device leaves the handle in order whenever no job is running. *)
LEMMA UnlockLock ==
  ASSUME NEW hh \in Handles, NEW cc \in CallStates, NEW then \in Thens,
         ~hh.scanning, cc.call = "close" => then = "return",
         then = "clear" => cc.call \in {"start", "resume"},
         unlock_device(hh, cc, then)
  PROVE  LockInv'
<1>1. ~h'.locked /\ ~h'.scanning /\ ~h'.feeding
  BY DEF unlock_device, Handles
<1>2. c'.then = then /\ c'.pc \in {"unlock", then} /\ c'.call = cc.call
  BY DEF unlock_device, CallStates
<1>3. /\ c'.pc \notin {"send", "recv", "abort", "drain", "test"}
      /\ c'.pc = "clear" => then = "clear"
  BY <1>2 DEF Thens
<1> QED
  BY <1>1, <1>2, <1>3 DEF LockInv

LEMMA GivingUpLock ==
  ASSUME NEW hh \in Handles, c \in CallStates, NEW st \in Statuses,
         ~hh.scanning, GivingUp(hh, st)
  PROVE  LockInv'
<1>1. [c EXCEPT !.st = st] \in CallStates
  BY DEF CallStates
<1> QED
  BY <1>1, UnlockLock DEF GivingUp, Thens

LEMMA StoppingLock ==
  ASSUME NEW hh \in Handles, c \in CallStates, NEW st \in Statuses,
         Stopping(hh, st)
  PROVE  LockInv'
<1>1. /\ [hh EXCEPT !.scanning = FALSE] \in Handles
      /\ ~[hh EXCEPT !.scanning = FALSE].scanning
  BY DEF Handles
<1> QED
  BY <1>1, GivingUpLock DEF Stopping

LEMMA OutOfMemoryLock ==
  ASSUME h \in Handles, c \in CallStates, NEW next \in Nat,
         NEW eof \in BOOLEAN, OutOfMemory(next, eof)
  PROVE  LockInv'
<1>1. PICK k \in h.next_row..(next - 1) :
        Stopping(Appending([h EXCEPT !.eof = eof], k), "NO_MEM")
  BY DEF OutOfMemory
<1>2. [h EXCEPT !.eof = eof] \in Handles
        /\ [h EXCEPT !.eof = eof].next_row = h.next_row /\ h.next_row \in Nat
  BY DEF Handles
<1>3. k \in Nat /\ k >= h.next_row
  BY <1>2
<1>4. Appending([h EXCEPT !.eof = eof], k) \in Handles
  BY <1>2, <1>3, AppendingType
<1> QED
  BY <1>1, <1>4, StoppingLock, StatusNames

LEMMA EndScanLock ==
  ASSUME h \in Handles, NEW cc \in CallStates, NEW then \in Thens, LockInv,
         c.pc \notin {"send", "recv"}, cc.call = "close" => then = "return",
         then = "clear" => cc.call \in {"start", "resume"},
         end_scan(cc, then)
  PROVE  LockInv'
<1>1. CASE h.scanning
  <2>1. c'.pc = "abort" /\ c'.then = then /\ c'.call = cc.call /\ h' = h
    BY <1>1 DEF end_scan, CallStates
  <2> QED
    BY <1>1, <2>1 DEF LockInv
<1>2. CASE ~h.scanning
  BY <1>2, UnlockLock DEF end_scan
<1> QED
  BY <1>1, <1>2

LEMMA CommandingLock ==
  ASSUME c \in CallStates, NEW cmd, LockInv, Commanding(cmd), UNCHANGED h,
         h.locked, ~h.scanning, c.call # "close"
  PROVE  LockInv'
<1>1. c'.pc = "send" /\ c'.then = c.then /\ c'.call = c.call
  BY DEF Commanding, CallStates
<1> QED
  BY <1>1 DEF LockInv

LEMMA ReturningLock ==
  ASSUME c \in CallStates, NEW st, LockInv, Returning(st), UNCHANGED h,
         c.call # "close", c.pc \notin {"send", "recv"}
  PROVE  LockInv'
<1>1. c'.pc = "return" /\ c'.then = c.then /\ c'.call = c.call
  BY DEF Returning, CallStates
<1> QED
  BY <1>1 DEF LockInv

LEMMA LockFrontend == TypeOK /\ LockInv /\ Frontend => LockInv'
<1> SUFFICES ASSUME TypeOK, LockInv, Frontend PROVE LockInv'
  OBVIOUS
<1>0. h \in Handles /\ c \in CallStates
  BY DEF TypeOK
<1>a. ASSUME NEW call \in Calls, NEW pc \in PCs
      PROVE  /\ Entering(call, pc).call = call /\ Entering(call, pc).pc = pc
             /\ Entering(call, pc).then = "return"
  BY DEF Entering, NoCall
<1>1. CASE sane_open
  BY <1>1, <1>a, CallNames, PCNames DEF sane_open, LockInv, NoHandle, Thens
<1>2. CASE sane_close
  <2>1. Entering("close", "return") \in CallStates
    BY EnteringType, CallNames, PCNames
  <2> QED
    BY <1>0, <1>2, <2>1, EndScanLock DEF sane_close, Thens
<1>3. CASE sane_start
  BY <1>3, <1>a, CallNames, PCNames DEF sane_start, LockInv, Thens
<1>4. CASE sane_read
  <2>1. CASE h.cancelled
    <3>1. /\ Entering("read", "cancelled") \in CallStates
          /\ Entering("read", "cancelled").call = "read"
      BY <1>a, EnteringType, CallNames, PCNames
    <3> QED
      BY <1>0, <1>4, <2>1, <3>1, EndScanLock DEF sane_read, Thens
  <2>2. CASE ~h.cancelled
    BY <1>4, <1>a, <2>2, CallNames, PCNames DEF sane_read, LockInv, Thens
  <2> QED
    BY <2>1, <2>2
<1>5. CASE sane_set_io_mode \/ control_option \/ get_parameters
  <2>1. /\ h'.locked = h.locked /\ h'.scanning = h.scanning
        /\ h'.feeding = h.feeding /\ h'.eof = h.eof /\ h'.open = h.open
        /\ c' = c
    BY <1>0, <1>5 DEF sane_set_io_mode, control_option, get_parameters, Handles
  <2> QED
    BY <2>1 DEF LockInv
<1> QED
  BY <1>1, <1>2, <1>3, <1>4, <1>5 DEF Frontend

LEMMA CommandFailedLock ==
  ASSUME h \in Handles, c \in CallStates, NEW st \in Statuses, NEW status,
         LockInv, c.pc \in {"send", "recv"}, CommandFailed(st, status)
  PROVE  LockInv'
<1>1. CASE GivingUp(h, "GOOD") \/ GivingUp(h, "DEVICE_BUSY") \/ GivingUp(h, st)
  BY <1>1, GivingUpLock, StatusNames DEF LockInv
<1>2. CASE /\ h' = [h EXCEPT !.locked = TRUE]
           /\ c' = [c EXCEPT !.pc = "send", !.n = 0, !.tries = @ + 1]
  <2>1. /\ h'.locked /\ h'.scanning = h.scanning /\ h'.feeding = h.feeding
        /\ h'.eof = h.eof /\ c'.pc = "send" /\ c'.then = c.then
        /\ c'.call = c.call
    BY <1>2 DEF Handles, CallStates
  <2> QED
    BY <2>1 DEF LockInv
<1> QED
  BY <1>1, <1>2 DEF CommandFailed

LEMMA LockCommand == TypeOK /\ LockInv /\ CommandStep => LockInv'
<1> SUFFICES ASSUME TypeOK, LockInv, CommandStep PROVE LockInv'
  OBVIOUS
<1>0. h \in Handles /\ c \in CallStates /\ inq \in Seq(Frames)
  BY DEF TypeOK
<1>1. c.pc \in {"send", "recv"} /\ h.locked /\ ~h.scanning /\ c.call # "close"
  BY DEF CommandStep, command_sends, command_acked, command_skips,
         command_breaks_off, LockInv
<1>2. CASE CommandFailed("IO_ERROR", 0)
  BY <1>0, <1>1, <1>2, CommandFailedLock, StatusNames
<1>3. CASE UNCHANGED h /\ c' = [c EXCEPT !.pc = "recv"]
  BY <1>0, <1>1, <1>3 DEF LockInv, CallStates
<1>4. CASE UNCHANGED h /\ c' = [c EXCEPT !.n = @ + 1]
  BY <1>0, <1>1, <1>4 DEF LockInv, CallStates
<1>5. CASE command_acked
  <2> DEFINE f == Head(inq)
  <2>1. CASE check_adf(f)
    <3>1. [h EXCEPT !.has_adf = f.status = 0] \in Handles
            /\ ~[h EXCEPT !.has_adf = f.status = 0].scanning
      BY <1>0, <1>1 DEF Handles
    <3> QED
      BY <1>0, <1>1, <2>1, <3>1, GivingUpLock, CommandingLock, StatusNames
         DEF check_adf
  <2>2. CASE CommandFailed(map_status(f.status), f.status)
    BY <1>0, <1>1, <2>2, CommandFailedLock, MapStatusType
  <2>3. CASE CommandDone
    <3>1. CASE Commanding(NextCommand(c.cmd)) /\ UNCHANGED h
      BY <1>0, <1>1, <3>1, CommandingLock
    <3>2. CASE /\ h' = [h EXCEPT !.scanning = TRUE]
               /\ c' = [c EXCEPT !.pc = "loop", !.n = 0]
      <4>1. /\ h'.scanning /\ h'.locked /\ h'.feeding = h.feeding
            /\ h'.eof = h.eof /\ c'.pc = "loop" /\ c'.then = c.then
            /\ c'.call = c.call
        BY <1>0, <1>1, <3>2 DEF Handles, CallStates
      <4> QED
        BY <1>1, <4>1 DEF LockInv
    <3> QED
      BY <2>3, <3>1, <3>2 DEF CommandDone
  <2> QED
    BY <1>2, <1>5, <2>1, <2>2, <2>3 DEF command_acked
<1> QED
  BY <1>2, <1>3, <1>4, <1>5 DEF CommandStep, command_sends, command_skips,
     command_breaks_off

LEMMA LockTeardown == TypeOK /\ LockInv /\ TeardownStep => LockInv'
<1> SUFFICES ASSUME TypeOK, LockInv, TeardownStep PROVE LockInv'
  OBVIOUS
<1>0. h \in Handles /\ c \in CallStates
  BY DEF TypeOK
<1>a. ASSUME c.pc = "drain", Drained PROVE LockInv'
  <2>1. /\ [h EXCEPT !.scanning = FALSE] \in Handles
        /\ ~[h EXCEPT !.scanning = FALSE].scanning
    BY <1>0 DEF Handles
  <2> QED
    BY <1>0, <1>a, <2>1, UnlockLock DEF Drained, LockInv
<1>b. ASSUME UNCHANGED h, c' = [c EXCEPT !.n = @ + 1] PROVE LockInv'
  BY <1>0, <1>b DEF LockInv, CallStates
<1>1. CASE Flushes
  BY <1>1, <1>b DEF Flushes
<1>2. CASE probe_adf
  <2>1. /\ h'.locked /\ h'.scanning = h.scanning /\ h'.feeding = h.feeding
        /\ h'.eof = h.eof /\ c'.pc = "send" /\ c'.then = c.then
        /\ c'.call = c.call
    BY <1>0, <1>2 DEF probe_adf, Commanding, Handles, CallStates
  <2> QED
    BY <1>2, <2>1 DEF LockInv, probe_adf
<1>3. CASE unlock_sends \/ unlock_recv
  <2>1. /\ c'.pc \in {"unlock_recv", c.then} /\ c'.then = c.then
        /\ c'.call = c.call /\ h' = h
    BY <1>0, <1>3 DEF unlock_sends, unlock_recv, CallStates
  <2>2. ~h.locked /\ ~h.scanning
    BY <1>3 DEF unlock_sends, unlock_recv, LockInv
  <2> QED
    BY <2>1, <2>2 DEF LockInv, Thens
<1>4. CASE abort_sends
  <2>1. c'.pc = "drain" /\ c'.then = c.then /\ c'.call = c.call /\ h' = h
    BY <1>0, <1>4 DEF abort_sends, CallStates
  <2> QED
    BY <1>4, <2>1 DEF LockInv, abort_sends
<1>5. CASE drain_frame
  BY <1>5, <1>a, <1>b DEF drain_frame
<1>6. CASE drain_breaks_off
  BY <1>6, <1>a DEF drain_breaks_off
<1>7. CASE read_cancelled
  <2>1. /\ h'.locked = h.locked /\ h'.scanning = h.scanning
        /\ h'.feeding = h.feeding /\ h'.eof
        /\ c'.pc = "return" /\ c'.then = c.then /\ c'.call = c.call
    BY <1>0, <1>7 DEF read_cancelled, Returning, Handles, CallStates
  <2> QED
    BY <1>7, <2>1 DEF LockInv, read_cancelled
<1> QED
  BY <1>1, <1>2, <1>3, <1>4, <1>5, <1>6, <1>7 DEF TeardownStep

LEMMA RunJobLock ==
  ASSUME NEW hh \in Handles, c \in CallStates, NEW attempt \in Nat, LockInv,
         c.call # "close", ~hh.scanning, ~hh.feeding, run_job(hh, attempt)
  PROVE  LockInv'
<1>1. /\ h'.locked /\ ~h'.scanning /\ ~h'.feeding
      /\ c'.pc = "send" /\ c'.then = c.then /\ c'.call = c.call
  BY DEF run_job, Handles, CallStates
<1> QED
  BY <1>1 DEF LockInv

LEMMA LockStart == TypeOK /\ LockInv /\ StartStep => LockInv'
<1> SUFFICES ASSUME TypeOK, LockInv, StartStep PROVE LockInv'
  OBVIOUS
<1>0. h \in Handles /\ c \in CallStates /\ c.attempt + 1 \in Nat
  BY DEF TypeOK, CallStates
<1>1. c.call # "close"
  BY DEF StartStep, start_tests_cancelled, resume_job, start_busy, start_job,
         start_retry, LockInv
<1>2. CASE start_tests_cancelled
  <2>1. CASE h.cancelled
    <3>1. /\ c.pc = "test" /\ c.call \in {"start", "resume"}
          /\ end_scan(c, "clear")
      BY <1>2, <2>1 DEF start_tests_cancelled, LockInv
    <3> QED
      BY <1>0, <1>1, <3>1, EndScanLock DEF Thens
  <2>2. CASE ~h.cancelled
    <3>1. c'.pc = "clear" /\ c'.then = c.then /\ c'.call = c.call /\ h' = h
      BY <1>0, <1>2, <2>2 DEF start_tests_cancelled, CallStates
    <3> QED
      BY <1>1, <1>2, <3>1 DEF LockInv, start_tests_cancelled
  <2> QED
    BY <2>1, <2>2
<1>3. CASE resume_job
  <2>1. /\ h'.locked = h.locked /\ h'.scanning = h.scanning /\ ~h'.feeding
        /\ c'.pc = "loop" /\ c'.then = c.then /\ c'.call = "resume"
    BY <1>0, <1>3 DEF resume_job, Handles, CallStates
  <2> QED
    BY <1>3, <2>1 DEF LockInv, resume_job
<1>4. CASE start_busy
  BY <1>0, <1>1, <1>4, ReturningLock DEF start_busy
<1>5. CASE start_job
  <2> DEFINE hh == [h EXCEPT !.cancelled = FALSE, !.eof = FALSE,
                             !.lines = h.want]
  <2>1. /\ hh \in Handles /\ ~hh.scanning /\ ~hh.feeding
        /\ hh.locked = h.locked /\ hh.open = h.open
    BY <1>0, <1>5 DEF Handles, start_job
  <2>2. CASE run_job(hh, 0)
    BY <1>0, <1>1, <2>1, <2>2, RunJobLock
  <2>3. CASE h' = hh /\ Returning("NO_MEM")
    <3>1. c'.pc = "return" /\ c'.then = c.then /\ c'.call = c.call
      BY <1>0, <2>3 DEF Returning, CallStates
    <3>2. ~h'.scanning /\ ~h'.feeding /\ h'.locked = h.locked
      BY <2>1, <2>3
    <3> QED
      BY <1>1, <1>5, <3>1, <3>2 DEF LockInv, start_job
  <2> QED
    BY <1>5, <2>2, <2>3 DEF start_job
<1>6. CASE start_retry
  <2>1. ~h.scanning /\ ~h.feeding
    BY <1>6 DEF start_retry, LockInv
  <2>2. c.pc \notin {"send", "recv"}
    BY <1>6 DEF start_retry
  <2> QED
    BY <1>0, <1>1, <1>6, <2>1, <2>2, RunJobLock, ReturningLock DEF start_retry
<1> QED
  BY <1>2, <1>3, <1>4, <1>5, <1>6 DEF StartStep

LEMMA LockPump == TypeOK /\ LockInv /\ pump_frame => LockInv'
<1> SUFFICES ASSUME TypeOK, LockInv, pump_frame PROVE LockInv'
  OBVIOUS
<1>0. /\ h \in Handles /\ c \in CallStates /\ inq \in Seq(Frames)
      /\ h.lines \in Nat /\ h.next_row \in Nat
  BY DEF TypeOK, Handles
<1>1. /\ Waiting /\ c.pc = "loop" /\ h.scanning /\ h.locked /\ ~h.feeding
      /\ c.call # "close" /\ c.then \in Thens
  BY DEF pump_frame, handle_data_block, pump_aborted, pump_job_end,
         pump_page_end, pump_other, pump_breaks_off, pump_idle, Pumping,
         Waiting, LockInv
<1>a. /\ [h EXCEPT !.scanning = FALSE] \in Handles
      /\ ~[h EXCEPT !.scanning = FALSE].scanning
  BY <1>0 DEF Handles
<1>b. /\ emit_white_rows(h.next_row, h.lines, h.lines) \in Nat
      /\ emit_white_rows(h.next_row, h.lines, h.lines) >= h.next_row
  BY <1>0 DEF emit_white_rows, Upper, Lower
<1>2. CASE handle_data_block
  <2> DEFINE f == Head(inq)
             next == handle_rows(h.next_row, f.first, f.rows, h.lines)
  <2>1. next \in Nat
    BY <1>0, <1>2, HeadType, RowsForward
       DEF handle_data_block, Pumping, Frames
  <2>2. CASE h' = Appending(h, next) /\ UNCHANGED c
    <3>1. /\ h'.scanning = h.scanning /\ h'.locked = h.locked
          /\ h'.feeding = h.feeding /\ c' = c
      BY <1>0, <2>2 DEF Appending, Handles
    <3> QED
      BY <1>1, <3>1 DEF LockInv
  <2>3. CASE OutOfMemory(next, h.eof)
    BY <1>0, <2>1, <2>3, OutOfMemoryLock DEF Handles
  <2>4. CASE \E st \in {"IO_ERROR", "UNSUPPORTED", "NO_MEM"} : Stopping(h, st)
    BY <1>0, <1>1, <2>4, StoppingLock, StatusNames
  <2> QED
    BY <1>2, <2>2, <2>3, <2>4 DEF handle_data_block
<1>3. CASE pump_aborted
  <2> DEFINE code == Head(inq).status
             hh == [h EXCEPT !.scanning = FALSE]
  <2>1. CASE unlock_device(hh, [c EXCEPT !.code = code], "retry")
    <3>1. code \in Nat
      BY <1>0, <1>3, HeadType DEF pump_aborted, Pumping, Frames
    <3>2. /\ [c EXCEPT !.code = code] \in CallStates
          /\ [c EXCEPT !.code = code].call = c.call
      BY <1>0, <3>1 DEF CallStates
    <3> HIDE DEF hh, code
    <3> QED
      BY <1>1, <1>a, <2>1, <3>2, UnlockLock DEF Thens, hh
  <2>2. CASE \E st \in Statuses : GivingUp(hh, st)
    BY <1>0, <1>1, <1>a, <2>2, GivingUpLock
  <2> QED
    BY <1>3, <2>1, <2>2, StatusNames, MapStatusType DEF pump_aborted
<1>4. CASE pump_job_end
  <2> DEFINE next == emit_white_rows(h.next_row, h.lines, h.lines)
             hh == [Appending(h, next) EXCEPT !.eof = TRUE,
                                              !.scanning = FALSE]
  <2>1. CASE unlock_device(hh, c, "loop")
    <3>1. Appending(h, next) \in Handles
      BY <1>0, <1>b, AppendingType
    <3>2. hh \in Handles /\ ~hh.scanning
      BY <3>1 DEF Handles
    <3> HIDE DEF hh
    <3> QED
      BY <1>0, <1>1, <2>1, <3>2, UnlockLock DEF Thens
  <2>2. CASE OutOfMemory(next, TRUE)
    BY <1>0, <1>b, <2>2, OutOfMemoryLock
  <2> QED
    BY <1>4, <2>1, <2>2 DEF pump_job_end
<1>5. CASE pump_page_end
  <2> DEFINE next == emit_white_rows(h.next_row, h.lines, h.lines)
  <2>1. CASE UNCHANGED <<h, c>>
    BY <1>1, <2>1 DEF LockInv
  <2>2. CASE /\ h' = [Appending(h, next) EXCEPT !.eof = TRUE,
                                                !.feeding = TRUE]
             /\ UNCHANGED c
    <3>1. Appending(h, next) \in Handles
      BY <1>0, <1>b, AppendingType
    <3>2. /\ h'.scanning = Appending(h, next).scanning
          /\ h'.locked = Appending(h, next).locked
          /\ h'.feeding /\ h'.eof /\ c' = c
      BY <2>2, <3>1 DEF Handles
    <3>3. /\ Appending(h, next).scanning = h.scanning
          /\ Appending(h, next).locked = h.locked
      BY <1>0 DEF Appending, Handles
    <3> QED
      BY <1>1, <3>2, <3>3 DEF LockInv
  <2>3. CASE OutOfMemory(next, TRUE)
    BY <1>0, <1>b, <2>3, OutOfMemoryLock
  <2> QED
    BY <1>5, <2>1, <2>2, <2>3 DEF pump_page_end
<1>6. CASE pump_other
  BY <1>1, <1>6 DEF LockInv, pump_other
<1>7. CASE pump_breaks_off
  BY <1>0, <1>1, <1>7, StoppingLock, StatusNames DEF pump_breaks_off
<1>8. CASE pump_idle
  BY <1>0, <1>1, <1>8, ReturningLock DEF pump_idle
<1> QED
  BY <1>2, <1>3, <1>4, <1>5, <1>6, <1>7, <1>8 DEF pump_frame

(* A call in progress keeps its name and its handle. *)
OpenInv ==
  /\ c.pc # "idle" => c.call # "none"
  /\ c.call \in {"start", "resume", "read", "close"} => h.open

LEMMA UnlockKeeps ==
  ASSUME NEW hh \in Handles, NEW cc \in CallStates, NEW then \in PCs,
         unlock_device(hh, cc, then)
  PROVE  h'.open = hh.open /\ c'.call = cc.call
BY DEF unlock_device, Handles, CallStates

LEMMA GivingUpKeeps ==
  ASSUME NEW hh \in Handles, c \in CallStates, NEW st \in Statuses,
         GivingUp(hh, st)
  PROVE  h'.open = hh.open /\ c'.call = c.call
<1>1. /\ [c EXCEPT !.st = st] \in CallStates
      /\ [c EXCEPT !.st = st].call = c.call
  BY DEF CallStates
<1> QED
  BY <1>1, UnlockKeeps, PCNames DEF GivingUp

LEMMA StoppingKeeps ==
  ASSUME NEW hh \in Handles, c \in CallStates, NEW st \in Statuses,
         Stopping(hh, st)
  PROVE  h'.open = hh.open /\ c'.call = c.call
<1>1. /\ [hh EXCEPT !.scanning = FALSE] \in Handles
      /\ [hh EXCEPT !.scanning = FALSE].open = hh.open
  BY DEF Handles
<1> QED
  BY <1>1, GivingUpKeeps DEF Stopping

LEMMA OutOfMemoryKeeps ==
  ASSUME h \in Handles, c \in CallStates, NEW next \in Nat,
         NEW eof \in BOOLEAN, OutOfMemory(next, eof)
  PROVE  h'.open = h.open /\ c'.call = c.call
<1>1. PICK k \in h.next_row..(next - 1) :
        Stopping(Appending([h EXCEPT !.eof = eof], k), "NO_MEM")
  BY DEF OutOfMemory
<1>2. [h EXCEPT !.eof = eof] \in Handles
        /\ [h EXCEPT !.eof = eof].next_row = h.next_row
        /\ [h EXCEPT !.eof = eof].open = h.open /\ h.next_row \in Nat
  BY DEF Handles
<1>3. k \in Nat /\ k >= h.next_row
  BY <1>2
<1>4. Appending([h EXCEPT !.eof = eof], k) \in Handles
  BY <1>2, <1>3, AppendingType
<1>5. ASSUME NEW hh \in Handles PROVE Appending(hh, k).open = hh.open
  BY DEF Appending, Handles
<1> QED
  BY <1>1, <1>2, <1>4, <1>5, StoppingKeeps, StatusNames

LEMMA EndScanKeeps ==
  ASSUME h \in Handles, NEW cc \in CallStates, NEW then \in PCs,
         end_scan(cc, then)
  PROVE  h'.open = h.open /\ c'.call = cc.call
<1>1. CASE h.scanning
  BY <1>1 DEF end_scan, CallStates
<1>2. CASE ~h.scanning
  BY <1>2, UnlockKeeps DEF end_scan
<1> QED
  BY <1>1, <1>2

LEMMA CommandKeeps ==
  TypeOK /\ CommandStep => h'.open = h.open /\ c'.call = c.call
<1> SUFFICES ASSUME TypeOK, CommandStep
             PROVE  h'.open = h.open /\ c'.call = c.call
  OBVIOUS
<1>0. h \in Handles /\ c \in CallStates
  BY DEF TypeOK
<1>1. ASSUME NEW st \in Statuses, NEW status, CommandFailed(st, status)
      PROVE  h'.open = h.open /\ c'.call = c.call
  <2>1. CASE GivingUp(h, "GOOD") \/ GivingUp(h, "DEVICE_BUSY") \/ GivingUp(h, st)
    BY <1>0, <2>1, GivingUpKeeps, StatusNames
  <2>2. CASE /\ h' = [h EXCEPT !.locked = TRUE]
             /\ c' = [c EXCEPT !.pc = "send", !.n = 0, !.tries = @ + 1]
    BY <1>0, <2>2 DEF Handles, CallStates
  <2> QED
    BY <1>1, <2>1, <2>2 DEF CommandFailed
<1>2. ASSUME NEW cmd, Commanding(cmd), UNCHANGED h
      PROVE  h'.open = h.open /\ c'.call = c.call
  BY <1>0, <1>2 DEF Commanding, CallStates
<1>3. ASSUME NEW f, check_adf(f) PROVE h'.open = h.open /\ c'.call = c.call
  <2>1. [h EXCEPT !.has_adf = f.status = 0] \in Handles
          /\ [h EXCEPT !.has_adf = f.status = 0].open = h.open
    BY <1>0 DEF Handles
  <2> QED
    BY <1>0, <1>2, <1>3, <2>1, GivingUpKeeps, StatusNames DEF check_adf
<1>4. ASSUME CommandDone PROVE h'.open = h.open /\ c'.call = c.call
  BY <1>0, <1>2, <1>4 DEF CommandDone, Handles, CallStates
<1>5. CASE command_sends
  BY <1>0, <1>1, <1>5, StatusNames DEF command_sends, CallStates
<1>6. CASE command_acked
  BY <1>1, <1>3, <1>4, <1>6, StatusNames, MapStatusType DEF command_acked
<1>7. CASE command_skips
  BY <1>0, <1>1, <1>7, StatusNames DEF command_skips, CallStates
<1>8. CASE command_breaks_off
  BY <1>1, <1>8, StatusNames DEF command_breaks_off
<1> QED
  BY <1>5, <1>6, <1>7, <1>8 DEF CommandStep

LEMMA TeardownKeeps ==
  TypeOK /\ TeardownStep => h'.open = h.open /\ c'.call = c.call
<1> SUFFICES ASSUME TypeOK, TeardownStep
             PROVE  h'.open = h.open /\ c'.call = c.call
  OBVIOUS
<1>0. h \in Handles /\ c \in CallStates /\ c.then \in PCs
  BY DEF TypeOK, CallStates
<1>1. ASSUME Drained PROVE h'.open = h.open /\ c'.call = c.call
  <2>1. /\ [h EXCEPT !.scanning = FALSE] \in Handles
        /\ [h EXCEPT !.scanning = FALSE].open = h.open
    BY <1>0 DEF Handles
  <2> QED
    BY <1>0, <1>1, <2>1, UnlockKeeps DEF Drained
<1>2. CASE Flushes \/ unlock_sends \/ unlock_recv \/ abort_sends
  BY <1>0, <1>2
     DEF Flushes, unlock_sends, unlock_recv, abort_sends, CallStates
<1>3. CASE probe_adf
  BY <1>0, <1>3 DEF probe_adf, Commanding, Handles, CallStates
<1>4. CASE drain_frame \/ drain_breaks_off
  BY <1>0, <1>1, <1>4 DEF drain_frame, drain_breaks_off, CallStates
<1>5. CASE read_cancelled
  BY <1>0, <1>5 DEF read_cancelled, Returning, Handles, CallStates
<1> QED
  BY <1>2, <1>3, <1>4, <1>5 DEF TeardownStep

LEMMA StartKeeps ==
  TypeOK /\ StartStep =>
    /\ h'.open = h.open
    /\ c'.call = c.call \/ (c.pc = "clear" /\ c'.call = "resume")
<1> SUFFICES ASSUME TypeOK, StartStep
             PROVE  /\ h'.open = h.open
                    /\ c'.call = c.call \/ (c.pc = "clear" /\ c'.call = "resume")
  OBVIOUS
<1>0. h \in Handles /\ c \in CallStates
  BY DEF TypeOK
<1>1. CASE start_tests_cancelled
  BY <1>0, <1>1, EndScanKeeps, PCNames DEF start_tests_cancelled, CallStates
<1>2. CASE resume_job
  BY <1>0, <1>2 DEF resume_job, Handles, CallStates
<1>3. CASE start_busy \/ start_retry
  BY <1>0, <1>3
     DEF start_busy, start_retry, run_job, Returning, Handles, CallStates
<1>4. CASE start_job
  BY <1>0, <1>4 DEF start_job, run_job, Returning, Handles, CallStates
<1> QED
  BY <1>1, <1>2, <1>3, <1>4 DEF StartStep

LEMMA PumpKeeps ==
  TypeOK /\ pump_frame => h'.open = h.open /\ c'.call = c.call
<1> SUFFICES ASSUME TypeOK, pump_frame
             PROVE  h'.open = h.open /\ c'.call = c.call
  OBVIOUS
<1>0. /\ h \in Handles /\ c \in CallStates /\ inq \in Seq(Frames)
      /\ h.lines \in Nat /\ h.next_row \in Nat /\ h.eof \in BOOLEAN
  BY DEF TypeOK, Handles
<1>1. ASSUME NEW next \in Nat
      PROVE  /\ Appending(h, next).open = h.open
             /\ next >= h.next_row => Appending(h, next) \in Handles
  BY <1>0, AppendingType DEF Appending, Handles
<1>2. /\ emit_white_rows(h.next_row, h.lines, h.lines) \in Nat
      /\ emit_white_rows(h.next_row, h.lines, h.lines) >= h.next_row
  BY <1>0 DEF emit_white_rows, Upper, Lower
<1>3. CASE handle_data_block
  <2> DEFINE f == Head(inq)
             next == handle_rows(h.next_row, f.first, f.rows, h.lines)
  <2>1. next \in Nat
    BY <1>0, <1>3, HeadType, RowsForward
       DEF handle_data_block, Pumping, Frames
  <2>2. CASE h' = Appending(h, next) /\ UNCHANGED c
    BY <1>1, <2>1, <2>2
  <2>3. CASE OutOfMemory(next, h.eof)
    BY <1>0, <2>1, <2>3, OutOfMemoryKeeps
  <2>4. CASE \E st \in {"IO_ERROR", "UNSUPPORTED", "NO_MEM"} : Stopping(h, st)
    BY <1>0, <2>4, StoppingKeeps, StatusNames
  <2> QED
    BY <1>3, <2>2, <2>3, <2>4 DEF handle_data_block
<1>4. CASE pump_aborted
  <2> DEFINE code == Head(inq).status
             hh == [h EXCEPT !.scanning = FALSE]
  <2>1. hh \in Handles /\ hh.open = h.open
    BY <1>0 DEF Handles
  <2>2. CASE unlock_device(hh, [c EXCEPT !.code = code], "retry")
    <3>1. code \in Nat
      BY <1>0, <1>4, HeadType DEF pump_aborted, Pumping, Frames
    <3>2. /\ [c EXCEPT !.code = code] \in CallStates
          /\ [c EXCEPT !.code = code].call = c.call
      BY <1>0, <3>1 DEF CallStates
    <3> HIDE DEF hh, code
    <3> QED
      BY <2>1, <2>2, <3>2, UnlockKeeps, PCNames
  <2>3. CASE \E st \in Statuses : GivingUp(hh, st)
    BY <1>0, <2>1, <2>3, GivingUpKeeps
  <2> QED
    BY <1>4, <2>2, <2>3, StatusNames, MapStatusType DEF pump_aborted
<1>5. CASE pump_job_end \/ pump_page_end
  <2> DEFINE next == emit_white_rows(h.next_row, h.lines, h.lines)
             ended == [Appending(h, next) EXCEPT !.eof = TRUE,
                                                 !.scanning = FALSE]
             paused == [Appending(h, next) EXCEPT !.eof = TRUE,
                                                  !.feeding = TRUE]
  <2>1. /\ ended \in Handles /\ ended.open = h.open
        /\ paused \in Handles /\ paused.open = h.open
    BY <1>1, <1>2 DEF Handles
  <2>2. CASE unlock_device(ended, c, "loop")
    <3> HIDE DEF ended
    <3> QED
      BY <1>0, <2>1, <2>2, UnlockKeeps, PCNames
  <2>3. CASE OutOfMemory(next, TRUE)
    BY <1>0, <1>2, <2>3, OutOfMemoryKeeps
  <2>4. CASE h' = paused /\ UNCHANGED c
    <3> HIDE DEF paused
    <3> QED
      BY <2>1, <2>4
  <2> QED
    BY <1>5, <2>2, <2>3, <2>4 DEF pump_job_end, pump_page_end
<1>6. CASE pump_other
  BY <1>6 DEF pump_other
<1>7. CASE pump_breaks_off
  BY <1>0, <1>7, StoppingKeeps, StatusNames DEF pump_breaks_off
<1>8. CASE pump_idle
  BY <1>0, <1>8 DEF pump_idle, Returning, CallStates
<1> QED
  BY <1>3, <1>4, <1>5, <1>6, <1>7, <1>8 DEF pump_frame

LEMMA OpenNext == TypeOK /\ LockInv /\ OpenInv /\ [Next]_vars => OpenInv'
<1> SUFFICES ASSUME TypeOK, LockInv, OpenInv, [Next]_vars PROVE OpenInv'
  OBVIOUS
<1>0. h \in Handles /\ c \in CallStates
  BY DEF TypeOK
<1>1. CASE CommandStep \/ TeardownStep \/ pump_frame
  <2>1. c.pc # "idle"
    BY <1>1 DEF CommandStep, command_sends, command_acked, command_skips,
       command_breaks_off, TeardownStep, Flushes, probe_adf, unlock_sends,
       unlock_recv, abort_sends, drain_frame, drain_breaks_off,
       read_cancelled, pump_frame, handle_data_block, pump_aborted,
       pump_job_end, pump_page_end, pump_other, pump_breaks_off, pump_idle,
       Pumping, Waiting
  <2> QED
    BY <1>1, <2>1, CommandKeeps, TeardownKeeps, PumpKeeps DEF OpenInv
<1>2. CASE StartStep
  <2>1. c.pc # "idle" /\ (c.pc = "clear" => c.call # "none")
    BY <1>2 DEF StartStep, start_tests_cancelled, resume_job, start_busy,
       start_job, start_retry, OpenInv
  <2>2. c.pc = "clear" => h.open
    BY DEF LockInv, OpenInv
  <2> QED
    BY <1>2, <2>1, <2>2, StartKeeps DEF OpenInv
<1>3. CASE first_rows \/ deliver
  BY <1>0, <1>3 DEF first_rows, deliver, Returning, Handles, CallStates,
     OpenInv
<1>4. CASE Return \/ crash
  BY <1>4 DEF Return, crash, NoCall, OpenInv
<1>5. CASE Frontend
  <2>1. ASSUME NEW call \in Calls, NEW pc \in PCs
        PROVE  /\ Entering(call, pc) \in CallStates
               /\ Entering(call, pc).call = call
    BY <2>1, EnteringType DEF Entering, NoCall
  <2>2. CASE sane_open
    BY <2>1, <2>2, CallNames, PCNames DEF sane_open, OpenInv
  <2>3. CASE sane_close
    <3>1. /\ Entering("close", "return") \in CallStates
          /\ Entering("close", "return").call = "close"
      BY <2>1, CallNames, PCNames
    <3>2. h'.open = h.open /\ c'.call = "close"
      BY <1>0, <2>3, <3>1, EndScanKeeps, PCNames DEF sane_close
    <3> QED
      BY <2>3, <3>2 DEF sane_close, OpenInv
  <2>4. CASE sane_start
    BY <2>1, <2>4, CallNames, PCNames DEF sane_start, OpenInv
  <2>5. CASE sane_read
    <3>1. /\ Entering("read", "cancelled") \in CallStates
          /\ Entering("read", "cancelled").call = "read"
          /\ Entering("read", "loop").call = "read"
      BY <2>1, CallNames, PCNames
    <3>2. ASSUME end_scan(Entering("read", "cancelled"), "cancelled")
          PROVE  h'.open = h.open /\ c'.call = "read"
      BY <1>0, <3>1, <3>2, EndScanKeeps, PCNames
    <3>3. ASSUME c' = Entering("read", "loop"), UNCHANGED h
          PROVE  h'.open = h.open /\ c'.call = "read"
      BY <3>1, <3>3
    <3>4. h'.open = h.open /\ c'.call = "read"
      BY <2>5, <3>2, <3>3 DEF sane_read
    <3> QED
      BY <2>5, <3>4 DEF sane_read, OpenInv
  <2>6. CASE sane_set_io_mode \/ control_option \/ get_parameters
    <3>1. h'.open = h.open /\ c' = c
      BY <1>0, <2>6
         DEF sane_set_io_mode, control_option, get_parameters, Handles
    <3> QED
      BY <3>1 DEF OpenInv
  <2> QED
    BY <1>5, <2>2, <2>3, <2>4, <2>5, <2>6 DEF Frontend
<1>6. CASE sane_cancel
  BY <1>0, <1>6 DEF sane_cancel, Handles, OpenInv
<1>7. CASE UNCHANGED <<h, c>>
  BY <1>7 DEF OpenInv
<1> QED
  BY <1>1, <1>2, <1>3, <1>4, <1>5, <1>6, <1>7
     DEF Next, Backend, Device, vars, CommandStep, TeardownStep, StartStep

LEMMA LockReturn ==
  TypeOK /\ LockInv /\ OpenInv /\ (first_rows \/ deliver \/ Return)
    => LockInv'
<1> SUFFICES ASSUME TypeOK, LockInv, OpenInv, first_rows \/ deliver \/ Return
             PROVE  LockInv'
  OBVIOUS
<1>0. h \in Handles /\ c \in CallStates
  BY DEF TypeOK
<1>1. CASE first_rows
  <2>1. c.pc = "loop" /\ c.call # "close" /\ UNCHANGED h
    BY <1>1 DEF first_rows, LockInv
  <2> QED
    BY <1>0, <1>1, <2>1, ReturningLock DEF first_rows
<1>2. CASE deliver
  <2>1. /\ h'.locked = h.locked /\ h'.scanning = h.scanning
        /\ h'.feeding = h.feeding /\ h'.eof \in {h.eof, TRUE}
        /\ c'.pc = "return" /\ c'.then = c.then /\ c'.call = c.call
    BY <1>0, <1>2 DEF deliver, Returning, Handles, CallStates
  <2>2. c.call = "read" /\ c.pc = "loop"
    BY <1>2 DEF deliver
  <2> QED
    BY <2>1, <2>2 DEF LockInv
<1>3. CASE Return
  <2>1. /\ c'.call = "none" /\ c'.pc = "idle" /\ c'.then = "return"
        /\ c.pc = "return"
    BY <1>3 DEF Return, NoCall
  <2>2. CASE c.call = "open"
    <3>1. /\ h'.locked = h.locked /\ h'.scanning = h.scanning
          /\ h'.feeding = h.feeding /\ h'.eof = h.eof /\ h'.open
      BY <1>0, <1>3, <2>2 DEF Return, Handles
    <3> QED
      BY <2>1, <3>1 DEF LockInv, Thens
  <2>3. CASE c.call = "close"
    <3>1. h' = NoHandle
      BY <1>3, <2>3 DEF Return
    <3> QED
      BY <2>1, <3>1 DEF LockInv, Thens, NoHandle
  <2>4. CASE c.call \notin {"open", "close"}
    <3>1. h' = h
      BY <1>3, <2>4 DEF Return
    <3>2. h.open
      BY <1>0, <2>1, <2>4 DEF OpenInv, CallStates, Calls
    <3> QED
      BY <2>1, <2>4, <3>1, <3>2 DEF LockInv, Thens
  <2> QED
    BY <2>2, <2>3, <2>4
<1> QED
  BY <1>1, <1>2, <1>3

LEMMA LockAsync == TypeOK /\ LockInv /\ (sane_cancel \/ crash) => LockInv'
<1> SUFFICES ASSUME TypeOK, LockInv, sane_cancel \/ crash PROVE LockInv'
  OBVIOUS
<1>1. CASE sane_cancel
  <2>1. /\ h'.locked = h.locked /\ h'.scanning = h.scanning
        /\ h'.feeding = h.feeding /\ h'.eof = h.eof /\ h'.open = h.open
        /\ c' = c
    BY <1>1 DEF sane_cancel, TypeOK, Handles
  <2> QED
    BY <2>1 DEF LockInv
<1>2. CASE crash
  BY <1>2 DEF crash, LockInv, NoHandle, NoCall, Thens
<1> QED
  BY <1>1, <1>2

LEMMA LockNext == TypeOK /\ LockInv /\ OpenInv /\ [Next]_vars => LockInv'
<1> SUFFICES ASSUME TypeOK, LockInv, OpenInv, [Next]_vars PROVE LockInv'
  OBVIOUS
<1>1. CASE Frontend \/ Backend
  BY <1>1, LockFrontend, LockCommand, LockTeardown, LockStart, LockPump,
     LockReturn DEF Backend, CommandStep, TeardownStep, StartStep
<1>2. CASE sane_cancel \/ crash
  BY <1>2, LockAsync
<1>3. CASE UNCHANGED <<h, c>>
  BY <1>3 DEF LockInv
<1> QED
  BY <1>1, <1>2, <1>3 DEF Next, Device, vars

LEMMA LockInvariant == Spec => [](TypeOK /\ OpenInv /\ LockInv)
<1>1. Init => TypeOK /\ OpenInv /\ LockInv
  BY TypeInit, LockInit DEF Init, NoCall, OpenInv
<1>2. TypeOK /\ OpenInv /\ LockInv /\ [Next]_vars
        => (TypeOK /\ OpenInv /\ LockInv)'
  BY TypeNext, OpenNext, LockNext
<1> QED
  BY <1>1, <1>2, PTL DEF Spec

(* LockMatchesJob: whatever the scanner answers and whenever the frontend    *)
(* cancels, dies or calls again, an idle handle holds the lock exactly while *)
(* a job runs, so no return path of the entry points leaks the lock.         *)
THEOREM LockMatchesJobHolds == Spec => []LockMatchesJob
<1>1. LockInv => LockMatchesJob
  BY DEF LockInv, LockMatchesJob
<1> QED
  BY <1>1, LockInvariant, PTL

-----------------------------------------------------------------------------
(* The unlock owed to the scanner.  It is owed while the handle is locked    *)
(* and while the CMD_UNLOCK is about to be sent, and only sending it ends    *)
(* the debt.                                                                 *)

Owing == h.locked \/ c.pc = "unlock"

LEMMA UnlockOwes ==
  ASSUME NEW hh \in Handles, NEW cc \in CallStates, NEW then \in PCs,
         hh.locked, unlock_device(hh, cc, then)
  PROVE  Owing'
BY DEF unlock_device, CallStates, Owing

LEMMA GivingUpOwes ==
  ASSUME NEW hh \in Handles, c \in CallStates, NEW st \in Statuses,
         hh.locked, GivingUp(hh, st)
  PROVE  Owing'
<1>1. [c EXCEPT !.st = st] \in CallStates
  BY DEF CallStates
<1> QED
  BY <1>1, UnlockOwes, PCNames DEF GivingUp

LEMMA StoppingOwes ==
  ASSUME NEW hh \in Handles, c \in CallStates, NEW st \in Statuses,
         hh.locked, Stopping(hh, st)
  PROVE  Owing'
<1>1. /\ [hh EXCEPT !.scanning = FALSE] \in Handles
      /\ [hh EXCEPT !.scanning = FALSE].locked
  BY DEF Handles
<1> QED
  BY <1>1, GivingUpOwes DEF Stopping

LEMMA OutOfMemoryOwes ==
  ASSUME h \in Handles, c \in CallStates, NEW next \in Nat,
         NEW eof \in BOOLEAN, h.locked, OutOfMemory(next, eof)
  PROVE  Owing'
<1>1. PICK k \in h.next_row..(next - 1) :
        Stopping(Appending([h EXCEPT !.eof = eof], k), "NO_MEM")
  BY DEF OutOfMemory
<1>2. [h EXCEPT !.eof = eof] \in Handles
        /\ [h EXCEPT !.eof = eof].next_row = h.next_row
        /\ [h EXCEPT !.eof = eof].locked /\ h.next_row \in Nat
  BY DEF Handles
<1>3. k \in Nat /\ k >= h.next_row
  BY <1>2
<1>4. Appending([h EXCEPT !.eof = eof], k) \in Handles
  BY <1>2, <1>3, AppendingType
<1>5. ASSUME NEW hh \in Handles PROVE Appending(hh, k).locked = hh.locked
  BY DEF Appending, Handles
<1> QED
  BY <1>1, <1>2, <1>4, <1>5, StoppingOwes, StatusNames

LEMMA CommandOwes == TypeOK /\ LockInv /\ CommandStep => Owing'
<1> SUFFICES ASSUME TypeOK, LockInv, CommandStep PROVE Owing'
  OBVIOUS
<1>0. h \in Handles /\ c \in CallStates /\ h.locked
  BY DEF TypeOK, CommandStep, command_sends, command_acked, command_skips,
         command_breaks_off, LockInv
<1>1. ASSUME NEW st \in Statuses, NEW status, CommandFailed(st, status)
      PROVE  Owing'
  <2>1. CASE GivingUp(h, "GOOD") \/ GivingUp(h, "DEVICE_BUSY") \/ GivingUp(h, st)
    BY <1>0, <2>1, GivingUpOwes, StatusNames
  <2>2. CASE h' = [h EXCEPT !.locked = TRUE]
    BY <1>0, <2>2 DEF Handles, Owing
  <2> QED
    BY <1>1, <2>1, <2>2 DEF CommandFailed
<1>2. ASSUME NEW f, check_adf(f) PROVE Owing'
  <2>1. [h EXCEPT !.has_adf = f.status = 0] \in Handles
          /\ [h EXCEPT !.has_adf = f.status = 0].locked
    BY <1>0 DEF Handles
  <2>2. CASE UNCHANGED h
    BY <1>0, <2>2 DEF Owing
  <2> QED
    BY <1>0, <1>2, <2>1, <2>2, GivingUpOwes, StatusNames DEF check_adf
<1>3. ASSUME CommandDone PROVE Owing'
  BY <1>0, <1>3 DEF CommandDone, Handles, Owing
<1>4. ASSUME UNCHANGED h PROVE Owing'
  BY <1>0, <1>4 DEF Owing
<1> QED
  BY <1>1, <1>2, <1>3, <1>4, StatusNames, MapStatusType
     DEF CommandStep, command_sends, command_acked, command_skips,
         command_breaks_off

LEMMA TeardownOwes ==
  TypeOK /\ LockInv /\ TeardownStep /\ ~unlock_sends /\ Owing => Owing'
<1> SUFFICES ASSUME TypeOK, LockInv, TeardownStep, ~unlock_sends, Owing
             PROVE  Owing'
  OBVIOUS
<1>0. h \in Handles /\ c \in CallStates /\ c.then \in PCs
  BY DEF TypeOK, CallStates
<1>1. CASE Flushes \/ unlock_recv \/ abort_sends
  BY <1>1 DEF Flushes, unlock_recv, abort_sends, Owing
<1>2. CASE probe_adf
  BY <1>0, <1>2 DEF probe_adf, Handles, Owing
<1>3. CASE drain_frame \/ drain_breaks_off
  <2>1. c.pc = "drain" /\ h.locked
    BY <1>3 DEF drain_frame, drain_breaks_off, Owing
  <2>2. CASE Drained
    <3>1. /\ [h EXCEPT !.scanning = FALSE] \in Handles
          /\ [h EXCEPT !.scanning = FALSE].locked
      BY <1>0, <2>1 DEF Handles
    <3> QED
      BY <1>0, <2>2, <3>1, UnlockOwes DEF Drained
  <2>3. CASE UNCHANGED h
    BY <2>1, <2>3 DEF Owing
  <2> QED
    BY <1>3, <2>2, <2>3 DEF drain_frame, drain_breaks_off
<1>4. CASE read_cancelled
  BY <1>0, <1>4 DEF read_cancelled, Handles, Owing
<1> QED
  BY <1>1, <1>2, <1>3, <1>4 DEF TeardownStep

LEMMA EndScanOwes ==
  ASSUME h \in Handles, NEW cc \in CallStates, NEW then \in PCs,
         h.locked, end_scan(cc, then)
  PROVE  Owing'
<1>1. CASE h.scanning
  BY <1>1 DEF end_scan, Owing
<1>2. CASE ~h.scanning
  BY <1>2, UnlockOwes DEF end_scan
<1> QED
  BY <1>1, <1>2

LEMMA StartOwes == TypeOK /\ StartStep /\ Owing => Owing'
<1> SUFFICES ASSUME TypeOK, StartStep, Owing PROVE Owing'
  OBVIOUS
<1>0. h \in Handles /\ c \in CallStates /\ h.locked
  BY DEF TypeOK, Owing, StartStep, start_tests_cancelled, resume_job,
         start_busy, start_job, start_retry
<1>1. CASE start_tests_cancelled
  BY <1>0, <1>1, EndScanOwes, PCNames DEF start_tests_cancelled, Owing
<1>2. CASE resume_job
  BY <1>0, <1>2 DEF resume_job, Handles, Owing
<1>3. CASE start_busy \/ start_retry
  BY <1>0, <1>3 DEF start_busy, start_retry, run_job, Handles, Owing
<1>4. CASE start_job
  BY <1>0, <1>4 DEF start_job, run_job, Handles, Owing
<1> QED
  BY <1>1, <1>2, <1>3, <1>4 DEF StartStep

LEMMA PumpOwes == TypeOK /\ LockInv /\ pump_frame => Owing'
<1> SUFFICES ASSUME TypeOK, LockInv, pump_frame PROVE Owing'
  OBVIOUS
<1>0. /\ h \in Handles /\ c \in CallStates /\ inq \in Seq(Frames)
      /\ h.lines \in Nat /\ h.next_row \in Nat /\ h.eof \in BOOLEAN
      /\ h.locked
  BY DEF TypeOK, Handles, pump_frame, handle_data_block, pump_aborted,
         pump_job_end, pump_page_end, pump_other, pump_breaks_off, pump_idle,
         Pumping, Waiting, LockInv
<1>1. ASSUME NEW next \in Nat
      PROVE  /\ Appending(h, next).locked
             /\ next >= h.next_row => Appending(h, next) \in Handles
  BY <1>0, AppendingType DEF Appending, Handles
<1>2. /\ emit_white_rows(h.next_row, h.lines, h.lines) \in Nat
      /\ emit_white_rows(h.next_row, h.lines, h.lines) >= h.next_row
  BY <1>0 DEF emit_white_rows, Upper, Lower
<1>3. CASE handle_data_block
  <2> DEFINE f == Head(inq)
             next == handle_rows(h.next_row, f.first, f.rows, h.lines)
  <2>1. next \in Nat
    BY <1>0, <1>3, HeadType, RowsForward
       DEF handle_data_block, Pumping, Frames
  <2>2. CASE h' = Appending(h, next)
    BY <1>1, <2>1, <2>2 DEF Owing
  <2>3. CASE OutOfMemory(next, h.eof)
    BY <1>0, <2>1, <2>3, OutOfMemoryOwes
  <2>4. CASE \E st \in {"IO_ERROR", "UNSUPPORTED", "NO_MEM"} : Stopping(h, st)
    BY <1>0, <2>4, StoppingOwes, StatusNames
  <2> QED
    BY <1>3, <2>2, <2>3, <2>4 DEF handle_data_block
<1>4. CASE pump_aborted
  <2> DEFINE code == Head(inq).status
             hh == [h EXCEPT !.scanning = FALSE]
  <2>1. hh \in Handles /\ hh.locked
    BY <1>0 DEF Handles
  <2>2. CASE unlock_device(hh, [c EXCEPT !.code = code], "retry")
    <3>1. code \in Nat
      BY <1>0, <1>4, HeadType DEF pump_aborted, Pumping, Frames
    <3>2. [c EXCEPT !.code = code] \in CallStates
      BY <1>0, <3>1 DEF CallStates
    <3> HIDE DEF hh, code
    <3> QED
      BY <2>1, <2>2, <3>2, UnlockOwes, PCNames
  <2>3. CASE \E st \in Statuses : GivingUp(hh, st)
    BY <1>0, <2>1, <2>3, GivingUpOwes
  <2> QED
    BY <1>4, <2>2, <2>3, StatusNames, MapStatusType DEF pump_aborted
<1>5. CASE pump_job_end \/ pump_page_end
  <2> DEFINE next == emit_white_rows(h.next_row, h.lines, h.lines)
             ended == [Appending(h, next) EXCEPT !.eof = TRUE,
                                                 !.scanning = FALSE]
             paused == [Appending(h, next) EXCEPT !.eof = TRUE,
                                                  !.feeding = TRUE]
  <2>1. ended \in Handles /\ ended.locked /\ paused.locked
    BY <1>1, <1>2 DEF Handles
  <2>2. CASE unlock_device(ended, c, "loop")
    <3> HIDE DEF ended
    <3> QED
      BY <1>0, <2>1, <2>2, UnlockOwes, PCNames
  <2>3. CASE OutOfMemory(next, TRUE)
    BY <1>0, <1>2, <2>3, OutOfMemoryOwes
  <2>4. CASE h' = paused \/ UNCHANGED h
    <3> HIDE DEF paused
    <3> QED
      BY <1>0, <2>1, <2>4 DEF Owing
  <2> QED
    BY <1>5, <2>2, <2>3, <2>4 DEF pump_job_end, pump_page_end
<1>6. CASE pump_other \/ pump_idle
  BY <1>0, <1>6 DEF pump_other, pump_idle, Owing
<1>7. CASE pump_breaks_off
  BY <1>0, <1>7, StoppingOwes, StatusNames DEF pump_breaks_off
<1> QED
  BY <1>3, <1>4, <1>5, <1>6, <1>7 DEF pump_frame

LEMMA ReturnOwes ==
  TypeOK /\ LockInv /\ (first_rows \/ deliver \/ Return) /\ Owing => Owing'
<1> SUFFICES ASSUME TypeOK, LockInv, first_rows \/ deliver \/ Return, Owing
             PROVE  Owing'
  OBVIOUS
<1>0. h \in Handles /\ c \in CallStates /\ h.locked
  BY DEF TypeOK, Owing, first_rows, deliver, Return
<1>1. c.call = "close" => ~Return
  BY <1>0 DEF Return, LockInv
<1> QED
  BY <1>0, <1>1 DEF first_rows, deliver, Return, Handles, Owing

LEMMA FrontendOwes == TypeOK /\ LockInv /\ Frontend /\ Owing => Owing'
<1> SUFFICES ASSUME TypeOK, LockInv, Frontend, Owing PROVE Owing'
  OBVIOUS
<1>0. h \in Handles /\ c \in CallStates /\ h.locked /\ c.pc = "idle"
  BY DEF TypeOK, Owing, Frontend, sane_open, sane_close, sane_start,
         sane_read, sane_set_io_mode, control_option, get_parameters
<1>1. ~sane_open
  BY <1>0 DEF sane_open, LockInv
<1>2. ASSUME NEW call \in Calls, NEW pc \in PCs, NEW then \in PCs,
             end_scan(Entering(call, pc), then)
      PROVE  Owing'
  BY <1>0, <1>2, EnteringType, EndScanOwes
<1>3. CASE sane_close \/ sane_read
  <2>1. CASE UNCHANGED h
    BY <1>0, <2>1 DEF Owing
  <2> QED
    BY <1>2, <1>3, <2>1, CallNames, PCNames DEF sane_close, sane_read
<1>4. CASE sane_start
  BY <1>0, <1>4 DEF sane_start, Owing
<1>5. CASE sane_set_io_mode \/ control_option \/ get_parameters
  BY <1>0, <1>5
     DEF sane_set_io_mode, control_option, get_parameters, Handles, Owing
<1> QED
  BY <1>1, <1>3, <1>4, <1>5 DEF Frontend

(* What the wire knows of the debt: the pipe to the scanner only grows at    *)
(* its end, by the host, and shrinks at its front, by the device.            *)

LEMMA SettledByUnlock ==
  ASSUME outq \in Seq(Requests), NEW source \in Sources,
         outq' = Append(outq, [cmd |-> "UNLOCK", source |-> source])
  PROVE  Settled'
<1>1. /\ Len(outq') = Len(outq) + 1 /\ Len(outq) \in Nat
      /\ DOMAIN outq' = 1..(Len(outq) + 1)
      /\ outq'[Len(outq) + 1].cmd = "UNLOCK"
  OBVIOUS
<1>2. ASSUME NEW i \in DOMAIN outq', outq'[i].cmd = "LOCK"
      PROVE  \E j \in DOMAIN outq' : j > i /\ outq'[j].cmd = "UNLOCK"
  <2>1. i # Len(outq) + 1
    BY <1>1, <1>2
  <2>2. Len(outq) + 1 \in DOMAIN outq' /\ Len(outq) + 1 > i
    BY <1>1, <1>2, <2>1
  <2> QED
    BY <1>1, <2>2
<1>3. \E i \in DOMAIN outq' : outq'[i].cmd = "UNLOCK"
  BY <1>1
<1> QED
  BY <1>2, <1>3 DEF Settled

LEMMA SettledTaken ==
  ASSUME outq \in Seq(Requests), outq # <<>>, outq' = Tail(outq), Settled,
         d'.locked => /\ Head(outq).cmd # "UNLOCK"
                      /\ d.locked \/ Head(outq).cmd = "LOCK"
  PROVE  Settled'
<1>1. /\ Len(outq) \in Nat \ {0} /\ DOMAIN outq = 1..Len(outq)
      /\ DOMAIN outq' = 1..(Len(outq) - 1) /\ Head(outq) = outq[1]
  OBVIOUS
<1>2. \A i \in DOMAIN outq' : outq'[i] = outq[i + 1]
  OBVIOUS
<1>3. ASSUME NEW i \in DOMAIN outq, i > 1, outq[i].cmd = "UNLOCK"
      PROVE  \E j \in DOMAIN outq' : j = i - 1 /\ outq'[j].cmd = "UNLOCK"
  <2>1. i - 1 \in DOMAIN outq' /\ (i - 1) + 1 = i
    BY <1>1, <1>3
  <2> QED
    BY <1>2, <1>3, <2>1
<1>4. ASSUME d'.locked
      PROVE  \E i \in DOMAIN outq' : outq'[i].cmd = "UNLOCK"
  <2>1. PICK i \in DOMAIN outq : outq[i].cmd = "UNLOCK"
    BY <1>1, <1>4 DEF Settled
  <2>2. i > 1
    BY <1>1, <1>4, <2>1
  <2> QED
    BY <1>3, <2>1, <2>2
<1>5. ASSUME NEW i \in DOMAIN outq', outq'[i].cmd = "LOCK"
      PROVE  \E j \in DOMAIN outq' : j > i /\ outq'[j].cmd = "UNLOCK"
  <2>1. i + 1 \in DOMAIN outq /\ outq[i + 1].cmd = "LOCK"
    BY <1>1, <1>2, <1>5
  <2>2. PICK k \in DOMAIN outq : k > i + 1 /\ outq[k].cmd = "UNLOCK"
    BY <2>1 DEF Settled
  <2>3. k > 1 /\ k - 1 > i
    BY <1>1, <1>5, <2>2
  <2> QED
    BY <1>3, <2>2, <2>3
<1> QED
  BY <1>4, <1>5 DEF Settled

LEMMA SettledDevice ==
  TypeOK /\ Settled /\ (DeviceStep \/ LoadPaper) => Settled'
<1> SUFFICES ASSUME TypeOK, Settled, DeviceStep \/ LoadPaper PROVE Settled'
  OBVIOUS
<1>0. /\ outq \in Seq(Requests)
      /\ d \in [locked : BOOLEAN, job : Jobs, source : Sources, blocks : Nat,
                feeder : BOOLEAN, sheets : Nat]
  BY DEF TypeOK, DeviceTypeOK
<1>1. CASE RunsJob \/ LoadPaper
  <2>1. outq' = outq /\ d'.locked = d.locked
    BY <1>0, <1>1 DEF RunsJob, BeginsPage, SendsBlock, EndsPage, EndsJob,
       GivesUp, LoadPaper
  <2> QED
    BY <2>1 DEF Settled
<1>2. CASE TakesLock
  <2>1. outq # <<>> /\ outq' = Tail(outq) /\ Head(outq).cmd = "LOCK"
    BY <1>2 DEF TakesLock, Taking
  <2> QED
    BY <1>0, <2>1, SettledTaken
<1>3. CASE TakesUnlock
  <2>1. outq # <<>> /\ outq' = Tail(outq) /\ ~d'.locked
    BY <1>0, <1>3 DEF TakesUnlock, Taking
  <2> QED
    BY <1>0, <2>1, SettledTaken
<1>4. CASE TakesAdfStatus \/ TakesSettings \/ TakesStart \/ TakesAbort
  <2>1. /\ outq # <<>> /\ outq' = Tail(outq) /\ Head(outq).cmd # "UNLOCK"
        /\ d'.locked = d.locked
    BY <1>0, <1>4 DEF TakesAdfStatus, TakesSettings, TakesStart, TakesAbort,
       Taking
  <2> QED
    BY <1>0, <2>1, SettledTaken
<1> QED
  BY <1>1, <1>2, <1>3, <1>4 DEF DeviceStep, TakesCommand

(* No other step than sending it, or dying, touches what the wire owes. *)
LEMMA DebtKept ==
  TypeOK /\ ~unlock_sends /\ (Frontend \/ Backend \/ sane_cancel) =>
    /\ g'.lost = g.lost
    /\ d' = d
    /\ outq' = outq \/ CommandStep \/ abort_sends
<1> SUFFICES ASSUME TypeOK, ~unlock_sends, Frontend \/ Backend \/ sane_cancel
             PROVE  /\ g'.lost = g.lost
                    /\ d' = d
                    /\ outq' = outq \/ CommandStep \/ abort_sends
  OBVIOUS
<1>0. g \in Histories
  BY DEF TypeOK
<1>1. CASE Frontend
  BY <1>1 DEF Frontend, sane_open, sane_close, sane_start, sane_read,
     sane_set_io_mode, control_option, get_parameters, NoHistory
<1>2. CASE CommandStep
  BY <1>2 DEF CommandStep, command_sends, command_acked, command_skips,
     command_breaks_off
<1>3. CASE TeardownStep
  BY <1>3 DEF TeardownStep, Flushes, probe_adf, unlock_recv, abort_sends,
     drain_frame, drain_breaks_off, read_cancelled
<1>4. CASE StartStep
  BY <1>4 DEF StartStep, start_tests_cancelled, resume_job, start_busy,
     start_job, start_retry
<1>5. CASE pump_frame
  BY <1>0, <1>5 DEF pump_frame, handle_data_block, pump_aborted,
     pump_job_end, pump_page_end, pump_other, pump_breaks_off, pump_idle,
     Pumping, Begun, Histories
<1>6. CASE first_rows \/ deliver \/ Return
  <2>1. CASE first_rows
    BY <2>1 DEF first_rows
  <2>2. CASE deliver
    BY <1>0, <2>2 DEF deliver, Histories
  <2>3. CASE Return
    <3>1. g'.lost = g.lost
      <4>1. CASE g' = [g EXCEPT !.ok = TRUE, !.promised = h.lines,
                                !.begun = FALSE, !.asked = FALSE]
        BY <1>0, <4>1 DEF Histories
      <4>2. CASE g' \in {g, NoHistory(g.lost, g.starts)}
        BY <4>2 DEF NoHistory
      <4> QED
        BY <2>3, <4>1, <4>2 DEF Return
    <3> QED
      BY <2>3, <3>1 DEF Return
  <2> QED
    BY <1>6, <2>1, <2>2, <2>3
<1>7. CASE sane_cancel
  BY <1>0, <1>7 DEF sane_cancel, Histories
<1> QED
  BY <1>1, <1>2, <1>3, <1>4, <1>5, <1>6, <1>7
     DEF Backend, CommandStep, TeardownStep, StartStep

LEMMA CancelOwes == TypeOK /\ sane_cancel /\ Owing => Owing'
  BY DEF TypeOK, sane_cancel, Handles, Owing

LEMMA UnlockSent ==
  TypeOK /\ unlock_sends => Settled' \/ g'.lost
<1> SUFFICES ASSUME TypeOK, unlock_sends PROVE Settled' \/ g'.lost
  OBVIOUS
<1>0. /\ h.source \in Sources /\ outq \in Seq(Requests)
      /\ g \in Histories
  BY DEF TypeOK, Handles
<1>1. CASE outq' = Append(outq, [cmd |-> "UNLOCK", source |-> h.source])
  BY <1>0, <1>1, SettledByUnlock
<1>2. CASE g' = [g EXCEPT !.lost = TRUE]
  BY <1>0, <1>2 DEF Histories
<1> QED
  BY <1>1, <1>2 DEF unlock_sends, Sent, SendFails

LEMMA OwedNext ==
  TypeOK /\ LockInv /\ UnlockOwed /\ [Next]_vars => UnlockOwed'
<1> SUFFICES ASSUME TypeOK, LockInv, UnlockOwed, [Next]_vars
             PROVE  UnlockOwed'
  OBVIOUS
<1>1. CASE unlock_sends
  BY <1>1, UnlockSent DEF UnlockOwed
<1>2. CASE ~unlock_sends /\ (Frontend \/ Backend \/ sane_cancel)
  <2>1. Owing => Owing'
    BY <1>2, CommandOwes, TeardownOwes, StartOwes, PumpOwes, ReturnOwes,
       FrontendOwes, CancelOwes
       DEF Backend, CommandStep, TeardownStep, StartStep
  <2>2. CommandStep \/ abort_sends => Owing'
    <3>1. abort_sends => Owing
      BY DEF abort_sends, LockInv, Owing
    <3> QED
      BY <2>1, <3>1, CommandOwes
  <2>3. CASE outq' = outq
    BY <1>2, <2>1, <2>3, DebtKept DEF UnlockOwed, Owing, Settled
  <2>4. CASE CommandStep \/ abort_sends
    BY <2>2, <2>4 DEF UnlockOwed, Owing
  <2> QED
    BY <1>2, <2>3, <2>4, DebtKept
<1>3. CASE crash
  BY <1>3 DEF crash, NoHistory, UnlockOwed, Settled
<1>4. CASE Device \/ (LoadPaper /\ UNCHANGED <<h, c, g>>)
  BY <1>4, SettledDevice DEF Device, UnlockOwed
<1>5. CASE UNCHANGED vars
  BY <1>5 DEF vars, UnlockOwed, Settled
<1> QED
  BY <1>1, <1>2, <1>3, <1>4, <1>5 DEF Next

(* UnlockOwed: once the handle owes no unlock, every CMD_LOCK the scanner    *)
(* took or will take has its CMD_UNLOCK on the wire behind it, for every     *)
(* scanner, every order of answers and any number of faults: unlock_device   *)
(* clears the flag before it sends, and no path of the code forgets it.      *)
THEOREM UnlockOwedHolds == Spec => []UnlockOwed
<1>1. Init => UnlockOwed
  <2>1. Init => ~d.locked
    BY DEF Init, DeviceInit
  <2>2. Init => DOMAIN outq = {}
    BY DEF Init, WireInit
  <2> QED
    BY <2>1, <2>2 DEF UnlockOwed, Settled
<1>2. (TypeOK /\ OpenInv /\ LockInv) /\ UnlockOwed /\ [Next]_vars
        => UnlockOwed'
  BY OwedNext
<1> QED
  BY <1>1, <1>2, LockInvariant, PTL DEF Spec

-----------------------------------------------------------------------------
(* The acknowledgement of CMD_START.  A start that finds none of an earlier  *)
(* one in the pipes has sent none itself until it asks, then there is one    *)
(* request or one answer, and once that is taken there is none again: a job  *)
(* that is refused afterwards may be asked for anew.  Only a start that is   *)
(* giving up can leave a request or an answer behind.                        *)

Starts(q) == {i \in DOMAIN q : q[i].cmd = "START"}

AtMostOne(S) == \A i, j \in S : i = j

SingleStart ==
  /\ AtMostOne(Starts(outq)) /\ AtMostOne(Starts(inq))
  /\ Starts(outq) = {} \/ Starts(inq) = {}

Ending ==
  \/ c.pc = "return"
  \/ c.pc \in {"unlock", "unlock_recv"} /\ c.then = "return"

AckInv ==
  g.alone => /\ c.pc # "idle" /\ c.call \in {"start", "resume"}
             /\ ~Ending => IF c.pc = "recv" /\ c.cmd = "START"
                           THEN SingleStart ELSE ~Outstanding("START")

LEMMA OutstandingStarts ==
  /\ Outstanding("START") <=> (Starts(outq) # {} \/ Starts(inq) # {})
  /\ Outstanding("START")' <=> (Starts(outq') # {} \/ Starts(inq') # {})
BY DEF Outstanding, Starts

LEMMA StartsTail ==
  ASSUME NEW S, NEW q \in Seq(S), q # <<>>
  PROVE  /\ Starts(q) = {} => Starts(Tail(q)) = {} /\ Head(q).cmd # "START"
         /\ AtMostOne(Starts(q)) =>
              /\ AtMostOne(Starts(Tail(q)))
              /\ Head(q).cmd = "START" => Starts(Tail(q)) = {}
<1> DEFINE k == Len(q)
           t == Tail(q)
<1>1. /\ k \in Nat \ {0} /\ Head(q) = q[1] /\ 1 \in DOMAIN q /\ DOMAIN q = 1..k
  OBVIOUS
<1>2. Len(t) = k - 1 /\ t \in Seq(S) /\ DOMAIN t = 1..Len(t)
  OBVIOUS
<1>3. \A i \in 1..(k - 1) : t[i] = q[i + 1]
  OBVIOUS
<1> HIDE DEF k, t
<1>4. ASSUME NEW i \in Starts(t) PROVE i \in Nat /\ i + 1 \in Starts(q) /\ i + 1 # 1
  <2>1. i \in 1..(k - 1) /\ t[i].cmd = "START"
    BY <1>2 DEF Starts
  <2>2. i + 1 \in 1..k /\ t[i] = q[i + 1]
    BY <1>1, <1>3, <2>1
  <2> QED BY <1>1, <2>1, <2>2 DEF Starts
<1>5. Head(q).cmd = "START" => 1 \in Starts(q)
  BY <1>1 DEF Starts
<1>6. ASSUME AtMostOne(Starts(q)), NEW i \in Starts(t), NEW j \in Starts(t)
      PROVE  i = j
  <2>1. i + 1 = j + 1 /\ i \in Nat /\ j \in Nat
    BY <1>4, <1>6 DEF AtMostOne
  <2> QED BY <2>1
<1>7. ASSUME AtMostOne(Starts(q)), Head(q).cmd = "START", NEW i \in Starts(t)
      PROVE  FALSE
  BY <1>4, <1>5, <1>7 DEF AtMostOne
<1>8. Starts(q) = {} => Starts(t) = {} /\ Head(q).cmd # "START"
  BY <1>4, <1>5
<1>9. AtMostOne(Starts(q)) => AtMostOne(Starts(t))
  BY <1>6 DEF AtMostOne
<1>10. AtMostOne(Starts(q)) /\ Head(q).cmd = "START" => Starts(t) = {}
  BY <1>7
<1> QED BY <1>8, <1>9, <1>10 DEF t

LEMMA StartsAppend ==
  ASSUME NEW S, NEW q \in Seq(S), NEW e
  PROVE  /\ e.cmd # "START" => Starts(Append(q, e)) = Starts(q)
         /\ Starts(q) = {} => AtMostOne(Starts(Append(q, e)))
<1> DEFINE m == Append(q, e)
<1>1. /\ Len(q) \in Nat /\ m[Len(q) + 1] = e /\ DOMAIN q = 1..Len(q)
      /\ DOMAIN m = 1..(Len(q) + 1) /\ \A i \in 1..Len(q) : m[i] = q[i]
  OBVIOUS
<1> HIDE DEF m
<1>2. \A i \in Starts(q) : i \in Starts(m)
  BY <1>1 DEF Starts
<1>3. \A i \in Starts(m) : i \in Starts(q) \/ (i = Len(q) + 1 /\ e.cmd = "START")
  <2> SUFFICES ASSUME NEW i \in Starts(m), i \notin Starts(q)
               PROVE  i = Len(q) + 1 /\ e.cmd = "START"
    OBVIOUS
  <2>1. i \in 1..(Len(q) + 1) /\ m[i].cmd = "START"
    BY <1>1 DEF Starts
  <2>2. i \notin 1..Len(q)
    BY <1>1, <2>1 DEF Starts
  <2>3. i = Len(q) + 1
    BY <1>1, <2>1, <2>2
  <2> QED BY <1>1, <2>1, <2>3
<1>4. e.cmd # "START" => Starts(m) = Starts(q)
  BY <1>2, <1>3
<1>5. Starts(q) = {} => AtMostOne(Starts(m))
  BY <1>3 DEF AtMostOne
<1> QED BY <1>4, <1>5 DEF m

(* A frame that lost its head is no answer to anything.                      *)
LEMMA StartsCut ==
  ASSUME inq \in Seq(Frames), inq # <<>>, inq' = <<Garbage>> \o Tail(inq)
  PROVE  Starts(inq') \subseteq Starts(inq)
<1>1. <<Garbage>> \in Seq(Frames) /\ Tail(inq) \in Seq(Frames)
  BY GarbageType
<1>2. Len(inq) \in Nat \ {0} /\ Len(Tail(inq)) = Len(inq) - 1
      /\ DOMAIN inq = 1..Len(inq)
      /\ \A i \in 1..(Len(inq) - 1) : Tail(inq)[i] = inq[i + 1]
  OBVIOUS
<1> DEFINE m == <<Garbage>> \o Tail(inq)
           t == Tail(inq)
           n == Len(inq)
<1>3. m \in Seq(Frames) /\ Len(m) = 1 + Len(t) /\ DOMAIN m = 1..Len(m)
  BY <1>1
<1>4. m[1] = Garbage /\ \A i \in 1..Len(m) : i > 1 => m[i] = t[i - 1]
  BY <1>1
<1>5. Garbage.cmd # "START"
  BY DEF Garbage
<1> HIDE DEF m
<1>6. ASSUME NEW i \in Starts(m) PROVE i \in Starts(inq)
  <2>1. i \in 1..Len(m) /\ m[i].cmd = "START"
    BY <1>3 DEF Starts
  <2>2. i # 1
    BY <1>4, <1>5, <2>1
  <2> HIDE DEF t, n
  <2>3. n \in Nat \ {0} /\ Len(t) = n - 1 /\ Len(m) = 1 + Len(t)
        /\ \A j \in 1..(n - 1) : t[j] = inq[j + 1]
    BY <1>2, <1>3 DEF t, n
  <2>4. i \in 1..n /\ i - 1 \in 1..(n - 1) /\ (i - 1) + 1 = i /\ i > 1
    BY <2>1, <2>2, <2>3
  <2>5. m[i] = t[i - 1] /\ t[i - 1] = inq[i]
    BY <1>4, <2>1, <2>3, <2>4 DEF t
  <2> QED BY <1>2, <2>1, <2>4, <2>5 DEF Starts, n
<1> QED BY <1>6 DEF m

(* Reading never brings one back.                                            *)
LEMMA ReadingStarts ==
  ASSUME inq \in Seq(Frames), UNCHANGED outq,
         \/ UNCHANGED inq
         \/ inq # <<>> /\ inq' \in {inq, Tail(inq), <<Garbage>> \o Tail(inq)}
  PROVE  /\ ~Outstanding("START") => ~Outstanding("START")'
         /\ SingleStart => SingleStart'
<1>1. CASE UNCHANGED inq
  BY <1>1, OutstandingStarts DEF SingleStart
<1>2. CASE inq # <<>> /\ inq' = Tail(inq)
  BY <1>2, StartsTail, OutstandingStarts DEF SingleStart
<1>3. CASE inq # <<>> /\ inq' = <<Garbage>> \o Tail(inq)
  <2>1. Starts(inq') \subseteq Starts(inq)
    BY <1>3, StartsCut
  <2> QED BY <2>1, OutstandingStarts DEF SingleStart, AtMostOne
<1> QED BY <1>1, <1>2, <1>3

LEMMA ReadsStarts ==
  ASSUME inq \in Seq(Frames), UNCHANGED outq,
         \/ Received \/ ReceivedPart \/ CutShort \/ UNCHANGED inq
         \/ \E quiet \in BOOLEAN : RecvFails(quiet)
  PROVE  /\ ~Outstanding("START") => ~Outstanding("START")'
         /\ SingleStart => SingleStart'
<1>1. \/ UNCHANGED inq
      \/ inq # <<>> /\ inq' \in {inq, Tail(inq), <<Garbage>> \o Tail(inq)}
  BY DEF Received, ReceivedPart, CutShort, RecvFails
<1> QED BY <1>1, ReadingStarts

(* A request of another name does not count.                                 *)
LEMMA SendingStarts ==
  ASSUME outq \in Seq(Requests), NEW cmd, NEW source, UNCHANGED inq,
         Sent(cmd, source) \/ \E delivered \in BOOLEAN : SendFails(cmd, source, delivered)
  PROVE  /\ cmd # "START" /\ ~Outstanding("START") => ~Outstanding("START")'
         /\ ~Outstanding("START") => SingleStart'
<1> DEFINE r == [cmd |-> cmd, source |-> source]
<1>1. r.cmd = cmd
  OBVIOUS
<1>2. outq' = outq \/ outq' = Append(outq, r)
  BY DEF Sent, SendFails
<1> HIDE DEF r
<1>3. CASE outq' = outq
  BY <1>3, OutstandingStarts DEF SingleStart, AtMostOne
<1>4. CASE outq' = Append(outq, r)
  <2>1. r.cmd # "START" => Starts(outq') = Starts(outq)
    BY <1>4, StartsAppend
  <2>2. Starts(outq) = {} => AtMostOne(Starts(outq'))
    BY <1>4, StartsAppend
  <2> QED BY <1>1, <2>1, <2>2, OutstandingStarts DEF SingleStart, AtMostOne
<1> QED BY <1>2, <1>3, <1>4

(* The scanner answers what it was asked, once.                              *)
LEMMA DeviceStarts ==
  ASSUME TypeOK, DeviceStep \/ LoadPaper
  PROVE  /\ ~Outstanding("START") => ~Outstanding("START")'
         /\ SingleStart => SingleStart'
<1>0. outq \in Seq(Requests) /\ inq \in Seq(Frames)
  BY DEF TypeOK
<1>1. ASSUME UNCHANGED outq,
             \/ UNCHANGED inq
             \/ \E f : inq' = Append(inq, f) /\ f.cmd # "START"
      PROVE  Starts(inq') = Starts(inq) /\ Starts(outq') = Starts(outq)
  BY <1>0, <1>1, StartsAppend
<1>2. ASSUME NEW cmd, cmd # "START", Taking(cmd),
             \/ UNCHANGED inq
             \/ \E f : inq' = Append(inq, f) /\ f.cmd # "START"
      PROVE  /\ ~Outstanding("START") => ~Outstanding("START")'
             /\ SingleStart => SingleStart'
  <2>1. Starts(inq') = Starts(inq)
    BY <1>0, <1>2, StartsAppend
  <2>2. outq # <<>> /\ outq' = Tail(outq)
    BY <1>2 DEF Taking
  <2> QED BY <1>0, <2>1, <2>2, StartsTail, OutstandingStarts DEF SingleStart
<1>3. \A x, s, a : Reply(x, s, a).cmd = x
  BY DEF Reply
<1>4. ASSUME NEW f, Answers(f)
      PROVE  UNCHANGED inq \/ inq' = Append(inq, f)
  BY <1>4 DEF Answers, Says
<1>5. CASE TakesLock \/ TakesUnlock \/ TakesAdfStatus
  <2>1. PICK cmd \in {"LOCK", "UNLOCK", "ADF_STATUS"} :
          Taking(cmd) /\ \E s, a : Answers(Reply(cmd, s, a))
    BY <1>5 DEF TakesLock, TakesUnlock, TakesAdfStatus
  <2> QED BY <1>2, <1>3, <1>4, <2>1
<1>6. CASE TakesSettings
  <2>1. PICK cmd \in {"SET_DEFAULTS", "GET_SETTINGS", "SET_SETTINGS"} :
          /\ Taking(cmd)
          /\ \/ Answers(Reply(cmd, IF d.locked THEN 0 ELSE 1, 0))
             \/ Says([Reply(cmd, 0, 0) EXCEPT !.body = "bad"])
    BY <1>6 DEF TakesSettings
  <2>2. [Reply(cmd, 0, 0) EXCEPT !.body = "bad"].cmd = cmd
    BY DEF Reply
  <2>3. CASE Answers(Reply(cmd, IF d.locked THEN 0 ELSE 1, 0))
    BY <1>2, <1>3, <1>4, <2>1, <2>3
  <2>4. CASE Says([Reply(cmd, 0, 0) EXCEPT !.body = "bad"])
    BY <1>2, <2>1, <2>2, <2>4 DEF Says
  <2> QED BY <2>1, <2>3, <2>4
<1>7. CASE TakesAbort
  BY <1>2, <1>3, <1>7 DEF TakesAbort, Says
<1>8. CASE TakesStart
  <2>1. outq # <<>> /\ Head(outq).cmd = "START" /\ outq' = Tail(outq)
    BY <1>8 DEF TakesStart, Taking
  <2>2. PICK f : UNCHANGED inq \/ inq' = Append(inq, f)
    BY <1>4, <1>8 DEF TakesStart
  <2>3. Starts(outq) # {}
    BY <1>0, <2>1, StartsTail
  <2>4. SingleStart => Starts(outq') = {} /\ Starts(inq) = {}
    BY <1>0, <2>1, <2>3, StartsTail DEF SingleStart
  <2>5. Starts(inq) = {} => AtMostOne(Starts(inq'))
    BY <1>0, <2>2, StartsAppend DEF AtMostOne
  <2> QED BY <2>3, <2>4, <2>5, OutstandingStarts DEF SingleStart, AtMostOne
<1>9. CASE RunsJob \/ LoadPaper
  <2>1. UNCHANGED outq
    BY <1>9 DEF RunsJob, BeginsPage, SendsBlock, EndsPage, EndsJob, GivesUp, LoadPaper
  <2>2. \A x, y, z : Data(x, y, z).cmd = "DATA"
    BY DEF Data
  <2>3. UNCHANGED inq \/ \E f : inq' = Append(inq, f) /\ f.cmd # "START"
    BY <1>3, <1>9, <2>2 DEF RunsJob, BeginsPage, SendsBlock, EndsPage, EndsJob, GivesUp,
       LoadPaper, Says
  <2> QED BY <1>1, <2>1, <2>3, OutstandingStarts DEF SingleStart
<1> QED BY <1>5, <1>6, <1>7, <1>8, <1>9 DEF DeviceStep, TakesCommand

(* The ways a call goes on without a CMD_START in its hands.                 *)
OnItsWay ==
  /\ c'.call = c.call \/ (c'.call = "resume" /\ c.call = "start")
  /\ c'.pc # "idle" /\ ~(c'.pc = "recv" /\ c'.cmd = "START")

LEMMA UnlockOnItsWay ==
  ASSUME NEW hh \in Handles, NEW cc \in CallStates, NEW then \in Thens,
         unlock_device(hh, cc, then), cc.call = c.call
  PROVE  OnItsWay /\ c'.then = then /\ c'.pc \in {"unlock", then}
<1>1. c'.pc \in {"unlock", then} /\ c'.call = cc.call /\ c'.then = then
  BY DEF unlock_device, CallStates
<1> QED BY <1>1 DEF OnItsWay, Thens

LEMMA GivingUpEnds ==
  ASSUME NEW hh \in Handles, c \in CallStates, NEW st \in Statuses, GivingUp(hh, st)
  PROVE  OnItsWay /\ Ending'
<1>1. [c EXCEPT !.st = st] \in CallStates /\ [c EXCEPT !.st = st].call = c.call
  BY DEF CallStates
<1>2. OnItsWay /\ c'.then = "return" /\ c'.pc \in {"unlock", "return"}
  BY <1>1, UnlockOnItsWay DEF GivingUp, Thens
<1> QED BY <1>2 DEF Ending

LEMMA StoppingEnds ==
  ASSUME NEW hh \in Handles, c \in CallStates, NEW st \in Statuses, Stopping(hh, st)
  PROVE  OnItsWay /\ Ending'
<1>1. [hh EXCEPT !.scanning = FALSE] \in Handles
  BY DEF Handles
<1> QED BY <1>1, GivingUpEnds DEF Stopping

(* What carries the invariant over a step of a call.                         *)
LEMMA AckOn ==
  ASSUME AckInv, OnItsWay, g'.alone = g.alone,
         Ending => Ending',
         c.pc = "recv" /\ c.cmd = "START" => Ending',
         ~Outstanding("START") => ~Outstanding("START")'
  PROVE  AckInv'
BY DEF AckInv, OnItsWay

LEMMA AckCommand == TypeOK /\ LockInv /\ AckInv /\ CommandStep => AckInv'
<1> SUFFICES ASSUME TypeOK, LockInv, AckInv, CommandStep PROVE AckInv'
  OBVIOUS
<1>0. /\ h \in Handles /\ c \in CallStates /\ outq \in Seq(Requests)
      /\ inq \in Seq(Frames) /\ g'.alone = g.alone /\ c.pc \in {"send", "recv"}
      /\ ~Ending
  BY DEF TypeOK, CommandStep, command_sends, command_acked, command_skips,
     command_breaks_off, Ending
<1>1. ASSUME Ending', OnItsWay PROVE AckInv'
  BY <1>0, <1>1 DEF AckInv, OnItsWay
<1>2. ASSUME NEW st \in Statuses, NEW status, CommandFailed(st, status), status # 2
      PROVE  AckInv'
  <2>1. PICK s \in Statuses : GivingUp(h, s)
    BY <1>2, StatusNames DEF CommandFailed
  <2> QED BY <1>0, <1>1, <2>1, GivingUpEnds
<1>3. CASE command_sends
  <2>1. CASE c' = [c EXCEPT !.pc = "recv"] /\ Sent(c.cmd, h.source) /\ UNCHANGED inq
    <3>1. c'.pc = "recv" /\ c'.cmd = c.cmd /\ c'.call = c.call /\ ~Ending'
      BY <1>0, <2>1 DEF CallStates, Ending
    <3>2. /\ c.cmd # "START" /\ ~Outstanding("START") => ~Outstanding("START")'
          /\ ~Outstanding("START") => SingleStart'
      BY <1>0, <2>1, SendingStarts
    <3>3. c.pc = "send"
      BY <1>3 DEF command_sends
    <3> QED BY <1>0, <3>1, <3>2, <3>3 DEF AckInv
  <2>2. CASE CommandFailed("IO_ERROR", 0)
    BY <1>2, <2>2, StatusNames
  <2> QED BY <1>3, <2>1, <2>2 DEF command_sends
<1>4. CASE command_acked
  <2> DEFINE f == Head(inq)
  <2>1. /\ c.pc = "recv" /\ inq # <<>> /\ inq' = Tail(inq) /\ UNCHANGED outq
        /\ f.cmd = c.cmd
    BY <1>4 DEF command_acked, Received, Acks
  (* The acknowledgement of CMD_START was the only one. *)
  <2>2. g.alone => ~Outstanding("START")'
    <3>1. CASE c.cmd = "START"
      <4>1. ASSUME SingleStart PROVE Starts(inq') = {} /\ Starts(outq') = {}
        <5>1. Starts(inq) # {} /\ AtMostOne(Starts(inq)) /\ Starts(outq) = {}
          BY <1>0, <2>1, <3>1, <4>1, StartsTail DEF SingleStart
        <5> QED BY <1>0, <2>1, <3>1, <5>1, StartsTail
      <4> QED BY <1>0, <2>1, <3>1, <4>1, OutstandingStarts DEF AckInv
    <3>2. CASE c.cmd # "START"
      BY <1>0, <2>1, <3>2, ReadingStarts DEF AckInv
    <3> QED BY <3>1, <3>2
  <2>3. ASSUME OnItsWay PROVE AckInv'
    BY <1>0, <2>2, <2>3 DEF AckInv, OnItsWay
  <2>4. ASSUME NEW cmd, Commanding(cmd) PROVE AckInv'
    <3>1. c'.pc = "send" /\ c'.call = c.call
      BY <1>0, <2>4 DEF Commanding, CallStates
    <3> QED BY <2>3, <3>1 DEF OnItsWay
  <2>5. CASE check_adf(f)
    <3>1. [h EXCEPT !.has_adf = f.status = 0] \in Handles
      BY <1>0 DEF Handles
    <3> QED BY <1>0, <1>1, <2>4, <2>5, <3>1, GivingUpEnds, StatusNames DEF check_adf
  <2>6. CASE CommandFailed("IO_ERROR", 0)
    BY <1>2, <2>6, StatusNames
  <2>7. CASE CommandFailed(map_status(f.status), f.status)
    <3>1. CASE \E s \in Statuses : GivingUp(h, s)
      BY <1>0, <1>1, <3>1, GivingUpEnds
    <3>2. CASE c' = [c EXCEPT !.pc = "send", !.n = 0, !.tries = @ + 1]
      <4>1. c'.pc = "send" /\ c'.call = c.call
        BY <1>0, <3>2 DEF CallStates
      <4> QED BY <2>3, <4>1 DEF OnItsWay
    <3> QED BY <2>7, <3>1, <3>2, MapStatusType, StatusNames DEF CommandFailed
  <2>8. CASE CommandDone
    <3>1. CASE c' = [c EXCEPT !.pc = "loop", !.n = 0]
      <4>1. c'.pc = "loop" /\ c'.call = c.call
        BY <1>0, <3>1 DEF CallStates
      <4> QED BY <2>3, <4>1 DEF OnItsWay
    <3> QED BY <2>4, <2>8, <3>1 DEF CommandDone
  <2> QED BY <1>4, <2>5, <2>6, <2>7, <2>8 DEF command_acked
<1>5. CASE command_skips
  <2>1. CASE c' = [c EXCEPT !.n = @ + 1]
    <3>1. c'.pc = c.pc /\ c'.cmd = c.cmd /\ c'.call = c.call /\ c'.then = c.then
      BY <1>0, <2>1 DEF CallStates
    <3>2. /\ ~Outstanding("START") => ~Outstanding("START")'
          /\ SingleStart => SingleStart'
      BY <1>0, <1>5, ReadsStarts DEF command_skips
    <3> QED BY <1>0, <3>1, <3>2 DEF AckInv, Ending
  <2>2. CASE CommandFailed("IO_ERROR", 0)
    BY <1>2, <2>2, StatusNames
  <2> QED BY <1>5, <2>1, <2>2 DEF command_skips
<1>6. CASE command_breaks_off
  BY <1>2, <1>6, StatusNames DEF command_breaks_off
<1> QED BY <1>3, <1>4, <1>5, <1>6 DEF CommandStep

LEMMA AckTeardown == TypeOK /\ LockInv /\ AckInv /\ TeardownStep => AckInv'
<1> SUFFICES ASSUME TypeOK, LockInv, AckInv, TeardownStep PROVE AckInv'
  OBVIOUS
<1>0. /\ h \in Handles /\ c \in CallStates /\ outq \in Seq(Requests)
      /\ inq \in Seq(Frames) /\ c.then \in Thens
  BY DEF TypeOK, LockInv
<1>1. /\ c.pc \in {"flush", "unlock", "unlock_recv", "abort", "drain", "cancelled"}
      /\ g'.alone = g.alone
  BY DEF TeardownStep, Flushes, probe_adf, unlock_sends, unlock_recv, abort_sends,
     drain_frame, drain_breaks_off, read_cancelled, TypeOK, Histories
<1>2. ~Outstanding("START") => ~Outstanding("START")'
  <2>1. CASE Flushes \/ probe_adf \/ unlock_recv \/ drain_frame \/ drain_breaks_off
               \/ read_cancelled
    <3>1. UNCHANGED outq
      BY <2>1 DEF Flushes, probe_adf, unlock_recv, drain_frame, drain_breaks_off,
         read_cancelled
    <3>2. Quiet \in BOOLEAN
      BY DEF Quiet
    <3>3. \/ UNCHANGED inq
          \/ inq # <<>> /\ inq' \in {inq, Tail(inq), <<Garbage>> \o Tail(inq)}
      BY <2>1, <3>2 DEF Flushes, probe_adf, unlock_recv, drain_frame, drain_breaks_off,
         read_cancelled, Received, ReceivedPart, CutShort, RecvFails
    <3> QED BY <1>0, <3>1, <3>3, ReadingStarts
  <2>2. CASE unlock_sends \/ abort_sends
    <3>1. PICK cmd \in {"UNLOCK", "ABORT"} :
            \/ Sent(cmd, h.source)
            \/ \E delivered \in BOOLEAN : SendFails(cmd, h.source, delivered)
      BY <2>2 DEF unlock_sends, abort_sends
    <3>2. UNCHANGED inq
      BY <2>2 DEF unlock_sends, abort_sends
    <3> QED BY <1>0, <3>1, <3>2, SendingStarts
  <2> QED BY <2>1, <2>2 DEF TeardownStep
<1>3. ASSUME NEW pc \in {"unlock_recv", "drain", c.then}, c' = [c EXCEPT !.pc = pc],
             pc = c.then \/ ~Ending \/ pc = "unlock_recv"
      PROVE  OnItsWay /\ (Ending => Ending')
  <2>1. c'.pc = pc /\ c'.call = c.call /\ c'.then = c.then
    BY <1>0, <1>3 DEF CallStates
  <2> QED BY <1>0, <1>1, <1>3, <2>1 DEF OnItsWay, Ending, Thens
<1>4. OnItsWay /\ (Ending => Ending')
  <2>1. CASE Flushes
    <3>1. c'.pc = c.pc /\ c'.call = c.call
      BY <1>0, <2>1 DEF Flushes, CallStates
    <3>2. c.pc = "flush"
      BY <2>1 DEF Flushes
    <3> QED BY <3>1, <3>2 DEF OnItsWay, Ending
  <2>2. CASE probe_adf
    <3>1. c.pc = "flush" /\ c'.pc = "send" /\ c'.call = c.call
      BY <1>0, <2>2 DEF probe_adf, Commanding, CallStates
    <3> QED BY <3>1 DEF OnItsWay, Ending
  <2>3. CASE unlock_sends \/ unlock_recv
    <3>1. c' = [c EXCEPT !.pc = "unlock_recv"] \/ c' = [c EXCEPT !.pc = c.then]
      BY <2>3 DEF unlock_sends, unlock_recv
    <3> QED BY <1>3, <3>1
  <2>4. CASE abort_sends
    <3>1. c.pc = "abort" /\ c'.pc = "drain" /\ c'.call = c.call
      BY <1>0, <2>4 DEF abort_sends, CallStates
    <3> QED BY <3>1 DEF OnItsWay, Ending
  <2>5. CASE drain_frame \/ drain_breaks_off
    <3>1. c.pc = "drain"
      BY <2>5 DEF drain_frame, drain_breaks_off
    <3>2. CASE Drained
      <4>1. [h EXCEPT !.scanning = FALSE] \in Handles
        BY <1>0 DEF Handles
      <4> QED BY <1>0, <3>1, <3>2, <4>1, UnlockOnItsWay DEF Drained, Ending
    <3>3. CASE c' = [c EXCEPT !.n = @ + 1]
      <4>1. c'.pc = c.pc /\ c'.call = c.call
        BY <1>0, <3>3 DEF CallStates
      <4> QED BY <3>1, <4>1 DEF OnItsWay, Ending
    <3> QED BY <2>5, <3>2, <3>3 DEF drain_frame, drain_breaks_off
  <2>6. CASE read_cancelled
    <3>1. c'.pc = "return" /\ c'.call = c.call
      BY <1>0, <2>6 DEF read_cancelled, Returning, CallStates
    <3> QED BY <3>1 DEF OnItsWay, Ending
  <2> QED BY <2>1, <2>2, <2>3, <2>4, <2>5, <2>6 DEF TeardownStep
<1>5. ~(c.pc = "recv" /\ c.cmd = "START")
  BY <1>1
<1> QED BY <1>1, <1>2, <1>4, <1>5, AckOn

LEMMA AckStart == TypeOK /\ LockInv /\ AckInv /\ StartStep => AckInv'
<1> SUFFICES ASSUME TypeOK, LockInv, AckInv, StartStep PROVE AckInv'
  OBVIOUS
<1>0. /\ h \in Handles /\ c \in CallStates /\ UNCHANGED <<outq, inq>>
      /\ g'.alone = g.alone /\ c.pc \in {"test", "clear", "retry"}
  BY DEF TypeOK, StartStep, start_tests_cancelled, resume_job, start_busy, start_job,
     start_retry
<1>1. ~Outstanding("START") => ~Outstanding("START")'
  BY <1>0 DEF Outstanding
<1>2. ASSUME OnItsWay PROVE AckInv'
  BY <1>0, <1>1, <1>2, AckOn DEF Ending
<1>3. CASE start_tests_cancelled
  <2>1. CASE h.scanning /\ c' = [c EXCEPT !.pc = "abort", !.then = "clear"]
    <3>1. c'.pc = "abort" /\ c'.call = c.call
      BY <1>0, <2>1 DEF CallStates
    <3> QED BY <1>2, <3>1 DEF OnItsWay
  <2>2. CASE unlock_device(h, c, "clear")
    BY <1>0, <1>2, <2>2, UnlockOnItsWay DEF Thens
  <2>3. CASE c' = [c EXCEPT !.pc = "clear"]
    <3>1. c'.pc = "clear" /\ c'.call = c.call
      BY <1>0, <2>3 DEF CallStates
    <3> QED BY <1>2, <3>1 DEF OnItsWay
  <2> QED BY <1>3, <2>1, <2>2, <2>3 DEF start_tests_cancelled, end_scan
<1>4. CASE resume_job
  <2>1. c'.pc = "loop" /\ c'.call = "resume"
    BY <1>0, <1>4 DEF resume_job, CallStates
  <2>2. g.alone => c.call \in {"start", "resume"}
    BY DEF AckInv
  <2> QED BY <1>0, <1>1, <2>1, <2>2 DEF AckInv, Ending
<1>5. ASSUME NEW st, Returning(st) PROVE AckInv'
  <2>1. c'.pc = "return" /\ c'.call = c.call
    BY <1>0, <1>5 DEF Returning, CallStates
  <2> QED BY <1>2, <2>1 DEF OnItsWay
<1>6. ASSUME NEW hh, NEW attempt, run_job(hh, attempt) PROVE AckInv'
  <2>1. c'.pc = "send" /\ c'.call = c.call
    BY <1>0, <1>6 DEF run_job, CallStates
  <2> QED BY <1>2, <2>1 DEF OnItsWay
<1>7. CASE start_busy
  BY <1>5, <1>7 DEF start_busy
<1>8. CASE start_job
  BY <1>5, <1>6, <1>8 DEF start_job
<1>9. CASE start_retry
  BY <1>5, <1>6, <1>9 DEF start_retry
<1> QED BY <1>3, <1>4, <1>7, <1>8, <1>9 DEF StartStep

LEMMA AckPump == TypeOK /\ LockInv /\ AckInv /\ pump_frame => AckInv'
<1> SUFFICES ASSUME TypeOK, LockInv, AckInv, pump_frame PROVE AckInv'
  OBVIOUS
<1>0. /\ h \in Handles /\ c \in CallStates /\ inq \in Seq(Frames) /\ g \in Histories
      /\ h.lines \in Nat /\ h.next_row \in Nat /\ h.eof \in BOOLEAN
  BY DEF TypeOK, Handles
<1>1. c.pc = "loop" /\ ~Ending /\ UNCHANGED outq
  BY DEF pump_frame, handle_data_block, pump_aborted, pump_job_end, pump_page_end,
     pump_other, pump_breaks_off, pump_idle, Pumping, Waiting, Ending
<1>2. g'.alone = g.alone
  BY <1>0 DEF pump_frame, handle_data_block, pump_aborted, pump_job_end, pump_page_end,
     pump_other, pump_breaks_off, pump_idle, Begun, Histories
<1>3. ~Outstanding("START") => ~Outstanding("START")'
  <2>1. \/ UNCHANGED inq
        \/ inq # <<>> /\ inq' \in {inq, Tail(inq), <<Garbage>> \o Tail(inq)}
    BY DEF pump_frame, handle_data_block, pump_aborted, pump_job_end, pump_page_end,
       pump_other, pump_breaks_off, pump_idle, Pumping, Received, ReceivedPart, CutShort,
       RecvFails
  <2> QED BY <1>0, <1>1, <2>1, ReadingStarts
<1>4. ASSUME OnItsWay PROVE AckInv'
  BY <1>1, <1>2, <1>3, <1>4, AckOn
<1>5. CASE UNCHANGED c
  BY <1>1, <1>4, <1>5 DEF OnItsWay
<1>6. ASSUME NEW next \in Nat, NEW eof \in BOOLEAN, OutOfMemory(next, eof) PROVE AckInv'
  <2>1. PICK k \in h.next_row..(next - 1) :
          Stopping(Appending([h EXCEPT !.eof = eof], k), "NO_MEM")
    BY <1>6 DEF OutOfMemory
  <2>2. [h EXCEPT !.eof = eof] \in Handles /\ [h EXCEPT !.eof = eof].next_row = h.next_row
    BY <1>0 DEF Handles
  <2>3. k \in Nat /\ k >= h.next_row
    BY <1>0
  <2>4. Appending([h EXCEPT !.eof = eof], k) \in Handles
    BY <2>2, <2>3, AppendingType
  <2> QED BY <1>0, <1>4, <2>1, <2>4, StoppingEnds, StatusNames
<1>7. ASSUME NEW st \in Statuses, Stopping(h, st) PROVE AckInv'
  BY <1>0, <1>4, <1>7, StoppingEnds
<1> DEFINE white == emit_white_rows(h.next_row, h.lines, h.lines)
<1>8. white \in Nat /\ white >= h.next_row
  BY <1>0 DEF emit_white_rows, Upper, Lower
<1>9. CASE handle_data_block
  <2> DEFINE next == handle_rows(h.next_row, Head(inq).first, Head(inq).rows, h.lines)
  <2>1. next \in Nat
    BY <1>0, <1>9, HeadType, RowsForward DEF handle_data_block, Pumping
  <2> HIDE DEF next
  <2> QED BY <1>0, <1>5, <1>6, <1>7, <1>9, <2>1, StatusNames DEF handle_data_block, next
<1> HIDE DEF white
<1>10. CASE pump_aborted
  <2> DEFINE code == Head(inq).status
             hh == [h EXCEPT !.scanning = FALSE]
  <2>1. hh \in Handles /\ code \in Nat
    BY <1>0, <1>10, HeadType DEF pump_aborted, Pumping, Handles
  <2>2. CASE unlock_device(hh, [c EXCEPT !.code = code], "retry")
    <3>1. [c EXCEPT !.code = code] \in CallStates /\ [c EXCEPT !.code = code].call = c.call
      BY <1>0, <2>1 DEF CallStates
    <3> HIDE DEF hh, code
    <3> QED BY <1>4, <2>1, <2>2, <3>1, UnlockOnItsWay DEF Thens
  <2>3. CASE \E st \in Statuses : GivingUp(hh, st)
    BY <1>0, <1>4, <2>1, <2>3, GivingUpEnds
  <2> QED BY <1>10, <2>2, <2>3, StatusNames, MapStatusType DEF pump_aborted
<1>11. CASE pump_job_end
  <2> DEFINE hh == [Appending(h, white) EXCEPT !.eof = TRUE, !.scanning = FALSE]
  <2>1. hh \in Handles
    BY <1>0, <1>8, AppendingType DEF Handles
  <2>2. CASE unlock_device(hh, c, "loop")
    <3> HIDE DEF hh
    <3> QED BY <1>0, <1>4, <2>1, <2>2, UnlockOnItsWay DEF Thens
  <2> QED BY <1>6, <1>8, <1>11, <2>2 DEF pump_job_end, white
<1>12. CASE pump_page_end
  BY <1>5, <1>6, <1>8, <1>12 DEF pump_page_end, white
<1>13. CASE pump_other
  BY <1>5, <1>13 DEF pump_other
<1>14. CASE pump_breaks_off
  BY <1>7, <1>14, StatusNames DEF pump_breaks_off
<1>15. CASE pump_idle
  <2>1. c'.pc = "return" /\ c'.call = c.call
    BY <1>0, <1>15 DEF pump_idle, Returning, CallStates
  <2> QED BY <1>4, <2>1 DEF OnItsWay
<1> QED BY <1>9, <1>10, <1>11, <1>12, <1>13, <1>14, <1>15 DEF pump_frame

LEMMA AckNext == TypeOK /\ LockInv /\ AckInv /\ [Next]_vars => AckInv'
<1> SUFFICES ASSUME TypeOK, LockInv, AckInv, [Next]_vars PROVE AckInv'
  OBVIOUS
<1>0. h \in Handles /\ c \in CallStates /\ g \in Histories /\ inq \in Seq(Frames)
  BY DEF TypeOK
<1>1. CASE Frontend
  <2>1. c.pc = "idle" /\ UNCHANGED <<outq, inq>>
    BY <1>1 DEF Frontend, sane_open, sane_close, sane_start, sane_read, sane_set_io_mode,
       control_option, get_parameters
  <2>2. ~g.alone
    BY <2>1 DEF AckInv
  <2>3. CASE sane_start
    <3>1. c'.call = "start" /\ c'.pc = "test"
      BY <2>3 DEF sane_start, Entering, NoCall
    <3>2. g'.alone => ~Outstanding("START")
      BY <2>3 DEF sane_start, NoHistory
    <3> QED BY <2>1, <3>1, <3>2 DEF AckInv, Outstanding
  <2>4. CASE ~sane_start
    BY <1>1, <2>2, <2>4 DEF AckInv, Frontend, sane_open, sane_close, sane_read,
       sane_set_io_mode, control_option, get_parameters
  <2> QED BY <2>3, <2>4
<1>2. CASE CommandStep \/ TeardownStep \/ StartStep \/ pump_frame
  BY <1>2, AckCommand, AckTeardown, AckStart, AckPump
<1>3. CASE first_rows
  <2>1. c'.pc = "return" /\ c'.call = c.call /\ UNCHANGED g
    BY <1>0, <1>3 DEF first_rows, Returning, CallStates
  <2> QED BY <2>1 DEF AckInv, Ending
<1>4. CASE deliver
  <2>1. ~g.alone /\ g'.alone = g.alone
    BY <1>0, <1>4 DEF deliver, AckInv, Histories
  <2> QED BY <2>1 DEF AckInv
<1>5. CASE Return \/ crash
  <2>1. CASE Return
    <3>1. CASE c.call \in {"start", "resume"} /\ c.st = "GOOD"
      BY <1>0, <2>1, <3>1 DEF Return, AckInv, Histories
    <3>2. CASE c.call = "read" /\ c.st \in {"GOOD", "EOF"}
      BY <2>1, <3>2 DEF Return, AckInv
    <3>3. CASE ~(c.call \in {"start", "resume"} /\ c.st = "GOOD")
               /\ ~(c.call = "read" /\ c.st \in {"GOOD", "EOF"})
      BY <2>1, <3>3 DEF Return, NoHistory, AckInv
    <3> QED BY <3>1, <3>2, <3>3
  <2>2. CASE crash
    BY <2>2 DEF crash, NoHistory, AckInv
  <2> QED BY <1>5, <2>1, <2>2
<1>6. CASE sane_cancel
  <2>1. g'.alone = g.alone /\ UNCHANGED <<c, outq, inq>>
    BY <1>0, <1>6 DEF sane_cancel, Histories
  <2> QED BY <2>1 DEF AckInv, Ending, SingleStart, Outstanding
<1>7. CASE (DeviceStep \/ LoadPaper) /\ UNCHANGED <<h, c, g>>
  <2>1. /\ ~Outstanding("START") => ~Outstanding("START")'
        /\ SingleStart => SingleStart'
    BY <1>7, DeviceStarts
  <2> QED BY <1>7, <2>1 DEF AckInv, Ending
<1>8. CASE UNCHANGED vars
  BY <1>8 DEF vars, AckInv, Ending, SingleStart, Outstanding
<1> QED BY <1>1, <1>2, <1>3, <1>4, <1>5, <1>6, <1>7, <1>8
           DEF Next, Backend, Device, CommandStep, TeardownStep, StartStep

(* While a call waits for a reply, requests only leave the pipe.             *)
LEMMA ReceivingSends ==
  ASSUME [Next]_vars, c.pc = "recv"
  PROVE  outq' = outq \/ (outq # <<>> /\ outq' = Tail(outq))
<1>1. CASE Device \/ LoadPaper
  BY <1>1 DEF Device, DeviceStep, TakesCommand, TakesLock, TakesUnlock, TakesAdfStatus,
     TakesSettings, TakesStart, TakesAbort, Taking, RunsJob, BeginsPage, SendsBlock,
     EndsPage, EndsJob, GivesUp, LoadPaper
<1>2. CASE Frontend \/ sane_cancel \/ crash \/ UNCHANGED vars
  BY <1>2 DEF Frontend, sane_open, sane_close, sane_start, sane_read, sane_set_io_mode,
     control_option, get_parameters, sane_cancel, crash, vars
<1>3. CASE Backend
  BY <1>3 DEF Backend, Flushes, probe_adf, command_sends, command_acked, command_skips,
     command_breaks_off, unlock_sends, unlock_recv, abort_sends, drain_frame,
     drain_breaks_off, read_cancelled, start_tests_cancelled, resume_job, start_busy,
     start_job, start_retry, pump_frame, handle_data_block, pump_aborted, pump_job_end,
     pump_page_end, pump_other, pump_breaks_off, pump_idle, Pumping, Waiting, first_rows,
     deliver, Return
<1> QED BY <1>1, <1>2, <1>3 DEF Next

(* StartAckIsFresh: a start before which the pipes hold no CMD_START and no  *)
(* answer to one takes the acknowledgement of its own CMD_START, for any     *)
(* number of faults, of other late replies in front of it and of retries.    *)
THEOREM StartAckIsFreshHolds == Spec => StartAckIsFresh
<1>1. Init => AckInv
  BY DEF Init, AckInv, NoHistory
<1>2. TypeOK /\ LockInv /\ AckInv /\ [Next]_vars => AckInv'
  BY AckNext
<1>3. TypeOK /\ AckInv /\ [Next]_vars /\ g.alone /\ TakesAck("START")
        => ~Outstanding("START")'
  <2> SUFFICES ASSUME TypeOK, AckInv, [Next]_vars, g.alone, TakesAck("START")
               PROVE  ~Outstanding("START")'
    OBVIOUS
  <2>1. /\ SingleStart /\ inq \in Seq(Frames) /\ outq \in Seq(Requests)
        /\ c.pc = "recv" /\ inq # <<>> /\ inq' = Tail(inq)
    BY DEF TypeOK, AckInv, TakesAck, Ending
  <2>2. Head(inq).cmd = "START"
    BY DEF TakesAck, Acks
  <2>3. Starts(inq) # {} /\ Starts(inq') = {} /\ Starts(outq) = {}
    BY <2>1, <2>2, StartsTail DEF SingleStart
  <2>4. outq' = outq \/ (outq # <<>> /\ outq' = Tail(outq))
    BY <2>1, ReceivingSends
  <2> QED BY <2>1, <2>3, <2>4, StartsTail, OutstandingStarts
<1> QED BY <1>1, <1>2, <1>3, LockInvariant, PTL DEF Spec, StartAckIsFresh

-----------------------------------------------------------------------------
(* What is in the pipes while nothing went wrong.  CleanBoundary says it of  *)
(* the idle handle without a job; at every other point of every call the     *)
(* pipes hold the answer that is waited for, or the rest of the job.         *)

(* The frames of a page with all its blocks. *)
PageFrames == MaxBlocks + 2

(* The frames the device can still send in its job. *)
Ahead(dd) ==
  CASE dd.job = "none" -> 0
    [] dd.job = "ending" -> 1
    [] dd.job = "page" -> (MaxBlocks - dd.blocks) + 2
         + (IF dd.source = "ADF" THEN dd.sheets * PageFrames ELSE 0)
    [] dd.job = "begin" ->
         (IF dd.source = "ADF" THEN dd.sheets * PageFrames ELSE PageFrames) + 1

(* end_scan reads as many frames as a job can have.                          *)
DrainOutlasts ==
  MaxSheets * PageFrames + 1 <= MaxDrain /\ PageFrames + 1 <= MaxDrain

Bounded(dd) == dd.sheets <= MaxSheets /\ dd.blocks <= MaxBlocks

(* q is the rest of a job: whole events, the last one its end once the       *)
(* device is done; with n taken before and those still to be sent they are   *)
(* no more than the drain reads.                                             *)
Rest(q, dd, n) ==
  /\ \A i \in DOMAIN q : q[i].cmd \in Evts /\ q[i].body = "ok"
  /\ \A i \in DOMAIN q : EndsDrain(q[i].cmd) => i = Len(q) /\ dd.job = "none"
  /\ dd.job = "none" => q # <<>> /\ EndsDrain(q[Len(q)].cmd)
  /\ n + Len(q) + Ahead(dd) <= MaxDrain

Calm == outq = <<>> /\ inq = <<>> /\ d.job = "none"

Running == outq = <<>> /\ Rest(inq, d, 0)

Carries(q, cmd) == Len(q) = 1 /\ q[1].cmd = cmd

(* A command is on its way, or its answer in front, and behind that of a     *)
(* CMD_START the job.                                                        *)
Asked(cmd) ==
  \/ Carries(outq, cmd) /\ inq = <<>> /\ d.job = "none"
  \/ /\ outq = <<>> /\ inq # <<>>
     /\ Head(inq).cmd = cmd /\ Head(inq).body = "ok"
     /\ IF cmd = "START" /\ Head(inq).status = 0
        THEN Rest(Tail(inq), d, 0)
        ELSE Tail(inq) = <<>> /\ d.job = "none"

(* The frames of a job that was aborted in silence: no last one among them,  *)
(* and fewer than the drain reads.                                           *)
Leftover(q, n) ==
  /\ \A i \in DOMAIN q : /\ q[i].cmd \in Evts /\ q[i].body = "ok"
                         /\ ~EndsDrain(q[i].cmd)
  /\ n + Len(q) < MaxDrain

Draining ==
  \/ /\ Rest(inq, d, c.n)
     /\ Carries(outq, "ABORT") \/ (outq = <<>> /\ d.job = "none")
  \/ Leftover(inq, c.n) /\ outq = <<>> /\ d.job = "none"

(* The abort may still be there: a job that ended by itself answers it not.  *)
Unlocking ==
  /\ inq = <<>> /\ d.job = "none"
  /\ Carries(outq, "ABORT") \/ outq = <<>>

Unlocked ==
  /\ d.job = "none"
  /\ \/ /\ inq = <<>>
        /\ \/ Carries(outq, "UNLOCK")
           \/ (Len(outq) = 2 /\ outq[1].cmd = "ABORT" /\ outq[2].cmd = "UNLOCK")
     \/ Carries(inq, "UNLOCK") /\ outq = <<>>

Wire ==
  /\ c.pc \notin {"recv", "drain", "unlock", "unlock_recv"}
       => IF h.scanning THEN Running ELSE Calm
  /\ c.pc \in {"send", "recv"} => c.cmd # "ABORT"
  /\ c.pc = "recv" => Asked(c.cmd)
  /\ c.pc = "drain" => Draining
  /\ c.pc = "unlock" => Unlocking
  /\ c.pc = "unlock_recv" => Unlocked

CleanInv ==
  /\ Bounded(d) /\ faults <= MaxFaults
  /\ faults = MaxFaults => Wire

-----------------------------------------------------------------------------
(* The rest of a job, frame by frame. *)

LEMMA BoundsType ==
  /\ MaxSheets \in Nat /\ MaxBlocks \in Nat /\ MaxDrain \in Nat /\ PageFrames \in Nat
  /\ MaxFaults \in Nat
  BY ScannerAssumption, SessionAssumption, WireAssumption DEF PageFrames

InDevice(dd) == dd.job \in Jobs /\ dd.sheets \in Nat /\ dd.blocks \in Nat

LEMMA AheadType ==
  ASSUME NEW dd, InDevice(dd), Bounded(dd)
  PROVE  /\ Ahead(dd) \in Nat /\ (dd.job # "none" => Ahead(dd) > 0)
         /\ dd.sheets * PageFrames \in Nat
<1> DEFINE p == dd.sheets * PageFrames
<1>1. /\ dd.sheets \in Nat /\ dd.blocks \in Nat /\ dd.blocks <= MaxBlocks
      /\ dd.job \in {"none", "begin", "page", "ending"}
  BY DEF InDevice, Jobs, Bounded
<1>2. p \in Nat
  BY <1>1, BoundsType
<1> HIDE DEF p
<1>3. Ahead(dd) = CASE dd.job = "none" -> 0
                   [] dd.job = "ending" -> 1
                   [] dd.job = "page" -> (MaxBlocks - dd.blocks) + 2
                        + (IF dd.source = "ADF" THEN p ELSE 0)
                   [] dd.job = "begin" -> (IF dd.source = "ADF" THEN p ELSE PageFrames) + 1
  BY DEF Ahead, p
<1>4. Ahead(dd) \in Nat /\ (dd.job # "none" => Ahead(dd) > 0)
  BY <1>1, <1>2, <1>3, BoundsType
<1> QED BY <1>2, <1>4 DEF p

(* Without a fault the job gives one whole frame at a time, and its last     *)
(* frame ends it.                                                            *)
JobFrame(f) ==
  /\ f.cmd \in Evts /\ f.body = "ok" /\ inq' = Append(inq, f)
  /\ EndsDrain(f.cmd) <=> d'.job = "none"
  /\ Ahead(d') < Ahead(d)

LEMMA ReplyParts ==
  ASSUME NEW cmd, NEW status, NEW arg0
  PROVE  /\ Reply(cmd, status, arg0).cmd = cmd /\ Reply(cmd, status, arg0).body = "ok"
         /\ Reply(cmd, status, arg0).status = status
  BY DEF Reply

LEMMA JobGivesFrame ==
  ASSUME TypeOK, TypeOK', Bounded(d), Bounded(d'), RunsJob, UNCHANGED faults
  PROVE  d.job # "none" /\ UNCHANGED outq /\ \E f \in Frames : JobFrame(f)
<1>0. /\ d.sheets \in Nat /\ d.blocks \in Nat /\ d.blocks <= MaxBlocks
      /\ DeviceTypeOK /\ faults \in Nat
      /\ DOMAIN d = {"locked", "job", "source", "blocks", "feeder", "sheets"}
  BY DEF TypeOK, DeviceTypeOK, Bounded
<1> DEFINE p == d.sheets * PageFrames
<1>1. /\ p \in Nat /\ PageFrames \in Nat /\ MaxBlocks \in Nat /\ PageFrames = MaxBlocks + 2
      /\ Ahead(d) \in Nat /\ (d.job # "none" => Ahead(d) > 0)
  BY <1>0, AheadType, BoundsType DEF DeviceTypeOK, InDevice, PageFrames
<1>2. CASE BeginsPage
  <2>1. PICK cmd \in {"SETTINGS", "PAGE_BEGIN"} : Says(Reply(cmd, 0, 0))
    BY <1>2 DEF BeginsPage
  <2>2. /\ d.job = "begin" /\ (d.source = "ADF" => d.sheets > 0)
        /\ d' = [d EXCEPT !.job = "page", !.blocks = 0,
                          !.sheets = IF d.source = "ADF" THEN @ - 1 ELSE @]
        /\ UNCHANGED outq
    BY <1>2 DEF BeginsPage
  <2>3. /\ d'.job = "page" /\ d'.blocks = 0 /\ d'.source = d.source
        /\ d'.sheets = IF d.source = "ADF" THEN d.sheets - 1 ELSE d.sheets
    BY <1>0, <2>2
  <2>4. d.source = "ADF" => d'.sheets * PageFrames = p - PageFrames
    BY <1>0, <1>1, <2>3
  <2>5. Ahead(d) = (IF d.source = "ADF" THEN p ELSE PageFrames) + 1
    BY <2>2 DEF Ahead
  <2>6. Ahead(d') = MaxBlocks - 0 + 2 + (IF d.source = "ADF" THEN p - PageFrames ELSE 0)
    <3> HIDE DEF p
    <3> QED BY <2>3, <2>4 DEF Ahead
  <2> HIDE DEF p
  <2>7. Ahead(d') < Ahead(d)
    BY <1>1, <2>5, <2>6
  <2>8. Reply(cmd, 0, 0) \in Frames
    BY ReplyType DEF Evts
  <2>9. JobFrame(Reply(cmd, 0, 0))
    BY <2>1, <2>3, <2>7, ReplyParts DEF JobFrame, Says, EndsDrain, Evts
  <2> QED BY <2>2, <2>8, <2>9
<1>3. CASE SendsBlock
  <2>1. /\ d.job = "page" /\ d.blocks < MaxBlocks /\ UNCHANGED outq
        /\ d' = [d EXCEPT !.blocks = @ + 1]
    BY <1>3 DEF SendsBlock
  <2>2. PICK b \in Blocks : Says(Data(b[1], b[2], "ok"))
    BY <1>0, <1>3 DEF SendsBlock, Fault
  <2>3. d'.job = "page" /\ d'.blocks = d.blocks + 1 /\ d'.source = d.source
        /\ d'.sheets = d.sheets
    BY <1>0, <2>1
  <2>4. /\ Ahead(d) = (MaxBlocks - d.blocks) + 2 + (IF d.source = "ADF" THEN p ELSE 0)
        /\ Ahead(d') = (MaxBlocks - (d.blocks + 1)) + 2 + (IF d.source = "ADF" THEN p ELSE 0)
    BY <2>1, <2>3 DEF Ahead
  <2> HIDE DEF p
  <2>5. Ahead(d') < Ahead(d)
    BY <1>0, <1>1, <2>1, <2>4
  <2>6. b[1] \in Nat /\ b[2] \in Nat
    BY ScannerAssumption
  <2>7. Data(b[1], b[2], "ok") \in Frames
    BY <2>6, DataType
  <2>8. Data(b[1], b[2], "ok").cmd = "DATA" /\ Data(b[1], b[2], "ok").body = "ok"
    BY DEF Data
  <2>9. JobFrame(Data(b[1], b[2], "ok"))
    BY <2>2, <2>3, <2>5, <2>8 DEF JobFrame, Says, EndsDrain, Evts
  <2> QED BY <2>1, <2>7, <2>9
<1>4. CASE EndsPage
  <2>1. /\ d.job = "page" /\ UNCHANGED outq /\ Says(Reply("PAGE_END", 0, 0))
        /\ d' = [d EXCEPT !.job = IF d.source = "ADF" THEN "begin" ELSE "ending"]
    BY <1>4 DEF EndsPage
  <2>2. /\ d'.job = (IF d.source = "ADF" THEN "begin" ELSE "ending")
        /\ d'.source = d.source /\ d'.sheets = d.sheets
    BY <1>0, <2>1
  <2>3. /\ Ahead(d) = (MaxBlocks - d.blocks) + 2 + (IF d.source = "ADF" THEN p ELSE 0)
        /\ Ahead(d') = IF d.source = "ADF" THEN p + 1 ELSE 1
    BY <2>1, <2>2 DEF Ahead
  <2> HIDE DEF p
  <2>4. Ahead(d') < Ahead(d)
    BY <1>0, <1>1, <2>3
  <2>5. Reply("PAGE_END", 0, 0) \in Frames
    BY ReplyType DEF Evts
  <2>6. JobFrame(Reply("PAGE_END", 0, 0))
    BY <2>1, <2>2, <2>4, ReplyParts DEF JobFrame, Says, EndsDrain, Evts
  <2> QED BY <2>1, <2>5, <2>6
<1>5. CASE EndsJob \/ GivesUp
  <2>1. PICK cmd \in {"JOB_END", "ABORTED"}, s \in Nat :
          /\ Says(Reply(cmd, s, 0)) /\ d.job # "none" /\ UNCHANGED outq
          /\ d' = [d EXCEPT !.job = "none"]
    <3>1. CASE EndsJob
      <4>1. Says(Reply("JOB_END", 0, 0)) /\ d.job # "none" /\ UNCHANGED outq
            /\ d' = [d EXCEPT !.job = "none"]
        BY <3>1 DEF EndsJob
      <4> QED BY <4>1
    <3>2. CASE GivesUp
      BY <3>2, ScannerAssumption DEF GivesUp
    <3> QED BY <1>5, <3>1, <3>2
  <2>2. d'.job = "none"
    BY <1>0, <2>1
  <2>3. Ahead(d') = 0
    BY <2>2 DEF Ahead
  <2>4. Reply(cmd, s, 0) \in Frames
    BY ReplyType DEF Evts
  <2>5. JobFrame(Reply(cmd, s, 0))
    BY <1>1, <2>1, <2>2, <2>3, ReplyParts DEF JobFrame, Says, EndsDrain, Evts
  <2> QED BY <2>1, <2>4, <2>5
<1> QED BY <1>2, <1>3, <1>4, <1>5 DEF RunsJob

(* The rest grows by a frame of the job and shrinks by the frame in front.   *)
LEMMA RestGrows ==
  ASSUME NEW q \in Seq(Frames), NEW n \in Nat, NEW f \in Frames, TypeOK, TypeOK',
         Bounded(d), Bounded(d'), Rest(q, d, n), d.job # "none", JobFrame(f)
  PROVE  Rest(Append(q, f), d', n)
<1> DEFINE m == Append(q, f)
<1>1. /\ Len(m) = Len(q) + 1 /\ Len(q) \in Nat /\ m[Len(q) + 1] = f
      /\ DOMAIN m = 1..(Len(q) + 1) /\ DOMAIN q = 1..Len(q)
      /\ \A i \in 1..Len(q) : m[i] = q[i]
  OBVIOUS
<1> HIDE DEF m
<1>2. Ahead(d) \in Nat /\ Ahead(d') \in Nat
  <2>1. InDevice(d) /\ InDevice(d')
    BY DEF TypeOK, DeviceTypeOK, InDevice
  <2> QED BY <2>1, AheadType
<1>3. /\ \A i \in DOMAIN q : q[i].cmd \in Evts /\ q[i].body = "ok" /\ ~EndsDrain(q[i].cmd)
      /\ n + Len(q) + Ahead(d) <= MaxDrain
  BY DEF Rest
<1>4. f.cmd \in Evts /\ f.body = "ok" /\ (EndsDrain(f.cmd) <=> d'.job = "none")
      /\ Ahead(d') < Ahead(d)
  BY DEF JobFrame
<1>5. ASSUME NEW i \in DOMAIN m
      PROVE  /\ m[i].cmd \in Evts /\ m[i].body = "ok"
             /\ EndsDrain(m[i].cmd) => i = Len(m) /\ d'.job = "none"
  <2>1. CASE i = Len(q) + 1
    BY <1>1, <1>4, <2>1
  <2>2. CASE i # Len(q) + 1
    <3>1. i \in 1..Len(q)
      BY <1>1, <2>2
    <3> QED BY <1>1, <1>3, <3>1
  <2> QED BY <2>1, <2>2
<1>6. d'.job = "none" => m # <<>> /\ EndsDrain(m[Len(m)].cmd)
  BY <1>1, <1>4
<1>7. n + Len(m) + Ahead(d') <= MaxDrain
  BY <1>1, <1>2, <1>3, <1>4, BoundsType
<1> QED BY <1>5, <1>6, <1>7 DEF Rest, m

LEMMA RestShrinks ==
  ASSUME NEW q \in Seq(Frames), NEW n \in Nat, q # <<>>, DeviceTypeOK, Bounded(d),
         Rest(q, d, n)
  PROVE  /\ Head(q).cmd \in Evts /\ Head(q).body = "ok"
         /\ EndsDrain(Head(q).cmd) => Tail(q) = <<>> /\ d.job = "none"
         /\ ~EndsDrain(Head(q).cmd) =>
              Rest(Tail(q), d, n + 1) /\ Rest(Tail(q), d, 0) /\ n + 1 < MaxDrain
<1> DEFINE k == Len(q)
           t == Tail(q)
<1>1. /\ k \in Nat \ {0} /\ Head(q) = q[1] /\ 1 \in DOMAIN q /\ DOMAIN q = 1..k
      /\ Len(t) = k - 1 /\ DOMAIN t = 1..(k - 1) /\ \A i \in 1..(k - 1) : t[i] = q[i + 1]
      /\ (k = 1 => t = <<>>) /\ (k # 1 => t # <<>>)
  <2>1. /\ k \in Nat \ {0} /\ Head(q) = q[1] /\ 1 \in DOMAIN q /\ DOMAIN q = 1..k
    OBVIOUS
  <2>2. Len(t) = k - 1 /\ t \in Seq(Frames) /\ DOMAIN t = 1..Len(t)
    OBVIOUS
  <2>3. \A i \in 1..(k - 1) : t[i] = q[i + 1]
    OBVIOUS
  <2>4. (k = 1 => t = <<>>) /\ (k # 1 => t # <<>>)
    <3> HIDE DEF k, t
    <3> QED BY <2>1, <2>2
  <2> HIDE DEF k, t
  <2> QED BY <2>1, <2>2, <2>3, <2>4
<1> HIDE DEF k, t
<1>2. /\ \A i \in DOMAIN q : q[i].cmd \in Evts /\ q[i].body = "ok"
      /\ \A i \in DOMAIN q : EndsDrain(q[i].cmd) => i = k /\ d.job = "none"
      /\ d.job = "none" => EndsDrain(q[k].cmd)
      /\ n + k + Ahead(d) <= MaxDrain
  BY DEF Rest, k
<1>3. Head(q).cmd \in Evts /\ Head(q).body = "ok"
  BY <1>1, <1>2
<1>4. EndsDrain(Head(q).cmd) => t = <<>> /\ d.job = "none"
  BY <1>1, <1>2
<1>5. ASSUME ~EndsDrain(Head(q).cmd)
      PROVE  Rest(t, d, n + 1) /\ Rest(t, d, 0) /\ n + 1 < MaxDrain
  <2>1. d.job = "none" => k # 1
    BY <1>1, <1>2, <1>5
  <2>2. Ahead(d) \in Nat /\ (d.job # "none" => Ahead(d) > 0)
    BY AheadType DEF DeviceTypeOK, InDevice
  <2>3. n + 1 < MaxDrain
    BY <1>1, <1>2, <2>1, <2>2, BoundsType
  <2>4. (n + 1) + Len(t) + Ahead(d) <= MaxDrain /\ 0 + Len(t) + Ahead(d) <= MaxDrain
    BY <1>1, <1>2, <2>2, BoundsType
  <2>5. ASSUME NEW i \in DOMAIN t
        PROVE  /\ t[i].cmd \in Evts /\ t[i].body = "ok"
               /\ EndsDrain(t[i].cmd) => i = Len(t) /\ d.job = "none"
    <3>1. i + 1 \in DOMAIN q /\ t[i] = q[i + 1] /\ i \in Nat
      BY <1>1
    <3> QED BY <1>1, <1>2, <3>1
  <2>6. d.job = "none" => t # <<>> /\ EndsDrain(t[Len(t)].cmd)
    <3>1. SUFFICES ASSUME d.job = "none" PROVE t # <<>> /\ EndsDrain(t[Len(t)].cmd)
      OBVIOUS
    <3>2. k - 1 \in 1..(k - 1) /\ (k - 1) + 1 = k
      BY <1>1, <2>1, <3>1
    <3>3. t[k - 1] = q[k]
      BY <1>1, <3>2
    <3> QED BY <1>1, <1>2, <2>1, <3>1, <3>3
  <2> QED BY <2>3, <2>4, <2>5, <2>6 DEF Rest
<1> QED BY <1>3, <1>4, <1>5 DEF t

-----------------------------------------------------------------------------
(* The device, without a fault. *)

LEMMA BoundedNext == TypeOK /\ Bounded(d) /\ [Next]_vars => Bounded(d)'
<1> SUFFICES ASSUME TypeOK, Bounded(d), [Next]_vars PROVE Bounded(d)'
  OBVIOUS
<1> DEFINE Fields == {"locked", "job", "source", "blocks", "feeder", "sheets"}
<1>0. /\ DOMAIN d = Fields /\ d.sheets \in Nat /\ d.blocks \in Nat
      /\ d.sheets <= MaxSheets /\ d.blocks <= MaxBlocks
      /\ MaxSheets \in Nat /\ MaxBlocks \in Nat
  BY BoundsType DEF TypeOK, DeviceTypeOK, Bounded
<1>1. CASE UNCHANGED d
  BY <1>1 DEF Bounded
<1>2. CASE TakesCommand
  <2>1. d'.sheets = d.sheets /\ d'.blocks = d.blocks
    BY <1>0, <1>2 DEF TakesCommand, TakesLock, TakesUnlock, TakesAdfStatus, TakesSettings,
       TakesStart, TakesAbort
  <2> QED BY <1>0, <2>1 DEF Bounded
<1>3. CASE BeginsPage
  <2>1. d'.blocks = 0 /\ d'.sheets = (IF d.source = "ADF" THEN d.sheets - 1 ELSE d.sheets)
        /\ (d.source = "ADF" => d.sheets > 0)
    BY <1>0, <1>3 DEF BeginsPage
  <2> QED BY <1>0, <2>1 DEF Bounded
<1>4. CASE SendsBlock
  <2>1. d'.blocks = d.blocks + 1 /\ d'.sheets = d.sheets /\ d.blocks < MaxBlocks
    BY <1>0, <1>4 DEF SendsBlock
  <2> QED BY <1>0, <2>1 DEF Bounded
<1>5. CASE EndsPage \/ EndsJob \/ GivesUp
  <2>1. d'.sheets = d.sheets /\ d'.blocks = d.blocks
    BY <1>0, <1>5 DEF EndsPage, EndsJob, GivesUp
  <2> QED BY <1>0, <2>1 DEF Bounded
<1>6. CASE LoadPaper
  <2>1. d'.blocks = d.blocks /\ d'.sheets = d.sheets + 1 /\ d.sheets < MaxSheets
    BY <1>0, <1>6 DEF LoadPaper
  <2> QED BY <1>0, <2>1 DEF Bounded
<1>7. CASE Frontend
  BY <1>1, <1>7 DEF Frontend, sane_open, sane_close, sane_start, sane_read,
     sane_set_io_mode, control_option, get_parameters
<1>8. CASE Backend
  <2>1. CASE CommandStep \/ TeardownStep
    BY <1>1, <2>1 DEF CommandStep, command_sends, command_acked, command_skips,
       command_breaks_off, TeardownStep, Flushes, probe_adf, unlock_sends, unlock_recv,
       abort_sends, drain_frame, drain_breaks_off, read_cancelled
  <2>2. CASE StartStep \/ first_rows \/ deliver \/ Return
    BY <1>1, <2>2 DEF StartStep, start_tests_cancelled, resume_job, start_busy, start_job,
       start_retry, first_rows, deliver, Return
  <2>3. CASE pump_frame
    BY <1>1, <2>3 DEF pump_frame, handle_data_block, pump_aborted, pump_job_end,
       pump_page_end, pump_other, pump_breaks_off, pump_idle, Pumping
  <2> QED BY <1>8, <2>1, <2>2, <2>3 DEF Backend, CommandStep, TeardownStep, StartStep
<1>9. CASE sane_cancel \/ crash
  BY <1>1, <1>9 DEF sane_cancel, crash
<1> QED BY <1>1, <1>2, <1>3, <1>4, <1>5, <1>6, <1>7, <1>8, <1>9
           DEF Next, Device, DeviceStep, RunsJob, vars

(* A pipe with one thing in it. *)
LEMMA CarriesOne ==
  ASSUME NEW S, NEW q \in Seq(S), NEW cmd, Carries(q, cmd)
  PROVE  q # <<>> /\ Head(q).cmd = cmd /\ Tail(q) = <<>>
<1>1. Len(q) = 1 /\ q[1].cmd = cmd
  BY DEF Carries
<1>2. q # <<>>
  <2>1. Len(q) = 1
    BY <1>1
  <2>2. q = <<>> => Len(q) = 0
    OBVIOUS
  <2> QED BY <2>1, <2>2
<1>3. Head(q) = q[1]
  BY <1>2
<1>4. Tail(q) \in Seq(S) /\ Len(Tail(q)) = 0
  BY <1>1, <1>2
<1>5. Tail(q) = <<>>
  BY <1>4
<1> QED BY <1>1, <1>2, <1>3, <1>5

(* One more behind it. *)
LEMMA CarriesTwo ==
  ASSUME NEW S, NEW q \in Seq(S), NEW e \in S
  PROVE  /\ q = <<>> => Carries(Append(q, e), e.cmd)
         /\ Len(q) = 1 => /\ Len(Append(q, e)) = 2 /\ Append(q, e)[1] = q[1]
                          /\ Append(q, e)[2] = e
<1> DEFINE m == Append(q, e)
<1>1. /\ Len(m) = Len(q) + 1 /\ Len(q) \in Nat /\ m[Len(q) + 1] = e
      /\ \A i \in 1..Len(q) : m[i] = q[i]
  OBVIOUS
<1>2. q = <<>> => Len(q) = 0
  OBVIOUS
<1> HIDE DEF m
<1>3. q = <<>> => Carries(m, e.cmd)
  BY <1>1, <1>2 DEF Carries
<1>4. Len(q) = 1 => Len(m) = 2 /\ m[1] = q[1] /\ m[2] = e
  BY <1>1
<1> QED BY <1>3, <1>4 DEF m

LEMMA FirstOfTwo ==
  ASSUME NEW S, NEW q \in Seq(S), Len(q) = 2
  PROVE  Head(q) = q[1] /\ Len(Tail(q)) = 1 /\ Tail(q)[1] = q[2]
<1>1. q # <<>>
  OBVIOUS
<1>2. Head(q) = q[1] /\ Len(Tail(q)) = 1
  BY <1>1
<1>3. \A i \in 1..(Len(q) - 1) : Tail(q)[i] = q[i + 1]
  BY <1>1
<1>4. 1 \in 1..(Len(q) - 1) /\ 1 + 1 = 2
  OBVIOUS
<1> QED BY <1>2, <1>3, <1>4

(* Whatever is behind the frame in front. *)
LEMMA Behind ==
  ASSUME NEW S, NEW q \in Seq(S), q # <<>>, NEW e \in S
  PROVE  /\ Append(q, e) # <<>> /\ Head(Append(q, e)) = Head(q)
         /\ Tail(Append(q, e)) = Append(Tail(q), e)
<1> DEFINE m == Append(q, e)
<1>1. Len(q) \in Nat \ {0} /\ Tail(q) \in Seq(S) /\ Len(Tail(q)) = Len(q) - 1
  OBVIOUS
<1>2. m \in Seq(S) /\ Len(m) = Len(q) + 1 /\ m[Len(q) + 1] = e
      /\ \A i \in 1..Len(q) : m[i] = q[i]
  OBVIOUS
<1>3. \A i \in 1..(Len(q) - 1) : Tail(q)[i] = q[i + 1]
  OBVIOUS
<1> HIDE DEF m
<1>4. m # <<>> /\ Head(m) = Head(q)
  <2>1. m # <<>>
    BY <1>1, <1>2
  <2>2. Head(m) = m[1] /\ Head(q) = q[1]
    BY <1>2, <2>1
  <2> QED BY <1>1, <1>2, <2>1, <2>2
<1>5. Tail(m) \in Seq(S) /\ Len(Tail(m)) = Len(q)
      /\ \A i \in 1..Len(q) : Tail(m)[i] = m[i + 1]
  <2>1. Tail(m) \in Seq(S) /\ Len(Tail(m)) = Len(m) - 1
    BY <1>2, <1>4
  <2>2. \A i \in 1..(Len(m) - 1) : Tail(m)[i] = m[i + 1]
    BY <1>2, <1>4
  <2> QED BY <1>1, <1>2, <2>1, <2>2
<1> DEFINE r == Append(Tail(q), e)
<1>6. r \in Seq(S) /\ Len(r) = Len(q) /\ r[Len(q)] = e
      /\ \A i \in 1..(Len(q) - 1) : r[i] = Tail(q)[i]
  BY <1>1
<1> HIDE DEF r
<1>7. \A i \in 1..Len(q) : Tail(m)[i] = r[i]
  <2>1. ASSUME NEW i \in 1..Len(q) PROVE Tail(m)[i] = r[i]
    <3>1. CASE i = Len(q)
      BY <1>1, <1>2, <1>5, <1>6, <3>1
    <3>2. CASE i # Len(q)
      <4>1. i \in 1..(Len(q) - 1) /\ i + 1 \in 1..Len(q)
        <5> DEFINE k == Len(q)
        <5>1. k \in Nat /\ i \in 1..k /\ i # k
          BY <1>1, <3>2
        <5> HIDE DEF k
        <5>2. i \in 1..(k - 1) /\ i + 1 \in 1..k
          BY <5>1
        <5> QED BY <5>2 DEF k
      <4>2. Tail(m)[i] = m[i + 1] /\ m[i + 1] = q[i + 1]
        BY <1>2, <1>5, <4>1
      <4>3. r[i] = Tail(q)[i] /\ Tail(q)[i] = q[i + 1]
        BY <1>3, <1>6, <4>1
      <4> QED BY <4>2, <4>3
    <3> QED BY <3>1, <3>2
  <2> QED BY <2>1
<1>8. Tail(m) = r
  BY <1>5, <1>6, <1>7
<1> QED BY <1>4, <1>8 DEF m, r

(* An idle device answers whatever it takes, but an abort. *)
Answered(f) ==
  /\ f.cmd = Head(outq).cmd /\ f.body = "ok" /\ inq' = Append(inq, f)
  /\ IF f.cmd = "START" /\ f.status = 0 THEN d'.job = "begin" ELSE d'.job = "none"

LEMMA TakesAnswer ==
  ASSUME TypeOK, TakesCommand, UNCHANGED faults, d.job = "none"
  PROVE  /\ outq # <<>> /\ outq' = Tail(outq)
         /\ Head(outq).cmd = "ABORT" => UNCHANGED <<inq, d>>
         /\ Head(outq).cmd # "ABORT" => \E f \in Frames : Answered(f)
<1>0. /\ faults \in Nat
      /\ DOMAIN d = {"locked", "job", "source", "blocks", "feeder", "sheets"}
  BY DEF TypeOK, DeviceTypeOK
<1>1. ASSUME NEW f, Answers(f) PROVE inq' = Append(inq, f)
  BY <1>0, <1>1 DEF Answers, Says, Fault
<1>2. ASSUME NEW cmd, Taking(cmd)
      PROVE  outq # <<>> /\ outq' = Tail(outq) /\ Head(outq).cmd = cmd
  BY <1>2 DEF Taking
<1>3. ASSUME NEW cmd \in Cmds, NEW s \in Nat, NEW a \in Nat, Taking(cmd),
             Answers(Reply(cmd, s, a)), cmd = "START" /\ s = 0 => d'.job = "begin",
             ~(cmd = "START" /\ s = 0) => d'.job = "none"
      PROVE  \E f \in Frames : Answered(f)
  <2>1. Reply(cmd, s, a) \in Frames
    BY ReplyType
  <2>2. inq' = Append(inq, Reply(cmd, s, a)) /\ Head(outq).cmd = cmd
    BY <1>1, <1>2, <1>3
  <2>3. Answered(Reply(cmd, s, a))
    BY <1>3, <2>2, ReplyParts DEF Answered
  <2> QED BY <2>1, <2>3
<1>4. CASE TakesLock
  <2>1. PICK s \in LockCodes : /\ Answers(Reply("LOCK", s, 0))
                               /\ d' = [d EXCEPT !.locked = @ \/ s = 0]
    BY <1>4 DEF TakesLock
  <2>2. Taking("LOCK") /\ d'.job = "none" /\ s \in Nat
    BY <1>0, <1>4, <2>1, ScannerAssumption DEF TakesLock
  <2> QED BY <1>2, <1>3, <2>1, <2>2, CmdNames
<1>5. CASE TakesUnlock
  <2>1. Taking("UNLOCK") /\ d'.job = "none" /\ Answers(Reply("UNLOCK", 0, 0))
    BY <1>0, <1>5 DEF TakesUnlock
  <2> QED BY <1>2, <1>3, <2>1, CmdNames
<1>6. CASE TakesAdfStatus
  <2>1. /\ Taking("ADF_STATUS") /\ d'.job = "none"
        /\ \E s \in {0, 1}, a \in {0, 1} : Answers(Reply("ADF_STATUS", s, a))
    <3>1. CASE d.feeder
      BY <1>6, <3>1 DEF TakesAdfStatus
    <3>2. CASE ~d.feeder
      BY <1>6, <3>2 DEF TakesAdfStatus
    <3> QED BY <3>1, <3>2
  <2> QED BY <1>2, <1>3, <2>1, CmdNames
<1>7. CASE TakesSettings
  <2>1. PICK cmd \in {"SET_DEFAULTS", "GET_SETTINGS", "SET_SETTINGS"} :
          Taking(cmd) /\ Answers(Reply(cmd, IF d.locked THEN 0 ELSE 1, 0))
    BY <1>0, <1>7 DEF TakesSettings, Fault
  <2>2. d'.job = "none"
    BY <1>7 DEF TakesSettings
  <2>3. cmd \in Cmds /\ cmd \notin {"START", "ABORT"}
    BY CmdNames
  <2> QED BY <1>2, <1>3, <2>1, <2>2, <2>3
<1>8. CASE TakesStart
  <2>1. /\ Taking("START") /\ Answers(Reply("START", IF d.locked THEN 0 ELSE 1, 0))
        /\ IF d.locked THEN d'.job = "begin" ELSE d'.job = "none"
    BY <1>0, <1>8 DEF TakesStart
  <2> QED BY <1>2, <1>3, <2>1, CmdNames
<1>9. CASE TakesAbort
  <2>1. Taking("ABORT") /\ UNCHANGED inq /\ d' = [d EXCEPT !.job = "none"]
    BY <1>9 DEF TakesAbort
  <2>2. [d EXCEPT !.job = "none"] = d
    BY DEF TypeOK, DeviceTypeOK
  <2> QED BY <1>2, <2>1, <2>2
<1> QED BY <1>4, <1>5, <1>6, <1>7, <1>8, <1>9 DEF TakesCommand

(* An abort ends the job that it meets, with a last frame or without one.    *)
LEMMA TakesAborts ==
  ASSUME TypeOK, Bounded(d), TakesCommand, UNCHANGED faults, d.job # "none",
         Carries(outq, "ABORT")
  PROVE  /\ outq' = <<>> /\ d'.job = "none"
         /\ UNCHANGED inq \/ \E f \in Frames : JobFrame(f)
<1>0. /\ faults \in Nat
      /\ DOMAIN d = {"locked", "job", "source", "blocks", "feeder", "sheets"}
  BY DEF TypeOK, DeviceTypeOK
<1>1. Head(outq).cmd = "ABORT" /\ Tail(outq) = <<>>
  <2>1. outq \in Seq(Requests) /\ Len(outq) = 1 /\ outq[1].cmd = "ABORT"
    BY DEF TypeOK, Carries
  <2> QED BY <2>1, CarriesOne DEF Carries
<1>2. TakesAbort
  BY <1>1 DEF TakesCommand, TakesLock, TakesUnlock, TakesAdfStatus, TakesSettings,
     TakesStart, Taking
<1>3. /\ inq' = Append(inq, Reply("ABORTED", 0, 0)) \/ UNCHANGED inq
      /\ d'.job = "none" /\ outq' = <<>>
  BY <1>0, <1>1, <1>2 DEF TakesAbort, Taking, Says
<1>4. Ahead(d) > 0 /\ Ahead(d') = 0
  BY <1>3, AheadType DEF TypeOK, DeviceTypeOK, InDevice, Ahead
<1>5. Reply("ABORTED", 0, 0) \in Frames
  BY ReplyType DEF Evts
<1>6. ASSUME inq' = Append(inq, Reply("ABORTED", 0, 0))
      PROVE  JobFrame(Reply("ABORTED", 0, 0))
  BY <1>3, <1>4, <1>6, ReplyParts DEF JobFrame, EndsDrain, Evts
<1> QED BY <1>3, <1>5, <1>6

(* What is left in the pipe when the job falls silent.                       *)
LEMMA RestFallsSilent ==
  ASSUME NEW q \in Seq(Frames), NEW n \in Nat, TypeOK, Bounded(d), Rest(q, d, n),
         d.job # "none"
  PROVE  Leftover(q, n)
<1>1. Ahead(d) \in Nat /\ Ahead(d) > 0
  <2>1. InDevice(d)
    BY DEF TypeOK, DeviceTypeOK, InDevice
  <2> QED BY <2>1, AheadType
<1>2. n + Len(q) < MaxDrain
  BY <1>1, BoundsType DEF Rest
<1> QED BY <1>2 DEF Rest, Leftover

LEMMA LeftoverShrinks ==
  ASSUME NEW q \in Seq(Frames), NEW n \in Nat, q # <<>>, Leftover(q, n)
  PROVE  /\ Head(q).cmd \in Evts /\ ~EndsDrain(Head(q).cmd)
         /\ Leftover(Tail(q), n + 1) /\ n + 1 < MaxDrain
<1> DEFINE k == Len(q)
           t == Tail(q)
<1>1. /\ k \in Nat \ {0} /\ Head(q) = q[1] /\ 1 \in DOMAIN q /\ DOMAIN q = 1..k
  OBVIOUS
<1>2. Len(t) = k - 1 /\ t \in Seq(Frames) /\ DOMAIN t = 1..Len(t)
  OBVIOUS
<1>3. \A i \in 1..(k - 1) : t[i] = q[i + 1]
  OBVIOUS
<1>4. \A i \in DOMAIN q : /\ q[i].cmd \in Evts /\ q[i].body = "ok"
                         /\ ~EndsDrain(q[i].cmd)
  BY DEF Leftover
<1>5. n + k < MaxDrain
  BY DEF Leftover
<1> HIDE DEF k, t
<1>6. ASSUME NEW i \in DOMAIN t
      PROVE  t[i].cmd \in Evts /\ t[i].body = "ok" /\ ~EndsDrain(t[i].cmd)
  <2>1. i + 1 \in DOMAIN q /\ t[i] = q[i + 1]
    BY <1>1, <1>2, <1>3
  <2> QED BY <1>4, <2>1
<1>7. (n + 1) + Len(t) < MaxDrain /\ n + 1 < MaxDrain
  BY <1>1, <1>2, <1>5, BoundsType
<1> QED BY <1>1, <1>4, <1>6, <1>7 DEF Leftover, t

(* A job that begins fits the drain. *)
LEMMA JobBegins ==
  ASSUME DrainOutlasts, NEW dd, InDevice(dd), Bounded(dd), dd.job = "begin"
  PROVE  Rest(<<>>, dd, 0)
<1> DEFINE p == dd.sheets * PageFrames
           m == MaxSheets * PageFrames
<1>1. /\ dd.sheets \in Nat /\ MaxSheets \in Nat /\ PageFrames \in Nat /\ MaxDrain \in Nat
      /\ dd.sheets <= MaxSheets
  BY BoundsType DEF InDevice, Bounded
<1>2. p \in Nat /\ m \in Nat /\ p <= m
  <2>1. MaxSheets - dd.sheets \in Nat
    BY <1>1
  <2>2. (MaxSheets - dd.sheets) * PageFrames \in Nat /\ p \in Nat /\ m \in Nat
    BY <1>1, <2>1
  <2>3. m = p + (MaxSheets - dd.sheets) * PageFrames
    BY <1>1
  <2> DEFINE x == (MaxSheets - dd.sheets) * PageFrames
  <2> HIDE DEF m, p, x
  <2>4. m = p + x /\ x \in Nat
    BY <2>2, <2>3 DEF x
  <2> QED BY <2>2, <2>4
<1>3. Ahead(dd) = (IF dd.source = "ADF" THEN p ELSE PageFrames) + 1
  BY DEF Ahead
<1>4. m + 1 <= MaxDrain /\ PageFrames + 1 <= MaxDrain
  BY DEF DrainOutlasts
<1> HIDE DEF p, m
<1>5. 0 + 0 + Ahead(dd) <= MaxDrain
  BY <1>1, <1>2, <1>3, <1>4
<1>6. Len(<<>>) = 0 /\ DOMAIN <<>> = {}
  OBVIOUS
<1> QED BY <1>5, <1>6 DEF Rest

LEMMA DeviceWire ==
  ASSUME DrainOutlasts, TypeOK, TypeOK', Bounded(d), Bounded(d'), Wire, DeviceStep,
         UNCHANGED <<h, c>>, UNCHANGED faults
  PROVE  Wire'
<1>0. /\ outq \in Seq(Requests) /\ inq \in Seq(Frames) /\ outq' \in Seq(Requests)
      /\ inq' \in Seq(Frames) /\ c.n \in Nat
  BY DEF TypeOK, CallStates
<1>1. ASSUME RunsJob
      PROVE  /\ d.job # "none" /\ UNCHANGED outq
             /\ \E f \in Frames : JobFrame(f)
  BY <1>1, JobGivesFrame
<1>2. ASSUME Rest(inq, d, 0), RunsJob PROVE Rest(inq, d, 0)'
  <2>1. PICK f \in Frames : JobFrame(f)
    BY <1>1, <1>2
  <2>2. Rest(Append(inq, f), d', 0)
    BY <1>0, <1>1, <1>2, <2>1, RestGrows
  <2> QED BY <2>1, <2>2 DEF JobFrame
<1>3. ASSUME Calm PROVE FALSE
  BY <1>1, <1>3, TakesAnswer DEF Calm, DeviceStep
<1>4. CASE c.pc \notin {"recv", "drain", "unlock", "unlock_recv"}
  <2>1. h.scanning /\ Running
    BY <1>3, <1>4 DEF Wire
  <2>2. ~TakesCommand
    BY <2>1 DEF Running, TakesCommand, TakesLock, TakesUnlock, TakesAdfStatus,
       TakesSettings, TakesStart, TakesAbort, Taking
  <2>3. Running'
    BY <1>1, <1>2, <2>1, <2>2 DEF DeviceStep, Running
  <2> QED BY <1>4, <2>1, <2>3 DEF Wire
<1>5. CASE c.pc = "recv"
  <2>1. Asked(c.cmd)
    BY <1>5 DEF Wire
  <2>2. CASE Carries(outq, c.cmd) /\ inq = <<>> /\ d.job = "none"
    <3>1. /\ TakesCommand /\ outq # <<>> /\ Head(outq).cmd = c.cmd /\ outq' = <<>>
      <4>1. TakesCommand
        BY <1>1, <2>2 DEF DeviceStep
      <4> QED BY <1>0, <2>2, <4>1, CarriesOne, TakesAnswer
    <3>2. c.cmd # "ABORT"
      BY <1>5 DEF Wire
    <3>3. PICK f \in Frames : Answered(f)
      BY <2>2, <3>1, <3>2, TakesAnswer
    <3>4. inq' # <<>> /\ Head(inq') = f /\ Tail(inq') = <<>>
      <4>1. inq' = Append(inq, f)
        BY <3>3 DEF Answered
      <4>2. inq' = <<f>>
        BY <2>2, <4>1
      <4> QED BY <4>2
    <3>5. f.cmd = c.cmd /\ f.body = "ok"
          /\ IF f.cmd = "START" /\ f.status = 0 THEN d'.job = "begin" ELSE d'.job = "none"
      BY <3>1, <3>3 DEF Answered
    <3>6. d'.job = "begin" => Rest(<<>>, d', 0)
      BY JobBegins DEF TypeOK, DeviceTypeOK, InDevice
    <3>7. Asked(c.cmd)'
      BY <3>1, <3>4, <3>5, <3>6 DEF Asked
    <3> QED BY <1>5, <3>7 DEF Wire
  <2>3. CASE /\ outq = <<>> /\ inq # <<>>
             /\ Head(inq).cmd = c.cmd /\ Head(inq).body = "ok"
             /\ IF c.cmd = "START" /\ Head(inq).status = 0
                THEN Rest(Tail(inq), d, 0)
                ELSE Tail(inq) = <<>> /\ d.job = "none"
    <3>1. RunsJob
      <4>1. ~TakesCommand
        BY <2>3 DEF TakesCommand, TakesLock, TakesUnlock, TakesAdfStatus,
           TakesSettings, TakesStart, TakesAbort, Taking
      <4> QED BY <4>1 DEF DeviceStep
    <3>2. /\ c.cmd = "START" /\ Head(inq).status = 0 /\ Rest(Tail(inq), d, 0)
          /\ d.job # "none" /\ outq' = outq
      BY <1>1, <2>3, <3>1
    <3>3. PICK f \in Frames : JobFrame(f)
      BY <1>1, <3>1
    <3>4. Tail(inq) \in Seq(Frames) /\ inq' = Append(inq, f)
      BY <1>0, <2>3, <3>3 DEF JobFrame
    <3>5. inq' # <<>> /\ Head(inq') = Head(inq) /\ Tail(inq') = Append(Tail(inq), f)
      <4>1. f \in Frames /\ inq # <<>>
        BY <2>3, <3>3
      <4>2. /\ Append(inq, f) # <<>> /\ Head(Append(inq, f)) = Head(inq)
            /\ Tail(Append(inq, f)) = Append(Tail(inq), f)
        BY <1>0, <4>1, Behind
      <4> QED BY <3>4, <4>2
    <3>6. Rest(Append(Tail(inq), f), d', 0)
      <4> DEFINE t == Tail(inq)
      <4>1. t \in Seq(Frames) /\ Rest(t, d, 0) /\ d.job # "none"
        BY <3>2, <3>4
      <4>2. f \in Frames /\ JobFrame(f)
        BY <3>3
      <4> HIDE DEF t
      <4>3. Rest(Append(t, f), d', 0)
        BY <4>1, <4>2, RestGrows
      <4> QED BY <4>3 DEF t
    <3>7. Asked(c.cmd)'
      BY <2>3, <3>2, <3>5, <3>6 DEF Asked
    <3> QED BY <1>5, <3>7 DEF Wire
  <2> QED BY <2>1, <2>2, <2>3 DEF Asked
<1>6. CASE c.pc = "drain"
  <2>2. outq = <<>> => ~TakesCommand
    BY DEF TakesCommand, TakesLock, TakesUnlock, TakesAdfStatus, TakesSettings,
       TakesStart, TakesAbort, Taking
  <2>3. Rest(inq, d, c.n) /\ Carries(outq, "ABORT")
    BY <1>1, <1>6, <2>2 DEF DeviceStep, Wire, Draining
  <2>4. CASE d.job = "none"
    <3>1. TakesCommand
      BY <1>1, <2>4 DEF DeviceStep
    <3>2. outq' = <<>> /\ UNCHANGED <<inq, d>>
      BY <1>0, <2>3, <2>4, <3>1, CarriesOne, TakesAnswer
    <3>3. Draining'
      BY <2>3, <2>4, <3>2 DEF Draining
    <3> QED BY <1>6, <3>3 DEF Wire
  <2>5. CASE d.job # "none"
    <3>1. ASSUME NEW f \in Frames, JobFrame(f),
                 outq' = outq \/ (outq' = <<>> /\ d'.job = "none")
          PROVE  Draining'
      <4>1. Rest(Append(inq, f), d', c.n)
        BY <1>0, <2>3, <2>5, <3>1, RestGrows
      <4>2. inq' = Append(inq, f)
        BY <3>1 DEF JobFrame
      <4> QED BY <2>3, <3>1, <4>1, <4>2 DEF Draining
    <3>2. CASE RunsJob
      BY <1>1, <1>6, <3>1, <3>2 DEF Wire
    <3>3. CASE TakesCommand
      <4>1. /\ outq' = <<>> /\ d'.job = "none"
            /\ UNCHANGED inq \/ \E f \in Frames : JobFrame(f)
        BY <2>3, <2>5, <3>3, TakesAborts
      <4>2. Leftover(inq, c.n)
        BY <1>0, <2>3, <2>5, RestFallsSilent
      <4>3. UNCHANGED inq => Draining'
        BY <4>1, <4>2 DEF Draining
      <4> QED BY <1>6, <3>1, <4>1, <4>3 DEF Wire
    <3> QED BY <3>2, <3>3 DEF DeviceStep
  <2> QED BY <2>4, <2>5
<1>7. CASE c.pc = "unlock"
  <2>1. inq = <<>> /\ d.job = "none" /\ (Carries(outq, "ABORT") \/ outq = <<>>)
    BY <1>7 DEF Wire, Unlocking
  <2>2. TakesCommand
    BY <1>1, <2>1 DEF DeviceStep
  <2>3. Carries(outq, "ABORT") /\ outq' = <<>> /\ UNCHANGED <<inq, d>>
    BY <1>0, <2>1, <2>2, CarriesOne, TakesAnswer
  <2>4. Unlocking'
    BY <2>1, <2>3 DEF Unlocking
  <2> QED BY <1>7, <2>4 DEF Wire
<1>8. CASE c.pc = "unlock_recv"
  <2>1. Unlocked /\ d.job = "none"
    BY <1>8 DEF Wire, Unlocked
  <2>2. TakesCommand /\ outq # <<>> /\ outq' = Tail(outq)
    BY <1>1, <2>1, TakesAnswer DEF DeviceStep
  <2>3. CASE Carries(outq, "UNLOCK") /\ inq = <<>>
    <3>1. Head(outq).cmd = "UNLOCK" /\ outq' = <<>>
      BY <1>0, <2>2, <2>3, CarriesOne
    <3>2. PICK f \in Frames : Answered(f)
      BY <2>1, <2>2, <3>1, TakesAnswer
    <3>3. f.cmd = "UNLOCK" /\ d'.job = "none" /\ inq' = Append(inq, f)
      BY <3>1, <3>2 DEF Answered
    <3>4. Carries(inq', "UNLOCK")
      <4>1. f \in Frames /\ inq = <<>>
        BY <2>3, <3>2
      <4>2. Carries(Append(inq, f), f.cmd)
        BY <1>0, <4>1, CarriesTwo
      <4> QED BY <3>3, <4>2
    <3>5. Unlocked'
      BY <3>1, <3>3, <3>4 DEF Unlocked
    <3> QED BY <1>8, <3>5 DEF Wire
  <2>4. CASE Len(outq) = 2 /\ outq[1].cmd = "ABORT" /\ outq[2].cmd = "UNLOCK" /\ inq = <<>>
    <3>1. Head(outq).cmd = "ABORT" /\ Len(Tail(outq)) = 1 /\ Tail(outq)[1].cmd = "UNLOCK"
      BY <1>0, <2>4, FirstOfTwo
    <3>2. UNCHANGED <<inq, d>>
      BY <2>1, <2>2, <3>1, TakesAnswer
    <3>3. Unlocked'
      BY <2>1, <2>2, <2>4, <3>1, <3>2 DEF Unlocked, Carries
    <3> QED BY <1>8, <3>3 DEF Wire
  <2> QED BY <2>1, <2>2, <2>3, <2>4 DEF Unlocked
<1> QED BY <1>4, <1>5, <1>6, <1>7, <1>8

-----------------------------------------------------------------------------
(* The host, without a fault. *)

LEMMA NoFault ==
  ASSUME faults \in Nat, UNCHANGED faults
  PROVE  ~Fault
BY DEF Fault

(* Every step leaves the budget of faults alone or pays for one. *)
LEMMA FaultsOnlyPaid ==
  ASSUME TypeOK, [Next]_vars
  PROVE  UNCHANGED faults \/ Fault
<1>1. CASE CommandStep \/ TeardownStep
  BY <1>1 DEF CommandStep, command_sends, command_acked, command_skips,
     command_breaks_off, TeardownStep, Flushes, probe_adf, unlock_sends, unlock_recv,
     abort_sends, drain_frame, drain_breaks_off, read_cancelled, Sent, SendFails,
     Received, ReceivedPart, RecvFails
<1>2. CASE StartStep \/ pump_frame \/ first_rows \/ deliver \/ Return
  BY <1>2 DEF StartStep, start_tests_cancelled, resume_job, start_busy, start_job,
     start_retry, pump_frame, handle_data_block, pump_aborted, pump_job_end,
     pump_page_end, pump_other, pump_breaks_off, pump_idle, OutOfMemory, Received,
     ReceivedPart, RecvFails, first_rows, deliver, Return
<1>3. CASE Frontend \/ sane_cancel \/ crash
  BY <1>3 DEF Frontend, sane_open, sane_close, sane_start, sane_read, sane_set_io_mode,
     control_option, get_parameters, sane_cancel, crash
<1>4. CASE TakesCommand
  BY <1>4 DEF TakesCommand, TakesLock, TakesUnlock, TakesAdfStatus, TakesSettings,
     TakesStart, TakesAbort, Answers
<1>5. CASE RunsJob \/ LoadPaper
  BY <1>5 DEF RunsJob, BeginsPage, SendsBlock, EndsPage, EndsJob, GivesUp, LoadPaper
<1>6. CASE UNCHANGED vars
  BY <1>6 DEF vars
<1> QED BY <1>1, <1>2, <1>3, <1>4, <1>5, <1>6
           DEF Next, Backend, Device, DeviceStep, CommandStep, TeardownStep, StartStep

Transfers == {"recv", "drain", "unlock", "unlock_recv"}

(* With nothing in the pipes the host goes on, or sends. *)
LEMMA CalmOn ==
  ASSUME Calm', ~h'.scanning, c'.pc \notin {"recv", "drain", "unlock_recv"},
         c'.pc = "send" => c'.cmd # "ABORT"
  PROVE  Wire'
BY DEF Wire, Calm, Unlocking

LEMMA UnlockCalm ==
  ASSUME NEW hh \in Handles, NEW cc \in CallStates, NEW then \in Thens, Calm',
         ~hh.scanning, unlock_device(hh, cc, then)
  PROVE  Wire'
<1>1. ~h'.scanning
  BY DEF unlock_device, Handles
<1>2. c'.pc \in {"unlock", then}
  BY DEF unlock_device, CallStates
<1> QED BY <1>1, <1>2, CalmOn DEF Thens

LEMMA GivingUpCalm ==
  ASSUME NEW hh \in Handles, c \in CallStates, NEW st \in Statuses, Calm',
         ~hh.scanning, GivingUp(hh, st)
  PROVE  Wire'
<1>1. [c EXCEPT !.st = st] \in CallStates
  BY DEF CallStates
<1> QED BY <1>1, UnlockCalm DEF GivingUp, Thens

LEMMA CommandingCalm ==
  ASSUME c \in CallStates, NEW cmd, cmd # "ABORT", Calm', ~h'.scanning, Commanding(cmd)
  PROVE  Wire'
<1>1. c'.pc = "send" /\ c'.cmd = cmd
  BY DEF Commanding, CallStates
<1> QED BY <1>1, CalmOn

(* Between two transfers of its own the host leaves the pipes alone. *)
LEMMA StaysOn ==
  ASSUME Wire, UNCHANGED <<d, outq, inq>>, c.pc \notin Transfers,
         c'.pc \notin Transfers \cup {"send"}, h'.scanning = h.scanning
  PROVE  Wire'
BY DEF Wire, Transfers, Running, Calm

LEMMA EndScanStays ==
  ASSUME h \in Handles, NEW cc \in CallStates, NEW then \in Thens, Wire,
         UNCHANGED <<d, outq, inq>>, c.pc \notin Transfers, end_scan(cc, then)
  PROVE  Wire'
<1>1. CASE h.scanning
  <2>1. c'.pc = "abort" /\ h' = h
    BY <1>1 DEF end_scan, CallStates
  <2> QED BY <2>1, StaysOn DEF Transfers
<1>2. CASE ~h.scanning
  <2>1. Calm'
    BY <1>2 DEF Wire, Transfers, Calm
  <2> QED BY <1>2, <2>1, UnlockCalm DEF end_scan
<1> QED BY <1>1, <1>2

LEMMA CommandWire ==
  ASSUME TypeOK, LockInv, Wire, CommandStep, UNCHANGED faults
  PROVE  Wire'
<1>0. /\ h \in Handles /\ c \in CallStates /\ c.cmd \in Cmds /\ faults \in Nat
      /\ outq \in Seq(Requests) /\ inq \in Seq(Frames) /\ h.source \in Sources
  BY DEF TypeOK, CallStates, Handles
<1>1. c.pc \in {"send", "recv"} /\ ~h.scanning /\ c.cmd # "ABORT" /\ ~Fault
  BY <1>0, NoFault DEF CommandStep, command_sends, command_acked, command_skips,
     command_breaks_off, LockInv, Wire
<1>2. CASE command_sends
  <2>1. /\ outq = <<>> /\ inq = <<>> /\ d.job = "none"
    BY <1>1, <1>2 DEF command_sends, Wire, Calm
  <2>2. /\ Sent(c.cmd, h.source) /\ c' = [c EXCEPT !.pc = "recv"]
        /\ UNCHANGED <<h, d, inq>>
    BY <1>1, <1>2 DEF command_sends, SendFails
  <2>3. c'.pc = "recv" /\ c'.cmd = c.cmd
    BY <1>0, <2>2 DEF CallStates
  <2>4. Carries(outq', c.cmd)
    <3> DEFINE r == [cmd |-> c.cmd, source |-> h.source]
    <3>1. outq' = Append(outq, r) /\ r.cmd = c.cmd /\ r \in Requests
      BY <1>0, <2>2 DEF Sent, Requests
    <3> HIDE DEF r
    <3> QED BY <1>0, <2>1, <3>1, CarriesTwo
  <2>5. Asked(c.cmd)'
    BY <2>1, <2>2, <2>3, <2>4 DEF Asked
  <2> QED BY <1>1, <2>3, <2>5 DEF Wire
<1>3. ASSUME c.pc = "recv", inq # <<>>
      PROVE  /\ outq = <<>> /\ Head(inq).cmd = c.cmd /\ Head(inq).body = "ok"
             /\ IF c.cmd = "START" /\ Head(inq).status = 0
                THEN Rest(Tail(inq), d, 0)
                ELSE Tail(inq) = <<>> /\ d.job = "none"
  BY <1>3 DEF Wire, Asked
<1>4. CASE command_acked
  <2> DEFINE f == Head(inq)
  <2>1. /\ c.pc = "recv" /\ inq # <<>> /\ inq' = Tail(inq) /\ UNCHANGED <<d, outq>>
    BY <1>4 DEF command_acked, Received
  <2>2. CASE c.cmd = "START" /\ f.status = 0
    <3>1. CommandDone
      BY <1>3, <1>4, <2>1, <2>2 DEF command_acked
    <3>2. h'.scanning /\ c'.pc = "loop"
      BY <1>0, <2>2, <3>1 DEF CommandDone, Handles, CallStates
    <3>3. Running'
      BY <1>3, <2>1, <2>2 DEF Running
    <3> QED BY <3>2, <3>3 DEF Wire
  <2>3. CASE ~(c.cmd = "START" /\ f.status = 0)
    <3>1. Calm'
      BY <1>3, <2>1, <2>3 DEF Calm
    <3>2. CASE check_adf(f)
      <4>1. [h EXCEPT !.has_adf = f.status = 0] \in Handles
              /\ ~[h EXCEPT !.has_adf = f.status = 0].scanning
        BY <1>0, <1>1 DEF Handles
      <4> QED BY <1>0, <1>1, <3>1, <3>2, <4>1, GivingUpCalm, CommandingCalm, StatusNames
              DEF check_adf
    <3>3. CASE CommandFailed(map_status(f.status), f.status)
      <4>1. CASE GivingUp(h, "GOOD") \/ GivingUp(h, "DEVICE_BUSY")
                   \/ GivingUp(h, map_status(f.status))
        BY <1>0, <1>1, <3>1, <4>1, GivingUpCalm, StatusNames, MapStatusType
      <4>2. CASE /\ h' = [h EXCEPT !.locked = TRUE]
                 /\ c' = [c EXCEPT !.pc = "send", !.n = 0, !.tries = @ + 1]
        <5>1. ~h'.scanning /\ c'.pc = "send" /\ c'.cmd = c.cmd
          BY <1>0, <1>1, <4>2 DEF Handles, CallStates
        <5> QED BY <1>1, <3>1, <5>1, CalmOn
      <4> QED BY <3>3, <4>1, <4>2 DEF CommandFailed
    <3>4. CASE c.cmd # "START" /\ Commanding(NextCommand(c.cmd)) /\ UNCHANGED h
      <4>1. NextCommand(c.cmd) # "ABORT"
        BY DEF NextCommand
      <4> QED BY <1>0, <1>1, <3>1, <3>4, <4>1, CommandingCalm
    <3> QED BY <1>3, <1>4, <2>1, <2>3, <3>2, <3>3, <3>4 DEF command_acked, CommandDone
  <2> QED BY <2>2, <2>3
<1>5. CASE command_skips
  BY <1>3, <1>5 DEF command_skips, Received, Acks
<1>6. CASE command_breaks_off
  <2>1. c.pc = "recv" /\ RecvFails(Quiet)
    BY <1>1, <1>6 DEF command_breaks_off, ReceivedPart
  <2>2. CASE inq = <<>>
    <3>1. Carries(outq, c.cmd) /\ Quiet
      BY <1>1, <2>1, <2>2 DEF RecvFails, Wire, Asked
    <3> QED BY <1>0, <3>1, CarriesOne DEF Quiet
  <2>3. CASE inq # <<>>
    <3>1. Head(inq) = Garbage /\ Head(inq).cmd = c.cmd
      BY <1>1, <1>3, <2>1, <2>3 DEF RecvFails
    <3> QED BY <1>0, <3>1 DEF Garbage, Cmds
  <2> QED BY <2>2, <2>3
<1> QED BY <1>2, <1>4, <1>5, <1>6 DEF CommandStep

LEMMA TeardownWire ==
  ASSUME TypeOK, LockInv, Bounded(d), Wire, TeardownStep, UNCHANGED faults
  PROVE  Wire'
<1>0. /\ h \in Handles /\ c \in CallStates /\ c.n \in Nat /\ faults \in Nat
      /\ outq \in Seq(Requests) /\ inq \in Seq(Frames) /\ c.then \in Thens
      /\ h.source \in Sources
      /\ DeviceTypeOK /\ ~Fault
  BY NoFault DEF TypeOK, CallStates, Handles, LockInv
<1>1. CASE Flushes
  BY <1>1 DEF Flushes, Wire, LockInv, Calm
<1>2. CASE probe_adf
  <2>1. /\ Calm /\ ~h.scanning /\ UNCHANGED <<d, outq, inq>> /\ Commanding("LOCK")
    BY <1>0, <1>2 DEF probe_adf, Wire, LockInv, Calm, CutShort
  <2>2. ~h'.scanning
    BY <1>0, <1>2, <2>1 DEF probe_adf, Handles
  <2>3. Calm'
    BY <2>1 DEF Calm
  <2> QED BY <1>0, <2>1, <2>2, <2>3, CommandingCalm
<1>3. CASE unlock_sends
  <2>1. /\ c.pc = "unlock" /\ Sent("UNLOCK", h.source)
        /\ c' = [c EXCEPT !.pc = "unlock_recv"] /\ UNCHANGED <<h, d, inq>>
    BY <1>0, <1>3 DEF unlock_sends, SendFails
  <2>2. inq = <<>> /\ d.job = "none" /\ (Carries(outq, "ABORT") \/ outq = <<>>)
    BY <2>1 DEF Wire, Unlocking
  <2>3. c'.pc = "unlock_recv"
    BY <1>0, <2>1 DEF CallStates
  <2> DEFINE r == [cmd |-> "UNLOCK", source |-> h.source]
  <2>4. outq' = Append(outq, r) /\ r.cmd = "UNLOCK" /\ r \in Requests
    BY <1>0, <2>1, CmdNames DEF Sent, Requests
  <2> HIDE DEF r
  <2>5. \/ Carries(outq', "UNLOCK")
        \/ (Len(outq') = 2 /\ outq'[1].cmd = "ABORT" /\ outq'[2].cmd = "UNLOCK")
    BY <1>0, <2>2, <2>4, CarriesTwo DEF Carries
  <2>6. Unlocked'
    BY <2>1, <2>2, <2>5 DEF Unlocked
  <2> QED BY <2>3, <2>6 DEF Wire
<1>4. CASE unlock_recv
  <2>1. c.pc = "unlock_recv" /\ Unlocked /\ ~h.scanning /\ UNCHANGED <<h, d, outq>>
    BY <1>4 DEF unlock_recv, Wire, LockInv
  <2>2. inq = <<>> => outq # <<>>
    BY <1>0, <2>1, CarriesOne DEF Unlocked, Carries
  <2>3. inq # <<>> => Carries(inq, "UNLOCK") /\ outq = <<>> /\ d.job = "none"
    BY <2>1 DEF Unlocked
  <2>4. inq # <<>> => Tail(inq) = <<>> /\ Head(inq) # Garbage
    BY <1>0, <2>3, CarriesOne DEF Garbage
  <2>5. Received
    BY <1>0, <1>4, <2>2, <2>4 DEF unlock_recv, RecvFails, ReceivedPart, Quiet
  <2>6. Calm'
    BY <2>1, <2>3, <2>4, <2>5 DEF Received, Calm
  <2>7. c'.pc = c.then
    BY <1>0, <1>4 DEF unlock_recv, CallStates
  <2> QED BY <1>0, <2>1, <2>6, <2>7, CalmOn DEF Thens
<1>5. CASE abort_sends
  <2>1. /\ c.pc = "abort" /\ Sent("ABORT", h.source)
        /\ c' = [c EXCEPT !.pc = "drain", !.n = 0] /\ UNCHANGED <<h, d, inq>>
    BY <1>0, <1>5 DEF abort_sends, SendFails
  <2>2. outq = <<>> /\ Rest(inq, d, 0)
    BY <2>1 DEF Wire, LockInv, Running
  <2>3. c'.pc = "drain" /\ c'.n = 0
    BY <1>0, <2>1 DEF CallStates
  <2> DEFINE r == [cmd |-> "ABORT", source |-> h.source]
  <2>4. outq' = Append(outq, r) /\ r.cmd = "ABORT" /\ r \in Requests
    BY <1>0, <2>1, CmdNames DEF Sent, Requests
  <2> HIDE DEF r
  <2>5. Carries(outq', "ABORT")
    BY <1>0, <2>2, <2>4, CarriesTwo
  <2>6. Draining'
    BY <2>1, <2>2, <2>3, <2>5 DEF Draining
  <2> QED BY <2>3, <2>6 DEF Wire
<1>6. c.pc = "drain" => Draining
  BY DEF Wire
<1>7. CASE drain_frame
  <2>1. /\ c.pc = "drain" /\ inq # <<>> /\ inq' = Tail(inq) /\ UNCHANGED <<d, outq>>
    BY <1>7 DEF drain_frame, Received
  <2>2. CASE EndsDrain(Head(inq).cmd)
    <3>1. /\ Tail(inq) = <<>> /\ d.job = "none"
          /\ Carries(outq, "ABORT") \/ outq = <<>>
      <4>1. ~Leftover(inq, c.n)
        BY <1>0, <2>1, <2>2, LeftoverShrinks
      <4> QED BY <1>0, <1>6, <2>1, <2>2, <4>1, RestShrinks DEF Draining
    <3>2. Unlocking'
      BY <2>1, <3>1 DEF Unlocking
    <3>3. Drained
      BY <1>7, <2>2 DEF drain_frame
    <3>4. h.locked
      BY <2>1 DEF LockInv
    <3>5. c'.pc = "unlock"
      BY <1>0, <3>3, <3>4 DEF Drained, unlock_device, Handles, CallStates
    <3> QED BY <3>2, <3>5 DEF Wire
  <2>3. CASE ~EndsDrain(Head(inq).cmd)
    <3>1. /\ \/ /\ Rest(Tail(inq), d, c.n + 1)
                /\ Carries(outq, "ABORT") \/ (outq = <<>> /\ d.job = "none")
             \/ Leftover(Tail(inq), c.n + 1) /\ outq = <<>> /\ d.job = "none"
          /\ c.n + 1 < MaxDrain
      BY <1>0, <1>6, <2>1, <2>3, RestShrinks, LeftoverShrinks DEF Draining
    <3>2. c' = [c EXCEPT !.n = @ + 1] /\ UNCHANGED h
      BY <1>0, <1>7, <2>3, <3>1, BoundsType DEF drain_frame
    <3>3. c'.pc = "drain" /\ c'.n = c.n + 1
      BY <1>0, <2>1, <3>2 DEF CallStates
    <3>4. Draining'
      BY <2>1, <3>1, <3>3 DEF Draining
    <3> QED BY <3>3, <3>4 DEF Wire
  <2> QED BY <2>2, <2>3
<1>8. CASE drain_breaks_off
  <2>1. c.pc = "drain" /\ RecvFails(Quiet) /\ Drained /\ UNCHANGED <<d, outq>>
    BY <1>0, <1>8 DEF drain_breaks_off, ReceivedPart
  (* The scanner fell silent: the drain gives up on an empty pipe. *)
  <2>2. CASE inq = <<>>
    <3>1. outq = <<>> /\ d.job = "none" /\ inq' = <<>>
      BY <1>0, <2>1, <2>2 DEF RecvFails, CutShort, Quiet
    <3>2. Unlocking'
      BY <2>1, <3>1 DEF Unlocking
    <3>3. h.locked
      BY <2>1 DEF LockInv
    <3>4. c'.pc = "unlock"
      BY <1>0, <2>1, <3>3 DEF Drained, unlock_device, Handles, CallStates
    <3> QED BY <3>2, <3>4 DEF Wire
  <2>3. CASE inq # <<>>
    <3>1. Head(inq).cmd \in Evts
      BY <1>0, <1>6, <2>1, <2>3, RestShrinks, LeftoverShrinks DEF Draining
    <3> QED BY <1>0, <2>1, <2>3, <3>1 DEF RecvFails, Garbage, Evts
  <2> QED BY <2>2, <2>3
<1>9. CASE read_cancelled
  <2>1. h'.scanning = h.scanning /\ c'.pc = "return"
    BY <1>0, <1>9 DEF read_cancelled, Returning, Handles, CallStates
  <2> QED BY <1>9, <2>1, StaysOn DEF read_cancelled, Transfers
<1> QED BY <1>1, <1>2, <1>3, <1>4, <1>5, <1>7, <1>8, <1>9 DEF TeardownStep

LEMMA StartWire ==
  ASSUME TypeOK, LockInv, Wire, StartStep, UNCHANGED faults
  PROVE  Wire'
<1>0. h \in Handles /\ c \in CallStates /\ faults \in Nat /\ ~Fault
  BY NoFault DEF TypeOK
<1>1. UNCHANGED <<d, outq, inq>>
  BY DEF StartStep, start_tests_cancelled, resume_job, start_busy, start_job, start_retry
<1>a. ASSUME NEW hh \in Handles, ~hh.scanning, Calm, NEW attempt, run_job(hh, attempt)
      PROVE  Wire'
  <2>1. ~h'.scanning /\ c'.pc = "send" /\ c'.cmd = "LOCK"
    BY <1>0, <1>a DEF run_job, Handles, CallStates
  <2>2. Calm'
    BY <1>1, <1>a DEF Calm
  <2> QED BY <2>1, <2>2, CalmOn
<1>b. ASSUME NEW st, Returning(st), h'.scanning = h.scanning, c.pc \notin Transfers
      PROVE  Wire'
  <2>1. c'.pc = "return"
    BY <1>0, <1>b DEF Returning, CallStates
  <2> QED BY <1>1, <1>b, <2>1, StaysOn DEF Transfers
<1>2. CASE start_tests_cancelled
  <2>1. c.pc \notin Transfers
    BY <1>2 DEF start_tests_cancelled, Transfers
  <2>2. CASE end_scan(c, "clear")
    BY <1>0, <1>1, <2>1, <2>2, EndScanStays DEF Thens
  <2>3. CASE c' = [c EXCEPT !.pc = "clear"] /\ UNCHANGED h
    <3>1. c'.pc = "clear"
      BY <1>0, <2>3 DEF CallStates
    <3> QED BY <1>1, <2>1, <2>3, <3>1, StaysOn DEF Transfers
  <2> QED BY <1>2, <2>2, <2>3 DEF start_tests_cancelled
<1>3. CASE resume_job
  <2>1. c'.pc = "loop" /\ h'.scanning = h.scanning
    BY <1>0, <1>3 DEF resume_job, Handles, CallStates
  <2> QED BY <1>1, <1>3, <2>1, StaysOn DEF resume_job, Transfers
<1>4. CASE start_busy
  BY <1>4, <1>b DEF start_busy, Transfers
<1>5. CASE start_job
  <2> DEFINE hh == [h EXCEPT !.cancelled = FALSE, !.eof = FALSE, !.lines = h.want]
  <2>1. hh \in Handles /\ ~hh.scanning
    BY <1>0, <1>5 DEF start_job, Handles
  <2>2. run_job(hh, 0)
    BY <1>0, <1>5 DEF start_job
  <2>3. Calm
    BY <1>5 DEF start_job, Wire
  <2> HIDE DEF hh
  <2> QED BY <1>a, <2>1, <2>2, <2>3
<1>6. CASE start_retry
  <2>1. c.pc = "retry" /\ ~h.scanning /\ Calm
    BY <1>6 DEF start_retry, LockInv, Wire
  <2>2. CASE run_job(h, c.attempt + 1)
    BY <1>0, <1>a, <2>1, <2>2
  <2>3. CASE \E st : Returning(st) /\ UNCHANGED h
    BY <1>b, <2>1, <2>3 DEF Transfers
  <2> QED BY <1>6, <2>2, <2>3 DEF start_retry
<1> QED BY <1>2, <1>3, <1>4, <1>5, <1>6 DEF StartStep

LEMMA PumpWire ==
  ASSUME TypeOK, LockInv, Bounded(d), Wire, pump_frame, UNCHANGED faults
  PROVE  Wire'
<1>0. /\ h \in Handles /\ c \in CallStates /\ inq \in Seq(Frames) /\ DeviceTypeOK
      /\ faults \in Nat /\ ~Fault /\ h.lines \in Nat /\ h.next_row \in Nat
  BY NoFault DEF TypeOK, Handles
<1>1. Waiting /\ c.pc = "loop" /\ h.scanning /\ outq = <<>> /\ Rest(inq, d, 0)
  BY DEF pump_frame, handle_data_block, pump_aborted, pump_job_end, pump_page_end,
     pump_other, pump_breaks_off, pump_idle, Pumping, Waiting, Wire, Running
<1>2. inq # <<>> =>
        /\ Head(inq).cmd \in Evts /\ Head(inq).body = "ok"
        /\ EndsDrain(Head(inq).cmd) => Tail(inq) = <<>> /\ d.job = "none"
        /\ ~EndsDrain(Head(inq).cmd) => Rest(Tail(inq), d, 0)
  BY <1>0, <1>1, RestShrinks
(* A frame that leaves the job running. *)
<1>a. ASSUME inq # <<>>, inq' = Tail(inq), UNCHANGED <<d, outq>>, ~EndsDrain(Head(inq).cmd),
             UNCHANGED c, h'.scanning
      PROVE  Wire'
  BY <1>1, <1>2, <1>a DEF Wire, Running
(* The frame that ends it. *)
<1>b. ASSUME inq # <<>>, inq' = Tail(inq), UNCHANGED <<d, outq>>, EndsDrain(Head(inq).cmd)
      PROVE  Calm'
  BY <1>1, <1>2, <1>b DEF Calm
<1>c. /\ [h EXCEPT !.scanning = FALSE] \in Handles
      /\ ~[h EXCEPT !.scanning = FALSE].scanning
  BY <1>0 DEF Handles
<1>d. ASSUME NEW next, NEW eof PROVE ~OutOfMemory(next, eof)
  BY <1>0 DEF OutOfMemory
<1>e. ASSUME NEW next \in Nat, next >= h.next_row
      PROVE  Appending(h, next) \in Handles /\ Appending(h, next).scanning
  <2>1. Appending(h, next) \in Handles
    BY <1>0, <1>e, AppendingType
  <2>2. Appending(h, next).scanning = h.scanning
    BY <1>0 DEF Appending, Handles
  <2> QED BY <1>1, <2>1, <2>2
<1> DEFINE white == emit_white_rows(h.next_row, h.lines, h.lines)
<1>f. white \in Nat /\ white >= h.next_row
  BY <1>0 DEF emit_white_rows, Upper, Lower
<1> HIDE DEF white
<1>3. CASE handle_data_block
  <2> DEFINE next == handle_rows(h.next_row, Head(inq).first, Head(inq).rows, h.lines)
  <2>1. /\ inq # <<>> /\ inq' = Tail(inq) /\ UNCHANGED <<d, outq>> /\ Head(inq).cmd = "DATA"
    BY <1>3 DEF handle_data_block, Pumping
  <2>2. h' = Appending(h, next) /\ UNCHANGED c
    BY <1>0, <1>2, <1>3, <1>d, <2>1 DEF handle_data_block
  <2>3. next \in Nat /\ next >= h.next_row
    BY <1>0, <2>1, HeadType, RowsForward
  <2> HIDE DEF next
  <2>4. h'.scanning
    BY <1>e, <2>2, <2>3
  <2> QED BY <1>a, <2>1, <2>2, <2>4 DEF EndsDrain
<1>4. CASE pump_aborted
  <2> DEFINE hh == [h EXCEPT !.scanning = FALSE]
             code == Head(inq).status
  <2>1. /\ inq # <<>> /\ inq' = Tail(inq) /\ UNCHANGED <<d, outq>> /\ Head(inq).cmd = "ABORTED"
    BY <1>4 DEF pump_aborted, Pumping
  <2>2. Calm' /\ code \in Nat
    BY <1>0, <1>b, <2>1, HeadType DEF EndsDrain
  <2>3. CASE unlock_device(hh, [c EXCEPT !.code = code], "retry")
    <3>1. [c EXCEPT !.code = code] \in CallStates
      BY <1>0, <2>2 DEF CallStates
    <3> HIDE DEF hh, code
    <3> QED BY <1>c, <2>2, <2>3, <3>1, UnlockCalm DEF hh, Thens
  <2>4. CASE \E st \in Statuses : GivingUp(hh, st)
    BY <1>0, <1>c, <2>2, <2>4, GivingUpCalm
  <2> QED BY <1>4, <2>3, <2>4, StatusNames, MapStatusType DEF pump_aborted
<1>5. CASE pump_job_end
  <2> DEFINE hh == [Appending(h, white) EXCEPT !.eof = TRUE, !.scanning = FALSE]
  <2>1. /\ inq # <<>> /\ inq' = Tail(inq) /\ UNCHANGED <<d, outq>> /\ Head(inq).cmd = "JOB_END"
    BY <1>5 DEF pump_job_end, Pumping
  <2>2. Calm'
    BY <1>b, <2>1 DEF EndsDrain
  <2>3. hh \in Handles /\ ~hh.scanning
    BY <1>e, <1>f DEF Handles
  <2>4. unlock_device(hh, c, "loop")
    BY <1>5, <1>d DEF pump_job_end, white
  <2> HIDE DEF hh
  <2> QED BY <1>0, <2>2, <2>3, <2>4, UnlockCalm DEF Thens
<1>6. CASE pump_page_end
  <2>1. /\ inq # <<>> /\ inq' = Tail(inq) /\ UNCHANGED <<d, outq>>
        /\ Head(inq).cmd = "PAGE_END" /\ UNCHANGED c
    BY <1>6, <1>d DEF pump_page_end, Pumping
  <2>2. h' = h \/ h' = [Appending(h, white) EXCEPT !.eof = TRUE, !.feeding = TRUE]
    BY <1>6, <1>d DEF pump_page_end, white
  <2>3. h'.scanning
    BY <1>1, <1>e, <1>f, <2>2 DEF Handles
  <2> QED BY <1>a, <2>1, <2>3 DEF EndsDrain
<1>7. CASE pump_other
  <2>1. /\ inq # <<>> /\ inq' = Tail(inq) /\ UNCHANGED <<d, outq, c, h>>
        /\ ~EndsDrain(Head(inq).cmd)
    BY <1>7 DEF pump_other, Received, EndsDrain
  <2> QED BY <1>1, <1>a, <2>1
<1>8. CASE pump_breaks_off
  <2>1. RecvFails(Quiet /\ ~Probing)
    BY <1>0, <1>8 DEF pump_breaks_off, ReceivedPart
  <2>2. CASE inq = <<>>
    BY <1>0, <1>1, <2>1, <2>2 DEF RecvFails, CutShort, Quiet, Rest
  <2>3. CASE inq # <<>>
    BY <1>0, <1>2, <2>1, <2>3 DEF RecvFails, Garbage, Evts
  <2> QED BY <2>2, <2>3
<1>9. CASE pump_idle
  <2>1. c'.pc = "return" /\ UNCHANGED <<h, d, outq, inq>>
    BY <1>0, <1>9 DEF pump_idle, Returning, CallStates
  <2> QED BY <1>1, <2>1, StaysOn DEF Transfers
<1> QED BY <1>3, <1>4, <1>5, <1>6, <1>7, <1>8, <1>9 DEF pump_frame

LEMMA ReturnWire ==
  ASSUME TypeOK, LockInv, Wire, first_rows \/ deliver \/ Return
  PROVE  Wire'
<1>0. h \in Handles /\ c \in CallStates
  BY DEF TypeOK
<1>1. UNCHANGED <<d, outq, inq>> /\ c.pc \notin Transfers
  BY DEF first_rows, deliver, Return, Transfers
<1>2. CASE first_rows \/ deliver
  <2>1. c'.pc = "return" /\ h'.scanning = h.scanning
    BY <1>0, <1>2 DEF first_rows, deliver, Returning, Handles, CallStates
  <2> QED BY <1>1, <2>1, StaysOn DEF Transfers
<1>3. CASE Return
  <2>1. c.pc = "return" /\ c'.pc = "idle"
    BY <1>3 DEF Return, NoCall
  <2>2. h'.scanning = h.scanning
    <3>1. CASE c.call = "close"
      <4>1. ~h.scanning /\ h' = NoHandle
        BY <1>3, <2>1, <3>1 DEF Return, LockInv
      <4> QED BY <1>0, <4>1 DEF NoHandle, Handles
    <3>2. CASE c.call # "close"
      BY <1>0, <1>3, <3>2 DEF Return, Handles
    <3> QED BY <3>1, <3>2
  <2> QED BY <1>1, <2>1, <2>2, StaysOn DEF Transfers
<1> QED BY <1>2, <1>3

LEMMA FrontendWire ==
  ASSUME TypeOK, LockInv, Wire, Frontend
  PROVE  Wire'
<1>0. h \in Handles /\ c \in CallStates
  BY DEF TypeOK
<1>1. UNCHANGED <<d, outq, inq>> /\ c.pc = "idle"
  BY DEF Frontend, sane_open, sane_close, sane_start, sane_read, sane_set_io_mode,
     control_option, get_parameters
<1>2. ASSUME NEW call \in Calls, NEW pc \in PCs
      PROVE  Entering(call, pc) \in CallStates /\ Entering(call, pc).pc = pc
  BY EnteringType DEF Entering, NoCall
<1>3. ASSUME c'.pc \notin Transfers \cup {"send"}, h'.scanning = h.scanning
      PROVE  Wire'
  BY <1>1, <1>3, StaysOn DEF Transfers
<1>4. ASSUME NEW cc \in CallStates, NEW then \in Thens, end_scan(cc, then)
      PROVE  Wire'
  BY <1>0, <1>1, <1>4, EndScanStays DEF Transfers
<1>5. CASE sane_open
  <2>1. ~h.scanning /\ h' = NoHandle /\ c'.pc = "flush"
    BY <1>2, <1>5, CallNames, PCNames DEF sane_open, LockInv
  <2>2. h'.scanning = h.scanning
    BY <1>0, <2>1 DEF NoHandle, Handles
  <2> QED BY <1>3, <2>1, <2>2 DEF Transfers
<1>6. CASE sane_close
  BY <1>2, <1>4, <1>6, CallNames, PCNames DEF sane_close, Thens
<1>7. CASE sane_start
  <2>1. c'.pc = "test" /\ h' = h
    BY <1>2, <1>7, CallNames, PCNames DEF sane_start
  <2> QED BY <1>3, <2>1 DEF Transfers
<1>8. CASE sane_read
  <2>1. CASE end_scan(Entering("read", "cancelled"), "cancelled")
    BY <1>2, <1>4, <2>1, CallNames, PCNames DEF Thens
  <2>2. CASE c' = Entering("read", "loop") /\ UNCHANGED h
    <3>1. c'.pc = "loop" /\ h' = h
      BY <1>2, <2>2, CallNames, PCNames
    <3> QED BY <1>3, <3>1 DEF Transfers
  <2> QED BY <1>8, <2>1, <2>2 DEF sane_read
<1>9. CASE sane_set_io_mode \/ control_option \/ get_parameters
  <2>1. h'.scanning = h.scanning /\ c' = c
    BY <1>0, <1>9 DEF sane_set_io_mode, control_option, get_parameters, Handles
  <2> QED BY <1>1, <1>3, <2>1 DEF Transfers
<1> QED BY <1>5, <1>6, <1>7, <1>8, <1>9 DEF Frontend

LEMMA CancelWire == TypeOK /\ Wire /\ sane_cancel => Wire'
<1> SUFFICES ASSUME TypeOK, Wire, sane_cancel PROVE Wire'
  OBVIOUS
<1>1. h'.scanning = h.scanning /\ UNCHANGED <<c, d, outq, inq>>
  BY DEF sane_cancel, TypeOK, Handles
<1> QED BY <1>1 DEF Wire, Running, Calm, Asked, Draining, Unlocking, Unlocked

(* Paper goes in between two jobs, when nothing of one is ahead. *)
LEMMA PaperWire == TypeOK /\ Wire /\ LoadPaper /\ UNCHANGED <<h, c>> => Wire'
<1> SUFFICES ASSUME TypeOK, Wire, LoadPaper, UNCHANGED <<h, c>> PROVE Wire'
  OBVIOUS
<1>1. d.job = "none" /\ d'.job = "none" /\ UNCHANGED <<outq, inq>>
  BY DEF LoadPaper, TypeOK, DeviceTypeOK
<1>2. Ahead(d) = 0 /\ Ahead(d') = 0
  BY <1>1 DEF Ahead
<1>3. ASSUME NEW q, NEW n, Rest(q, d, n) PROVE Rest(q, d', n)
  BY <1>1, <1>2, <1>3 DEF Rest
<1>4. (Running => Running') /\ (Calm => Calm')
  BY <1>1, <1>3 DEF Running, Calm
<1>5. (Draining => Draining') /\ (Unlocking => Unlocking') /\ (Unlocked => Unlocked')
  BY <1>1, <1>3 DEF Draining, Unlocking, Unlocked
<1>6. Asked(c.cmd) => Asked(c.cmd)'
  BY <1>1, <1>3 DEF Asked
<1> QED BY <1>4, <1>5, <1>6 DEF Wire

LEMMA CleanInit == Init => CleanInv
<1> SUFFICES ASSUME Init PROVE CleanInv
  OBVIOUS
<1>1. /\ d.job = "none" /\ d.blocks = 0 /\ d.sheets \in 0..MaxSheets
  BY DEF Init, DeviceInit
<1>2. Bounded(d) /\ faults <= MaxFaults
  BY <1>1, BoundsType DEF Bounded, Init, WireInit
<1>3. Wire
  BY <1>1 DEF Init, WireInit, NoCall, NoHandle, Wire, Calm
<1> QED BY <1>2, <1>3 DEF CleanInv

LEMMA CleanNext ==
  DrainOutlasts /\ TypeOK /\ LockInv /\ CleanInv /\ [Next]_vars => CleanInv'
<1> SUFFICES ASSUME DrainOutlasts, TypeOK, LockInv, CleanInv, [Next]_vars PROVE CleanInv'
  OBVIOUS
<1>0. TypeOK' /\ Bounded(d) /\ Bounded(d)' /\ faults \in Nat /\ faults' \in Nat
  BY TypeNext, BoundedNext DEF CleanInv, TypeOK
<1>1. UNCHANGED faults \/ Fault
  BY FaultsOnlyPaid
<1>2. CASE Fault
  BY <1>0, <1>2, BoundsType DEF Fault, CleanInv
<1>3. CASE UNCHANGED faults
  <2>1. faults = MaxFaults /\ Wire => Wire'
    <3> SUFFICES ASSUME Wire PROVE Wire'
      OBVIOUS
    <3>0. ~Fault
      BY <1>0, <1>3, NoFault
    <3>1. CASE Frontend
      BY <3>1, FrontendWire
    <3>2. CASE Backend
      BY <1>0, <1>3, <3>2, CommandWire, TeardownWire, StartWire, PumpWire, ReturnWire
         DEF Backend, CommandStep, TeardownStep, StartStep
    <3>3. CASE sane_cancel \/ crash
      BY <3>0, <3>3, CancelWire DEF crash
    <3>4. CASE Device
      BY <1>0, <1>3, <3>4, DeviceWire DEF Device
    <3>5. CASE LoadPaper /\ UNCHANGED <<h, c>>
      BY <3>5, PaperWire
    <3>6. CASE UNCHANGED vars
      <4>1. UNCHANGED <<h, c, d, outq, inq>>
        BY <3>6 DEF vars
      <4> QED BY <4>1 DEF Wire, Running, Calm, Asked, Draining, Unlocking, Unlocked
    <3> QED BY <3>1, <3>2, <3>3, <3>4, <3>5, <3>6 DEF Next
  <2> QED BY <1>0, <1>3, <2>1 DEF CleanInv
<1> QED BY <1>1, <1>2, <1>3

(* While nothing has failed, the frame command reads first is the answer to  *)
(* its own request, and neither the request nor another answer of that name  *)
(* is left behind it: what AdfReplyInStep and StartAckIsFresh say, and what  *)
(* a fault takes away from the first of them (session_stale_ack).            *)
AnswerInStep ==
  c.pc = "recv" /\ inq # <<>> /\ faults = MaxFaults
    => /\ Acks(Head(inq)) /\ outq = <<>>
       /\ \A i \in DOMAIN Tail(inq) : Tail(inq)[i].cmd # c.cmd

LEMMA CleanInvariant ==
  ASSUME DrainOutlasts
  PROVE  Spec => [](CleanInv /\ LockInv /\ TypeOK)
<1>1. CleanInv /\ TypeOK /\ LockInv /\ [Next]_vars => CleanInv'
  BY CleanNext
<1> QED BY <1>1, CleanInit, LockInvariant, PTL DEF Spec

(* AnswerInStep: without a fault command never steps over a frame, and the   *)
(* acknowledgement that starts the job is the one of this job's CMD_START.   *)
THEOREM AnswerInStepHolds ==
  ASSUME DrainOutlasts
  PROVE  Spec => []AnswerInStep
<1>1. CleanInv /\ TypeOK => AnswerInStep
  <2> SUFFICES ASSUME CleanInv, TypeOK, c.pc = "recv", inq # <<>>, faults = MaxFaults
               PROVE  /\ Acks(Head(inq)) /\ outq = <<>>
                      /\ \A i \in DOMAIN Tail(inq) : Tail(inq)[i].cmd # c.cmd
    BY DEF AnswerInStep
  <2>1. /\ Head(inq).cmd = c.cmd /\ outq = <<>>
        /\ Rest(Tail(inq), d, 0) \/ Tail(inq) = <<>>
    BY DEF CleanInv, Wire, Asked
  <2>2. c.cmd \in Cmds /\ c.cmd \notin Evts
    <3>1. c.cmd \in Cmds
      BY DEF TypeOK, CallStates
    <3> QED BY <3>1 DEF Cmds, Evts
  <2>3. ASSUME NEW i \in DOMAIN Tail(inq) PROVE Tail(inq)[i].cmd # c.cmd
    <3> DEFINE t == Tail(inq)
    <3>1. t = <<>> => DOMAIN t = {}
      OBVIOUS
    <3>2. t # <<>> => t[i].cmd \in Evts
      BY <2>1 DEF Rest
    <3> HIDE DEF t
    <3>3. i \in DOMAIN t
      BY DEF t
    <3> QED BY <2>2, <3>1, <3>2, <3>3 DEF t
  <2> QED BY <2>1, <2>3 DEF Acks
<1> QED BY <1>1, CleanInvariant, PTL

(* CleanBoundary: when nothing goes wrong, an idle handle without a job has  *)
(* both pipes empty, however often and wherever the calls were cancelled,    *)
(* provided that the frames end_scan reads (4096, src/src/pantum.c:1832) are *)
(* at least those of the longest job.                                        *)
THEOREM CleanBoundaryHolds ==
  ASSUME DrainOutlasts
  PROVE  Spec => []CleanBoundary
<1>1. CleanInv /\ LockInv => CleanBoundary
  BY DEF CleanInv, Wire, Calm, CleanBoundary
<1> QED BY <1>1, CleanInvariant, PTL
=============================================================================
