------------------------- MODULE SessionContractProofs -------------------------
(***************************************************************************)
(* Proofs that ScanSession keeps SaneContract, for every value of its      *)
(* constants: where a call can be, what it is about to answer and how the  *)
(* rows of the page are counted form one inductive invariant (CallInv),    *)
(* and under it every step of the session is a step of the contract, or    *)
(* none.                                                                   *)
(***************************************************************************)
EXTENDS SessionContract, ScanSessionProofs

(* Where a call can be, and what it is going on to, at each of its points.   *)
PlaceInv ==
  /\ c.pc = "flush" => c.call = "open"
  /\ c.pc \in {"send", "recv"} =>
       /\ c.call \in {"open", "start"}
       /\ c.call = "open" => c.cmd \in {"LOCK", "ADF_STATUS"}
  /\ c.pc \in {"test", "clear", "retry"} => c.call = "start"
  /\ c.pc = "loop" => c.call \in {"start", "resume", "read"}
  /\ c.pc \in {"abort", "drain"} => c.then \in {"return", "clear", "cancelled"}
  /\ c.pc \in {"abort", "drain"} /\ c.then = "return" => c.call = "close"
  /\ c.pc \in {"abort", "drain"} /\ c.then = "clear" => c.call = "start"
  /\ c.pc \in {"unlock", "unlock_recv"} =>
       /\ c.then = "loop" => c.call \in {"start", "resume", "read"}
       /\ c.then \in {"clear", "retry"} => c.call = "start"
  /\ c.then = "cancelled" =>
       /\ c.call = "read"
       /\ c.pc \in {"abort", "drain", "unlock", "unlock_recv", "cancelled",
                    "return"}
  /\ c.pc = "cancelled" => c.then = "cancelled"
  /\ c.call = "open" => ~h.scanning /\ ~h.open
  /\ c.pc = "idle" <=> c.call = "none"

(* What a call is about to answer.  A status is decided together with the    *)
(* fate of the job, but returned only after the unlock.                      *)
AnswerInv ==
  /\ c.st = "CANCELLED" => c.then = "cancelled" /\ c.pc = "return"
  /\ c.then = "cancelled" =>
       c.st = IF c.pc = "return" THEN "CANCELLED" ELSE "GOOD"
  /\ c.st = "EOF" => c.call = "read" /\ c.pc = "return" /\ h.eof /\ h.out = 0
  /\ c.st \notin {"GOOD", "EOF"} =>
       \/ ~h.locked /\ ~h.scanning /\ ~h.feeding
       \/ c.call = "start" /\ c.st = "DEVICE_BUSY"
  /\ c.st \notin {"GOOD", "EOF", "CANCELLED"} =>
       \/ c.pc = "return"
       \/ c.pc \in {"unlock", "unlock_recv"} /\ c.then = "return"
  /\ c.pc \in {"unlock", "unlock_recv"} /\ c.then = "return"
       /\ c.call \in {"start", "resume", "read"} => c.st # "GOOD"
  /\ c.call \in {"none", "open", "close"} => c.st = "GOOD"

(* The rows of the page so far, out of n.                                    *)
Filled(n) == h.next_row <= n /\ (h.eof \/ ~h.scanning => h.next_row = n)

(* A start has a job running, or has had it to its end.                      *)
Filling ==
  /\ c.call \in {"start", "resume"}
  /\ \/ c.pc = "loop"
     \/ c.pc \in {"unlock", "unlock_recv"} /\ c.then = "loop"
     \/ c.pc = "return" /\ c.st = "GOOD"

Failing ==
  \/ c.call = "close"
  \/ c.call = "read" /\ (c.then = "cancelled" \/ c.st \notin {"GOOD", "EOF"})

PageInv ==
  /\ h.lines \in 1..MaxLines /\ h.want \in 1..MaxLines
  /\ c.call = "start" /\ c.pc \in {"send", "recv"} =>
       h.next_row = 0 /\ h.out = 0 /\ ~h.eof
  /\ h.scanning /\ h.eof => source_is_adf
  /\ Filling => h.out = h.next_row /\ Filled(h.lines)
  /\ ~g.ok => g.promised = 0 /\ g.given = 0
  /\ g.ok =>
       /\ h.open /\ c.call \in {"none", "read", "close"}
       /\ g.promised \in 1..MaxLines /\ g.given <= g.promised
  /\ g.ok /\ ~Failing =>
       /\ h.next_row = g.given + h.out
       /\ Filled(g.promised)
       /\ h.scanning => h.lines = g.promised

CallInv == PlaceInv /\ AnswerInv /\ PageInv

LEMMA CallInit == Init => CallInv
  BY SessionAssumption
  DEF Init, CallInv, PlaceInv, AnswerInv, PageInv, NoHandle, NoCall,
      NoHistory, Filling, Failing

(* What of the history the invariant reads.                                  *)
SamePage == g'.ok = g.ok /\ g'.promised = g.promised /\ g'.given = g.given

LEMMA MapStatusFails ==
  \A s : s # 0 => map_status(s) \notin {"GOOD", "EOF", "CANCELLED"}
  BY DEF map_status

(* What GivingUp does, field by field.                                       *)
LEMMA GivingUpDoes ==
  ASSUME NEW hh \in Handles, c \in CallStates, NEW st \in Statuses,
         GivingUp(hh, st)
  PROVE  /\ c'.st = st /\ c'.then = "return" /\ c'.call = c.call
         /\ c'.pc = IF hh.locked THEN "unlock" ELSE "return"
         /\ ~h'.locked /\ ~h'.feeding
         /\ h'.scanning = hh.scanning /\ h'.lines = hh.lines
         /\ h'.want = hh.want /\ h'.open = hh.open
<1>1. [c EXCEPT !.st = st] \in CallStates
  BY DEF CallStates
<1> QED
  BY <1>1 DEF GivingUp, unlock_device, Handles, CallStates

(* Giving up with no job left keeps the invariant: a probe is answered GOOD, *)
(* and everything else with an error.                                        *)
LEMMA GivingUpCall ==
  ASSUME h \in Handles, c \in CallStates, NEW hh \in Handles,
         NEW st \in Statuses, GivingUp(hh, st), CallInv, SamePage,
         ~hh.scanning, hh.lines = h.lines, hh.want = h.want,
         hh.open = h.open,
         \/ c.call = "open" /\ st = "GOOD"
         \/ /\ c.call \in {"start", "resume", "read"}
            /\ st \notin {"GOOD", "EOF", "CANCELLED"}
  PROVE  CallInv'
<1>1. /\ c'.st = st /\ c'.then = "return" /\ c'.call = c.call
      /\ c'.pc \in {"unlock", "return"}
      /\ ~h'.locked /\ ~h'.feeding /\ ~h'.scanning
      /\ h'.lines = h.lines /\ h'.want = h.want /\ h'.open = h.open
  BY GivingUpDoes
<1>2. PlaceInv'
  BY <1>1 DEF CallInv, PlaceInv
<1>3. AnswerInv'
  BY <1>1 DEF CallInv, AnswerInv
<1>4. PageInv'
  BY <1>1 DEF CallInv, PageInv, SamePage, Filling, Failing
<1> QED
  BY <1>2, <1>3, <1>4 DEF CallInv

(* The rows of a handle do not change, whatever else does.                   *)
SameRows ==
  /\ h'.lines = h.lines /\ h'.want = h.want /\ h'.open = h.open
  /\ h'.next_row = h.next_row /\ h'.out = h.out /\ h'.eof = h.eof
  /\ h'.source = h.source

LEMMA UnlockDoes ==
  ASSUME NEW hh \in Handles, NEW cc \in CallStates, NEW then \in PCs,
         unlock_device(hh, cc, then)
  PROVE  /\ c'.st = cc.st /\ c'.then = then /\ c'.call = cc.call
         /\ c'.pc = IF hh.locked THEN "unlock" ELSE then
         /\ h'.locked = FALSE /\ h'.feeding = FALSE
         /\ h'.scanning = hh.scanning
         /\ h'.lines = hh.lines /\ h'.want = hh.want /\ h'.open = hh.open
         /\ h'.next_row = hh.next_row /\ h'.out = hh.out /\ h'.eof = hh.eof
         /\ h'.source = hh.source
  BY DEF unlock_device, Handles, CallStates

(* end_scan aborts the job, or has none to abort.                            *)
LEMMA EndScanDoes ==
  ASSUME h \in Handles, NEW cc \in CallStates, NEW then \in PCs, LockInv,
         c.pc \notin {"send", "recv"}, end_scan(cc, then)
  PROVE  /\ c'.st = cc.st /\ c'.then = then /\ c'.call = cc.call
         /\ c'.pc = IF h.scanning THEN "abort" ELSE then
         /\ h'.scanning = h.scanning
         /\ h'.locked = h.locked /\ (h'.feeding => h.feeding)
         /\ SameRows
<1>1. CASE h.scanning
  BY <1>1 DEF end_scan, CallStates, SameRows
<1>2. CASE ~h.scanning
  <2>1. unlock_device(h, cc, then) /\ h.locked = FALSE
    BY <1>2 DEF end_scan, LockInv, Handles
  <2> QED
    BY <1>2, <2>1, UnlockDoes DEF SameRows
<1> QED
  BY <1>1, <1>2

LEMMA EnteringDoes ==
  ASSUME NEW call \in Calls, NEW pc \in PCs
  PROVE  /\ Entering(call, pc) \in CallStates
         /\ Entering(call, pc).call = call /\ Entering(call, pc).pc = pc
         /\ Entering(call, pc).then = "return"
         /\ Entering(call, pc).st = "GOOD"
  BY EnteringType DEF Entering, NoCall

LEMMA CallFrontend ==
  TypeOK /\ OpenInv /\ LockInv /\ CallInv /\ Frontend => CallInv'
<1> SUFFICES ASSUME TypeOK, OpenInv, LockInv, CallInv, Frontend PROVE CallInv'
  OBVIOUS
<1>0. /\ h \in Handles /\ c \in CallStates /\ c.pc = "idle"
      /\ c.call = "none" /\ c.st = "GOOD" /\ c.then # "cancelled"
  BY DEF TypeOK, Frontend, sane_open, sane_close, sane_start, sane_read,
     sane_set_io_mode, control_option, get_parameters, CallInv, PlaceInv,
     AnswerInv
<1>1. CASE sane_open
  <2>1. /\ c'.call = "open" /\ c'.pc = "flush" /\ c'.then = "return"
        /\ c'.st = "GOOD" /\ h' = NoHandle /\ SamePage /\ ~g.ok
    BY <1>1, EnteringDoes, CallNames, PCNames
       DEF sane_open, SamePage, CallInv, PageInv
  <2> QED
    BY <2>1, SessionAssumption
       DEF CallInv, PlaceInv, AnswerInv, PageInv, NoHandle, SamePage, Filling
<1>2. CASE sane_close
  <2>1. /\ c'.call = "close" /\ c'.then = "return" /\ c'.st = "GOOD"
        /\ c'.pc = IF h.scanning THEN "abort" ELSE "return"
        /\ h'.scanning = h.scanning /\ SameRows /\ SamePage
    BY <1>0, <1>2, EnteringDoes, EndScanDoes, CallNames, PCNames
       DEF sane_close, SamePage
  <2>2. PlaceInv' /\ AnswerInv'
    BY <1>0, <2>1 DEF CallInv, PlaceInv, AnswerInv, SameRows
  <2>3. PageInv'
    BY <1>0, <2>1 DEF CallInv, PageInv, SameRows, SamePage, Filling, Failing,
       source_is_adf
  <2> QED
    BY <2>2, <2>3 DEF CallInv
<1>3. CASE sane_start
  <2>1. /\ c'.call = "start" /\ c'.pc = "test" /\ c'.then = "return"
        /\ c'.st = "GOOD" /\ h' = h
        /\ ~g'.ok /\ g'.promised = 0 /\ g'.given = 0
    BY <1>3, EnteringDoes, CallNames, PCNames DEF sane_start, NoHistory
  <2> QED
    BY <2>1 DEF CallInv, PlaceInv, AnswerInv, PageInv, Filling, source_is_adf
<1>4. CASE sane_read
  <2>1. CASE h.cancelled
    <3>1. /\ c'.call = "read" /\ c'.then = "cancelled" /\ c'.st = "GOOD"
          /\ c'.pc = IF h.scanning THEN "abort" ELSE "cancelled"
          /\ h'.scanning = h.scanning /\ SameRows /\ SamePage
      BY <1>0, <1>4, <2>1, EnteringDoes, EndScanDoes, CallNames, PCNames
         DEF sane_read, SamePage
    <3>2. PlaceInv' /\ AnswerInv'
      BY <1>0, <3>1 DEF CallInv, PlaceInv, AnswerInv, SameRows
    <3>3. PageInv'
      BY <1>0, <3>1 DEF CallInv, PageInv, SameRows, SamePage, Filling,
         Failing, source_is_adf
    <3> QED
      BY <3>2, <3>3 DEF CallInv
  <2>2. CASE ~h.cancelled
    <3>1. /\ c'.call = "read" /\ c'.pc = "loop" /\ c'.then = "return"
          /\ c'.st = "GOOD" /\ h' = h /\ SamePage
      BY <1>4, <2>2, EnteringDoes, CallNames, PCNames DEF sane_read, SamePage
    <3> QED
      BY <1>0, <1>4, <3>1 DEF sane_read, CallInv, PlaceInv, AnswerInv, PageInv,
         SamePage, Filling, Failing, source_is_adf, Filled
  <2> QED
    BY <2>1, <2>2
<1>5. CASE sane_set_io_mode \/ control_option \/ get_parameters
  <2>1. /\ c' = c /\ SamePage
        /\ h'.scanning = h.scanning /\ h'.locked = h.locked
        /\ h'.feeding = h.feeding /\ h'.open = h.open
        /\ h'.next_row = h.next_row /\ h'.out = h.out /\ h'.eof = h.eof
        /\ h.scanning => h'.source = h.source /\ h'.lines = h.lines
    BY <1>0, <1>5 DEF sane_set_io_mode, control_option, get_parameters,
       Handles, SamePage
  <2>2. h'.want \in 1..MaxLines /\ h'.lines \in 1..MaxLines
    BY <1>0, <1>5, SessionAssumption DEF sane_set_io_mode, control_option,
       get_parameters, Handles, CallInv, PageInv
  <2>3. PlaceInv' /\ AnswerInv'
    BY <1>0, <2>1 DEF CallInv, PlaceInv, AnswerInv
  <2>4. PageInv'
    BY <1>0, <2>1, <2>2 DEF CallInv, PageInv, SamePage, Filling, Failing,
       source_is_adf, Filled
  <2> QED
    BY <2>3, <2>4 DEF CallInv
<1> QED
  BY <1>1, <1>2, <1>3, <1>4, <1>5 DEF Frontend

-----------------------------------------------------------------------------
(* The exchange of one command. *)

LEMMA CommandFailedCall ==
  ASSUME h \in Handles, c \in CallStates, NEW st \in Statuses, NEW status,
         LockInv, CallInv, SamePage, c.pc \in {"send", "recv"},
         st \notin {"GOOD", "EOF", "CANCELLED"}, CommandFailed(st, status)
  PROVE  CallInv'
<1>0. c.call \in {"open", "start"} /\ ~h.scanning
  BY DEF CallInv, PlaceInv, LockInv
<1>1. CASE c.call = "open" /\ GivingUp(h, "GOOD")
  BY <1>0, <1>1, GivingUpCall, StatusNames
<1>2. CASE c.call # "open" /\ (GivingUp(h, "DEVICE_BUSY") \/ GivingUp(h, st))
  BY <1>0, <1>2, GivingUpCall, StatusNames
<1>3. CASE /\ h' = [h EXCEPT !.locked = TRUE]
           /\ c' = [c EXCEPT !.pc = "send", !.n = 0, !.tries = @ + 1]
  <2>1. /\ c'.pc = "send" /\ c'.then = c.then /\ c'.call = c.call
        /\ c'.st = c.st /\ c'.cmd = c.cmd /\ SameRows
        /\ h'.scanning = h.scanning /\ h'.feeding = h.feeding
    BY <1>3 DEF Handles, CallStates, SameRows
  <2>2. PlaceInv' /\ AnswerInv'
    BY <1>0, <2>1 DEF CallInv, PlaceInv, AnswerInv, SameRows
  <2>3. PageInv'
    BY <1>0, <2>1 DEF CallInv, PageInv, SameRows, SamePage, Filling, Failing,
       source_is_adf
  <2> QED
    BY <2>2, <2>3 DEF CallInv
<1> QED
  BY <1>0, <1>1, <1>2, <1>3 DEF CommandFailed

LEMMA CommandingCall ==
  ASSUME c \in CallStates, NEW cmd, CallInv, SamePage, Commanding(cmd),
         UNCHANGED h, c.pc = "recv", c.call = "open" => cmd = "ADF_STATUS"
  PROVE  CallInv'
<1>1. /\ c'.pc = "send" /\ c'.then = c.then /\ c'.call = c.call
      /\ c'.st = c.st /\ c'.cmd = cmd
  BY DEF Commanding, CallStates
<1> QED
  BY <1>1 DEF CallInv, PlaceInv, AnswerInv, PageInv, SamePage, Filling,
     Failing, source_is_adf, Filled

LEMMA CallCommand == TypeOK /\ LockInv /\ CallInv /\ CommandStep => CallInv'
<1> SUFFICES ASSUME TypeOK, LockInv, CallInv, CommandStep PROVE CallInv'
  OBVIOUS
<1>0. /\ h \in Handles /\ c \in CallStates /\ SamePage
      /\ c.pc \in {"send", "recv"} /\ c.call \in {"open", "start"}
      /\ ~h.scanning /\ c.then # "cancelled" /\ c.st = "GOOD"
  BY DEF TypeOK, CommandStep, command_sends, command_acked, command_skips,
     command_breaks_off, SamePage, CallInv, PlaceInv, AnswerInv, LockInv
<1>1. ASSUME NEW status, CommandFailed("IO_ERROR", status) PROVE CallInv'
  BY <1>0, <1>1, CommandFailedCall, StatusNames
<1>2. ASSUME NEW pc \in {"send", "recv"}, NEW n,
             c' = [c EXCEPT !.pc = pc, !.n = n], UNCHANGED h
      PROVE  CallInv'
  <2>1. /\ c'.pc = pc /\ c'.then = c.then /\ c'.call = c.call
        /\ c'.st = c.st /\ c'.cmd = c.cmd
    BY <1>0, <1>2 DEF CallStates
  <2> QED
    BY <1>0, <1>2, <2>1 DEF CallInv, PlaceInv, AnswerInv, PageInv, SamePage,
       Filling, Failing, source_is_adf, Filled
<1>3. CASE command_sends
  <2>1. CASE c' = [c EXCEPT !.pc = "recv"] /\ UNCHANGED h
    <3>1. c' = [c EXCEPT !.pc = "recv", !.n = c.n]
      BY <1>0, <2>1 DEF CallStates
    <3> QED
      BY <1>2, <2>1, <3>1
  <2> QED
    BY <1>1, <1>3, <2>1 DEF command_sends
<1>4. CASE command_acked
  <2> DEFINE f == Head(inq)
  <2>1. CASE check_adf(f) /\ c.pc = "recv"
    <3>1. /\ [h EXCEPT !.has_adf = f.status = 0] \in Handles
          /\ [h EXCEPT !.has_adf = f.status = 0].scanning = h.scanning
          /\ [h EXCEPT !.has_adf = f.status = 0].lines = h.lines
          /\ [h EXCEPT !.has_adf = f.status = 0].want = h.want
          /\ [h EXCEPT !.has_adf = f.status = 0].open = h.open
      BY <1>0 DEF Handles
    <3>2. CASE /\ c.call = "open"
               /\ GivingUp([h EXCEPT !.has_adf = f.status = 0], "GOOD")
      BY <1>0, <3>1, <3>2, GivingUpCall, StatusNames
    <3>3. CASE /\ c.call # "open"
               /\ GivingUp(h, "UNSUPPORTED") \/ GivingUp(h, "NO_DOCS")
      BY <1>0, <3>3, GivingUpCall, StatusNames
    <3>4. CASE /\ c.call # "open"
               /\ Commanding("SET_DEFAULTS") /\ UNCHANGED h
      BY <1>0, <2>1, <3>4, CommandingCall
    <3> QED
      BY <2>1, <3>2, <3>3, <3>4 DEF check_adf
  <2>2. CASE f.status # 0 /\ CommandFailed(map_status(f.status), f.status)
    BY <1>0, <2>2, CommandFailedCall, MapStatusType, MapStatusFails
  <2>3. CASE CommandDone /\ c.pc = "recv" /\ c.cmd # "ADF_STATUS"
    <3>0. /\ c.call = "open" => c.cmd = "LOCK"
          /\ c.call = "open" => NextCommand(c.cmd) = "ADF_STATUS"
      BY <2>3 DEF CallInv, PlaceInv, NextCommand
    <3>1. CASE Commanding(NextCommand(c.cmd)) /\ UNCHANGED h
      BY <1>0, <2>3, <3>0, <3>1, CommandingCall
    <3>2. CASE /\ c.call = "start"
               /\ h' = [h EXCEPT !.scanning = TRUE]
               /\ c' = [c EXCEPT !.pc = "loop", !.n = 0]
      <4>1. /\ c'.pc = "loop" /\ c'.then = c.then /\ c'.call = c.call
            /\ c'.st = c.st /\ h'.scanning /\ SameRows
            /\ h'.locked = h.locked /\ h'.feeding = h.feeding
        BY <1>0, <3>2 DEF Handles, CallStates, SameRows
      <4>2. h.lines \in Nat
        BY <1>0 DEF Handles
      <4> QED
        BY <1>0, <2>3, <3>2, <4>1, <4>2 DEF CallInv, PlaceInv, AnswerInv,
           PageInv, SameRows, SamePage, Filling, Filled, source_is_adf
    <3> QED
      BY <1>0, <2>3, <3>0, <3>1, <3>2 DEF CommandDone
  <2> QED
    BY <1>1, <1>4, <2>1, <2>2, <2>3 DEF command_acked
<1>5. CASE command_skips
  <2>1. CASE c' = [c EXCEPT !.n = @ + 1] /\ UNCHANGED h
    <3>1. c' = [c EXCEPT !.pc = c.pc, !.n = c.n + 1]
      BY <1>0, <2>1 DEF CallStates
    <3> QED
      BY <1>0, <1>2, <2>1, <3>1
  <2> QED
    BY <1>1, <1>5, <2>1 DEF command_skips
<1>6. CASE command_breaks_off
  BY <1>1, <1>6 DEF command_breaks_off
<1> QED
  BY <1>3, <1>4, <1>5, <1>6 DEF CommandStep

-----------------------------------------------------------------------------
(* flush_input, the unlock and the drain. *)

(* A step that only moves the call on from c.pc to pc.                       *)
LEMMA MovingCall ==
  ASSUME c \in CallStates, CallInv, LockInv, SamePage, UNCHANGED h,
         NEW pc, c'.pc = pc, c'.then = c.then, c'.call = c.call,
         c'.st = c.st, c'.cmd = c.cmd,
         \/ pc = c.pc
         \/ c.pc = "unlock" /\ pc = "unlock_recv"
         \/ c.pc \in {"unlock", "unlock_recv"} /\ pc = c.then
              /\ c.then # "cancelled"
         \/ c.pc \in {"unlock", "unlock_recv"} /\ pc = "cancelled"
              /\ c.then = "cancelled"
         \/ c.pc = "abort" /\ pc = "drain"
  PROVE  CallInv'
<1>1. c.then \in Thens
  BY DEF LockInv
<1>2. PlaceInv'
  BY <1>1 DEF CallInv, PlaceInv, Thens
<1>3. AnswerInv'
  BY <1>1 DEF CallInv, PlaceInv, AnswerInv, Thens
<1>4. PageInv'
  BY <1>1 DEF CallInv, PlaceInv, AnswerInv, PageInv, SamePage, Filling,
     Failing, source_is_adf, Filled, Thens
<1> QED
  BY <1>2, <1>3, <1>4 DEF CallInv

LEMMA CallTeardown == TypeOK /\ LockInv /\ CallInv /\ TeardownStep => CallInv'
<1> SUFFICES ASSUME TypeOK, LockInv, CallInv, TeardownStep PROVE CallInv'
  OBVIOUS
<1>0. /\ h \in Handles /\ c \in CallStates /\ c.then \in PCs
      /\ c.then \in Thens /\ g \in Histories
  BY DEF TypeOK, CallStates, LockInv
<1>1. CASE Flushes
  <2>1. /\ c'.pc = c.pc /\ c'.then = c.then /\ c'.call = c.call
        /\ c'.st = c.st /\ c'.cmd = c.cmd /\ SamePage /\ UNCHANGED h
    BY <1>0, <1>1 DEF Flushes, CallStates, SamePage
  <2> QED
    BY <1>0, <2>1, MovingCall
<1>2. CASE probe_adf
  <2>1. /\ c'.pc = "send" /\ c'.then = c.then /\ c'.call = c.call
        /\ c'.st = c.st /\ c'.cmd = "LOCK" /\ SamePage /\ SameRows
        /\ h'.scanning = h.scanning /\ h'.feeding = h.feeding
        /\ c.pc = "flush" /\ c.call = "open"
    BY <1>0, <1>2 DEF probe_adf, Commanding, Handles, CallStates, SamePage,
       SameRows, CallInv, PlaceInv
  <2> QED
    BY <2>1 DEF CallInv, PlaceInv, AnswerInv, PageInv, SameRows, SamePage,
       Filling, source_is_adf
<1>3. CASE unlock_sends \/ unlock_recv
  <2>1. /\ c'.pc \in {"unlock_recv", c.then} /\ c'.then = c.then
        /\ c'.call = c.call /\ c'.st = c.st /\ c'.cmd = c.cmd
        /\ SamePage /\ UNCHANGED h
        /\ \/ c.pc = "unlock"
           \/ c.pc = "unlock_recv" /\ c'.pc = c.then
    <3>1. SamePage /\ UNCHANGED h
      BY <1>0, <1>3 DEF unlock_sends, unlock_recv, SamePage, Histories
    <3>2. \/ c.pc = "unlock" /\ c' = [c EXCEPT !.pc = "unlock_recv"]
          \/ /\ c.pc \in {"unlock", "unlock_recv"}
             /\ c' = [c EXCEPT !.pc = c.then]
      BY <1>3 DEF unlock_sends, unlock_recv
    <3> QED
      BY <1>0, <3>1, <3>2 DEF CallStates
  <2> QED
    BY <1>0, <2>1, MovingCall
<1>4. CASE abort_sends
  <2>1. /\ c'.pc = "drain" /\ c.pc = "abort" /\ c'.then = c.then
        /\ c'.call = c.call /\ c'.st = c.st /\ c'.cmd = c.cmd
        /\ SamePage /\ UNCHANGED h
    BY <1>0, <1>4 DEF abort_sends, CallStates, SamePage
  <2> QED
    BY <1>0, <2>1, MovingCall
<1>5. CASE drain_frame \/ drain_breaks_off
  <2>0. c.pc = "drain" /\ h.scanning /\ h.locked /\ SamePage
    BY <1>5 DEF drain_frame, drain_breaks_off, LockInv, SamePage
  <2>1. CASE UNCHANGED h /\ c' = [c EXCEPT !.n = @ + 1]
    <3>1. /\ c'.pc = c.pc /\ c'.then = c.then /\ c'.call = c.call
          /\ c'.st = c.st /\ c'.cmd = c.cmd
      BY <1>0, <2>1 DEF CallStates
    <3> QED
      BY <1>0, <2>0, <2>1, <3>1, MovingCall
  <2>2. CASE Drained
    <3>1. /\ [h EXCEPT !.scanning = FALSE] \in Handles
          /\ [h EXCEPT !.scanning = FALSE].scanning = FALSE
          /\ [h EXCEPT !.scanning = FALSE].locked = h.locked
          /\ [h EXCEPT !.scanning = FALSE].lines = h.lines
          /\ [h EXCEPT !.scanning = FALSE].want = h.want
          /\ [h EXCEPT !.scanning = FALSE].open = h.open
          /\ [h EXCEPT !.scanning = FALSE].next_row = h.next_row
          /\ [h EXCEPT !.scanning = FALSE].out = h.out
          /\ [h EXCEPT !.scanning = FALSE].eof = h.eof
          /\ [h EXCEPT !.scanning = FALSE].source = h.source
      BY <1>0 DEF Handles
    <3> DEFINE hh == [h EXCEPT !.scanning = FALSE]
    <3>2. unlock_device(hh, c, c.then)
      BY <2>2 DEF Drained
    <3> HIDE DEF hh
    <3>3. /\ c'.st = c.st /\ c'.then = c.then /\ c'.call = c.call
          /\ c'.pc = "unlock" /\ SameRows
          /\ h'.locked = FALSE /\ h'.feeding = FALSE /\ h'.scanning = FALSE
      BY <1>0, <2>0, <3>1, <3>2, UnlockDoes DEF hh, SameRows
    <3>4. PlaceInv'
      BY <2>0, <3>3 DEF CallInv, PlaceInv, SameRows
    <3>5. AnswerInv'
      BY <2>0, <3>3 DEF CallInv, PlaceInv, AnswerInv, SameRows
    <3>6. PageInv'
      BY <2>0, <3>3 DEF CallInv, PlaceInv, AnswerInv, PageInv, SameRows,
         SamePage, Filling, Failing
    <3> QED
      BY <3>4, <3>5, <3>6 DEF CallInv
  <2> QED
    BY <1>5, <2>1, <2>2 DEF drain_frame, drain_breaks_off
<1>6. CASE read_cancelled
  <2>1. /\ c.pc = "cancelled" /\ c'.pc = "return" /\ c'.then = c.then
        /\ c'.call = c.call /\ c'.st = "CANCELLED" /\ SamePage
        /\ h'.scanning = h.scanning /\ h'.locked = h.locked
        /\ h'.feeding = h.feeding /\ h'.lines = h.lines /\ h'.want = h.want
        /\ h'.open = h.open /\ h'.eof = TRUE
    BY <1>0, <1>6 DEF read_cancelled, Returning, Handles, CallStates, SamePage
  <2>2. ~h.locked /\ ~h.scanning /\ ~h.feeding
    BY <2>1 DEF LockInv
  <2> QED
    BY <2>1, <2>2 DEF CallInv, PlaceInv, AnswerInv, PageInv, SamePage,
       Filling, Failing
<1> QED
  BY <1>1, <1>2, <1>3, <1>4, <1>5, <1>6 DEF TeardownStep

-----------------------------------------------------------------------------
(* sane_start before its first transfer, and between two jobs.               *)

LEMMA ReturningCall ==
  ASSUME c \in CallStates, CallInv, SamePage, Returning("DEVICE_BUSY"),
         UNCHANGED h, c.pc \in {"clear", "retry"}
  PROVE  CallInv'
<1>1. /\ c'.pc = "return" /\ c'.then = c.then /\ c'.call = c.call
      /\ c'.st = "DEVICE_BUSY"
  BY DEF Returning, CallStates
<1> QED
  BY <1>1 DEF CallInv, PlaceInv, AnswerInv, PageInv, SamePage, Filling,
     Failing, source_is_adf

LEMMA RunJobCall ==
  ASSUME h \in Handles, c \in CallStates, NEW hh \in Handles, NEW attempt,
         run_job(hh, attempt), CallInv, SamePage,
         c.pc \in {"clear", "retry"}, ~hh.scanning,
         hh.lines \in 1..MaxLines, hh.want = h.want, hh.open = h.open
  PROVE  CallInv'
<1>1. /\ c'.pc = "send" /\ c'.then = c.then /\ c'.call = c.call
      /\ c'.st = c.st /\ c'.cmd = "LOCK"
      /\ h'.next_row = 0 /\ h'.out = 0 /\ h'.eof = FALSE
      /\ h'.scanning = hh.scanning /\ h'.lines = hh.lines
      /\ h'.want = hh.want /\ h'.open = hh.open
  BY DEF run_job, Handles, CallStates
<1> QED
  BY <1>1 DEF CallInv, PlaceInv, AnswerInv, PageInv, SamePage, Filling

LEMMA CallStart == TypeOK /\ LockInv /\ CallInv /\ StartStep => CallInv'
<1> SUFFICES ASSUME TypeOK, LockInv, CallInv, StartStep PROVE CallInv'
  OBVIOUS
<1>0. /\ h \in Handles /\ c \in CallStates /\ SamePage /\ h.lines \in Nat
      /\ h.want \in 1..MaxLines /\ h.lines \in 1..MaxLines
      /\ c.call = "start" /\ c.pc \in {"test", "clear", "retry"}
  BY DEF TypeOK, StartStep, start_tests_cancelled, resume_job, start_busy,
     start_job, start_retry, SamePage, Handles, CallInv, PlaceInv, PageInv
<1>1. CASE start_tests_cancelled
  <2>1. /\ c'.st = c.st /\ c'.call = c.call /\ c'.then \in {"clear", c.then}
        /\ c'.then = "clear" \/ c'.pc = "clear"
        /\ c'.pc \in {"abort", "clear"} /\ SameRows
        /\ h'.scanning = h.scanning
    <3>1. CASE h.cancelled
      BY <1>0, <1>1, <3>1, EndScanDoes, PCNames DEF start_tests_cancelled
    <3>2. CASE ~h.cancelled
      BY <1>0, <1>1, <3>2 DEF start_tests_cancelled, CallStates, SameRows
    <3> QED
      BY <3>1, <3>2
  <2> QED
    BY <1>0, <2>1 DEF CallInv, PlaceInv, AnswerInv, PageInv, SamePage,
       SameRows, Filling, source_is_adf
<1>2. CASE resume_job
  <2>1. /\ c'.call = "resume" /\ c'.pc = "loop" /\ c'.then = c.then
        /\ c'.st = c.st /\ h'.next_row = 0 /\ h'.out = 0 /\ h'.eof = FALSE
        /\ h'.scanning = h.scanning /\ h'.lines = h.lines
        /\ h'.want = h.want /\ h'.open = h.open
    BY <1>0, <1>2 DEF resume_job, Handles, CallStates
  <2>2. h.scanning
    BY <1>2 DEF resume_job, LockInv
  <2> QED
    BY <1>0, <2>1, <2>2 DEF CallInv, PlaceInv, AnswerInv, PageInv, SamePage,
       Filling, Filled
<1>3. CASE start_busy
  BY <1>0, <1>3, ReturningCall DEF start_busy
<1>4. CASE start_job
  <2> DEFINE hh == [h EXCEPT !.cancelled = FALSE, !.eof = FALSE,
                             !.lines = h.want]
  <2>1. /\ hh \in Handles /\ hh.lines = h.want /\ hh.want = h.want
        /\ hh.open = h.open /\ hh.scanning = FALSE /\ hh.locked = FALSE
        /\ hh.feeding = FALSE
    BY <1>0, <1>4 DEF Handles, start_job, LockInv
  <2>2. CASE run_job(hh, 0)
    <3> HIDE DEF hh
    <3> QED
      BY <1>0, <1>4, <2>1, <2>2, RunJobCall DEF start_job
  <2>3. CASE h' = hh /\ Returning("NO_MEM")
    <3> HIDE DEF hh
    <3>1. /\ c'.pc = "return" /\ c'.then = c.then /\ c'.call = c.call
          /\ c'.st = "NO_MEM"
      BY <1>0, <2>3 DEF Returning, CallStates
    <3> QED
      BY <1>0, <2>1, <2>3, <3>1 DEF CallInv, PlaceInv, AnswerInv, PageInv,
         SamePage, Filling
  <2> QED
    BY <1>4, <2>2, <2>3 DEF start_job
<1>5. CASE start_retry
  <2>0. h.locked = FALSE /\ h.scanning = FALSE /\ h.feeding = FALSE
    BY <1>0, <1>5 DEF start_retry, LockInv, Handles
  <2>1. CASE c.code \notin {0, 2} /\ Returning(map_status(c.code)) /\ UNCHANGED h
    <3>1. /\ c'.pc = "return" /\ c'.then = c.then /\ c'.call = c.call
          /\ c'.st \notin {"GOOD", "EOF", "CANCELLED"}
      BY <1>0, <2>1, MapStatusFails DEF Returning, CallStates
    <3> QED
      BY <1>0, <2>0, <2>1, <3>1 DEF CallInv, PlaceInv, AnswerInv, PageInv,
         SamePage, Filling
  <2>2. CASE run_job(h, c.attempt + 1)
    BY <1>0, <1>5, <2>0, <2>2, RunJobCall DEF start_retry
  <2>3. CASE Returning("DEVICE_BUSY") /\ UNCHANGED h
    BY <1>0, <1>5, <2>3, ReturningCall DEF start_retry
  <2> QED
    BY <1>5, <2>1, <2>2, <2>3 DEF start_retry
<1> QED
  BY <1>1, <1>2, <1>3, <1>4, <1>5 DEF StartStep

-----------------------------------------------------------------------------
(* pump_frame. *)

(* On a page that has not overrun, neither a block nor the white rows do.    *)
LEMMA RowsBounded ==
  ASSUME NEW next \in Nat, NEW first \in Nat, NEW rows \in Nat,
         NEW lines \in Nat, next <= lines
  PROVE  /\ handle_rows(next, first, rows, lines) <= lines
         /\ emit_white_rows(next, lines, lines) = lines
  BY DEF handle_rows, emit_white_rows, Upper, Lower

LEMMA AppendingDoes ==
  ASSUME NEW hh \in Handles, NEW next \in Nat, next >= hh.next_row
  PROVE  LET aa == Appending(hh, next)
         IN /\ aa \in Handles /\ aa.next_row = next
            /\ aa.out = hh.out + (next - hh.next_row)
            /\ aa.lines = hh.lines /\ aa.want = hh.want /\ aa.open = hh.open
            /\ aa.scanning = hh.scanning /\ aa.locked = hh.locked
            /\ aa.feeding = hh.feeding /\ aa.eof = hh.eof
            /\ aa.source = hh.source
<1>1. Appending(hh, next) \in Handles
  BY AppendingType
<1> QED
  BY <1>1 DEF Appending, Handles

LEMMA StoppingCall ==
  ASSUME h \in Handles, c \in CallStates, NEW hh \in Handles,
         NEW st \in Statuses, Stopping(hh, st), CallInv, SamePage,
         hh.lines = h.lines, hh.want = h.want, hh.open = h.open,
         c.call \in {"start", "resume", "read"},
         st \notin {"GOOD", "EOF", "CANCELLED"}
  PROVE  CallInv'
<1>1. /\ [hh EXCEPT !.scanning = FALSE] \in Handles
      /\ ~[hh EXCEPT !.scanning = FALSE].scanning
      /\ [hh EXCEPT !.scanning = FALSE].lines = h.lines
      /\ [hh EXCEPT !.scanning = FALSE].want = h.want
      /\ [hh EXCEPT !.scanning = FALSE].open = h.open
  BY DEF Handles
<1> QED
  BY <1>1, GivingUpCall DEF Stopping

LEMMA OutOfMemoryCall ==
  ASSUME h \in Handles, c \in CallStates, NEW next \in Nat,
         NEW eof \in BOOLEAN, OutOfMemory(next, eof), CallInv, SamePage,
         c.call \in {"start", "resume", "read"}
  PROVE  CallInv'
<1>1. PICK k \in h.next_row..(next - 1) :
        Stopping(Appending([h EXCEPT !.eof = eof], k), "NO_MEM")
  BY DEF OutOfMemory
<1> DEFINE ee == [h EXCEPT !.eof = eof]
<1>2. /\ ee \in Handles /\ ee.next_row = h.next_row /\ h.next_row \in Nat
      /\ ee.lines = h.lines /\ ee.want = h.want /\ ee.open = h.open
  BY DEF Handles
<1>3. k \in Nat /\ k >= ee.next_row
  BY <1>2
<1> HIDE DEF ee
<1>4. /\ Appending(ee, k) \in Handles
      /\ Appending(ee, k).lines = h.lines
      /\ Appending(ee, k).want = h.want
      /\ Appending(ee, k).open = h.open
  BY <1>2, <1>3, AppendingDoes
<1> QED
  BY <1>1, <1>4, StoppingCall, StatusNames DEF ee

(* An appending step that leaves the call where it is: the page stays        *)
(* counted.                                                                  *)
LEMMA AppendedCall ==
  ASSUME h \in Handles, g \in Histories, c \in CallStates, CallInv, LockInv,
         SamePage, Waiting, UNCHANGED c, NEW next \in Nat,
         next >= h.next_row, h.next_row <= h.lines => next <= h.lines,
         h'.next_row = next, h'.out = h.out + (next - h.next_row),
         h'.lines = h.lines, h'.want = h.want, h'.open = h.open,
         h'.scanning = TRUE, h'.source = h.source,
         \/ h'.eof = h.eof
         \/ h'.eof = TRUE /\ source_is_adf
              /\ (h.next_row <= h.lines => next = h.lines)
  PROVE  CallInv'
<1>0. /\ h.next_row \in Nat /\ h.out \in Nat /\ h.lines \in Nat
      /\ g.given \in Nat /\ g.promised \in Nat
      /\ h.scanning = TRUE /\ h.eof = FALSE /\ c.pc = "loop"
  BY DEF Handles, Histories, Waiting
<1>1. PlaceInv' /\ AnswerInv'
  BY <1>0 DEF CallInv, PlaceInv, AnswerInv
<1>2. Filling => h.out = h.next_row /\ h.next_row <= h.lines
  BY DEF CallInv, PageInv, Filled
<1>3. Filling' = Filling /\ Failing' = Failing
  BY DEF Filling, Failing
<1>4. Filling' => h'.out = h'.next_row /\ Filled(h.lines)'
  BY <1>0, <1>2, <1>3 DEF Filled
<1>5. g.ok /\ ~Failing =>
        /\ h'.next_row = g.given + h'.out
        /\ Filled(g.promised)'
        /\ h.lines = g.promised
  BY <1>0 DEF CallInv, PageInv, Filled, SamePage
<1>6. PageInv'
  BY <1>0, <1>3, <1>4, <1>5 DEF CallInv, PageInv, SamePage, source_is_adf,
     Filled
<1> QED
  BY <1>1, <1>6 DEF CallInv

LEMMA CallPump == TypeOK /\ LockInv /\ CallInv /\ pump_frame => CallInv'
<1> SUFFICES ASSUME TypeOK, LockInv, CallInv, pump_frame PROVE CallInv'
  OBVIOUS
<1>0. /\ h \in Handles /\ c \in CallStates /\ g \in Histories
      /\ inq \in Seq(Frames)
      /\ h.lines \in Nat /\ h.next_row \in Nat /\ h.eof \in BOOLEAN
  BY DEF TypeOK, Handles
<1>1. /\ Waiting /\ c.pc = "loop" /\ h.scanning = TRUE /\ h.locked = TRUE
      /\ h.feeding = FALSE /\ h.eof = FALSE
      /\ c.call \in {"start", "resume", "read"} /\ c.then # "cancelled"
      /\ c.st = "GOOD"
  BY <1>0 DEF pump_frame, handle_data_block, pump_aborted, pump_job_end,
         pump_page_end, pump_other, pump_breaks_off, pump_idle, Pumping,
         Waiting, LockInv, CallInv, PlaceInv, AnswerInv, Handles
<1>2. SamePage
  BY <1>0 DEF pump_frame, handle_data_block, pump_aborted, pump_job_end,
         pump_page_end, pump_other, pump_breaks_off, pump_idle, Begun,
         SamePage, Histories
<1>3. /\ emit_white_rows(h.next_row, h.lines, h.lines) \in Nat
      /\ emit_white_rows(h.next_row, h.lines, h.lines) >= h.next_row
      /\ h.next_row <= h.lines
           => emit_white_rows(h.next_row, h.lines, h.lines) = h.lines
  BY <1>0 DEF emit_white_rows, Upper, Lower
<1>4. CASE handle_data_block
  <2> DEFINE f == Head(inq)
             next == handle_rows(h.next_row, f.first, f.rows, h.lines)
  <2>1. /\ next \in Nat /\ next >= h.next_row
        /\ h.next_row <= h.lines => next <= h.lines
    <3>1. f.first \in Nat /\ f.rows \in Nat
      BY <1>0, <1>4, HeadType DEF handle_data_block, Pumping
    <3> QED
      BY <1>0, <3>1, RowsForward, RowsBounded
  <2> HIDE DEF next
  <2>2. CASE h' = Appending(h, next) /\ UNCHANGED c
    <3>1. /\ h'.next_row = next /\ h'.out = h.out + (next - h.next_row)
          /\ h'.lines = h.lines /\ h'.want = h.want /\ h'.open = h.open
          /\ h'.scanning = TRUE /\ h'.source = h.source /\ h'.eof = h.eof
      BY <1>0, <1>1, <2>1, <2>2, AppendingDoes
    <3> QED
      BY <1>0, <1>1, <1>2, <2>1, <2>2, <3>1, AppendedCall
  <2>3. CASE OutOfMemory(next, h.eof)
    BY <1>0, <1>1, <1>2, <2>1, <2>3, OutOfMemoryCall
  <2>4. CASE \E st \in {"IO_ERROR", "UNSUPPORTED", "NO_MEM"} : Stopping(h, st)
    BY <1>0, <1>1, <1>2, <2>4, StoppingCall, StatusNames
  <2> QED
    BY <1>4, <2>2, <2>3, <2>4 DEF handle_data_block, next
<1>5. CASE pump_aborted
  <2> DEFINE code == Head(inq).status
             hh == [h EXCEPT !.scanning = FALSE]
             cc == [c EXCEPT !.code = code]
  <2>1. /\ hh \in Handles /\ hh.scanning = FALSE /\ hh.locked = TRUE
        /\ hh.lines = h.lines /\ hh.want = h.want /\ hh.open = h.open
    BY <1>0, <1>1 DEF Handles
  <2>2. /\ cc \in CallStates /\ cc.call = c.call /\ cc.st = c.st
    <3>1. code \in Nat
      BY <1>0, <1>5, HeadType DEF pump_aborted, Pumping
    <3> QED
      BY <1>0, <3>1 DEF CallStates
  <2>3. \/ c.call = "start" /\ unlock_device(hh, cc, "retry")
        \/ c.call = "resume"
             /\ GivingUp(hh, IF code = 0 THEN "NO_DOCS" ELSE map_status(code))
        \/ c.call = "read"
             /\ GivingUp(hh, IF code = 0 THEN "IO_ERROR" ELSE map_status(code))
    BY <1>5 DEF pump_aborted
  <2> HIDE DEF hh, cc, code
  <2>4. CASE c.call = "start" /\ unlock_device(hh, cc, "retry")
    <3>1. /\ c'.st = c.st /\ c'.then = "retry" /\ c'.call = "start"
          /\ c'.pc = "unlock" /\ h'.lines = h.lines /\ h'.want = h.want
          /\ h'.open = h.open /\ h'.scanning = FALSE
      BY <2>1, <2>2, <2>4, UnlockDoes, PCNames
    <3> QED
      BY <1>1, <1>2, <2>4, <3>1 DEF CallInv, PlaceInv, AnswerInv, PageInv,
         SamePage, Filling
  <2>5. ASSUME NEW st \in Statuses, st \notin {"GOOD", "EOF", "CANCELLED"},
               GivingUp(hh, st)
        PROVE  CallInv'
    BY <1>0, <1>1, <1>2, <2>1, <2>5, GivingUpCall
  <2> QED
    BY <2>3, <2>4, <2>5, MapStatusType, MapStatusFails, StatusNames
<1>6. CASE pump_job_end
  <2> DEFINE next == emit_white_rows(h.next_row, h.lines, h.lines)
             aa == Appending(h, next)
             hh == [aa EXCEPT !.eof = TRUE, !.scanning = FALSE]
  <2>1. CASE unlock_device(hh, c, "loop")
    <3>1. /\ aa \in Handles /\ aa.next_row = next
          /\ aa.out = h.out + (next - h.next_row)
          /\ aa.lines = h.lines /\ aa.want = h.want /\ aa.open = h.open
          /\ aa.locked = TRUE
      BY <1>0, <1>1, <1>3, AppendingDoes
    <3> HIDE DEF aa
    <3>2. /\ hh \in Handles /\ hh.next_row = next
          /\ hh.out = h.out + (next - h.next_row)
          /\ hh.lines = h.lines /\ hh.want = h.want /\ hh.open = h.open
          /\ hh.locked = TRUE /\ hh.scanning = FALSE /\ hh.eof = TRUE
      BY <3>1 DEF Handles
    <3> HIDE DEF hh
    <3>3. /\ c'.st = c.st /\ c'.then = "loop" /\ c'.call = c.call
          /\ c'.pc = "unlock" /\ h'.lines = h.lines /\ h'.want = h.want
          /\ h'.open = h.open /\ h'.scanning = FALSE /\ h'.eof = TRUE
          /\ h'.next_row = next /\ h'.out = h.out + (next - h.next_row)
      BY <1>0, <2>1, <3>2, UnlockDoes, PCNames
    <3> HIDE DEF next
    <3>4. PlaceInv' /\ AnswerInv'
      BY <1>1, <3>3 DEF CallInv, PlaceInv, AnswerInv
    <3>5. Filling' => h'.out = h'.next_row /\ h'.next_row = h'.lines
      <4>1. Filling' => Filling
        BY <1>1, <3>3 DEF Filling
      <4>2. h.out \in Nat /\ next \in Nat
        BY <1>0, <1>3 DEF Handles, next
      <4>3. Filling => h.out = h.next_row /\ next = h.lines
        BY <1>3 DEF CallInv, PageInv, Filled, next
      <4> QED
        BY <1>0, <3>3, <4>1, <4>2, <4>3
    <3>6. g.ok /\ ~Failing' => /\ h'.next_row = g.given + h'.out
                               /\ h'.next_row = g.promised
      <4>1. ~Failing' => ~Failing
        BY <1>1, <3>3 DEF Failing
      <4>2. h.out \in Nat /\ next \in Nat /\ g.given \in Nat
        BY <1>0, <1>3 DEF Handles, Histories, next
      <4>3. g.ok /\ ~Failing => /\ h.next_row = g.given + h.out
                                /\ next = g.promised
        BY <1>1, <1>3 DEF CallInv, PageInv, Filled, next
      <4> QED
        BY <1>0, <3>3, <4>1, <4>2, <4>3
    <3>7. PageInv'
      <4>1. h'.next_row \in Nat
        BY <1>3, <3>3 DEF next
      <4> QED
        BY <1>0, <1>1, <1>2, <3>3, <3>5, <3>6, <4>1 DEF CallInv, PageInv,
           SamePage, Filled
    <3> QED
      BY <3>4, <3>7 DEF CallInv
  <2>2. CASE OutOfMemory(next, TRUE)
    BY <1>0, <1>1, <1>2, <1>3, <2>2, OutOfMemoryCall
  <2> QED
    BY <1>6, <2>1, <2>2 DEF pump_job_end
<1>7. CASE pump_page_end
  <2> DEFINE next == emit_white_rows(h.next_row, h.lines, h.lines)
             aa == Appending(h, next)
  <2>1. CASE UNCHANGED <<h, c>>
    BY <1>2, <2>1 DEF CallInv, PlaceInv, AnswerInv, PageInv, SamePage,
       Filling, Failing, source_is_adf, Filled
  <2>2. CASE /\ source_is_adf
             /\ h' = [aa EXCEPT !.eof = TRUE, !.feeding = TRUE]
             /\ UNCHANGED c
    <3>1. /\ aa \in Handles /\ aa.next_row = next
          /\ aa.out = h.out + (next - h.next_row)
          /\ aa.lines = h.lines /\ aa.want = h.want /\ aa.open = h.open
          /\ aa.scanning = TRUE /\ aa.source = h.source
      BY <1>0, <1>1, <1>3, AppendingDoes
    <3> HIDE DEF aa
    <3>2. /\ h'.next_row = next /\ h'.out = h.out + (next - h.next_row)
          /\ h'.lines = h.lines /\ h'.want = h.want /\ h'.open = h.open
          /\ h'.scanning = TRUE /\ h'.source = h.source /\ h'.eof = TRUE
      BY <2>2, <3>1 DEF Handles
    <3> HIDE DEF next
    <3>3. /\ next \in Nat /\ next >= h.next_row
          /\ h.next_row <= h.lines => next = h.lines
      BY <1>3 DEF next
    <3>4. UNCHANGED c /\ source_is_adf
      BY <2>2
    <3>5. /\ h.next_row <= h.lines => next <= h.lines
          /\ \/ h'.eof = h.eof
             \/ h'.eof = TRUE /\ source_is_adf
                  /\ (h.next_row <= h.lines => next = h.lines)
      BY <1>0, <3>2, <3>3, <3>4
    <3> QED
      BY <1>0, <1>1, <1>2, <3>2, <3>3, <3>4, <3>5, AppendedCall
  <2>3. CASE OutOfMemory(next, TRUE)
    BY <1>0, <1>1, <1>2, <1>3, <2>3, OutOfMemoryCall
  <2> QED
    BY <1>7, <2>1, <2>2, <2>3 DEF pump_page_end
<1>8. CASE pump_other
  BY <1>2, <1>8 DEF pump_other, CallInv, PlaceInv, AnswerInv, PageInv,
     SamePage, Filling, Failing, source_is_adf, Filled
<1>9. CASE pump_breaks_off
  BY <1>0, <1>1, <1>2, <1>9, StoppingCall, StatusNames DEF pump_breaks_off
<1>10. CASE pump_idle
  <2>1. /\ c'.pc = "return" /\ c'.then = c.then /\ c'.call = c.call
        /\ c'.st = "GOOD" /\ UNCHANGED h /\ c.call = "read"
    BY <1>0, <1>10 DEF pump_idle, Probing, Returning, CallStates
  <2> QED
    BY <1>1, <1>2, <2>1 DEF CallInv, PlaceInv, AnswerInv, PageInv, SamePage,
       Filling, Failing, source_is_adf, Filled
<1> QED
  BY <1>4, <1>5, <1>6, <1>7, <1>8, <1>9, <1>10 DEF pump_frame

-----------------------------------------------------------------------------
(* The ends of the calls, the signal and the crash. *)

LEMMA CallReturn ==
  TypeOK /\ OpenInv /\ LockInv /\ CallInv /\ (first_rows \/ deliver \/ Return)
    => CallInv'
<1> SUFFICES ASSUME TypeOK, OpenInv, LockInv, CallInv,
                    first_rows \/ deliver \/ Return
             PROVE  CallInv'
  OBVIOUS
<1>0. /\ h \in Handles /\ c \in CallStates /\ g \in Histories
      /\ h.out \in Nat /\ h.next_row \in Nat /\ h.lines \in Nat
      /\ g.given \in Nat /\ g.promised \in Nat
  BY DEF TypeOK, Handles, Histories
<1>1. CASE first_rows
  <2>1. /\ c.call \in {"start", "resume"} /\ c.pc = "loop" /\ ~Waiting
        /\ Filling
    BY <1>1 DEF first_rows, CallInv, PlaceInv, Filling
  <2>2. h.out # 0
    BY <1>0, <2>1 DEF CallInv, PageInv, Filled, Waiting
  <2>3. Returning("GOOD") /\ UNCHANGED h /\ SamePage
    BY <1>1, <2>2 DEF first_rows, SamePage
  <2>4. /\ c'.pc = "return" /\ c'.then = c.then /\ c'.call = c.call
        /\ c'.st = "GOOD"
    BY <1>0, <2>3 DEF Returning, CallStates
  <2> QED
    BY <2>1, <2>3, <2>4 DEF CallInv, PlaceInv, AnswerInv, PageInv, SamePage,
       Filling, source_is_adf, Filled
<1>2. CASE deliver
  <2>0. /\ c.call = "read" /\ c.pc = "loop" /\ ~Waiting
        /\ c.then # "cancelled" /\ c.st = "GOOD"
    BY <1>2 DEF deliver, CallInv, PlaceInv, AnswerInv
  <2>1. CASE /\ h.out = 0 /\ h' = [h EXCEPT !.eof = TRUE]
             /\ Returning("EOF") /\ UNCHANGED g
    <3>1. /\ c'.pc = "return" /\ c'.then = c.then /\ c'.call = c.call
          /\ c'.st = "EOF" /\ SamePage
          /\ h'.eof = TRUE /\ h'.out = h.out /\ h'.next_row = h.next_row
          /\ h'.lines = h.lines /\ h'.want = h.want /\ h'.open = h.open
          /\ h'.scanning = h.scanning /\ h'.source = h.source
          /\ h'.locked = h.locked /\ h'.feeding = h.feeding
      BY <1>0, <2>1 DEF Returning, CallStates, Handles, SamePage
    <3>2. h.eof \/ ~h.scanning
      BY <2>0, <2>1 DEF Waiting
    <3>3. PlaceInv' /\ AnswerInv'
      BY <2>0, <2>1, <3>1 DEF CallInv, PlaceInv, AnswerInv
    <3>4. PageInv'
      BY <2>0, <3>1, <3>2 DEF CallInv, PageInv, SamePage, Filling, Failing,
         source_is_adf, Filled
    <3> QED
      BY <3>3, <3>4 DEF CallInv
  <2>2. ASSUME NEW k \in 1..h.out, h' = [h EXCEPT !.out = @ - k],
               Returning("GOOD"),
               g' = IF g.ok THEN [g EXCEPT !.given = @ + k] ELSE g
        PROVE  CallInv'
    <3>1. /\ c'.pc = "return" /\ c'.then = c.then /\ c'.call = c.call
          /\ c'.st = "GOOD"
          /\ h'.eof = h.eof /\ h'.out = h.out - k /\ h'.next_row = h.next_row
          /\ h'.lines = h.lines /\ h'.want = h.want /\ h'.open = h.open
          /\ h'.scanning = h.scanning /\ h'.source = h.source
          /\ h'.locked = h.locked /\ h'.feeding = h.feeding
          /\ g'.ok = g.ok /\ g'.promised = g.promised
          /\ g'.given = IF g.ok THEN g.given + k ELSE g.given
      BY <1>0, <2>2 DEF Returning, CallStates, Handles, Histories
    <3>2. PlaceInv' /\ AnswerInv'
      BY <2>0, <3>1 DEF CallInv, PlaceInv, AnswerInv
    <3>3. g.ok => h.next_row = g.given + h.out /\ h.next_row <= g.promised
      BY <2>0 DEF CallInv, PageInv, Failing, Filled
    <3>4. g.ok => g'.given <= g'.promised /\ h'.next_row = g'.given + h'.out
      BY <1>0, <3>1, <3>3
    <3>5. PageInv'
      BY <2>0, <3>1, <3>4 DEF CallInv, PageInv, Filling, Failing,
         source_is_adf, Filled
    <3> QED
      BY <3>2, <3>5 DEF CallInv
  <2> QED
    BY <1>2, <2>1, <2>2 DEF deliver
<1>3. CASE Return
  <2>0. /\ c.pc = "return" /\ c' = NoCall /\ c.call \in Calls
        /\ c'.call = "none" /\ c'.pc = "idle" /\ c'.then = "return"
        /\ c'.st = "GOOD" /\ ~Failing' /\ ~Filling'
    BY <1>0, <1>3 DEF Return, NoCall, Failing, Filling, CallStates
  <2>1. CASE c.call = "close"
    <3>1. /\ h' = NoHandle /\ g'.ok = FALSE /\ g'.promised = 0
          /\ g'.given = 0
      BY <1>3, <2>1 DEF Return, NoHistory
    <3> QED
      BY <2>0, <3>1, SessionAssumption DEF CallInv, PlaceInv, AnswerInv,
         PageInv, NoHandle
  <2>2. CASE c.call = "open"
    <3>1. /\ h'.eof = h.eof /\ h'.out = h.out /\ h'.next_row = h.next_row
          /\ h'.lines = h.lines /\ h'.want = h.want
          /\ h'.scanning = h.scanning /\ h'.source = h.source
          /\ g'.ok = FALSE /\ g'.promised = 0 /\ g'.given = 0
      BY <1>0, <1>3, <2>2 DEF Return, Handles, NoHistory
    <3> QED
      BY <2>0, <3>1 DEF CallInv, PlaceInv, AnswerInv, PageInv, source_is_adf
  <2>3. CASE c.call \in {"start", "resume"} /\ c.st = "GOOD"
    <3>1. /\ h' = h /\ g'.ok = TRUE /\ g'.promised = h.lines
          /\ g'.given = g.given
      BY <1>0, <1>3, <2>3 DEF Return, Histories
    <3>2. ~g.ok /\ h.open
      BY <2>3 DEF CallInv, PageInv, OpenInv
    <3>3. g.given = 0 /\ h.out = h.next_row /\ Filled(h.lines)
      BY <2>0, <2>3, <3>2 DEF CallInv, PageInv, Filling
    <3> QED
      BY <1>0, <2>0, <3>1, <3>2, <3>3 DEF CallInv, PlaceInv, AnswerInv,
         PageInv, source_is_adf, Filled
  <2>4. CASE c.call = "read" /\ c.st \in {"GOOD", "EOF"}
    <3>1. h' = h /\ g' = g
      BY <1>3, <2>4 DEF Return
    <3>2. ~Failing
      BY <2>0, <2>4 DEF Failing, CallInv, AnswerInv
    <3> QED
      BY <2>0, <3>1, <3>2 DEF CallInv, PlaceInv, AnswerInv, PageInv,
         source_is_adf, Filled
  <2>5. CASE /\ c.call \in {"start", "resume", "read"} /\ c.st # "GOOD"
             /\ ~(c.call = "read" /\ c.st = "EOF")
    <3>1. /\ h' = h /\ g'.ok = FALSE /\ g'.promised = 0 /\ g'.given = 0
      BY <1>3, <2>5 DEF Return, NoHistory
    <3> QED
      BY <2>0, <3>1 DEF CallInv, PlaceInv, AnswerInv, PageInv, source_is_adf
  <2>6. c.call # "none"
    BY <2>0 DEF OpenInv
  <2> QED
    BY <2>0, <2>1, <2>2, <2>3, <2>4, <2>5, <2>6 DEF Calls
<1> QED
  BY <1>1, <1>2, <1>3

LEMMA CallAsync == TypeOK /\ CallInv /\ (sane_cancel \/ crash) => CallInv'
<1> SUFFICES ASSUME TypeOK, CallInv, sane_cancel \/ crash PROVE CallInv'
  OBVIOUS
<1>1. CASE sane_cancel
  <2>1. /\ c' = c /\ SamePage /\ SameRows /\ h'.scanning = h.scanning
        /\ h'.locked = h.locked /\ h'.feeding = h.feeding
    BY <1>1 DEF sane_cancel, TypeOK, Handles, Histories, SamePage, SameRows
  <2> QED
    BY <2>1 DEF CallInv, PlaceInv, AnswerInv, PageInv, SamePage, SameRows,
       Filling, Failing, source_is_adf, Filled
<1>2. CASE crash
  <2>1. /\ h' = NoHandle /\ c' = NoCall /\ g'.ok = FALSE
        /\ g'.promised = 0 /\ g'.given = 0
    BY <1>2 DEF crash, NoHistory
  <2> QED
    BY <2>1, SessionAssumption DEF CallInv, PlaceInv, AnswerInv, PageInv,
       NoHandle, NoCall, Filling
<1> QED
  BY <1>1, <1>2

LEMMA CallNext ==
  TypeOK /\ OpenInv /\ LockInv /\ CallInv /\ [Next]_vars => CallInv'
<1> SUFFICES ASSUME TypeOK, OpenInv, LockInv, CallInv, [Next]_vars
             PROVE  CallInv'
  OBVIOUS
<1>1. CASE Frontend \/ Backend
  BY <1>1, CallFrontend, CallCommand, CallTeardown, CallStart, CallPump,
     CallReturn DEF Backend, CommandStep, TeardownStep, StartStep
<1>2. CASE sane_cancel \/ crash
  BY <1>2, CallAsync
<1>3. CASE UNCHANGED <<h, c, g>>
  BY <1>3 DEF CallInv, PlaceInv, AnswerInv, PageInv, Filling, Failing,
     source_is_adf, Filled
<1> QED
  BY <1>1, <1>2, <1>3 DEF Next, Device, vars

SessionInv == TypeOK /\ OpenInv /\ LockInv /\ CallInv

LEMMA SessionInvariant == Spec => []SessionInv
<1>1. Init => SessionInv
  BY TypeInit, LockInit, CallInit DEF Init, NoCall, OpenInv, SessionInv
<1>2. SessionInv /\ [Next]_vars => SessionInv'
  BY TypeNext, OpenNext, LockNext, CallNext DEF SessionInv
<1> QED
  BY <1>1, <1>2, PTL DEF Spec

(* FailureReleases: however a start, a read or an open fails, the scanner is *)
(* unlocked and no job of ours runs when the error is returned.              *)
THEOREM FailureReleasesHolds == Spec => []FailureReleases
<1>1. SessionInv => FailureReleases
  BY DEF SessionInv, CallInv, AnswerInv, FailureReleases, LockInv
<1> QED
  BY <1>1, SessionInvariant, PTL

(* PageWhole: the rows read up to EOF are exactly those sane_start promised, *)
(* for every page length and every set of blocks the scanner may send.       *)
THEOREM PageWholeHolds == Spec => []PageWhole
<1>1. SessionInv => PageWhole
  <2> SUFFICES ASSUME SessionInv, c.pc = "return", c.call = "read",
                      c.st = "EOF", g.ok
               PROVE  g.given = g.promised
    BY DEF PageWhole
  <2>1. h.eof /\ h.out = 0 /\ c.then # "cancelled"
    BY DEF SessionInv, CallInv, AnswerInv
  <2>2. h.next_row = g.given + h.out /\ h.next_row = g.promised
    BY <2>1 DEF SessionInv, CallInv, PageInv, Failing, Filled
  <2>3. g.given \in Nat
    BY DEF SessionInv, TypeOK, Histories
  <2> QED
    BY <2>1, <2>2, <2>3
<1> QED
  BY <1>1, SessionInvariant, PTL

-----------------------------------------------------------------------------
(***************************************************************************)
(* The refinement: every step of ScanSession is a step of SaneContract, or *)
(* none the frontend sees.  Most of a step's obligations are read off      *)
(* SessionInv after the step; what is left to show of it is what it leaves *)
(* alone.                                                                  *)
(***************************************************************************)

(* What only the frontend, a start and a signal change of a handle.          *)
Keeps(hh) ==
  /\ h'.open = hh.open /\ h'.source = hh.source
  /\ h'.non_blocking = hh.non_blocking /\ h'.cancelled = hh.cancelled

(* The call goes on, as the read it was; one that has nothing to hand out is *)
(* a non-blocking read.                                                      *)
GoesOn ==
  /\ c'.call = c.call /\ c'.pc # "idle"
  /\ c'.then = "cancelled" <=> c.then = "cancelled"
  /\ c.call = "read" /\ c'.pc = "return" /\ c'.st = "GOOD" => h.non_blocking

(* A handle nobody holds is a fresh one.                                     *)
FreshInv ==
  ~h.open => h.source = "FLATBED" /\ ~h.non_blocking /\ ~h.cancelled

RefinementInv == SessionInv /\ FreshInv

-----------------------------------------------------------------------------
(* What the steps leave alone. *)

LEMMA UnlockLeaves ==
  ASSUME NEW hh \in Handles, NEW cc \in CallStates, NEW then \in PCs,
         unlock_device(hh, cc, then)
  PROVE  /\ Keeps(hh) /\ c'.call = cc.call /\ c'.then = then /\ c'.st = cc.st
         /\ c'.pc \in {"unlock", then}
  BY DEF unlock_device, Keeps, Handles, CallStates

LEMMA GivingUpLeaves ==
  ASSUME c \in CallStates, NEW hh \in Handles, NEW st \in Statuses,
         GivingUp(hh, st), c.then # "cancelled",
         c.call = "read" => st # "GOOD"
  PROVE  Keeps(hh) /\ GoesOn
<1>1. /\ [c EXCEPT !.st = st] \in CallStates
      /\ [c EXCEPT !.st = st].call = c.call
      /\ [c EXCEPT !.st = st].st = st
  BY DEF CallStates
<1> QED
  BY <1>1, UnlockLeaves, PCNames DEF GivingUp, GoesOn

LEMMA StoppingLeaves ==
  ASSUME c \in CallStates, NEW hh \in Handles, NEW st \in Statuses,
         Stopping(hh, st), c.then # "cancelled", st # "GOOD"
  PROVE  Keeps(hh) /\ GoesOn
<1> DEFINE still == [hh EXCEPT !.scanning = FALSE]
<1>1. /\ still \in Handles /\ still.open = hh.open
      /\ still.source = hh.source /\ still.non_blocking = hh.non_blocking
      /\ still.cancelled = hh.cancelled
  BY DEF Handles
<1>2. GivingUp(still, st)
  BY DEF Stopping
<1> HIDE DEF still
<1> QED
  BY <1>1, <1>2, GivingUpLeaves DEF Keeps

LEMMA AppendingLeaves ==
  ASSUME NEW hh \in Handles, NEW next \in Nat, next >= hh.next_row
  PROVE  LET aa == Appending(hh, next)
         IN /\ aa \in Handles /\ aa.open = hh.open
            /\ aa.source = hh.source /\ aa.non_blocking = hh.non_blocking
            /\ aa.cancelled = hh.cancelled
<1>1. Appending(hh, next) \in Handles
  BY AppendingType
<1> QED
  BY <1>1 DEF Appending, Handles

LEMMA OutOfMemoryLeaves ==
  ASSUME h \in Handles, c \in CallStates, NEW next \in Nat,
         NEW eof \in BOOLEAN, OutOfMemory(next, eof), c.then # "cancelled"
  PROVE  Keeps(h) /\ GoesOn
<1> DEFINE ended == [h EXCEPT !.eof = eof]
<1>1. PICK k \in h.next_row..(next - 1) :
        Stopping(Appending(ended, k), "NO_MEM")
  BY DEF OutOfMemory
<1>2. /\ ended \in Handles /\ ended.next_row = h.next_row
      /\ ended.open = h.open /\ ended.source = h.source
      /\ ended.non_blocking = h.non_blocking
      /\ ended.cancelled = h.cancelled /\ h.next_row \in Nat
  BY DEF Handles
<1> HIDE DEF ended
<1>3. k \in Nat /\ k >= h.next_row
  BY <1>2
<1>4. /\ Appending(ended, k) \in Handles
      /\ Appending(ended, k).open = h.open
      /\ Appending(ended, k).source = h.source
      /\ Appending(ended, k).non_blocking = h.non_blocking
      /\ Appending(ended, k).cancelled = h.cancelled
  BY <1>2, <1>3, AppendingLeaves
<1> QED
  BY <1>1, <1>4, StoppingLeaves, StatusNames DEF Keeps

LEMMA EndScanLeaves ==
  ASSUME h \in Handles, NEW cc \in CallStates, NEW then \in PCs,
         end_scan(cc, then)
  PROVE  Keeps(h) /\ c'.then = then
<1>1. CASE h.scanning
  BY <1>1 DEF end_scan, CallStates, Keeps
<1>2. CASE ~h.scanning
  BY <1>2, UnlockLeaves DEF end_scan
<1> QED
  BY <1>1, <1>2

LEMMA CommandLeaves ==
  TypeOK /\ CallInv /\ CommandStep => Keeps(h) /\ GoesOn
<1> SUFFICES ASSUME TypeOK, CallInv, CommandStep PROVE Keeps(h) /\ GoesOn
  OBVIOUS
<1>0. /\ h \in Handles /\ c \in CallStates /\ c.then # "cancelled"
      /\ c.call \in {"open", "start"}
  BY DEF TypeOK, CallInv, PlaceInv, CommandStep, command_sends,
     command_acked, command_skips, command_breaks_off
<1>1. ASSUME NEW st \in Statuses, NEW status, CommandFailed(st, status)
      PROVE  Keeps(h) /\ GoesOn
  <2>1. CASE GivingUp(h, "GOOD") \/ GivingUp(h, "DEVICE_BUSY") \/ GivingUp(h, st)
    BY <1>0, <2>1, GivingUpLeaves, StatusNames
  <2>2. CASE /\ h' = [h EXCEPT !.locked = TRUE]
             /\ c' = [c EXCEPT !.pc = "send", !.n = 0, !.tries = @ + 1]
    BY <1>0, <2>2 DEF Handles, CallStates, Keeps, GoesOn
  <2> QED
    BY <1>1, <2>1, <2>2 DEF CommandFailed
<1>2. ASSUME NEW cmd, Commanding(cmd), UNCHANGED h PROVE Keeps(h) /\ GoesOn
  BY <1>0, <1>2 DEF Commanding, CallStates, Keeps, GoesOn
<1>3. ASSUME NEW f, check_adf(f) PROVE Keeps(h) /\ GoesOn
  <2> DEFINE probed == [h EXCEPT !.has_adf = f.status = 0]
  <2>1. /\ probed \in Handles /\ probed.open = h.open
        /\ probed.source = h.source /\ probed.cancelled = h.cancelled
        /\ probed.non_blocking = h.non_blocking
    BY <1>0 DEF Handles
  <2>2. \/ GivingUp(probed, "GOOD")
        \/ GivingUp(h, "UNSUPPORTED") \/ GivingUp(h, "NO_DOCS")
        \/ Commanding("SET_DEFAULTS") /\ UNCHANGED h
    BY <1>3 DEF check_adf
  <2> HIDE DEF probed
  <2> QED
    BY <1>0, <1>2, <2>1, <2>2, GivingUpLeaves, StatusNames DEF Keeps
<1>4. ASSUME CommandDone PROVE Keeps(h) /\ GoesOn
  <2>1. CASE /\ h' = [h EXCEPT !.scanning = TRUE]
             /\ c' = [c EXCEPT !.pc = "loop", !.n = 0]
    BY <1>0, <2>1 DEF Handles, CallStates, Keeps, GoesOn
  <2> QED
    BY <1>2, <1>4, <2>1 DEF CommandDone
<1>5. CASE command_sends
  BY <1>0, <1>1, <1>5, StatusNames
     DEF command_sends, CallStates, Keeps, GoesOn
<1>6. CASE command_acked
  BY <1>1, <1>3, <1>4, <1>6, StatusNames, MapStatusType DEF command_acked
<1>7. CASE command_skips
  BY <1>0, <1>1, <1>7, StatusNames
     DEF command_skips, CallStates, Keeps, GoesOn
<1>8. CASE command_breaks_off
  BY <1>1, <1>8, StatusNames DEF command_breaks_off
<1> QED
  BY <1>5, <1>6, <1>7, <1>8 DEF CommandStep

LEMMA TeardownLeaves ==
  TypeOK /\ LockInv /\ CallInv /\ TeardownStep => Keeps(h) /\ GoesOn
<1> SUFFICES ASSUME TypeOK, LockInv, CallInv, TeardownStep
             PROVE  Keeps(h) /\ GoesOn
  OBVIOUS
<1>0. /\ h \in Handles /\ c \in CallStates /\ c.then \in PCs
      /\ c.then \in Thens
  BY DEF TypeOK, CallStates, LockInv
<1>1. ASSUME Drained, c.pc = "drain" PROVE Keeps(h) /\ GoesOn
  <2> DEFINE still == [h EXCEPT !.scanning = FALSE]
  <2>1. /\ still \in Handles /\ still.open = h.open
        /\ still.source = h.source /\ still.cancelled = h.cancelled
        /\ still.non_blocking = h.non_blocking
        /\ unlock_device(still, c, c.then)
    BY <1>0, <1>1 DEF Handles, Drained
  <2> HIDE DEF still
  <2>2. /\ Keeps(h) /\ c'.call = c.call /\ c'.then = c.then /\ c'.st = c.st
        /\ c'.pc \in {"unlock", c.then}
    BY <1>0, <2>1, UnlockLeaves DEF Keeps
  <2> QED
    BY <1>0, <1>1, <2>2 DEF GoesOn, CallInv, PlaceInv, Thens
<1>2. CASE Flushes \/ abort_sends
  BY <1>0, <1>2 DEF Flushes, abort_sends, CallStates, Keeps, GoesOn
<1>3. CASE probe_adf
  BY <1>0, <1>3
     DEF probe_adf, Commanding, Handles, CallStates, Keeps, GoesOn
<1>4. CASE unlock_sends \/ unlock_recv
  <2>1. /\ UNCHANGED h /\ c.pc \in {"unlock", "unlock_recv"}
        /\ c' = [c EXCEPT !.pc = "unlock_recv"]
             \/ c' = [c EXCEPT !.pc = c.then]
    BY <1>4 DEF unlock_sends, unlock_recv
  <2>2. /\ c'.pc \in {"unlock_recv", c.then} /\ c'.then = c.then
        /\ c'.call = c.call /\ c'.st = c.st
    BY <1>0, <2>1 DEF CallStates
  <2>3. c.call = "read" /\ c.then = "return" => c.st # "GOOD"
    BY <2>1 DEF CallInv, AnswerInv
  <2> QED
    BY <1>0, <2>1, <2>2, <2>3 DEF Keeps, GoesOn, Thens
<1>5. CASE drain_frame \/ drain_breaks_off
  <2>1. CASE UNCHANGED h /\ c' = [c EXCEPT !.n = @ + 1] /\ c.pc = "drain"
    BY <1>0, <2>1 DEF CallStates, Keeps, GoesOn
  <2> QED
    BY <1>1, <1>5, <2>1 DEF drain_frame, drain_breaks_off
<1>6. CASE read_cancelled
  BY <1>0, <1>6
     DEF read_cancelled, Returning, Handles, CallStates, Keeps, GoesOn
<1> QED
  BY <1>2, <1>3, <1>4, <1>5, <1>6 DEF TeardownStep

(* A start may take a cancel back.                                           *)
LEMMA StartLeaves ==
  TypeOK /\ LockInv /\ CallInv /\ StartStep =>
    /\ h'.open = h.open /\ h'.source = h.source
    /\ h'.non_blocking = h.non_blocking
    /\ h'.cancelled \in {h.cancelled, FALSE}
    /\ c'.call \in {"start", "resume"} /\ c'.pc # "idle" /\ c.call = "start"
<1> SUFFICES ASSUME TypeOK, LockInv, CallInv, StartStep
             PROVE  /\ h'.open = h.open /\ h'.source = h.source
                    /\ h'.non_blocking = h.non_blocking
                    /\ h'.cancelled \in {h.cancelled, FALSE}
                    /\ c'.call \in {"start", "resume"} /\ c'.pc # "idle"
                    /\ c.call = "start"
  OBVIOUS
<1>0. h \in Handles /\ c \in CallStates /\ c.call = "start"
  BY DEF TypeOK, StartStep, start_tests_cancelled, resume_job, start_busy,
     start_job, start_retry, CallInv, PlaceInv
<1>1. CASE start_tests_cancelled
  <2>1. CASE end_scan(c, "clear") /\ c.pc = "test"
    BY <1>0, <2>1, EndScanLeaves, EndScanDoes, PCNames DEF Keeps
  <2>2. CASE c' = [c EXCEPT !.pc = "clear"] /\ UNCHANGED h
    BY <1>0, <2>2 DEF CallStates
  <2> QED
    BY <1>1, <2>1, <2>2 DEF start_tests_cancelled
<1>2. CASE resume_job
  BY <1>0, <1>2 DEF resume_job, Handles, CallStates
<1>3. CASE start_busy \/ start_retry
  BY <1>0, <1>3
     DEF start_busy, start_retry, run_job, Returning, Handles, CallStates
<1>4. CASE start_job
  BY <1>0, <1>4 DEF start_job, run_job, Returning, Handles, CallStates
<1> QED
  BY <1>1, <1>2, <1>3, <1>4 DEF StartStep

LEMMA PumpLeaves ==
  TypeOK /\ CallInv /\ pump_frame => Keeps(h) /\ GoesOn
<1> SUFFICES ASSUME TypeOK, CallInv, pump_frame PROVE Keeps(h) /\ GoesOn
  OBVIOUS
<1>0. /\ h \in Handles /\ c \in CallStates /\ inq \in Seq(Frames)
      /\ h.lines \in Nat /\ h.next_row \in Nat /\ h.eof \in BOOLEAN
  BY DEF TypeOK, Handles
<1>1. c.pc = "loop" /\ c.then # "cancelled"
  BY DEF pump_frame, handle_data_block, pump_aborted, pump_job_end,
     pump_page_end, pump_other, pump_breaks_off, pump_idle, Pumping, Waiting,
     CallInv, PlaceInv
<1>2. /\ emit_white_rows(h.next_row, h.lines, h.lines) \in Nat
      /\ emit_white_rows(h.next_row, h.lines, h.lines) >= h.next_row
  BY <1>0 DEF emit_white_rows, Upper, Lower
<1>3. CASE UNCHANGED c /\ Keeps(h)
  BY <1>1, <1>3 DEF GoesOn
<1>4. CASE handle_data_block
  <2> DEFINE f == Head(inq)
             next == handle_rows(h.next_row, f.first, f.rows, h.lines)
  <2>1. next \in Nat /\ next >= h.next_row
    BY <1>0, <1>4, HeadType, RowsForward
       DEF handle_data_block, Pumping, Frames
  <2>2. CASE h' = Appending(h, next) /\ UNCHANGED c
    <3> HIDE DEF next
    <3> QED
      BY <1>0, <1>3, <2>1, <2>2, AppendingLeaves DEF Keeps
  <2>3. CASE OutOfMemory(next, h.eof)
    BY <1>0, <1>1, <2>1, <2>3, OutOfMemoryLeaves
  <2>4. CASE \E st \in {"IO_ERROR", "UNSUPPORTED", "NO_MEM"} : Stopping(h, st)
    BY <1>0, <1>1, <2>4, StoppingLeaves, StatusNames
  <2> QED
    BY <1>4, <2>2, <2>3, <2>4 DEF handle_data_block
<1>5. CASE pump_aborted
  <2> DEFINE code == Head(inq).status
             still == [h EXCEPT !.scanning = FALSE]
             coded == [c EXCEPT !.code = code]
  <2>1. /\ still \in Handles /\ still.open = h.open
        /\ still.source = h.source /\ still.cancelled = h.cancelled
        /\ still.non_blocking = h.non_blocking
    BY <1>0 DEF Handles
  <2>2. coded \in CallStates /\ coded.call = c.call
    <3>1. code \in Nat
      BY <1>0, <1>5, HeadType DEF pump_aborted, Pumping, Frames
    <3> QED
      BY <1>0, <3>1 DEF CallStates
  <2>3. \/ c.call = "start" /\ unlock_device(still, coded, "retry")
        \/ GivingUp(still, "NO_DOCS") \/ GivingUp(still, "IO_ERROR")
        \/ code # 0 /\ GivingUp(still, map_status(code))
    BY <1>5 DEF pump_aborted
  <2> HIDE DEF still, coded, code
  <2>4. CASE c.call = "start" /\ unlock_device(still, coded, "retry")
    BY <1>1, <2>1, <2>2, <2>4, UnlockLeaves, PCNames DEF Keeps, GoesOn
  <2>5. CASE \E st \in Statuses : st # "GOOD" /\ GivingUp(still, st)
    BY <1>0, <1>1, <2>1, <2>5, GivingUpLeaves DEF Keeps
  <2> QED
    BY <2>3, <2>4, <2>5, StatusNames, MapStatusType, MapStatusFails
<1>6. CASE pump_job_end \/ pump_page_end
  <2> DEFINE next == emit_white_rows(h.next_row, h.lines, h.lines)
             aa == Appending(h, next)
             ended == [aa EXCEPT !.eof = TRUE, !.scanning = FALSE]
             paused == [aa EXCEPT !.eof = TRUE, !.feeding = TRUE]
  <2>0. /\ aa \in Handles /\ aa.open = h.open /\ aa.source = h.source
        /\ aa.non_blocking = h.non_blocking /\ aa.cancelled = h.cancelled
    BY <1>0, <1>2, AppendingLeaves
  <2>1. \/ unlock_device(ended, c, "loop")
        \/ OutOfMemory(next, TRUE)
        \/ h' = paused /\ UNCHANGED c
        \/ UNCHANGED <<h, c>>
    BY <1>6 DEF pump_job_end, pump_page_end
  <2> HIDE DEF aa
  <2>2. CASE unlock_device(ended, c, "loop")
    <3>1. /\ ended \in Handles /\ ended.open = h.open
          /\ ended.source = h.source /\ ended.cancelled = h.cancelled
          /\ ended.non_blocking = h.non_blocking
      BY <2>0 DEF Handles
    <3> HIDE DEF ended
    <3> QED
      BY <1>0, <1>1, <2>2, <3>1, UnlockLeaves, PCNames DEF Keeps, GoesOn
  <2>3. CASE OutOfMemory(next, TRUE)
    BY <1>0, <1>1, <1>2, <2>3, OutOfMemoryLeaves
  <2>4. CASE h' = paused /\ UNCHANGED c
    BY <1>3, <2>0, <2>4 DEF Handles, Keeps
  <2>5. CASE UNCHANGED <<h, c>>
    BY <1>3, <2>5 DEF Keeps
  <2> QED
    BY <2>1, <2>2, <2>3, <2>4, <2>5
<1>7. CASE pump_other
  BY <1>3, <1>7 DEF pump_other, Keeps
<1>8. CASE pump_breaks_off
  BY <1>0, <1>1, <1>8, StoppingLeaves, StatusNames DEF pump_breaks_off
<1>9. CASE pump_idle
  BY <1>0, <1>1, <1>9
     DEF pump_idle, Probing, Returning, CallStates, Keeps, GoesOn
<1> QED
  BY <1>4, <1>5, <1>6, <1>7, <1>8, <1>9 DEF pump_frame

LEMMA FirstRowsLeaves ==
  TypeOK /\ CallInv /\ first_rows => Keeps(h) /\ GoesOn
BY DEF TypeOK, first_rows, Returning, CallStates, Keeps, GoesOn, CallInv,
   PlaceInv

-----------------------------------------------------------------------------
(* A step of a call on its way: the contract's Works, or the Answers of the  *)
(* call, whose promises the invariant makes good after the step.             *)

Seen == CallSeen' = CallSeen /\ CallSeen # "none" /\ SamePage

LEMMA Working ==
  ASSUME SessionInv, SessionInv', Seen,
         c.pc \notin {"idle", "return"}, c'.pc # "idle",
         h'.open = h.open, h'.source = h.source,
         h'.non_blocking = h.non_blocking,
         h'.cancelled # h.cancelled => CallSeen = "start" /\ ~h'.cancelled,
         c.call = "read" <=> c'.call = "read",
         c.call = "read" => (c'.then = "cancelled" <=> c.then = "cancelled"),
         c.call = "read" /\ c'.pc = "return" /\ c'.st = "GOOD"
           => h.non_blocking
  PROVE  C!Next
<1>0. /\ h \in Handles /\ h' \in Handles /\ c \in CallStates
      /\ c' \in CallStates /\ g \in Histories
  BY DEF SessionInv, TypeOK
<1>1. /\ UNCHANGED C!handle /\ UNCHANGED <<CallSeen, DoomedSeen, g.ok, LeftSeen>>
      /\ C!MayForget
  BY <1>0 DEF Seen, SamePage, C!handle, C!MayForget, source_is_adf, DoomedSeen,
         LeftSeen
<1>2. AnswerSeen = "none" /\ CallSeen # "none"
  BY DEF AnswerSeen, Seen
<1>3. CASE AnswerSeen' = "none"
  BY <1>1, <1>2, <1>3 DEF C!Next, C!Works, AnswerSeen
<1>4. CASE AnswerSeen' # "none"
  <2>1. c'.pc = "return" /\ c'.call # "close" /\ AnswerSeen' = c'.st
    BY <1>4 DEF AnswerSeen
  <2>2. c'.st \in C!Statuses
    BY <1>0 DEF CallStates, C!Statuses, Statuses
  <2>3. CallSeen \in {"open", "start", "read"}
    BY <1>0, <2>1, <1>2 DEF CallSeen, CallStates, Calls, Seen
  <2>4. c'.st = "CANCELLED" <=> DoomedSeen
    <3>1. c'.st = "CANCELLED" <=> DoomedSeen'
      BY <2>1 DEF SessionInv, CallInv, PlaceInv, AnswerInv, DoomedSeen
    <3> QED
      BY <1>1, <3>1
  <2>5. C!GivesBack(c'.st)
    <3>1. c'.st \notin {"GOOD", "EOF"} =>
            ~HoldsSeen' \/ (c'.call = "start" /\ c'.st = "DEVICE_BUSY")
      <4>1. AnswerInv'
        BY DEF SessionInv, CallInv
      <4>2. c'.st \notin {"GOOD", "EOF"} =>
              \/ ~h'.locked /\ ~h'.scanning /\ ~h'.feeding
              \/ c'.call = "start" /\ c'.st = "DEVICE_BUSY"
        BY <4>1 DEF AnswerInv
      <4> QED
        BY <4>2 DEF HoldsSeen
    <3>2. c'.st = "EOF" => ~HoldsSeen' \/ source_is_adf'
      <4>1. c'.st = "EOF" => h'.eof
        BY DEF SessionInv, CallInv, AnswerInv
      <4>2. h'.scanning /\ h'.eof => source_is_adf'
        BY DEF SessionInv, CallInv, PageInv
      <4>3. /\ h'.locked => h'.scanning
            /\ h'.feeding => h'.scanning
        BY <2>1 DEF SessionInv, LockInv
      <4> QED
        BY <4>1, <4>2, <4>3 DEF HoldsSeen
    <3>3. c'.call = "start" => CallSeen = "start"
      BY DEF Seen, CallSeen
    <3>4. source_is_adf' = source_is_adf
      BY DEF source_is_adf
    <3> QED
      BY <3>1, <3>2, <3>3, <3>4 DEF C!GivesBack
  <2>6. C!HandsOut(c'.st)
    <3>1. CASE c'.st = "EOF"
      <4>1. c'.call = "read" /\ h'.eof /\ h'.out = 0
        BY <3>1 DEF SessionInv, CallInv, AnswerInv
      <4>2. c'.then # "cancelled"
        BY <2>1, <3>1 DEF SessionInv, CallInv, AnswerInv
      <4>3. g'.ok => g'.given = h'.next_row /\ h'.next_row = g'.promised
        <5>1. g' \in Histories /\ h'.next_row \in Nat
          BY <1>0 DEF SessionInv, TypeOK, Handles
        <5> QED
          BY <3>1, <4>1, <4>2, <5>1
             DEF SessionInv, CallInv, PageInv, Failing, Filled, Histories
      <4>4. ~g'.ok => g'.promised = 0 /\ g'.given = 0
        BY DEF SessionInv, CallInv, PageInv
      <4>5. g'.given \in Nat
        BY DEF SessionInv, TypeOK, Histories
      <4>6. g'.promised - g'.given = 0
        BY <4>3, <4>4, <4>5
      <4>7. CallSeen = "read" /\ LeftSeen = 0
        BY <1>1, <4>1, <4>6 DEF CallSeen, LeftSeen, Seen
      <4> QED
        BY <1>1, <3>1, <4>7 DEF C!HandsOut
    <3>2. CASE c'.st \notin {"EOF", "GOOD"}
      BY <1>1, <3>2 DEF C!HandsOut
    <3>3. CASE c'.st = "GOOD" /\ CallSeen = "read"
      <4>1. c.call = "read" /\ h.non_blocking
        BY <2>1, <3>3 DEF CallSeen
      <4>2. g.promised - g.given \in Nat
        BY <1>0 DEF SessionInv, CallInv, PageInv, Histories
      <4> QED
        BY <1>1, <3>3, <4>1, <4>2 DEF C!HandsOut
    <3>4. CASE c'.st = "GOOD" /\ CallSeen # "read"
      BY <1>1, <3>4 DEF C!HandsOut
    <3> QED
      BY <3>1, <3>2, <3>3, <3>4
  <2>7. C!Answers(c'.st)
    BY <1>1, <1>2, <2>1, <2>3, <2>4, <2>5, <2>6 DEF C!Answers
  <2> QED
    BY <2>2, <2>7 DEF C!Next
<1> QED
  BY <1>3, <1>4

(* The groups of steps that keep the rows of the page as they are.           *)
LEMMA WorkingSteps ==
  ASSUME SessionInv, SessionInv',
         \/ CommandStep \/ TeardownStep \/ StartStep \/ pump_frame
         \/ first_rows
  PROVE  C!Next
<1>0. /\ TypeOK /\ LockInv /\ CallInv /\ CallInv' /\ PlaceInv /\ PlaceInv'
      /\ c \in CallStates /\ c' \in CallStates /\ g \in Histories
  BY DEF SessionInv, CallInv, TypeOK
<1>1. SamePage
  BY <1>0 DEF SamePage, Histories, CommandStep, command_sends,
     command_acked, command_skips, command_breaks_off, TeardownStep, Flushes,
     probe_adf, unlock_sends, unlock_recv, abort_sends, drain_frame,
     drain_breaks_off, read_cancelled, StartStep, start_tests_cancelled,
     resume_job, start_busy, start_job, start_retry, pump_frame,
     handle_data_block, pump_aborted, pump_job_end, pump_page_end,
     pump_other, pump_breaks_off, pump_idle, Begun, first_rows
<1>2. c.pc \notin {"idle", "return"}
  BY DEF CommandStep, command_sends, command_acked, command_skips,
     command_breaks_off, TeardownStep, Flushes, probe_adf, unlock_sends,
     unlock_recv, abort_sends, drain_frame, drain_breaks_off,
     read_cancelled, StartStep, start_tests_cancelled, resume_job,
     start_busy, start_job, start_retry, pump_frame, handle_data_block,
     pump_aborted, pump_job_end, pump_page_end, pump_other, pump_breaks_off,
     pump_idle, Pumping, Waiting, first_rows
<1>3. c.call # "none"
  BY <1>0, <1>2 DEF PlaceInv
<1>4. CASE StartStep
  <2>1. /\ h'.open = h.open /\ h'.source = h.source
        /\ h'.non_blocking = h.non_blocking
        /\ h'.cancelled \in {h.cancelled, FALSE}
        /\ c'.call \in {"start", "resume"} /\ c'.pc # "idle"
        /\ c.call = "start"
    BY <1>0, <1>4, StartLeaves
  <2>2. Seen /\ CallSeen = "start"
    BY <1>1, <2>1 DEF Seen, CallSeen
  <2> QED
    BY <1>2, <2>1, <2>2, Working
<1>5. CASE Keeps(h) /\ GoesOn
  <2>1. Seen
    BY <1>1, <1>3, <1>5 DEF Seen, CallSeen, GoesOn
  <2> QED
    BY <1>2, <1>5, <2>1, Working DEF Keeps, GoesOn
<1> QED
  BY <1>0, <1>4, <1>5, CommandLeaves, TeardownLeaves, PumpLeaves,
     FirstRowsLeaves

LEMMA DeliverStep == SessionInv /\ SessionInv' /\ deliver => C!Next
<1> SUFFICES ASSUME SessionInv, SessionInv', deliver PROVE C!Next
  OBVIOUS
<1>0. /\ h \in Handles /\ c \in CallStates /\ g \in Histories
      /\ h.out \in Nat /\ g.promised \in Nat /\ g.given \in Nat
      /\ CallInv /\ CallInv'
  BY DEF SessionInv, TypeOK, Handles, Histories
<1>1. /\ c.pc = "loop" /\ c.call = "read" /\ c.then # "cancelled"
  BY <1>0 DEF deliver, CallInv, PlaceInv
<1>2. /\ c'.call = "read" /\ c'.pc = "return" /\ c'.then = c.then
      /\ c'.st \in {"EOF", "GOOD"}
      /\ Keeps(h) /\ g'.ok = g.ok /\ g'.promised = g.promised
  BY <1>0, <1>1 DEF deliver, Returning, CallStates, Handles, Histories, Keeps
<1>3. /\ CallSeen = "read" /\ AnswerSeen = "none" /\ ~DoomedSeen
      /\ CallSeen' = "read" /\ AnswerSeen' = c'.st /\ ~DoomedSeen'
  BY <1>1, <1>2 DEF CallSeen, AnswerSeen, DoomedSeen
<1>4. UNCHANGED C!handle
  BY <1>2 DEF C!handle, Keeps, source_is_adf
<1>5. /\ ~g.ok => LeftSeen = 0
      /\ ~g'.ok => LeftSeen' = 0
      /\ g.ok => LeftSeen \in Nat
      /\ g'.ok => LeftSeen' \in Nat
  <2>1. g' \in Histories
    BY DEF SessionInv, TypeOK
  <2> QED
    BY <1>0, <2>1 DEF CallInv, PageInv, LeftSeen, Histories
<1>6. C!GivesBack(c'.st)
  <2>1. CASE c'.st = "EOF"
    <3>1. h'.eof
      BY <1>0, <2>1 DEF CallInv, AnswerInv
    <3>2. h'.scanning => source_is_adf'
      BY <1>0, <3>1 DEF CallInv, PageInv
    <3>3. (h'.locked => h'.scanning) /\ (h'.feeding => h'.scanning)
      BY <1>2 DEF SessionInv, LockInv
    <3>4. source_is_adf' = source_is_adf
      BY <1>2 DEF Keeps, source_is_adf
    <3> QED
      BY <2>1, <3>2, <3>3, <3>4 DEF C!GivesBack, HoldsSeen
  <2> QED
    BY <1>2, <2>1 DEF C!GivesBack
<1>7. C!HandsOut(c'.st)
  <2>1. CASE h.out = 0 /\ Returning("EOF") /\ UNCHANGED g
    <3>1. c'.st = "EOF"
      BY <1>0, <2>1 DEF Returning, CallStates
    <3>2. h'.next_row = h.next_row /\ h'.out = 0 /\ h'.eof
      BY <1>0, <2>1, <3>1 DEF CallInv, AnswerInv, deliver, Handles
    <3>3. g.ok => g.given = g.promised
      <4>1. ~Failing'
        BY <1>2, <3>1 DEF Failing, SessionInv, CallInv, AnswerInv
      <4>2. g'.ok => h'.next_row = g'.given + h'.out
                       /\ h'.next_row = g'.promised
        BY <1>0, <3>2, <4>1 DEF CallInv, PageInv, Filled
      <4> QED
        BY <1>0, <2>1, <3>2, <4>2
    <3>4. LeftSeen = 0 /\ UNCHANGED LeftSeen
      BY <1>0, <1>5, <2>1, <3>3 DEF LeftSeen
    <3> QED
      BY <1>3, <3>1, <3>4 DEF C!HandsOut
  <2>2. ASSUME NEW k \in 1..h.out, Returning("GOOD"),
               g' = IF g.ok THEN [g EXCEPT !.given = @ + k] ELSE g
        PROVE  C!HandsOut(c'.st)
    <3>1. c'.st = "GOOD"
      BY <1>0, <2>2 DEF Returning, CallStates
    <3>2. CASE g.ok
      <4>1. g'.given = g.given + k /\ g'.promised = g.promised /\ g'.ok
        BY <1>0, <2>2, <3>2 DEF Histories
      <4>2. LeftSeen' = LeftSeen - k /\ k \in Nat \ {0}
        BY <1>0, <4>1 DEF LeftSeen
      <4>3. LeftSeen' \in 0..LeftSeen /\ LeftSeen' < LeftSeen
        BY <1>5, <3>2, <4>1, <4>2
      <4> QED
        BY <1>3, <3>1, <4>3 DEF C!HandsOut
    <3>3. CASE ~g.ok
      <4>1. LeftSeen = 0 /\ LeftSeen' = 0
        BY <1>2, <1>5, <3>3
      <4> QED
        BY <1>3, <3>1, <3>3, <4>1 DEF C!HandsOut
    <3> QED
      BY <3>2, <3>3
  <2> QED
    BY <2>1, <2>2 DEF deliver
<1>8. C!Answers(c'.st)
  <2>1. c'.st # "CANCELLED"
    BY <1>2
  <2> QED
    <3>1. UNCHANGED <<CallSeen, DoomedSeen, g.ok>> /\ C!MayForget
      BY <1>2, <1>3 DEF C!MayForget, Keeps, DoomedSeen
    <3> QED
      BY <1>3, <1>4, <1>6, <1>7, <2>1, <3>1 DEF C!Answers
<1>9. c'.st \in C!Statuses
  BY <1>2 DEF C!Statuses
<1> QED
  BY <1>8, <1>9 DEF C!Next

-----------------------------------------------------------------------------
(* The ends of the calls, the frontend, the signal and the crash. *)

LEMMA ReturnStep == SessionInv /\ Return => C!Next
<1> SUFFICES ASSUME SessionInv, Return PROVE C!Next
  OBVIOUS
<1>0. /\ h \in Handles /\ c \in CallStates /\ g \in Histories
      /\ CallInv /\ OpenInv /\ c.pc = "return" /\ c.call # "none"
      /\ c.call \in Calls /\ c.st \in Statuses
  BY DEF SessionInv, TypeOK, Return, OpenInv, CallStates
<1>1. C!NoCall'
  BY DEF Return, NoCall, C!NoCall, CallSeen, AnswerSeen, DoomedSeen
<1>2. /\ CallSeen # "none"
      /\ AnswerSeen # "none" <=> CallSeen # "close"
      /\ CallSeen # "close" => AnswerSeen = c.st
  BY <1>0 DEF CallSeen, AnswerSeen, Statuses
<1>3. CASE c.call = "close"
  <2>1. h' = NoHandle /\ g'.ok = FALSE /\ g'.promised = 0 /\ g'.given = 0
    BY <1>3 DEF Return, NoHistory
  <2>2. C!NoHandle' /\ C!NoPage' /\ CallSeen = "close"
    BY <1>3, <2>1 DEF C!NoHandle, C!NoPage, NoHandle, source_is_adf,
       HoldsSeen, LeftSeen, CallSeen
  <2> QED
    BY <1>1, <1>2, <2>2 DEF C!Returns, C!Next
<1>4. CASE c.call = "open"
  <2>1. /\ h' = [h EXCEPT !.open = TRUE]
        /\ g'.ok = FALSE /\ g'.promised = 0 /\ g'.given = 0
    BY <1>4 DEF Return, NoHistory
  <2>2. /\ h'.open /\ h'.source = h.source /\ h'.cancelled = h.cancelled
        /\ h'.non_blocking = h.non_blocking /\ h'.locked = h.locked
        /\ h'.scanning = h.scanning /\ h'.feeding = h.feeding
    BY <1>0, <2>1 DEF Handles
  <2>3. C!NoPage' /\ CallSeen = "open"
    BY <1>4, <2>1 DEF C!NoPage, LeftSeen, CallSeen
  <2>4. UNCHANGED <<source_is_adf, HoldsSeen>>
    BY <2>2 DEF source_is_adf, HoldsSeen
  <2> QED
    BY <1>1, <1>2, <2>2, <2>3, <2>4 DEF C!Returns, C!Next
<1>5. CASE c.call \in {"start", "resume", "read"}
  <2>1. UNCHANGED h /\ CallSeen \in {"start", "read"}
    BY <1>5 DEF Return, CallSeen
  <2>2. UNCHANGED <<C!handle, h.cancelled, HoldsSeen>>
    BY <2>1 DEF C!handle, source_is_adf, HoldsSeen
  <2>3. CASE CallSeen = "start" /\ c.st = "GOOD"
    <3>1. c.call \in {"start", "resume"}
      BY <1>5, <2>3 DEF CallSeen
    <3>2. ~g.ok /\ g.given = 0
      BY <3>1 DEF SessionInv, CallInv, PageInv
    <3>3. g'.ok = TRUE /\ g'.promised = h.lines /\ g'.given = 0
      BY <1>0, <2>3, <3>1, <3>2 DEF Return, Histories
    <3>4. h.lines \in 1..MaxLines
      BY DEF SessionInv, CallInv, PageInv
    <3>5. LeftSeen' \in 1..MaxLines
      BY <3>3, <3>4, SessionAssumption DEF LeftSeen
    <3> QED
      BY <1>1, <1>2, <2>2, <2>3, <3>3, <3>5 DEF C!Returns, C!Next
  <2>4. CASE CallSeen = "read" /\ c.st \in {"GOOD", "EOF"}
    <3>1. UNCHANGED g
      BY <1>5, <2>4 DEF Return, CallSeen
    <3> QED
      BY <1>1, <1>2, <2>2, <2>4, <3>1 DEF C!Returns, C!Next, LeftSeen
  <2>5. CASE /\ ~(CallSeen = "start" /\ c.st = "GOOD")
             /\ ~(CallSeen = "read" /\ c.st \in {"GOOD", "EOF"})
    <3>1. g'.ok = FALSE /\ g'.promised = 0 /\ g'.given = 0
      BY <1>5, <2>5 DEF Return, CallSeen, NoHistory
    <3>2. C!NoPage'
      BY <3>1 DEF C!NoPage, LeftSeen
    <3> QED
      BY <1>1, <1>2, <2>1, <2>2, <2>5, <3>2 DEF C!Returns, C!Next
  <2> QED
    BY <2>3, <2>4, <2>5
<1> QED
  BY <1>0, <1>3, <1>4, <1>5 DEF Calls

LEMMA FrontendStep == RefinementInv /\ Frontend => C!Next
<1> SUFFICES ASSUME RefinementInv, Frontend PROVE C!Next
  OBVIOUS
<1>0. /\ h \in Handles /\ c \in CallStates /\ g \in Histories
      /\ LockInv /\ CallInv /\ c.pc = "idle" /\ c.call = "none"
  BY DEF RefinementInv, SessionInv, TypeOK, Frontend, sane_open, sane_close,
     sane_start, sane_read, sane_set_io_mode, control_option,
     get_parameters, CallInv, PlaceInv
<1>1. CallSeen = "none" /\ AnswerSeen = "none" /\ ~DoomedSeen
  BY <1>0 DEF CallSeen, AnswerSeen, DoomedSeen
<1>2. ASSUME NEW x \in C!Calls, C!Enters(x) PROVE C!Next
  BY <1>2 DEF C!Next
<1>3. CASE sane_open
  <2>1. h' = NoHandle /\ UNCHANGED g /\ ~h.open
    BY <1>3 DEF sane_open
  <2>2. c'.call = "open" /\ c'.pc = "flush"
    BY <1>3, EnteringDoes, CallNames, PCNames DEF sane_open
  <2>3. CallSeen' = "open" /\ AnswerSeen' = "none" /\ DoomedSeen' = FALSE
    BY <2>2 DEF CallSeen, AnswerSeen, DoomedSeen
  <2>4. UNCHANGED <<C!handle, h.cancelled>> /\ ~HoldsSeen'
    BY <1>0, <2>1 DEF RefinementInv, FreshInv, NoHandle, Handles, C!handle,
       source_is_adf, HoldsSeen
  <2>5. UNCHANGED <<g.ok, LeftSeen>>
    BY <2>1 DEF LeftSeen
  <2>6. C!Enters("open")
    BY <1>1, <2>1, <2>3, <2>4, <2>5 DEF C!Enters
  <2> QED
    BY <1>2, <2>6 DEF C!Calls
<1>4. CASE sane_close
  <2>1. /\ Keeps(h) /\ UNCHANGED g /\ h.open /\ c'.call = "close"
        /\ h'.scanning = h.scanning /\ h'.locked = h.locked
        /\ h'.feeding => h.feeding
    BY <1>0, <1>4, EnteringDoes, EndScanLeaves, EndScanDoes, CallNames,
       PCNames DEF sane_close
  <2>2. CallSeen' = "close" /\ AnswerSeen' = "none" /\ DoomedSeen' = FALSE
    BY <2>1 DEF CallSeen, AnswerSeen, DoomedSeen
  <2>3. /\ UNCHANGED <<C!handle, h.cancelled, g.ok, LeftSeen>>
        /\ HoldsSeen' => HoldsSeen
    BY <2>1 DEF Keeps, C!handle, source_is_adf, LeftSeen, HoldsSeen
  <2>4. C!Enters("close")
    BY <1>1, <2>1, <2>2, <2>3 DEF C!Enters
  <2> QED
    BY <1>2, <2>4 DEF C!Calls
<1>5. CASE sane_start
  <2>1. /\ UNCHANGED h /\ h.open /\ c'.call = "start" /\ c'.pc = "test"
        /\ g'.ok = FALSE /\ g'.promised = 0 /\ g'.given = 0
    BY <1>5, EnteringDoes, CallNames, PCNames DEF sane_start, NoHistory
  <2>2. CallSeen' = "start" /\ AnswerSeen' = "none" /\ DoomedSeen' = FALSE
    BY <2>1 DEF CallSeen, AnswerSeen, DoomedSeen
  <2>3. C!NoPage'
    BY <2>1 DEF LeftSeen, C!NoPage
  <2>4. UNCHANGED <<C!handle, h.cancelled>> /\ (HoldsSeen' => HoldsSeen)
    BY <2>1 DEF C!handle, source_is_adf, HoldsSeen
  <2>5. C!Enters("start")
    BY <1>1, <2>1, <2>2, <2>3, <2>4 DEF C!Enters
  <2> QED
    BY <1>2, <2>5 DEF C!Calls
<1>6. CASE sane_read
  <2>1. /\ Keeps(h) /\ UNCHANGED g /\ h.open /\ c'.call = "read"
        /\ c'.pc # "return" /\ (c'.then = "cancelled" <=> h.cancelled)
        /\ HoldsSeen' => HoldsSeen
    <3>1. CASE h.cancelled
      <4>1. /\ Keeps(h) /\ c'.call = "read" /\ c'.then = "cancelled"
            /\ c'.pc = IF h.scanning THEN "abort" ELSE "cancelled"
            /\ h'.scanning = h.scanning /\ h'.locked = h.locked
            /\ h'.feeding => h.feeding
        BY <1>0, <1>6, <3>1, EnteringDoes, EndScanLeaves, EndScanDoes,
           CallNames, PCNames DEF sane_read
      <4> QED
        BY <1>6, <3>1, <4>1 DEF sane_read, HoldsSeen
    <3>2. CASE ~h.cancelled
      <4>1. /\ c'.call = "read" /\ c'.then = "return" /\ c'.pc = "loop"
            /\ UNCHANGED <<h, g>> /\ h.open
        BY <1>6, <3>2, EnteringDoes, CallNames, PCNames DEF sane_read
      <4> QED
        BY <3>2, <4>1 DEF Keeps, HoldsSeen
    <3> QED
      BY <3>1, <3>2
  <2>2. /\ CallSeen' = "read" /\ AnswerSeen' = "none"
        /\ DoomedSeen' = h.cancelled
    BY <1>0, <2>1 DEF CallSeen, AnswerSeen, DoomedSeen, Handles
  <2>3. UNCHANGED <<C!handle, h.cancelled, g.ok, LeftSeen>>
    BY <2>1 DEF Keeps, C!handle, source_is_adf, LeftSeen
  <2>4. C!Enters("read")
    BY <1>0, <1>1, <2>1, <2>2, <2>3 DEF C!Enters, Handles
  <2> QED
    BY <1>2, <2>4 DEF C!Calls
<1>7. CASE sane_set_io_mode \/ control_option \/ get_parameters
  <2>1. /\ UNCHANGED <<c, g>> /\ h.open /\ h'.open = h.open
        /\ h'.cancelled = h.cancelled /\ h'.scanning = h.scanning
        /\ h'.locked = h.locked /\ h'.feeding = h.feeding
        /\ h.scanning => h'.source = h.source
    BY <1>0, <1>7 DEF sane_set_io_mode, control_option, get_parameters,
       Handles
  <2>2. ~HoldsSeen <=> ~h.scanning
    BY <1>0 DEF LockInv, HoldsSeen
  <2>3. /\ UNCHANGED <<CallSeen, AnswerSeen, DoomedSeen, HoldsSeen, LeftSeen>>
        /\ source_is_adf' # source_is_adf => ~HoldsSeen
    BY <2>1, <2>2
       DEF CallSeen, AnswerSeen, DoomedSeen, HoldsSeen, LeftSeen,
           source_is_adf
  <2> QED
    BY <1>1, <2>1, <2>3 DEF C!Selects, C!Next
<1> QED
  BY <1>3, <1>4, <1>5, <1>6, <1>7 DEF Frontend

LEMMA AsyncStep == TypeOK /\ (sane_cancel \/ crash) => C!Next
<1> SUFFICES ASSUME TypeOK, sane_cancel \/ crash PROVE C!Next
  OBVIOUS
<1>1. CASE sane_cancel
  <2>1. /\ UNCHANGED c /\ h.open /\ ~h.cancelled /\ h'.open = h.open
        /\ h'.cancelled = TRUE /\ h'.scanning = h.scanning
        /\ h'.locked = h.locked /\ h'.feeding = h.feeding
        /\ h'.source = h.source /\ h'.non_blocking = h.non_blocking
        /\ SamePage
    BY <1>1 DEF sane_cancel, TypeOK, Handles, Histories, SamePage
  <2> QED
    BY <2>1 DEF C!Cancels, C!Next, C!handle, CallSeen, AnswerSeen,
       DoomedSeen, HoldsSeen, LeftSeen, source_is_adf, SamePage
<1>2. CASE crash
  <2>1. /\ h' = NoHandle /\ c' = NoCall /\ g'.ok = FALSE
        /\ g'.promised = 0 /\ g'.given = 0
    BY <1>2 DEF crash, NoHistory
  <2> QED
    BY <2>1 DEF C!Dies, C!Next, C!NoHandle, C!NoPage, C!NoCall, NoHandle,
       NoCall, CallSeen, AnswerSeen, DoomedSeen, HoldsSeen, LeftSeen,
       source_is_adf
<1> QED
  BY <1>1, <1>2

LEMMA FreshNext == RefinementInv /\ [Next]_vars => FreshInv'
<1> SUFFICES ASSUME RefinementInv, [Next]_vars PROVE FreshInv'
  OBVIOUS
<1>0. /\ h \in Handles /\ c \in CallStates /\ TypeOK /\ LockInv /\ CallInv
      /\ FreshInv
  BY DEF RefinementInv, SessionInv, TypeOK
<1>1. CASE Keeps(h)
  BY <1>0, <1>1 DEF Keeps, FreshInv
<1>2. CASE h' = NoHandle
  BY <1>2 DEF NoHandle, FreshInv
<1>3. CASE CommandStep \/ TeardownStep \/ pump_frame \/ first_rows
  BY <1>0, <1>1, <1>3, CommandLeaves, TeardownLeaves, PumpLeaves,
     FirstRowsLeaves
<1>4. CASE StartStep
  BY <1>0, <1>4, StartLeaves DEF FreshInv, Handles
<1>5. CASE deliver
  BY <1>0, <1>1, <1>5 DEF deliver, Handles, Keeps
<1>6. CASE Return
  <2>1. h' = NoHandle \/ UNCHANGED h \/ h' = [h EXCEPT !.open = TRUE]
    BY <1>6 DEF Return
  <2> QED
    BY <1>0, <1>1, <1>2, <2>1 DEF Handles, Keeps, FreshInv
<1>7. CASE sane_close
  BY <1>0, <1>1, <1>7, EnteringDoes, EndScanLeaves, CallNames, PCNames
     DEF sane_close
<1>8. CASE sane_read
  <2>1. CASE UNCHANGED h
    BY <1>1, <2>1 DEF Keeps
  <2>2. CASE end_scan(Entering("read", "cancelled"), "cancelled")
    BY <1>0, <1>1, <2>2, EnteringDoes, EndScanLeaves, CallNames, PCNames
  <2> QED
    BY <1>8, <2>1, <2>2 DEF sane_read
<1>9. CASE sane_set_io_mode \/ control_option \/ get_parameters \/ sane_cancel
  <2>1. h'.open /\ h.open
    BY <1>0, <1>9 DEF sane_set_io_mode, control_option, get_parameters,
       sane_cancel, Handles
  <2> QED
    BY <2>1 DEF FreshInv
<1>10. CASE sane_open \/ sane_start \/ crash \/ UNCHANGED h
  BY <1>1, <1>2, <1>10 DEF sane_open, sane_start, crash, Keeps
<1> QED
  BY <1>3, <1>4, <1>5, <1>6, <1>7, <1>8, <1>9, <1>10
     DEF Next, Backend, Device, vars, CommandStep, TeardownStep, StartStep,
         Frontend

LEMMA StepKept ==
  RefinementInv /\ RefinementInv' /\ [Next]_vars => [C!Next]_(C!vars)
<1> SUFFICES ASSUME RefinementInv, RefinementInv', [Next]_vars
             PROVE  [C!Next]_(C!vars)
  OBVIOUS
<1>0. SessionInv /\ SessionInv' /\ TypeOK
  BY DEF RefinementInv, SessionInv
<1>1. CASE Backend
  BY <1>0, <1>1, WorkingSteps, DeliverStep, ReturnStep
     DEF Backend, CommandStep, TeardownStep, StartStep
<1>2. CASE Frontend \/ sane_cancel \/ crash
  BY <1>0, <1>2, FrontendStep, AsyncStep
<1>3. CASE UNCHANGED <<h, c, g>>
  BY <1>3 DEF C!vars, C!handle, CallSeen, AnswerSeen, DoomedSeen, HoldsSeen,
     LeftSeen, source_is_adf
<1> QED
  BY <1>1, <1>2, <1>3 DEF Next, Device, vars

(* KeepsContract: whatever the transfers, the scanner and the signals do,    *)
(* the entry points of pantum.c keep the promises of SaneContract: every     *)
(* behaviour of the session is one of the contract.                          *)
THEOREM ContractKept == Spec => KeepsContract
<1>1. Init => C!Init
  BY DEF Init, NoHandle, NoCall, NoHistory, C!Init, C!NoHandle, C!NoPage,
     C!NoCall, CallSeen, AnswerSeen, DoomedSeen, HoldsSeen, LeftSeen,
     source_is_adf
<1>2. Init => FreshInv
  BY DEF Init, NoHandle, FreshInv
<1>3. RefinementInv /\ [Next]_vars => FreshInv'
  BY FreshNext
<1>4. RefinementInv /\ RefinementInv' /\ [Next]_vars => [C!Next]_(C!vars)
  BY StepKept
<1>5. Spec => []SessionInv
  BY SessionInvariant
<1>6. Spec => []RefinementInv
  BY <1>2, <1>3, <1>5, PTL DEF Spec, RefinementInv
<1> QED
  BY <1>1, <1>4, <1>6, PTL DEF Spec, KeepsContract, C!Spec
=============================================================================
