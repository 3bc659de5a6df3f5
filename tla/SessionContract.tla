---------------------------- MODULE SessionContract ----------------------------
(***************************************************************************)
(* ScanSession implements SaneContract: the handle, the call in progress   *)
(* and the history of the page, seen as the frontend sees them.            *)
(***************************************************************************)
EXTENDS ScanSession

(* sane_start resumes a job or runs one; close returns nothing.              *)
CallSeen == IF c.call = "resume" THEN "start" ELSE c.call
AnswerSeen == IF c.pc = "return" /\ c.call # "close" THEN c.st ELSE "none"

(* A read that began after the cancel is on its way to CANCELLED.            *)
DoomedSeen == c.call = "read" /\ c.then = "cancelled"
HoldsSeen == h.locked \/ h.scanning \/ h.feeding
LeftSeen == g.promised - g.given

C == INSTANCE SaneContract WITH
       MaxRows <- MaxLines,
       open <- h.open,
       fed <- source_is_adf,
       blocking <- ~h.non_blocking,
       call <- CallSeen,
       reply <- AnswerSeen,
       cancelled <- h.cancelled,
       doomed <- DoomedSeen,
       holds <- HoldsSeen,
       live <- g.ok,
       left <- LeftSeen

(* Whatever the transfers, the device and the signals do, the frontend sees  *)
(* a handle that keeps the contract of pantum.c's entry points: pages of     *)
(* exactly the promised rows, a cancel that the next read answers and only a *)
(* start takes back, and a scanner given back by whatever ends a page.       *)
KeepsContract == C!Spec
=============================================================================
