----------------------------- MODULE SaneContract -----------------------------
(***************************************************************************)
(* What src/src/pantum.c promises a frontend about one handle, whatever    *)
(* the scanner and the cable do: how a call may be answered, how many rows *)
(* a page has, what a cancel does and when the scanner is given back.  No  *)
(* transfer, no command and no frame appears here; ScanSession is shown to *)
(* implement it (module SessionContract).                                  *)
(***************************************************************************)
EXTENDS Naturals

CONSTANT MaxRows   \* rows of the longest page

VARIABLES open,       \* the frontend has the handle
          fed,        \* the source it selected is the feeder
          blocking,   \* the I/O mode it set
          call,       \* the call in progress
          reply,      \* what it is about to return, "none" while it works
          cancelled,  \* sane_cancel was called
          doomed,     \* the read in progress began after the cancel
          holds,      \* the scanner is locked, or runs a job, for us
          live,       \* a page was announced and none of its reads failed
          left        \* its rows not handed out yet

handle == <<open, fed, blocking>>
vars == <<handle, call, reply, cancelled, doomed, holds, live, left>>

Calls == {"open", "start", "read", "close"}

Statuses == {"GOOD", "UNSUPPORTED", "CANCELLED", "DEVICE_BUSY", "EOF",
             "JAMMED", "NO_DOCS", "COVER_OPEN", "IO_ERROR", "NO_MEM"}

NoHandle ==
  /\ open = FALSE /\ fed = FALSE /\ blocking = TRUE
  /\ cancelled = FALSE /\ holds = FALSE

NoPage == live = FALSE /\ left = 0

NoCall == call = "none" /\ reply = "none" /\ doomed = FALSE

Init == NoHandle /\ NoPage /\ NoCall

-----------------------------------------------------------------------------
(* A frontend makes one call at a time; a start gives up the last page.      *)
Enters(x) ==
  /\ call = "none" /\ call' = x
  /\ x = "open" <=> ~open
  /\ doomed' = (x = "read" /\ cancelled)
  /\ IF x = "start" THEN NoPage' ELSE UNCHANGED <<live, left>>
  /\ holds' => holds
  /\ UNCHANGED <<handle, reply, cancelled>>

(* Options and the I/O mode are set between calls; the source only while no  *)
(* job runs.                                                                 *)
Selects ==
  /\ call = "none" /\ open
  /\ fed' # fed => ~holds
  /\ UNCHANGED <<open, call, reply, cancelled, doomed, holds, live, left>>

(* From a signal handler, so also during a call.                             *)
Cancels ==
  /\ open /\ ~cancelled
  /\ cancelled' = TRUE
  /\ UNCHANGED <<handle, call, reply, doomed, holds, live, left>>

(* Only a start takes a cancel back.                                         *)
MayForget == cancelled' # cancelled => call = "start" /\ ~cancelled'

(* The call goes on.                                                         *)
Works ==
  /\ call # "none" /\ reply = "none"
  /\ MayForget
  /\ UNCHANGED <<handle, call, reply, doomed, live, left>>

(* The scanner is given back by every call that fails, unless it is a start  *)
(* in the way of an earlier one, and at the end of a page from the glass.    *)
GivesBack(st) ==
  \/ ~holds'
  \/ st = "EOF" /\ fed
  \/ st = "GOOD"
  \/ st = "DEVICE_BUSY" /\ call = "start"

(* A page ends when all its rows were handed out and not before; until then  *)
(* a blocking read brings some of them.                                      *)
HandsOut(st) ==
  \/ st # "GOOD" /\ (st = "EOF" => call = "read" /\ left = 0) /\ UNCHANGED left
  \/ st = "GOOD" /\ call = "read"
       /\ left' \in 0..left
       /\ live /\ blocking => left' < left
  \/ st = "GOOD" /\ call # "read" /\ UNCHANGED left

(* A read that began after the cancel is answered CANCELLED, and none else.  *)
Answers(st) ==
  /\ call \in {"open", "start", "read"} /\ reply = "none"
  /\ reply' = st
  /\ st = "CANCELLED" <=> doomed
  /\ GivesBack(st)
  /\ HandsOut(st)
  /\ MayForget
  /\ UNCHANGED <<handle, call, doomed, live>>

(* The call returns: a start that went well announces a page, a failure ends *)
(* the one there was.                                                        *)
Returns ==
  /\ call # "none" /\ (reply # "none" <=> call # "close")
  /\ NoCall'
  /\ CASE call = "close" -> NoHandle'
       [] call = "open" -> open' /\ UNCHANGED <<fed, blocking, cancelled, holds>>
       [] OTHER -> UNCHANGED <<handle, cancelled, holds>>
  /\ CASE call = "start" /\ reply = "GOOD" -> live' /\ left' \in 1..MaxRows
       [] call = "read" /\ reply \in {"GOOD", "EOF"} -> UNCHANGED <<live, left>>
       [] OTHER -> NoPage'

(* The frontend dies in whatever it was doing.                               *)
Dies == NoHandle' /\ NoPage' /\ NoCall'

Next ==
  \/ \E x \in Calls : Enters(x)
  \/ \E st \in Statuses : Answers(st)
  \/ Selects \/ Cancels \/ Works \/ Returns \/ Dies

Spec == Init /\ [][Next]_vars
=============================================================================
