------------------------------- MODULE Scanner -------------------------------
(***************************************************************************)
(* The M6500 firmware as far as the backend can see it: an environment for *)
(* ScanSession.  None of this code is in the repository; each behaviour is *)
(* one that src/src/pantum.c (or the protocol notes it quotes) provides    *)
(* for.  The device answers commands in order, runs at most one job, and   *)
(* stops talking while the input pipe is full (the endpoint NAKs).         *)
(***************************************************************************)
EXTENDS AspWire

CONSTANTS QMax,        \* frames the device can have queued on EP_IN
          MaxSheets,   \* sheets the feeder can hold
          MaxBlocks,   \* data blocks the device sends for one page
          Blocks,      \* <<first, rows>> of the blocks it may send
          LockCodes,   \* status words it may answer CMD_LOCK with
          JobCodes,    \* status words of EVT_ABORTED
          Feeders      \* \subseteq BOOLEAN: does this unit have a feeder

ASSUME ScannerAssumption ==
  /\ QMax \in Nat \ {0}
  /\ MaxSheets \in Nat
  /\ MaxBlocks \in Nat
  /\ Blocks \subseteq Nat \X (Nat \ {0})
  /\ LockCodes \subseteq Nat
  /\ JobCodes \subseteq Nat
  /\ Feeders \subseteq BOOLEAN

VARIABLE d  \* the device

Jobs == {"none", "begin", "page", "ending"}

DeviceTypeOK ==
  d \in [locked : BOOLEAN, job : Jobs, source : Sources, blocks : Nat,
         feeder : BOOLEAN, sheets : Nat]

DeviceInit ==
  d \in [locked : {FALSE}, job : {"none"}, source : {"FLATBED"}, blocks : {0},
         feeder : Feeders, sheets : 0..MaxSheets]

(* Nothing is on its way to the host and nothing will be.                    *)
Quiet == outq = <<>> /\ d.job = "none"

Room == Len(inq) < QMax

Says(f) == inq' = Append(inq, f)

Taking(cmd) == outq # <<>> /\ Head(outq).cmd = cmd /\ outq' = Tail(outq)

(* The answer to a command, which a fault may swallow. *)
Answers(f) ==
  \/ Room /\ Says(f) /\ UNCHANGED faults
  \/ Fault /\ UNCHANGED inq

-----------------------------------------------------------------------------
TakesLock ==
  /\ Taking("LOCK")
  /\ \E s \in LockCodes :
       /\ d.job # "none" => s = 2
       /\ Answers(Reply("LOCK", s, 0))
       /\ d' = [d EXCEPT !.locked = @ \/ s = 0]

TakesUnlock ==
  /\ Taking("UNLOCK")
  /\ Answers(Reply("UNLOCK", 0, 0))
  /\ d' = [d EXCEPT !.locked = FALSE, !.job = "none"]

TakesAdfStatus ==
  /\ Taking("ADF_STATUS")
  /\ Answers(IF d.feeder
             THEN Reply("ADF_STATUS", 0, IF d.sheets > 0 THEN 1 ELSE 0)
             ELSE Reply("ADF_STATUS", 1, 0))
  /\ UNCHANGED d

TakesSettings ==
  /\ \E cmd \in {"SET_DEFAULTS", "GET_SETTINGS", "SET_SETTINGS"} :
       /\ Taking(cmd)
       /\ \/ Answers(Reply(cmd, IF d.locked THEN 0 ELSE 1, 0))
          \/ cmd = "GET_SETTINGS" /\ Room /\ Fault
             /\ Says([Reply(cmd, 0, 0) EXCEPT !.body = "bad"])
  /\ UNCHANGED d

TakesStart ==
  /\ Taking("START")
  /\ LET ok == d.locked /\ d.job = "none" IN
       /\ Answers(Reply("START", IF ok THEN 0 ELSE 1, 0))
       /\ d' = IF ok THEN [d EXCEPT !.job = "begin",
                                    !.source = Head(outq).source]
                     ELSE d

(* An abort ends the job, with the event that says so or in silence; with no *)
(* job left there is nothing to answer.                                      *)
TakesAbort ==
  /\ Taking("ABORT")
  /\ \/ d.job # "none" /\ Room /\ Says(Reply("ABORTED", 0, 0))
     \/ UNCHANGED inq
  /\ d' = [d EXCEPT !.job = "none"]
  /\ UNCHANGED faults

TakesCommand ==
  \/ TakesLock \/ TakesUnlock \/ TakesAdfStatus
  \/ TakesSettings \/ TakesStart \/ TakesAbort

-----------------------------------------------------------------------------
(* The next page: the flatbed scans one, the feeder as many as it has paper. *)
BeginsPage ==
  /\ d.job = "begin"
  /\ d.source = "ADF" => d.sheets > 0
  /\ Room /\ \E cmd \in {"SETTINGS", "PAGE_BEGIN"} : Says(Reply(cmd, 0, 0))
  /\ d' = [d EXCEPT !.job = "page", !.blocks = 0,
                    !.sheets = IF d.source = "ADF" THEN @ - 1 ELSE @]
  /\ UNCHANGED <<outq, faults>>

SendsBlock ==
  /\ d.job = "page"
  /\ d.blocks < MaxBlocks
  /\ Room
  /\ d' = [d EXCEPT !.blocks = @ + 1]
  /\ \E b \in Blocks :
       \/ Says(Data(b[1], b[2], "ok")) /\ UNCHANGED faults
       \/ Fault /\ \E body \in {"bad", "jpeg"} : Says(Data(b[1], b[2], body))
  /\ UNCHANGED outq

EndsPage ==
  /\ d.job = "page"
  /\ Room /\ Says(Reply("PAGE_END", 0, 0))
  /\ d' = [d EXCEPT !.job = IF d.source = "ADF" THEN "begin" ELSE "ending"]
  /\ UNCHANGED <<outq, faults>>

EndsJob ==
  /\ \/ d.job = "ending"
     \/ d.job = "begin" /\ d.source = "ADF" /\ d.sheets = 0
  /\ Room /\ Says(Reply("JOB_END", 0, 0))
  /\ d' = [d EXCEPT !.job = "none"]
  /\ UNCHANGED <<outq, faults>>

(* A paper jam, an open cover, a job refused at its start. *)
GivesUp ==
  /\ d.job # "none"
  /\ Room /\ \E s \in JobCodes : Says(Reply("ABORTED", s, 0))
  /\ d' = [d EXCEPT !.job = "none"]
  /\ UNCHANGED <<outq, faults>>

RunsJob == BeginsPage \/ SendsBlock \/ EndsPage \/ EndsJob \/ GivesUp

(* Somebody puts paper into the feeder between two jobs. *)
LoadPaper ==
  /\ d.job = "none"
  /\ d.feeder /\ d.sheets < MaxSheets
  /\ d' = [d EXCEPT !.sheets = @ + 1]
  /\ UNCHANGED <<outq, inq, faults>>

DeviceStep == TakesCommand \/ RunsJob
=============================================================================
