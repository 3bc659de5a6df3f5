------------------------------- MODULE AspWire -------------------------------
(***************************************************************************)
(* The "ASP\x01" framing between the SANE backend and the scanner, as      *)
(* src/src/pantum.c uses it over the two bulk endpoints of interface 1.    *)
(* A frame is one record; the sixteen bytes of header the code never looks *)
(* at and the pixels of a payload are left out.  outq is the host->device  *)
(* pipe, inq the device->host pipe.  Everything that can go wrong on USB   *)
(* is paid for out of a budget of faults, so that bounded instances stay   *)
(* finite while every single fault can strike at every single transfer.    *)
(***************************************************************************)
EXTENDS Naturals, Sequences

CONSTANT MaxFaults  \* how many faults one behaviour may see

ASSUME WireAssumption == MaxFaults \in Nat

VARIABLES outq,    \* frames written to EP_OUT, not yet taken by the device
          inq,     \* frames queued by the device on EP_IN
          faults   \* how many transport or device faults may still happen

(* Host commands, CMD_* of pantum.h. *)
Cmds == {"LOCK", "UNLOCK", "START", "ABORT", "GET_SETTINGS", "SET_SETTINGS",
         "SET_DEFAULTS", "ADF_STATUS"}

(* Device events, EVT_* of pantum.h.  SCAN_BEGIN, PAGE_BEGIN and SCAN_END    *)
(* all take pump_frame's default branch; PAGE_BEGIN stands for the three.    *)
Evts == {"ABORTED", "DATA", "SETTINGS", "PAGE_BEGIN", "JOB_END", "PAGE_END"}

Sources == {"FLATBED", "ADF"}

(* What is left in the pipe when a frame is read only in part: its first     *)
(* word is not PANTUM_MAGIC, or it announces an absurd payload.              *)
Garbage == [cmd |-> "GARBAGE", status |-> 0, arg0 |-> 0, first |-> 0,
            rows |-> 0, body |-> "ok"]

(* body: "ok", "bad" (a payload of the wrong length or shape) or "jpeg"      *)
(* (a DATA block of the type the backend cannot decode).                     *)
Frames == [cmd : Cmds \cup Evts \cup {"GARBAGE"}, status : Nat, arg0 : Nat,
           first : Nat, rows : Nat, body : {"ok", "bad", "jpeg"}]

Requests == [cmd : Cmds, source : Sources]

Reply(cmd, status, arg0) ==
  [cmd |-> cmd, status |-> status, arg0 |-> arg0, first |-> 0, rows |-> 0,
   body |-> "ok"]

Data(first, rows, body) ==
  [cmd |-> "DATA", status |-> 0, arg0 |-> 0, first |-> first, rows |-> rows,
   body |-> body]

(* Frames whose header is followed by bytes that a second transfer reads.    *)
HasPayload(f) == f.cmd \in {"DATA", "SETTINGS", "GET_SETTINGS"}

Statuses == {"GOOD", "UNSUPPORTED", "CANCELLED", "DEVICE_BUSY", "EOF",
             "JAMMED", "NO_DOCS", "COVER_OPEN", "IO_ERROR", "NO_MEM"}

(* Mutant: only the codes seen on the bench are mapped. *)
map_status_partial(s) ==
  CASE s = 0 -> "GOOD" [] s = 2 -> "DEVICE_BUSY" [] OTHER -> "UNKNOWN"

map_status(s) ==
  CASE s = 0 -> "GOOD"
    [] s = 2 -> "DEVICE_BUSY"
    [] s = 5 -> "NO_DOCS"
    [] s \in {6, 7} -> "JAMMED"
    [] s = 8 -> "COVER_OPEN"
    [] OTHER -> "IO_ERROR"

-----------------------------------------------------------------------------
Fault == faults > 0 /\ faults' = faults - 1

WireInit == outq = <<>> /\ inq = <<>> /\ faults = MaxFaults

(* send_frame: the command reaches the device ...                            *)
Sent(cmd, source) ==
  /\ outq' = Append(outq, [cmd |-> cmd, source |-> source])
  /\ UNCHANGED faults

(* ... or usb_write gives up, which does not tell whether the device took    *)
(* the bytes of a transfer that timed out.                                   *)
SendFails(cmd, source, delivered) ==
  /\ Fault
  /\ outq' = IF delivered THEN Append(outq, [cmd |-> cmd, source |-> source])
                          ELSE outq

(* A read that ends inside the frame in front loses its header, or nothing.  *)
CutShort == inq # <<>> /\ inq' \in {inq, <<Garbage>> \o Tail(inq)}

(* recv_frame and the read of the payload both succeed on Head(inq).         *)
Received ==
  /\ inq # <<>>
  /\ Head(inq).cmd # "GARBAGE"
  /\ inq' = Tail(inq)
  /\ UNCHANGED faults

(* recv_frame succeeds and the read of the payload breaks off: the rest of   *)
(* the payload stays in the pipe.                                            *)
ReceivedPart ==
  /\ inq # <<>>
  /\ HasPayload(Head(inq))
  /\ Fault
  /\ inq' = <<Garbage>> \o Tail(inq)

(* Mutant: no timeout on the transfer. *)
RecvFails_no_timeout(quiet) == CutShort /\ Fault

(* recv_frame fails.  An empty pipe times out for free only when the device  *)
(* has nothing left to say (quiet); giving up on a slow device is a fault.   *)
RecvFails(quiet) ==
  \/ /\ inq = <<>>
     /\ IF quiet THEN UNCHANGED faults ELSE Fault
     /\ UNCHANGED inq
  \/ /\ inq # <<>>
     /\ Head(inq) = Garbage
     /\ inq' \in {inq, Tail(inq)}
     /\ UNCHANGED faults
  \/ CutShort /\ Fault

(* cmd, or an answer to it, is still in one of the pipes. *)
Outstanding(cmd) ==
  \/ \E i \in DOMAIN outq : outq[i].cmd = cmd
  \/ \E i \in DOMAIN inq : inq[i].cmd = cmd
=============================================================================
