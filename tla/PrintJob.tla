------------------------------- MODULE PrintJob -------------------------------
(***************************************************************************)
(* One run of the CUPS filter src/src/rastertopantum.c: main() with        *)
(* render_page, finish_page, emit_page, render_blank_page and the manual   *)
(* duplex spool.  A page is its number and its copies; what is on it is    *)
(* not modelled.  One SIGTERM may arrive before any step or in any write   *)
(* to stdout (no SA_RESTART), the backend that reads stdout may go away.   *)
(***************************************************************************)
EXTENDS Naturals, Sequences

CONSTANTS MaxPages,   \* whole pages of the longest raster stream
          Copies,     \* values of NumCopies
          Duplex,     \* values of ManualDuplex
          Faults      \* what may fail

ASSUME PrintAssumption ==
  /\ MaxPages \in Nat
  /\ Copies \subseteq Nat \ {0}
  /\ Duplex \subseteq BOOLEAN
  /\ Faults \subseteq {"files", "memory", "spool", "backend"}

VARIABLES job,        \* ManualDuplex, the raster stream, NumCopies
          pc, page, i,
          job_cancelled,
          gone,       \* nobody reads stdout any more
          status,
          out,        \* what stdout carried
          acct,       \* copies reported by the "PAGE:" lines
          fronts, backs   \* page numbers in the two spool files

vars == <<job, pc, page, i, job_cancelled, gone, status, out, acct, fronts, backs>>

(* Where the stream ends after its whole pages: where it should ("end"), in  *)
(* the lines of the last page that lie below the page buffer ("tail"), in    *)
(* the header of another page ("torn") or in the rows of one ("short"), or   *)
(* with a header the filter refuses ("bad").                                 *)
Endings == {"end", "tail", "torn", "short", "bad"}
Jobs == {j \in [duplex : Duplex, pages : 0..MaxPages, ends : Endings, copies : Copies] :
           j.ends = "tail" => j.pages > 0}

PCs == {"start", "header", "render", "emit", "end", "fronts", "blank", "backs",
        "trailer", "flush", "done"}

Chunk == [kind : {"head", "page", "pause", "end", "torn"}, page : Nat, copies : Nat]
Mark(k) == [kind |-> k, page |-> 0, copies |-> 0]
HEAD == Mark("head")      \* UEL, JZJZ, PANTUM_PARAM, START_DOC
PAUSE == Mark("pause")
END == Mark("end")        \* END_DOC, UEL
TORN == Mark("torn")      \* the first bytes of a write that was cut short
Face(n, copies) == [kind |-> "page", page |-> n, copies |-> copies]

-----------------------------------------------------------------------------
(* fwrite to stdout: what a backend that is gone no longer gets may still    *)
(* fit the buffer of stdio.                                                  *)
Puts(c) ==
  /\ out' = IF gone THEN out ELSE Append(out, c)
  /\ UNCHANGED job_cancelled

(* A write that fails: SIGPIPE is ignored, the one SIGTERM interrupts. *)
PutFails ==
  \/ gone /\ UNCHANGED <<out, job_cancelled>>
  \/ /\ ~gone /\ ~job_cancelled
     /\ out' = Append(out, TORN) /\ job_cancelled' = TRUE

Goto(l) == pc' = l

(* Mutant: the exit status counts the failures. *)
Error_counts == status' = status + 1

Error == status' = 1

(* What main does about render_page() < 0. *)
PageError(cancelled) == status' = IF cancelled THEN status ELSE 1

on_cancel ==
  /\ pc # "done" /\ ~job_cancelled
  /\ job_cancelled' = TRUE
  /\ UNCHANGED <<job, pc, page, i, gone, status, out, acct, fronts, backs>>

BackendGoes ==
  /\ "backend" \in Faults
  /\ pc # "done" /\ ~gone
  /\ gone' = TRUE
  /\ UNCHANGED <<job, pc, page, i, job_cancelled, status, out, acct, fronts, backs>>

-----------------------------------------------------------------------------
(* Everything before the first page.  The head stays in stdio's buffer, so   *)
(* no signal cuts it; no spool file, no raster stream or no head end the     *)
(* job without a trailer.                                                    *)
begin_document ==
  /\ pc = "start"
  /\ \/ Puts(HEAD) /\ Goto("header") /\ UNCHANGED status
     \/ /\ "files" \in Faults \/ gone
        /\ Error /\ Goto("done") /\ UNCHANGED <<out, job_cancelled>>
  /\ UNCHANGED <<job, page, i, gone, acct, fronts, backs>>

(* cupsRasterReadHeader2 finds a header; it does not tell the end of the     *)
(* stream from a header that is torn or a stream that died before.           *)
HeaderComes ==
  page < job.pages \/ (page = job.pages /\ job.ends \in {"short", "bad"})

Refused == page = job.pages /\ job.ends = "bad"

(* The head of the page loop. *)
read_header ==
  /\ pc = "header"
  /\ ~job_cancelled /\ HeaderComes
  /\ \/ Refused /\ Error /\ Goto("end") /\ UNCHANGED <<page, acct>>
     \/ /\ ~Refused
        /\ page' = page + 1
        /\ acct' = acct + job.copies
        /\ Goto("render") /\ UNCHANGED status
  /\ UNCHANGED <<job, i, job_cancelled, gone, out, fronts, backs>>

loop_ends ==
  /\ pc = "header"
  /\ job_cancelled \/ ~HeaderComes
  /\ Goto("end")
  /\ UNCHANGED <<job, page, i, job_cancelled, gone, status, out, acct, fronts, backs>>

(* The stream fills the page buffer; what is missing below it the drain of   *)
(* render_page does not report.                                              *)
Filled == page <= job.pages

RenderFails == ~Filled \/ job_cancelled \/ "memory" \in Faults

(* Mutant: a page that cannot be rendered ends the program at once. *)
render_page_exits ==
  /\ pc = "render"
  /\ \/ /\ Filled /\ Goto("emit") /\ UNCHANGED status
     \/ RenderFails /\ PageError(job_cancelled) /\ Goto("done")
  /\ UNCHANGED <<job, page, i, job_cancelled, gone, out, acct, fronts, backs>>

(* Reading and compressing the page: memory may run out, a cancelled read    *)
(* may fail, a stream that ends within the page buffer must.                 *)
render_page ==
  /\ pc = "render"
  /\ \/ /\ Filled /\ Goto("emit") /\ UNCHANGED status
     \/ RenderFails /\ PageError(job_cancelled) /\ Goto("end")
  /\ UNCHANGED <<job, page, i, job_cancelled, gone, out, acct, fronts, backs>>

emit_page ==
  /\ pc = "emit" /\ ~job.duplex
  /\ \/ Puts(Face(page, job.copies)) /\ Goto("header") /\ UNCHANGED status
     \/ PutFails /\ PageError(~gone \/ job_cancelled) /\ Goto("end")
  /\ UNCHANGED <<job, page, i, gone, acct, fronts, backs>>

(* The page goes to the spool; the write or spool_mark may fail. *)
spool_page ==
  /\ pc = "emit" /\ job.duplex
  /\ \/ /\ IF page % 2 = 1 THEN fronts' = Append(fronts, page) /\ UNCHANGED backs
                           ELSE backs' = Append(backs, page) /\ UNCHANGED fronts
        /\ Goto("header") /\ UNCHANGED status
     \/ /\ "spool" \in Faults
        /\ PageError(job_cancelled) \/ Error
        /\ Goto("end") /\ UNCHANGED <<fronts, backs>>
  /\ UNCHANGED <<job, page, i, job_cancelled, gone, out, acct>>

Replays == job.duplex /\ status = 0 /\ ~job_cancelled /\ page > 0

(* Mutant: what was spooled before an error is printed. *)
pages_end_replays ==
  /\ pc = "end"
  /\ status' = IF status = 0 /\ ~job_cancelled /\ page = 0 THEN 1 ELSE status
  /\ IF job.duplex /\ ~job_cancelled /\ page > 0
     THEN Goto("fronts") /\ i' = 1 ELSE Goto("trailer") /\ UNCHANGED i
  /\ UNCHANGED <<job, page, job_cancelled, gone, out, acct, fronts, backs>>

pages_end ==
  /\ pc = "end"
  /\ status' = IF status = 0 /\ ~job_cancelled /\ page = 0 THEN 1 ELSE status
  /\ IF Replays THEN Goto("fronts") /\ i' = 1 ELSE Goto("trailer") /\ UNCHANGED i
  /\ UNCHANGED <<job, page, job_cancelled, gone, out, acct, fronts, backs>>

(* The spool itself may fail to seek or read. *)
CopyFails ==
  \/ PutFails
  \/ "spool" \in Faults /\ UNCHANGED <<out, job_cancelled>>

(* spool_copy of a front. *)
replay_front ==
  /\ pc = "fronts" /\ i <= Len(fronts)
  /\ \/ Puts(Face(fronts[i], job.copies)) /\ i' = i + 1 /\ UNCHANGED <<pc, status>>
     \/ CopyFails /\ Error /\ Goto("trailer") /\ UNCHANGED i
  /\ UNCHANGED <<job, page, gone, acct, fronts, backs>>

pause ==
  /\ pc = "fronts" /\ i > Len(fronts)
  /\ \/ Puts(PAUSE) /\ UNCHANGED status
     \/ PutFails /\ Error
  /\ Goto("blank")
  /\ UNCHANGED <<job, page, i, gone, acct, fronts, backs>>

BlankFails ==
  \/ PutFails
  \/ "memory" \in Faults /\ UNCHANGED <<out, job_cancelled>>

(* An odd page count needs one blank back; a failed pause does not stop it.  *)
render_blank_page ==
  /\ pc = "blank"
  /\ \/ /\ Len(backs) < Len(fronts)
        /\ page' = page + 1
        /\ acct' = acct + 1
        /\ \/ Puts(Face(page + 1, job.copies)) /\ UNCHANGED status
           \/ BlankFails /\ Error
     \/ /\ Len(backs) = Len(fronts)
        /\ UNCHANGED <<page, acct, out, job_cancelled, status>>
  /\ i' = Len(backs)
  /\ Goto("backs")
  /\ UNCHANGED <<job, gone, fronts, backs>>

(* Mutant: the backs are replayed in the order they were spooled. *)
back_at_forward(k) == backs[Len(backs) + 1 - k]

(* i counts down. *)
back_at(k) == backs[k]

replay_back ==
  /\ pc = "backs" /\ status = 0 /\ i > 0
  /\ i' = i - 1
  /\ \/ Puts(Face(back_at(i), job.copies)) /\ UNCHANGED status
     \/ CopyFails /\ Error
  /\ UNCHANGED <<job, pc, page, gone, acct, fronts, backs>>

replay_ends ==
  /\ pc = "backs" /\ (status # 0 \/ i = 0)
  /\ Goto("trailer")
  /\ UNCHANGED <<job, page, i, job_cancelled, gone, status, out, acct, fronts, backs>>

end_document ==
  /\ pc = "trailer"
  /\ \/ Puts(END) /\ UNCHANGED status
     \/ PutFails /\ Error
  /\ Goto("flush")
  /\ UNCHANGED <<job, page, i, gone, acct, fronts, backs>>

(* Mutant: nobody looks at the result of fflush. *)
flush_unchecked ==
  /\ pc = "flush"
  /\ Goto("done")
  /\ UNCHANGED <<job, page, i, job_cancelled, gone, status, out, acct, fronts, backs>>

(* An interrupted fflush may lose whatever stdio still held: everything from *)
(* some chunk on.                                                            *)
FlushBreaksOff ==
  /\ ~gone /\ ~job_cancelled /\ job_cancelled' = TRUE
  /\ \/ UNCHANGED out
     \/ \E k \in 0..(Len(out) - 1) : out' = Append(SubSeq(out, 1, k), TORN)

flush ==
  /\ pc = "flush"
  /\ Goto("done")
  /\ \/ ~gone /\ UNCHANGED <<status, out, job_cancelled>>
     \/ FlushBreaksOff /\ Error
     \/ gone /\ Error /\ UNCHANGED <<out, job_cancelled>>
  /\ UNCHANGED <<job, page, i, gone, acct, fronts, backs>>

-----------------------------------------------------------------------------
Init ==
  /\ job \in Jobs
  /\ pc = "start" /\ page = 0 /\ i = 0
  /\ job_cancelled = FALSE /\ gone = FALSE
  /\ status = 0
  /\ out = <<>> /\ acct = 0
  /\ fronts = <<>> /\ backs = <<>>

Filter ==
  \/ begin_document \/ read_header \/ loop_ends
  \/ render_page \/ emit_page \/ spool_page \/ pages_end
  \/ replay_front \/ pause \/ render_blank_page \/ replay_back \/ replay_ends
  \/ end_document \/ flush

Next == Filter \/ on_cancel \/ BackendGoes

Spec == Init /\ [][Next]_vars

-----------------------------------------------------------------------------
(* Every variable of the filter has its type. *)
JobTypeOK ==
  /\ job \in Jobs /\ pc \in PCs
  /\ page \in Nat /\ i \in Nat /\ acct \in Nat
  /\ job_cancelled \in BOOLEAN /\ gone \in BOOLEAN
  /\ status \in {0, 1}
  /\ out \in Seq(Chunk)
  /\ fronts \in Seq(Nat) /\ backs \in Seq(Nat)

(* The job of notes/print-protocol.md for the whole pages of the stream: in  *)
(* order, or the odd ones, the pause, and the even ones backwards, filled up *)
(* to whole sheets.                                                          *)
Stream ==
  LET n == job.pages
      sheets == (n + 1) \div 2
      Odd == [x \in 1..sheets |-> Face(2 * x - 1, job.copies)]
      EvenBackwards == [x \in 1..sheets |-> Face(2 * (sheets + 1 - x), job.copies)]
      InOrder == [x \in 1..n |-> Face(x, job.copies)]
  IN IF job.duplex
     THEN <<HEAD>> \o Odd \o <<PAUSE>> \o EvenBackwards \o <<END>>
     ELSE <<HEAD>> \o InOrder \o <<END>>

(* The filter has met a header it refuses, or rows that are missing from the *)
(* page buffer.  A stream that ends in a header or below the page buffer is  *)
(* not known to be broken: for the filter it ends there.                     *)
KnownBroken == job.ends \in {"short", "bad"}

(* An exit status of 0 that no cancel explains means that the stream was not *)
(* known to be broken and that the printer got every page it carried, once   *)
(* and in the right place, through the spool or not: no page cut short, no   *)
(* refused header and no failure of spool, memory or backend is hidden.  The *)
(* status does hide that a stream ended within a header or below the page    *)
(* buffer: render_page and the loop of main pass over both.                  *)
JobWhole ==
  pc = "done" /\ status = 0 /\ ~job_cancelled => out = Stream /\ ~KnownBroken

(* What the printer has seen is a beginning of the right stream.             *)
PrintedIsPrefix ==
  \A k \in 1..Len(out) :
    (\A l \in 1..k : out[l] \notin {TORN, END}) => k <= Len(Stream) /\ out[k] = Stream[k]

BrokenPrintsNothing ==
  job.duplex /\ KnownBroken => \A k \in 1..Len(out) : out[k].kind # "page"

(* Until a write is cut short or the document is closed, the printer has     *)
(* only seen the beginning of the right job, however it fails or is          *)
(* cancelled, and a manual duplex job that is known to be broken prints no   *)
(* page at all.  (One whose stream ends in a header or below the page buffer *)
(* prints the stack of the pages before.)                                    *)
StreamIsPrefix == PrintedIsPrefix /\ BrokenPrintsNothing

(* After the operator has turned the stack over, the sheet printed last is   *)
(* fed first: every back that comes out is the back of the front it meets.   *)
SheetsPaired ==
  \A p \in 1..Len(out) : out[p] = PAUSE =>
    \A j \in 1..Len(out) - p : out[p + j].kind = "page" =>
      /\ p - j \in 1..Len(out)
      /\ out[p - j].kind = "page"
      /\ out[p + j] = Face(out[p - j].page + 1, out[p - j].copies)

(* A document that was begun is closed before the filter exits, unless the   *)
(* trailer itself could not be written.                                      *)
DocClosed ==
  pc = "done" /\ out # <<>> /\ ~gone => out[Len(out)] \in {END, TORN}

(* The accounting sees as many copies as the engine makes.                   *)
CopiesAccounted ==
  LET Made[k \in 0..Len(out)] == IF k = 0 THEN 0 ELSE Made[k - 1] + out[k].copies
  IN pc = "done" /\ status = 0 /\ ~job_cancelled => acct = Made[Len(out)]
===============================================================================
