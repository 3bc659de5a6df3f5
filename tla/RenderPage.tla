------------------------------ MODULE RenderPage ------------------------------
(***************************************************************************)
(* Pages of the CUPS filter src/src/rastertopantum.c from the raster       *)
(* stream to the sheet: page_layout, the row loop of render_page with its  *)
(* two turns, halftone_row, the JBIG buffer and emit_page.  A pixel keeps  *)
(* its place in the raster, a dot is a pixel and the cell of the screen it *)
(* is compared with.  JBIG itself is external: it delivers pieces.  The    *)
(* job around the pages is module PrintJob.                                *)
(***************************************************************************)
EXTENDS Integers, Sequences, SequencesExt

CONSTANTS Papers,      \* paper_table, by size in points
          A5, A5Turned,     \* the size that is turned and how it is asked for
          Jobs,        \* option settings and the headers of the pages
          WidthStep, HeightStep,   \* 32 and 8: the padding of custom pages
          MaxDots,     \* PT_MAX_DOTS
          Wrap,        \* 2^32
          Byte,        \* 8, the bits of a byte
          Thresholds,  \* values in ht_table_600
          Screen,      \* 16, the side of ht_table_600
          BihLen,      \* JBIG_BIH_LEN
          BidMax,      \* ZJ_BID_MAX
          FirstCap,    \* 65536, the first capacity of a buf_t
          Pieces,      \* lengths of the pieces jbig delivers
          MaxPieces    \* bound: pieces of a page

ASSUME RenderAssumption ==
  /\ Jobs \subseteq
       [opt : [dpi1200 : BOOLEAN, rotate180 : BOOLEAN, duplex : BOOLEAN],
        pages : Seq([size : STRING, width : Nat, height : Nat, bytes : Nat])]
  /\ A5 \in DOMAIN Papers /\ A5Turned \notin DOMAIN Papers
  /\ \A s \in DOMAIN Papers :
       /\ Papers[s].x \in Nat \ {0} /\ Papers[s].x % Byte = 0
       /\ Papers[s].y \in Nat \ {0} /\ Papers[s].y % Byte = 0
  /\ {WidthStep, HeightStep, MaxDots, Wrap, Byte, Screen} \subseteq Nat \ {0}
  /\ Byte % 2 = 0 /\ WidthStep % Byte = 0
  /\ MaxDots + WidthStep < Wrap /\ MaxDots + HeightStep < Wrap
  /\ Thresholds \subseteq 1..255
  /\ BihLen \in Nat /\ {BidMax, FirstCap} \subseteq Nat \ {0}
  /\ Pieces \subseteq Nat \ {0}

VARIABLE r  \* the job, the page in hand and the page sent last

-----------------------------------------------------------------------------
(* Mutant: a header may ask for any size. *)
HeaderOk_unbounded(h) ==
  h.width > 0 /\ h.height > 0 /\ h.width <= h.bytes

HeaderOk(h) ==
  /\ h.width \in 1..MaxDots /\ h.height \in 1..MaxDots
  /\ h.bytes \in h.width..MaxDots

(* Up to a multiple of n, in 32 bits.                                        *)
Padded(v, n) == (((v + n - 1) % Wrap) \div n) * n

page_layout(h, opt) ==
  LET turned == h.size = A5Turned
      paper == Papers[IF turned THEN A5 ELSE h.size]
      depth == IF opt.dpi1200 THEN 2 ELSE 1
  IN IF turned \/ h.size \in DOMAIN Papers
     THEN [custom |-> FALSE, depth |-> depth, rotate90 |-> turned,
           video_x |-> IF turned THEN paper.y ELSE paper.x,
           video_y |-> IF turned THEN paper.x ELSE paper.y]
     ELSE [custom |-> TRUE, depth |-> depth, rotate90 |-> FALSE,
           video_x |-> Padded(h.width, WidthStep),
           video_y |-> Padded(h.height, HeightStep)]

src_w(lay) == IF lay.rotate90 THEN lay.video_y ELSE lay.video_x
src_h(lay) == IF lay.rotate90 THEN lay.video_x ELSE lay.video_y
rowlen(h, lay) == Max({lay.video_x, src_w(lay), h.bytes})

(* Mutant: the drain starts one line too late. *)
BelowPage_next(lay) == src_h(lay) + 1

(* The first line of the raster that is not on the page.                     *)
BelowPage(lay) == src_h(lay)

-----------------------------------------------------------------------------
Paper == <<>>
White(n) == [x \in 0..(n - 1) |-> Paper]

(* HT_TABLE_2BIG *)
ht_level_to_code(level) ==
  CASE level <= 0 -> 0 [] level \in 1..23 -> 1 [] level \in 24..63 -> 2
    [] OTHER -> 3

(* Mutant: black is compared with the screen like any other grey. *)
dot_code_black(gray, thr, depth, negative) ==
  LET toner == IF gray < thr THEN 1 ELSE 0
      code == ht_level_to_code(255 - gray - thr)
  IN IF depth = 1 THEN IF negative THEN 1 - toner ELSE toner
     ELSE IF negative THEN 3 - code ELSE code

(* The code of one dot in halftone_row.                                      *)
dot_code(gray, thr, depth, negative) ==
  LET toner == IF gray < thr THEN 1 ELSE 0
      code == ht_level_to_code(IF gray = 0 THEN 255 ELSE 255 - gray - thr)
  IN IF depth = 1 THEN IF negative THEN 1 - toner ELSE toner
     ELSE IF negative THEN 3 - code ELSE code

(* A row of dots packed into whole bytes.                                    *)
halftone_row(row, width, y, depth) ==
  LET per == Byte \div depth IN
  [k \in 0..((width \div per) - 1) |->
     [j \in 0..(per - 1) |->
        LET x == k * per + j IN <<row[x], x % Screen, y % Screen>>]]

(* The row buffer after a line of the raster, or below the last one.         *)
Covered(h, lay, row, y) ==
  LET copy_w == Min({h.width, src_w(lay)}) IN
  IF y < h.height
  THEN [x \in DOMAIN row |-> IF x < copy_w THEN <<x, y>> ELSE Paper]
  ELSE IF y = h.height THEN White(rowlen(h, lay)) ELSE row

(* Row y goes to its place in the page buffer.                               *)
Placed(rows, y, row) == [z \in DOMAIN rows \cup {y} |-> IF z = y THEN row ELSE rows[z]]

(* Mutant: the whole row buffer is reversed. *)
Reversed_buffer(row, width) == [x \in DOMAIN row |-> row[Cardinality(DOMAIN row) - 1 - x]]

Reversed(row, width) ==
  [x \in DOMAIN row |-> IF x < width THEN row[width - 1 - x] ELSE row[x]]

-----------------------------------------------------------------------------
(* Mutant: after a failed grow a piece that still fits is taken. *)
buf_append_again(b, n, granted) ==
  IF b.len + n <= b.cap THEN [b EXCEPT !.len = @ + n]
  ELSE IF granted
       THEN LET grow[c \in Nat] == IF c >= b.len + n THEN c ELSE grow[2 * c]
            IN [b EXCEPT !.len = @ + n,
                         !.cap = grow[IF b.cap = 0 THEN FirstCap ELSE b.cap]]
       ELSE b

buf_append(b, n, granted) ==
  IF b.failed THEN b
  ELSE IF b.len + n <= b.cap THEN [b EXCEPT !.len = @ + n]
  ELSE IF granted
       THEN LET grow[c \in Nat] == IF c >= b.len + n THEN c ELSE grow[2 * c]
            IN [b EXCEPT !.len = @ + n,
                         !.cap = grow[IF b.cap = 0 THEN FirstCap ELSE b.cap]]
       ELSE [b EXCEPT !.failed = TRUE]

(* The payloads of the JBIG_BID chunks.                                      *)
BidChunks(len) ==
  LET Rest(k) == len - BihLen - (k - 1) * BidMax IN
  [k \in 1..((len - BihLen + BidMax - 1) \div BidMax) |-> Min({Rest(k), BidMax})]

-----------------------------------------------------------------------------
Idle == [job |-> <<>>, phase |-> "header", page |-> 0, left |-> 0, dead |-> FALSE, y |-> 0,
         lay |-> <<>>, row |-> <<>>, gray |-> <<>>, bitmap |-> <<>>,
         bie |-> [len |-> 0, cap |-> 0, failed |-> FALSE], made |-> <<>>,
         blank |-> FALSE, sent |-> <<>>]

RenderInit == \E job \in Jobs : r = [Idle EXCEPT !.job = job]

hdr == r.job.pages[r.page]
Step(phase) == r.phase = phase
Stop == r' = [r EXCEPT !.phase = "done"]

(* cupsRasterReadHeader2 and what render_page does before its first row. *)
read_header ==
  /\ Step("header") /\ ~r.dead /\ r.page < Len(r.job.pages)
  /\ LET h == r.job.pages[r.page + 1]
         lay == page_layout(h, r.job.opt) IN
     IF HeaderOk(h)
     THEN r' = [r EXCEPT !.phase = "rows", !.page = @ + 1, !.left = h.height,
                         !.y = 0, !.lay = lay, !.row = White(rowlen(h, lay)),
                         !.gray = <<>>, !.bitmap = <<>>, !.blank = FALSE,
                         !.sent = <<>>]
     ELSE Stop

(* Raster and memory may give out before any row, and the page with them. *)
page_fails ==
  /\ Step("rows") /\ r.y < src_h(r.lay)
  /\ r' = [r EXCEPT !.phase = "done", !.dead = TRUE]

next_row ==
  /\ Step("rows") /\ r.y < src_h(r.lay)
  /\ LET covered == Covered(hdr, r.lay, r.row, r.y)
         row == IF r.job.opt.rotate180
                THEN Reversed(covered, src_w(r.lay)) ELSE covered
         dst == IF r.job.opt.rotate180 THEN src_h(r.lay) - 1 - r.y ELSE r.y
         s == [r EXCEPT !.y = @ + 1, !.row = row,
                        !.left = IF r.y < hdr.height THEN @ - 1 ELSE @]
     IN r' = IF r.lay.rotate90
             THEN [s EXCEPT !.gray = Placed(@, dst, row)]
             ELSE [s EXCEPT !.bitmap =
                     Placed(@, dst, halftone_row(row, r.lay.video_x, dst, r.lay.depth))]

(* Mutant: the page is turned the other way. *)
turn_page_back ==
  /\ Step("rows") /\ r.y = src_h(r.lay)
  /\ LET Turned(y) == [x \in 0..(r.lay.video_x - 1) |->
                         r.gray[x][src_w(r.lay) - 1 - y]] IN
     r' = [r EXCEPT !.phase = "drain", !.y = BelowPage(r.lay),
             !.bitmap = IF ~r.lay.rotate90 THEN @
                        ELSE [y \in 0..(r.lay.video_y - 1) |->
                                halftone_row(Turned(y), r.lay.video_x, y, r.lay.depth)]]

(* A page of the size A5Turned is turned a quarter before it is screened.    *)
turn_page ==
  /\ Step("rows") /\ r.y = src_h(r.lay)
  /\ LET Turned(y) == [x \in 0..(r.lay.video_x - 1) |->
                         r.gray[src_h(r.lay) - 1 - x][y]] IN
     r' = [r EXCEPT !.phase = "drain", !.y = BelowPage(r.lay),
             !.bitmap = IF ~r.lay.rotate90 THEN @
                        ELSE [y \in 0..(r.lay.video_y - 1) |->
                                halftone_row(Turned(y), r.lay.video_x, y, r.lay.depth)]]

(* The lines that do not fit the page buffer are read one by one.  A failure *)
(* ends that, and nothing else: the page goes out, and the next header will  *)
(* not be found.                                                             *)
drain ==
  /\ Step("drain") /\ r.y < hdr.height
  /\ \/ r' = [r EXCEPT !.y = @ + 1, !.left = @ - 1]
     \/ r' = [r EXCEPT !.phase = "compress", !.dead = TRUE]

drain_ends ==
  /\ Step("drain") /\ r.y >= hdr.height
  /\ r' = [r EXCEPT !.phase = "compress"]

jbig_collect ==
  /\ Step("compress") /\ Len(r.made) < MaxPieces
  /\ \E n \in Pieces, granted \in BOOLEAN :
       /\ granted \/ r.bie.len + n > r.bie.cap
       /\ r' = [r EXCEPT !.made = Append(@, n),
                         !.bie = buf_append(@, n, granted)]

finish_page ==
  /\ Step("compress")
  /\ LET sent == [page |-> r.page, bitmap |-> r.bitmap, made |-> r.made,
                  bih |-> Min({BihLen, r.bie.len}), bid |-> BidChunks(r.bie.len)]
         s == [r EXCEPT !.bie = Idle.bie, !.made = <<>>, !.bitmap = <<>>,
                        !.gray = <<>>, !.row = <<>>]
     IN r' = IF r.bie.failed \/ r.bie.len < BihLen
             THEN [s EXCEPT !.phase = "done"]
             ELSE [s EXCEPT !.phase = "header", !.sent = sent]

(* The back of the last sheet of a manual duplex job of an odd number of     *)
(* pages, all of the stream or those before it died below one: no toner at   *)
(* all, in the geometry before the turn.                                     *)
render_blank_page ==
  /\ Step("header") /\ (r.dead \/ r.page = Len(r.job.pages))
  /\ r.page % 2 = 1 /\ r.job.opt.duplex
  /\ LET lay == page_layout(hdr, r.job.opt) IN
     r' = [r EXCEPT !.phase = "compress", !.page = @ + 1, !.lay = lay, !.sent = <<>>,
             !.blank = TRUE,
             !.bitmap = [y \in 0..(src_h(lay) - 1) |->
                           [k \in 0..((src_w(lay) * lay.depth) \div Byte - 1) |-> Paper]]]

RenderNext ==
  \/ render_blank_page \/ read_header \/ page_fails \/ next_row \/ turn_page \/ drain
  \/ drain_ends \/ jbig_collect \/ finish_page

RenderSpec == RenderInit /\ [][RenderNext]_r

-----------------------------------------------------------------------------
(* The row buffer takes a line of the raster and a row of the page, and a    *)
(* row is never empty: nothing the loops index lies outside of it.           *)
RowHolds ==
  r.phase = "rows" =>
    /\ src_w(r.lay) > 0 /\ r.lay.video_x > 0
    /\ DOMAIN r.row = 0..(rowlen(hdr, r.lay) - 1)
    /\ \A y \in DOMAIN r.bitmap : y < r.lay.video_y

(* The pixel that belongs at (x, y) of the sheet: the raster, cut or filled  *)
(* up with white, turned upside down and then a quarter clockwise as asked.  *)
Sheet(h, lay, upside, x, y) ==
  LET u == IF lay.rotate90 THEN y ELSE x
      v == IF lay.rotate90 THEN src_h(lay) - 1 - x ELSE y
      a == IF upside THEN src_w(lay) - 1 - u ELSE u
      b == IF upside THEN src_h(lay) - 1 - v ELSE v
  IN IF a < h.width /\ b < h.height THEN <<a, b>> ELSE Paper

(* The page that is sent shows every pixel in its place under the screen of  *)
(* the sheet, the last dot of each row included; a blank back shows nothing. *)
SheetIsPage ==
  r.sent # <<>> =>
    LET lay == r.lay
        per == Byte \div lay.depth
        bitmap == r.sent.bitmap
    IN IF ~r.blank
       THEN \A y \in 0..(lay.video_y - 1), x \in 0..(lay.video_x - 1) :
              bitmap[y][x \div per][x % per]
                = <<Sheet(hdr, lay, r.job.opt.rotate180, x, y), x % Screen, y % Screen>>
       ELSE \A y \in DOMAIN bitmap : \A k \in DOMAIN bitmap[y] : bitmap[y][k] = Paper

(* The bytes of so many pieces.                                              *)
Total(pieces) == FoldLeft(LAMBDA a, b : a + b, 0, pieces)

(* A page that is sent carries all that jbig made of it, cut into chunks the *)
(* firmware takes: no piece is lost when memory runs out in between.         *)
EntityWhole ==
  r.sent # <<>> =>
    /\ r.sent.bih = BihLen
    /\ r.sent.bih + Total(r.sent.bid) = Total(r.sent.made)
    /\ \A k \in DOMAIN r.sent.bid : r.sent.bid[k] \in 1..BidMax

(* Whatever part of the raster fits the page, the next header is looked for  *)
(* where it is: the row loop and the loop below the page have read every     *)
(* line of the raster between them and none twice, unless the stream died.   *)
HeaderInPlace == r.phase = "header" /\ ~r.dead => r.left = 0

(* At every cell of the screen a darker grey never gets less toner, black is *)
(* solid and paper is clean; a negative is the exact opposite.               *)
InkFollowsTone ==
  r.phase = "rows" /\ r.y = 0 => \A thr \in Thresholds :
    LET depth == r.lay.depth
        Ink(gray) == dot_code(gray, thr, depth, FALSE)
        solid == IF depth = 1 THEN 1 ELSE 3
    IN /\ Ink(0) = solid /\ Ink(255) = 0
       /\ \A gray \in 0..254 : Ink(gray) >= Ink(gray + 1)
       /\ \A gray \in 0..255 : dot_code(gray, thr, depth, TRUE) = solid - Ink(gray)
=============================================================================
