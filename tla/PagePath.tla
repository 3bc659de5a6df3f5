------------------------------- MODULE PagePath -------------------------------
(***************************************************************************)
(* The image path of src/src/pantum.c, byte by byte: from the data blocks  *)
(* of the device through convert_row and the out buffer to sane_read, with *)
(* the white margins sane_start decides on and the halftone mask it builds *)
(* (module Dither).  A sample keeps its identity: it is the number of its  *)
(* block and its offset in it, so that the page can be compared with the   *)
(* blocks it was made from.  The tone curve maps samples one by one and is *)
(* left out.  Commands and frames are those of module ScanSession.         *)
(***************************************************************************)
EXTENDS Dither, SequencesExt

CONSTANTS Resolutions,  \* effective_resolution (h), scaled to Sizes
          Sizes,        \* pixels per line and lines of a page
          Percent,      \* OPT_THRESHOLD
          Headers,      \* the sub-headers and body lengths of data blocks
          Bits,         \* 8: the pixels a bilevel byte holds
          Wrap,         \* 2^32
          FirstCap,     \* 65536: the first capacity of the out buffer
          ReadSizes,    \* max_length of sane_read
          MaxBlocks,    \* bound: blocks of a page
          MaxPages      \* bound: pages read from a handle

ASSUME PathAssumption ==
  /\ Bits \in Nat \ {0} /\ FirstCap \in Nat \ {0} /\ Wrap \in Nat
  /\ Resolutions \subseteq Nat /\ Percent \subseteq Nat
  /\ Sizes \subseteq Nat \X (0..(Wrap - 1))
  /\ ReadSizes \subseteq Nat \ {0}
  /\ \A b \in Headers :
       b \in [first : 0..(Wrap - 1), rows : 0..(Wrap - 1), planes : Nat,
              pixels : Nat, body : Nat, jpeg : BOOLEAN]

VARIABLE p  \* the page, the out buffer and what the frontend got of it

Modes == {"colour", "gray", "lineart", "halftone"}
Bilevel(mode) == mode \in {"lineart", "halftone"}

bytes_per_line(s) ==
  CASE s.mode = "colour" -> 3 * s.pixels
    [] s.mode = "gray" -> s.pixels
    [] OTHER -> (s.pixels + Bits - 1) \div Bits

(* Nothing to see: a sample of 0xff or a clear bit.                          *)
Paper == <<>>

Blank(mode) == IF Bilevel(mode) THEN [j \in 0..(Bits - 1) |-> Paper] ELSE Paper

-----------------------------------------------------------------------------
(* So many tenths of a millimetre in rows or pixels, rounded down.           *)
Strip(dpi, tenths) == (dpi * tenths) \div 254

NoMargin == [top |-> 0, bottom |-> 0, left |-> 0, right |-> 0]

(* top and left: the window begins at the edge of the bed.                   *)
margins(feeder, top, left, dpi) ==
  IF feeder
  THEN [top |-> Strip(dpi, 25), bottom |-> Strip(dpi, 15),
        left |-> Strip(dpi, 15), right |-> Strip(dpi, 15)]
  ELSE [NoMargin EXCEPT !.top = IF top THEN Strip(dpi, 20) ELSE 0,
                        !.left = IF left THEN Strip(dpi, 15) ELSE 0]

-----------------------------------------------------------------------------
(* Room for extra more bytes in the out buffer.  The capacity is raised      *)
(* before the realloc that may be refused.                                   *)
Compact(s) ==
  [s EXCEPT !.out = SubSeq(@, s.out_pos + 1, Len(@)), !.out_pos = 0]

Doubled(cap, need) ==
  LET grow[c \in Nat] == IF c >= need THEN c ELSE grow[2 * c]
  IN grow[IF cap = 0 THEN FirstCap ELSE cap]

MustGrow(s, extra) == Len(Compact(s).out) + extra > s.out_cap

(* Mutant: the bytes already in the buffer are not counted. *)
out_reserve_extra(s, extra, granted) ==
  LET c == Compact(s)
      cap == Doubled(s.out_cap, extra)
  IN IF extra <= s.out_cap
     THEN IF s.out_pos = Len(s.out) \/ Len(s.out) + extra > s.out_cap THEN c ELSE s
     ELSE [c EXCEPT !.out_cap = cap,
                    !.alloc = IF granted THEN cap ELSE @,
                    !.refused = @ \/ ~granted]

out_reserve(s, extra, granted) ==
  LET c == Compact(s)
      cap == Doubled(s.out_cap, Len(c.out) + extra)
  IN IF ~MustGrow(s, extra)
     THEN IF s.out_pos = Len(s.out) \/ Len(s.out) + extra > s.out_cap THEN c ELSE s
     ELSE [c EXCEPT !.out_cap = cap,
                    !.alloc = IF granted THEN cap ELSE @,
                    !.refused = @ \/ ~granted]

(* Mutant: a row is only held against the end of the page. *)
Skipped_late(s, r) == r.row >= s.lines

(* The row's index wrapped, or the page has it already, or it is past it.    *)
Skipped(s, r) == r.wrapped \/ r.row < s.next_row \/ r.row >= s.lines

append_row(s, r) ==
  IF Skipped(s, r) THEN s
  ELSE [out_reserve(s, bytes_per_line(s), TRUE) EXCEPT
          !.out = @ \o r.bytes, !.next_row = r.row + 1]

(* The rows of a loop are appended until one finds no memory.                *)
Appended(s, rows) == FoldLeft(append_row, s, rows)
OutOfMemory(s, rows) ==
  {out_reserve(Appended(s, SubSeq(rows, 1, k)), bytes_per_line(s), FALSE) :
     k \in {j \in 0..(Len(rows) - 1) :
              LET t == Appended(s, SubSeq(rows, 1, j)) IN
                ~Skipped(t, rows[j + 1]) /\ MustGrow(t, bytes_per_line(s))}}

-----------------------------------------------------------------------------
WhiteRow(s, row) ==
  [row |-> row, wrapped |-> FALSE,
   bytes |-> [x \in 1..bytes_per_line(s) |-> Blank(s.mode)]]

emit_white_rows(s, upto) ==
  [k \in 1..Max({0, Min({upto, s.lines}) - s.next_row}) |->
     WhiteRow(s, s.next_row + k - 1)]

(* The threshold of the whole page, or the cell of the mask under the pixel. *)
Cut(s, row, col) ==
  IF s.mode = "halftone"
  THEN m.mask[((row % Size) * Size) + (col % Size)] ELSE s.threshold

(* What the row shows of its block between the margins and the end of its    *)
(* useful pixels.                                                            *)
Shown(s, b, col) ==
  /\ Min({s.white.left, s.pixels}) <= col
  /\ col < s.pixels - Min({s.white.right, s.pixels})
  /\ col < b.avail

InMargin(s, row) ==
  \/ row < s.white.top
  \/ s.white.bottom # 0 /\ row >= s.lines - s.white.bottom

(* Mutant: the row is looked up in the block by its place on the page. *)
convert_row_absolute(s, b, k, i, row) ==
  LET Sample(col, at) == IF Shown(s, b, col) THEN <<k, row * b.stride + at>>
                         ELSE Paper
      Bit(col) == IF Shown(s, b, col)
                  THEN <<k, row * b.stride + col, Cut(s, row, col)>> ELSE Paper
      Byte(x) ==
        CASE s.mode = "colour" -> Sample(x \div 3, 3 * (x \div 3) + 2 - (x % 3))
          [] s.mode = "gray" -> Sample(x, x)
          [] OTHER -> [j \in 0..(Bits - 1) |-> Bit(x * Bits + j)]
  IN [row |-> row, wrapped |-> row < b.first,
      bytes |-> IF InMargin(s, row) THEN WhiteRow(s, row).bytes
                ELSE [x \in 1..bytes_per_line(s) |-> Byte(x - 1)]]

(* Row i of block k becomes this row of the page; the colours of a pixel     *)
(* arrive blue first.                                                        *)
convert_row(s, b, k, i, row) ==
  LET Sample(col, at) == IF Shown(s, b, col) THEN <<k, i * b.stride + at>>
                         ELSE Paper
      Bit(col) == IF Shown(s, b, col)
                  THEN <<k, i * b.stride + col, Cut(s, row, col)>> ELSE Paper
      Byte(x) ==
        CASE s.mode = "colour" -> Sample(x \div 3, 3 * (x \div 3) + 2 - (x % 3))
          [] s.mode = "gray" -> Sample(x, x)
          [] OTHER -> [j \in 0..(Bits - 1) |-> Bit(x * Bits + j)]
  IN [row |-> row, wrapped |-> row < b.first,
      bytes |-> IF InMargin(s, row) THEN WhiteRow(s, row).bytes
                ELSE [x \in 1..bytes_per_line(s) |-> Byte(x - 1)]]

-----------------------------------------------------------------------------
(* The rows of a block, the gap before them white.                           *)
block_rows(s, b, k) ==
  emit_white_rows(s, b.first)
    \o [n \in 1..b.rows |->
          convert_row(s, b, k, n - 1, (b.first + n - 1) % Wrap)]

(* Mutant: a block of any number of planes is taken. *)
Refused_planes(s, b) ==
  b.jpeg \/ b.rows = 0 \/ b.planes = 0 \/ b.body \div b.rows < b.planes

(* The blocks handle_data_block drains and fails on.                         *)
Refused(s, b) ==
  \/ b.jpeg \/ b.rows = 0 \/ b.planes = 0
  \/ b.body \div b.rows < b.planes
  \/ b.planes # (IF s.mode = "colour" THEN 3 ELSE 1)

(* The stride is the payload's, the useful pixels at most what it holds.     *)
Block(b) ==
  LET stride == b.body \div b.rows
  IN [first |-> b.first, rows |-> b.rows, body |-> b.body, stride |-> stride,
      avail |-> Min({b.pixels, stride \div b.planes})]

-----------------------------------------------------------------------------
PathInit ==
  /\ DitherInit
  /\ p = [mode |-> "gray", pixels |-> 0, lines |-> 0, white |-> NoMargin,
          threshold |-> 0, building |-> FALSE, scanning |-> FALSE, eof |-> FALSE,
          failed |-> FALSE, next_row |-> 0, out |-> <<>>, out_pos |-> 0,
          out_cap |-> 0, alloc |-> 0, refused |-> FALSE, got |-> 0,
          blocks |-> <<>>, pages |-> 0]

(* A page to be scanned, nothing of it read yet.                             *)
Started(mode, size, percent, white, build) ==
  [p EXCEPT !.mode = mode, !.pixels = size[1], !.lines = size[2],
            !.threshold = (percent * White) \div 100, !.white = white,
            !.building = build, !.scanning = ~build, !.pages = @ + 1,
            !.eof = FALSE, !.failed = FALSE, !.next_row = 0, !.out = <<>>,
            !.out_pos = 0, !.got = 0, !.blocks = <<>>]

(* The part of a start that concerns the page: parameters, threshold,        *)
(* margins and, for a halftone, the mask, built once per process.            *)
sane_start ==
  /\ ~p.scanning /\ ~p.building /\ p.pages < MaxPages
  /\ \E mode \in Modes, size \in Sizes, percent \in Percent, dpi \in Resolutions,
        feeder, top, left \in BOOLEAN :
       /\ mode # "lineart" => percent = Min(Percent)
       /\ feeder => top /\ left
       /\ p' = Started(mode, size, percent, margins(feeder, top, left, dpi),
                       mode = "halftone" /\ m.stage # "ready")
  /\ UNCHANGED m

build_step == p.building /\ build_dither_mask /\ UNCHANGED p

build_done ==
  /\ p.building /\ m.stage = "ready"
  /\ p' = [p EXCEPT !.building = FALSE, !.scanning = TRUE]
  /\ UNCHANGED m

build_nomem ==
  /\ p.building /\ m.stage = "none"
  /\ p' = [p EXCEPT !.building = FALSE, !.failed = TRUE]
  /\ UNCHANGED m

-----------------------------------------------------------------------------
(* sane_read and await_first_rows take a frame only when there is nothing    *)
(* left to hand out.                                                         *)
Pumping == p.scanning /\ ~p.eof /\ p.out_pos = Len(p.out) /\ UNCHANGED m

Fails(s) == p' = [s EXCEPT !.scanning = FALSE, !.failed = TRUE]

(* A block cut short or Refused, or no memory to read it into.               *)
bad_block == Pumping /\ Fails(p)

data_block ==
  /\ Pumping /\ Len(p.blocks) < MaxBlocks
  /\ \E b \in Headers :
       /\ ~Refused(p, b)
       /\ LET s == [p EXCEPT !.blocks = Append(@, Block(b))]
              rows == block_rows(s, Block(b), Len(s.blocks))
          IN \/ p' = Appended(s, rows)
             \/ \E t \in OutOfMemory(s, rows) : Fails(t)

(* The job, or the page of a feeder job, ends: the rest is white.            *)
page_end ==
  /\ Pumping
  /\ LET s == [p EXCEPT !.eof = TRUE, !.scanning = FALSE]
         rows == emit_white_rows(p, p.lines)
     IN \/ p' = Appended(s, rows)
        \/ \E t \in OutOfMemory(s, rows) : Fails(t)

sane_read ==
  /\ p.out_pos < Len(p.out)
  /\ \E max_length \in ReadSizes :
       LET n == Min({max_length, Len(p.out) - p.out_pos}) IN
       p' = [p EXCEPT !.out_pos = @ + n, !.got = @ + n]
  /\ UNCHANGED m

read_cancelled ==
  /\ p.scanning
  /\ p' = [p EXCEPT !.out = <<>>, !.out_pos = 0, !.eof = TRUE,
                    !.scanning = FALSE, !.failed = TRUE]
  /\ UNCHANGED m

PathNext ==
  \/ sane_start \/ build_step \/ build_done \/ build_nomem
  \/ bad_block \/ data_block \/ page_end \/ sane_read \/ read_cancelled

PathSpec ==
  /\ PathInit
  /\ [][PathNext]_<<m, p>>
  /\ WF_<<m, p>>(build_step)

-----------------------------------------------------------------------------
(* The pixels of the page, row by row, as the blocks in order of arrival     *)
(* give them: a row is that of the first block that reaches it, white when   *)
(* that block begins only after it, and white in the margins.                *)
Reaching(s, r) ==
  {k \in 1..Len(s.blocks) : r < s.blocks[k].first + s.blocks[k].rows}

Pixel(s, r, col) ==
  IF \/ Reaching(s, r) = {} \/ r < s.white.top \/ r >= s.lines - s.white.bottom
     \/ col < s.white.left \/ col >= s.pixels - s.white.right
  THEN Paper
  ELSE LET k == Min(Reaching(s, r))
           b == s.blocks[k] IN
       IF r < b.first \/ col >= b.avail THEN Paper
       ELSE <<k, (r - b.first) * b.stride>>

(* Byte x of row r.                                                          *)
RowByte(s, r, x) ==
  LET col == IF s.mode = "colour" THEN x \div 3 ELSE x
      at == IF s.mode = "colour" THEN 3 * col + 2 - (x % 3) ELSE x
      Dot(c) == IF c >= s.pixels \/ Pixel(s, r, c) = Paper THEN Paper
                ELSE <<Pixel(s, r, c)[1], Pixel(s, r, c)[2] + c, Cut(s, r, c)>>
  IN IF Bilevel(s.mode) THEN [j \in 0..(Bits - 1) |-> Dot(x * Bits + j)]
     ELSE IF Pixel(s, r, col) = Paper THEN Paper
     ELSE <<Pixel(s, r, col)[1], Pixel(s, r, col)[2] + at>>

PageByte(s, n) == RowByte(s, n \div bytes_per_line(s), n % bytes_per_line(s))

(* Whatever the sizes of the reads, the repeats, gaps and overlaps of the    *)
(* blocks and the wrap of their row index: what the frontend has got and     *)
(* what waits for it is the page from its first byte on, no row twice and    *)
(* none left out, and at a good end it is the whole of it.                   *)
StreamIsThePage ==
  /\ \A n \in 1..(Len(p.out) - p.out_pos) :
       p.out[p.out_pos + n] = PageByte(p, p.got + n - 1)
  /\ ~(p.eof /\ p.failed) =>
       p.got + Len(p.out) - p.out_pos = p.next_row * bytes_per_line(p)
  /\ p.eof /\ ~p.failed => p.next_row = p.lines

(* No sample is read from past the end of its block, whatever the header     *)
(* says of rows, planes and pixels.                                          *)
SamplesInBlock ==
  LET Within(v) == v = Paper \/ v[2] < p.blocks[v[1]].body IN
  \A n \in (p.out_pos + 1)..Len(p.out) :
    IF Bilevel(p.mode) THEN \A j \in 0..(Bits - 1) : Within(p.out[n][j])
    ELSE Within(p.out[n])

(* The out buffer holds what is put into it, as long as no realloc was ever  *)
(* refused.                                                                  *)
WritesFit == p.refused \/ Len(p.out) <= p.alloc
=============================================================================
