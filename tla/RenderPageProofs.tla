---------------------------- MODULE RenderPageProofs ---------------------------
(***************************************************************************)
(* What holds of the pages of the CUPS filter for every table of papers,   *)
(* every raster its header check lets through, every padding, screen and   *)
(* turn.                                                                   *)
(***************************************************************************)
EXTENDS RenderPage, DataInduction, TLAPS

-----------------------------------------------------------------------------
(* Arithmetic of rows cut into whole bytes. *)

(* A number without remainder is so many times its divisor.                  *)
LEMMA Multiple ==
  ASSUME NEW a \in Nat, NEW b \in Nat \ {0}, a % b = 0
  PROVE  \E q \in Nat : a = q * b
<1>1. a \div b \in Nat /\ a = (a \div b) * b + (a % b)
  OBVIOUS
<1> QED BY <1>1

(* So many times a divisor leaves no remainder.                              *)
LEMMA NoRemainder ==
  ASSUME NEW q \in Nat, NEW b \in Nat \ {0}
  PROVE  (q * b) % b = 0 /\ (q * b) \div b = q
OBVIOUS

(* Position x of a row of whole bytes is position x % per of byte x \div per.*)
LEMMA InBytes ==
  ASSUME NEW per \in Nat \ {0}, NEW q \in Nat,
         NEW n \in Nat, n = q * per, NEW x \in 0..(n - 1)
  PROVE  /\ x \div per \in 0..(q - 1) /\ x % per \in 0..(per - 1)
         /\ (x \div per) * per + (x % per) = x
<1>1. x \in Nat /\ x < q * per
  OBVIOUS
<1>2. /\ x \div per \in Nat /\ x % per \in 0..(per - 1)
      /\ (x \div per) * per + (x % per) = x
  BY <1>1
<1> DEFINE k == x \div per
<1>3. k * per <= x
  BY <1>2
<1>4. k < q
  <2>1. SUFFICES ASSUME k >= q PROVE FALSE
    BY <1>2
  <2>2. k * per >= q * per
    BY <2>1, <1>2
  <2> QED BY <2>2, <1>3, <1>1
<1> QED BY <1>2, <1>4

(* The padding of a size is at least the step and a multiple of it.          *)
LEMMA PaddedFits ==
  ASSUME NEW n \in Nat \ {0}, NEW v \in 1..MaxDots, MaxDots + n < Wrap
  PROVE  \E q \in Nat \ {0} : Padded(v, n) = q * n
<1>1. MaxDots \in Nat /\ Wrap \in Nat
  BY RenderAssumption
<1> DEFINE w == v + n - 1
<1>2. w \in Nat /\ w < Wrap /\ w >= n
  BY <1>1
<1>3. (w % Wrap) = w
  BY <1>1, <1>2
<1>4. w \div n \in Nat /\ w = (w \div n) * n + (w % n) /\ w % n < n
  BY <1>2
<1>5. w \div n # 0
  BY <1>2, <1>4
<1> QED BY <1>3, <1>4, <1>5 DEF Padded

(* A page has rows and columns, and its columns fill whole bytes.            *)
LEMMA LayoutFits ==
  ASSUME NEW h, NEW opt, HeaderOk(h)
  PROVE  LET lay == page_layout(h, opt) IN
         /\ lay.video_x \in Nat \ {0} /\ lay.video_y \in Nat \ {0}
         /\ lay.video_x % Byte = 0
         /\ lay.depth \in {1, 2} /\ lay.rotate90 \in BOOLEAN
<1> DEFINE lay == page_layout(h, opt)
<1>1. lay.depth \in {1, 2} /\ lay.rotate90 \in BOOLEAN
  BY DEF page_layout
<1>2. CASE h.size = A5Turned
  BY <1>1, <1>2, RenderAssumption DEF page_layout
<1>3. CASE h.size # A5Turned /\ h.size \in DOMAIN Papers
  BY <1>1, <1>3, RenderAssumption DEF page_layout
<1>4. CASE h.size # A5Turned /\ h.size \notin DOMAIN Papers
  <2>1. lay.video_x = Padded(h.width, WidthStep) /\ lay.video_y = Padded(h.height, HeightStep)
    BY <1>4 DEF page_layout
  <2>2. /\ WidthStep \in Nat \ {0} /\ HeightStep \in Nat \ {0} /\ Byte \in Nat \ {0}
        /\ MaxDots + WidthStep < Wrap /\ MaxDots + HeightStep < Wrap
        /\ WidthStep % Byte = 0
    BY RenderAssumption
  <2>3. h.width \in 1..MaxDots /\ h.height \in 1..MaxDots
    BY DEF HeaderOk
  <2>4. \E q \in Nat \ {0} : Padded(h.width, WidthStep) = q * WidthStep
    BY <2>2, <2>3, PaddedFits
  <2>5. \E q \in Nat \ {0} : Padded(h.height, HeightStep) = q * HeightStep
    BY <2>2, <2>3, PaddedFits
  <2>6. PICK q \in Nat \ {0} : lay.video_x = q * WidthStep
    BY <2>1, <2>4
  <2>7. PICK p \in Nat \ {0} : lay.video_y = p * HeightStep
    BY <2>1, <2>5
  <2>8. PICK w \in Nat : WidthStep = w * Byte
    BY <2>2, Multiple
  <2>9. q * WidthStep \in Nat \ {0} /\ p * HeightStep \in Nat \ {0}
    BY <2>2
  <2> DEFINE t == q * w
  <2>10. q * WidthStep = t * Byte /\ t \in Nat
    BY <2>2, <2>8
  <2> HIDE DEF t
  <2>11. (q * WidthStep) % Byte = 0
    BY <2>2, <2>10, NoRemainder
  <2> HIDE DEF lay
  <2> QED BY <1>1, <2>6, <2>7, <2>9, <2>11 DEF lay
<1> QED BY <1>2, <1>3, <1>4

(* The row buffer is the longest of the three. *)
LEMMA RowIsLongest ==
  ASSUME NEW h, NEW lay, lay.video_x \in Nat, lay.video_y \in Nat, h.bytes \in Nat
  PROVE  /\ rowlen(h, lay) \in Nat
         /\ rowlen(h, lay) >= lay.video_x /\ rowlen(h, lay) >= src_w(lay)
         /\ rowlen(h, lay) >= h.bytes
<1> DEFINE S == {lay.video_x, src_w(lay), h.bytes}
<1>1. S \subseteq Nat
  BY DEF src_w
<1>2. \E x \in S : \A y \in S : x >= y
  BY <1>1
<1>3. Max(S) \in S /\ \A y \in S : Max(S) >= y
  BY <1>2 DEF Max
<1> QED BY <1>1, <1>3 DEF rowlen

-----------------------------------------------------------------------------
(* One dot. *)

LEMMA Codes ==
  /\ \A l \in Int : ht_level_to_code(l) \in 0..3
  /\ \A l \in Int : \A k \in Int : l <= k => ht_level_to_code(l) <= ht_level_to_code(k)
  /\ \A l \in Int : l <= 0 => ht_level_to_code(l) = 0
  /\ ht_level_to_code(255) = 3
BY DEF ht_level_to_code

(* The tone of a dot at one cell of the screen. *)
LEMMA Tone ==
  ASSUME NEW thr \in 1..255, NEW depth \in {1, 2}
  PROVE  LET Ink(gray) == dot_code(gray, thr, depth, FALSE)
             solid == IF depth = 1 THEN 1 ELSE 3
         IN /\ Ink(0) = solid /\ Ink(255) = 0
            /\ \A gray \in 0..254 : Ink(gray) >= Ink(gray + 1)
            /\ \A gray \in 0..255 : dot_code(gray, thr, depth, TRUE) = solid - Ink(gray)
<1>1. CASE depth = 1
  BY <1>1 DEF dot_code
<1>2. CASE depth = 2
  BY <1>2, Codes DEF dot_code
<1> QED BY <1>1, <1>2

-----------------------------------------------------------------------------
(* One row. *)

LEMMA LesserOfTwo ==
  ASSUME NEW a \in Nat, NEW b \in Nat
  PROVE  Min({a, b}) = IF a <= b THEN a ELSE b
<1>1. \E x \in {a, b} : \A y \in {a, b} : x <= y
  OBVIOUS
<1>2. Min({a, b}) \in {a, b} /\ \A y \in {a, b} : Min({a, b}) <= y
  BY <1>1 DEF Min
<1> QED BY <1>2

(* The row buffer after line y of the raster shows that line, cut or filled  *)
(* up to the width of the page; below the raster it is white, and stays so.  *)
LEMMA CoveredShows ==
  ASSUME NEW h, NEW lay, NEW row, NEW y \in Nat,
         h.width \in Nat, h.height \in Nat,
         src_w(lay) \in Nat, rowlen(h, lay) \in Nat, src_w(lay) <= rowlen(h, lay),
         DOMAIN row = 0..(rowlen(h, lay) - 1),
         y > h.height => \A x \in DOMAIN row : row[x] = Paper
  PROVE  LET c == Covered(h, lay, row, y) IN
         /\ DOMAIN c = 0..(rowlen(h, lay) - 1)
         /\ \A x \in 0..(src_w(lay) - 1) :
              c[x] = IF x < h.width /\ y < h.height THEN <<x, y>> ELSE Paper
         /\ y >= h.height => \A x \in DOMAIN c : c[x] = Paper
<1>1. Min({h.width, src_w(lay)}) = IF h.width <= src_w(lay) THEN h.width ELSE src_w(lay)
  BY LesserOfTwo
<1>2. CASE y < h.height
  BY <1>1, <1>2 DEF Covered
<1>3. CASE y = h.height
  BY <1>3 DEF Covered, White
<1>4. CASE y > h.height
  BY <1>4 DEF Covered
<1> QED BY <1>2, <1>3, <1>4

(* Each dot of a row is found under its column. *)
Packed(bytes, row, width, y, depth) ==
  \A x \in 0..(width - 1) :
    bytes[x \div (Byte \div depth)][x % (Byte \div depth)] = <<row[x], x % Screen, y % Screen>>

LEMMA HalftoneShows ==
  ASSUME NEW row, NEW width \in Nat, NEW y, NEW depth \in {1, 2}, width % Byte = 0
  PROVE  Packed(halftone_row(row, width, y, depth), row, width, y, depth)
<1> DEFINE per == Byte \div depth
<1>1. Byte \in Nat \ {0} /\ Byte % 2 = 0
  BY RenderAssumption
<1>2. PICK q \in Nat : width = q * Byte
  BY <1>1, Multiple
<1>3. per \in Nat \ {0} /\ Byte = depth * per
  BY <1>1
<1> HIDE DEF per
<1> DEFINE k == q * depth
<1>4. k \in Nat /\ width = k * per
  BY <1>2, <1>3
<1> HIDE DEF k
<1>5. width \div per = k
  BY <1>3, <1>4, NoRemainder
<1> SUFFICES ASSUME NEW x \in 0..(width - 1)
             PROVE  halftone_row(row, width, y, depth)[x \div per][x % per]
                      = <<row[x], x % Screen, y % Screen>>
  BY DEF per, Packed
<1>6. /\ x \div per \in 0..(k - 1) /\ x % per \in 0..(per - 1)
      /\ (x \div per) * per + (x % per) = x
  <2>1. per \in Nat \ {0} /\ k \in Nat /\ width \in Nat /\ x \in 0..(width - 1)
    BY <1>3, <1>4
  <2>2. width = k * per
    BY <1>4
  <2> QED BY ONLY <2>1, <2>2, InBytes, Zenon
<1> DEFINE byte == x \div per
           bit == x % per
<1>7. halftone_row(row, width, y, depth)
        = [b \in 0..(k - 1) |-> [j \in 0..(per - 1) |->
             <<row[b * per + j], (b * per + j) % Screen, y % Screen>>]]
  BY <1>5 DEF halftone_row, per
<1>8. byte \in 0..(k - 1) /\ bit \in 0..(per - 1) /\ byte * per + bit = x
  BY <1>6
<1> HIDE DEF byte, bit
<1>9. halftone_row(row, width, y, depth)[byte][bit]
        = <<row[byte * per + bit], (byte * per + bit) % Screen, y % Screen>>
  BY <1>7, <1>8
<1>10. halftone_row(row, width, y, depth)[byte][bit] = <<row[x], x % Screen, y % Screen>>
  BY <1>8, <1>9
<1> QED BY <1>10 DEF byte, bit

-----------------------------------------------------------------------------
(* The inductive invariant, of the record that is the state. *)

Fields == {"job", "phase", "page", "left", "dead", "y", "lay", "row", "gray",
           "bitmap", "bie", "made", "blank", "sent"}

Header(s) == s.job.pages[s.page]

(* A job of the filter, and how many of its pages were begun. *)
JobInHand(s) == DOMAIN s = Fields /\ s.job \in Jobs /\ s.page \in Nat

(* The page in hand passed the header check and has its layout. *)
PageInHand(s) ==
  /\ s.page \in 1..Len(s.job.pages) /\ HeaderOk(Header(s))
  /\ s.lay = page_layout(Header(s), s.job.opt)
  /\ s.blank = FALSE

(* What the loop that stands at line y has not read of the raster. *)
Unread(s) == IF s.y < Header(s).height THEN Header(s).height - s.y ELSE 0

LinesInHand(s) == s.y \in Nat /\ Header(s).height \in Nat /\ s.left = Unread(s)

(* The row buffer has its length, and is white below the raster. *)
RowInHand(s) ==
  /\ s.y \in 0..src_h(s.lay)
  /\ DOMAIN s.row = 0..(rowlen(Header(s), s.lay) - 1)
  /\ s.y > Header(s).height => \A x \in DOMAIN s.row : s.row[x] = Paper

(* The pixel at (x, y) of the page before its quarter turn. *)
Upright(h, lay, upside, x, y) ==
  LET a == IF upside THEN src_w(lay) - 1 - x ELSE x
      b == IF upside THEN src_h(lay) - 1 - y ELSE y
  IN IF a < h.width /\ b < h.height THEN <<a, b>> ELSE Paper

(* The rows that were taken so far, from the top or from the bottom. *)
Taken(s, y) ==
  /\ y \in 0..(src_h(s.lay) - 1)
  /\ IF s.job.opt.rotate180 THEN y >= src_h(s.lay) - s.y ELSE y < s.y

(* Row y of the grey page, or of the screened one, shows the raster. *)
GreyRow(s, row, y) ==
  \A x \in 0..(src_w(s.lay) - 1) :
    row[x] = Upright(Header(s), s.lay, s.job.opt.rotate180, x, y)

DottedRow(s, row, y) ==
  LET per == Byte \div s.lay.depth IN
  \A x \in 0..(s.lay.video_x - 1) :
    row[x \div per][x % per]
      = <<Upright(Header(s), s.lay, s.job.opt.rotate180, x, y), x % Screen, y % Screen>>

(* The rows taken are in their places. *)
RowsInPlace(s) ==
  IF s.lay.rotate90
  THEN /\ s.bitmap = <<>>
       /\ \A y \in Int : Taken(s, y) => y \in DOMAIN s.gray /\ GreyRow(s, s.gray[y], y)
  ELSE /\ \A y \in DOMAIN s.bitmap : y \in Int /\ y < s.lay.video_y
       /\ \A y \in Int : Taken(s, y) => y \in DOMAIN s.bitmap /\ DottedRow(s, s.bitmap[y], y)

(* What SheetIsPage says of the page that was sent, of any bitmap. *)
OnSheet(s, bitmap) ==
  LET lay == s.lay
      per == Byte \div lay.depth
  IN IF ~s.blank
     THEN \A y \in 0..(lay.video_y - 1), x \in 0..(lay.video_x - 1) :
            bitmap[y][x \div per][x % per]
              = <<Sheet(Header(s), lay, s.job.opt.rotate180, x, y), x % Screen, y % Screen>>
     ELSE \A y \in DOMAIN bitmap : \A k \in DOMAIN bitmap[y] : bitmap[y][k] = Paper

Held(s) ==
  /\ JobInHand(s)
  /\ s.phase = "rows" => PageInHand(s) /\ RowInHand(s) /\ RowsInPlace(s)
  /\ s.phase \in {"drain", "compress"} => OnSheet(s, s.bitmap)
  /\ s.phase \in {"rows", "drain", "compress"} => s.sent = <<>>
  /\ s.phase \in {"rows", "drain"} => LinesInHand(s)
  /\ s.phase \in {"header", "compress"} /\ ~s.dead => s.left = 0
  /\ s.sent # <<>> => OnSheet(s, s.sent.bitmap)

RenderInv == Held(r)

-----------------------------------------------------------------------------
(* What a job and a page in hand are made of. *)

LEMMA JobParts ==
  ASSUME NEW job \in Jobs
  PROVE  /\ job.opt.rotate180 \in BOOLEAN /\ Len(job.pages) \in Nat
         /\ \A k \in 1..Len(job.pages) : job.pages[k].bytes \in Nat
<1> DEFINE Headers == [size : STRING, width : Nat, height : Nat, bytes : Nat]
           Options == [dpi1200 : BOOLEAN, rotate180 : BOOLEAN, duplex : BOOLEAN]
<1>1. job \in [opt : Options, pages : Seq(Headers)]
  BY RenderAssumption
<1>2. \A h \in Headers : h.bytes \in Nat
  OBVIOUS
<1>3. \A opt \in Options : opt.rotate180 \in BOOLEAN
  OBVIOUS
<1> HIDE DEF Headers, Options
<1>4. job.pages \in Seq(Headers) /\ job.opt \in Options
  BY <1>1
<1>5. Len(job.pages) \in Nat /\ \A k \in 1..Len(job.pages) : job.pages[k] \in Headers
  BY <1>4
<1> QED BY <1>2, <1>3, <1>4, <1>5

LEMMA PageParts ==
  ASSUME NEW s, JobInHand(s), PageInHand(s)
  PROVE  LET h == Header(s)
             lay == s.lay
         IN /\ h.width \in Nat \ {0} /\ h.height \in Nat \ {0} /\ h.bytes \in Nat
            /\ lay.video_x \in Nat \ {0} /\ lay.video_y \in Nat \ {0}
            /\ lay.video_x % Byte = 0 /\ lay.depth \in {1, 2} /\ lay.rotate90 \in BOOLEAN
            /\ src_w(lay) \in Nat \ {0} /\ src_h(lay) \in Nat \ {0}
            /\ rowlen(h, lay) \in Nat /\ src_w(lay) <= rowlen(h, lay)
            /\ s.job.opt.rotate180 \in BOOLEAN
<1> DEFINE h == Header(s)
           lay == s.lay
<1>1. HeaderOk(h) /\ lay = page_layout(h, s.job.opt)
  BY DEF PageInHand
<1>2. MaxDots \in Nat
  BY RenderAssumption
<1>3. h.width \in Nat \ {0} /\ h.height \in Nat \ {0}
  BY <1>1, <1>2 DEF HeaderOk
<1>4. h.bytes \in Nat /\ s.job.opt.rotate180 \in BOOLEAN
  BY JobParts DEF JobInHand, PageInHand, Header
<1>5. /\ lay.video_x \in Nat \ {0} /\ lay.video_y \in Nat \ {0}
      /\ lay.video_x % Byte = 0 /\ lay.depth \in {1, 2} /\ lay.rotate90 \in BOOLEAN
  BY <1>1, LayoutFits
<1>6. src_w(lay) \in Nat \ {0} /\ src_h(lay) \in Nat \ {0}
  BY <1>5 DEF src_w, src_h
<1>7. rowlen(h, lay) \in Nat /\ src_w(lay) <= rowlen(h, lay)
  BY <1>4, <1>5, <1>6, RowIsLongest
<1> QED BY <1>3, <1>4, <1>5, <1>6, <1>7

(* What a bitmap shows depends on the page alone. *)
LEMMA SamePage ==
  ASSUME NEW s, NEW t, NEW bitmap, OnSheet(s, bitmap),
         t.job = s.job, t.page = s.page, t.lay = s.lay, t.blank = s.blank
  PROVE  OnSheet(t, bitmap)
<1>1. Header(t) = Header(s)
  BY DEF Header
<1>2. CASE s.blank
  <2>1. \A y \in DOMAIN bitmap : \A k \in DOMAIN bitmap[y] : bitmap[y][k] = Paper
    BY <1>2 DEF OnSheet
  <2>2. t.blank
    BY <1>2
  <2> QED BY <2>1, <2>2 DEF OnSheet
<1>3. CASE ~s.blank
  <2>1. ~t.blank
    BY <1>3
  <2> QED BY <1>1, <1>3, <2>1 DEF OnSheet
<1> QED BY <1>2, <1>3

LEMMA RenderStart == RenderInit => RenderInv
BY DEF RenderInit, RenderInv, Held, JobInHand, Fields, Idle

-----------------------------------------------------------------------------
(* The steps. *)

LEMMA ReadHeaderStep == RenderInv /\ read_header => RenderInv'
<1> SUFFICES ASSUME Held(r), read_header PROVE Held(r')
  BY DEF RenderInv
<1> DEFINE h == r.job.pages[r.page + 1]
           lay == page_layout(h, r.job.opt)
<1>1. DOMAIN r = Fields /\ r.job \in Jobs /\ r.page \in Nat /\ r.page < Len(r.job.pages)
  BY DEF Held, JobInHand, read_header
<1>2. CASE HeaderOk(h)
  <2> DEFINE t == [r EXCEPT !.phase = "rows", !.page = @ + 1, !.left = h.height,
                            !.y = 0, !.lay = lay, !.row = White(rowlen(h, lay)),
                            !.gray = <<>>, !.bitmap = <<>>, !.blank = FALSE,
                            !.sent = <<>>]
  <2>1. r' = t
    BY <1>2 DEF read_header
  <2>2. /\ DOMAIN t = Fields /\ t.job = r.job /\ t.phase = "rows" /\ t.page = r.page + 1
        /\ t.y = 0 /\ t.lay = lay /\ t.row = White(rowlen(h, lay))
        /\ t.bitmap = <<>> /\ t.sent = <<>> /\ t.blank = FALSE /\ t.left = h.height
    BY <1>1 DEF Fields
  <2> HIDE DEF t, h, lay
  <2>3. JobInHand(t)
    BY <1>1, <2>2 DEF JobInHand
  <2>4. Header(t) = h
    BY <2>2 DEF Header, h
  <2>5. PageInHand(t)
    <3>1. Len(r.job.pages) \in Nat
      BY <1>1, JobParts
    <3> QED BY <1>1, <1>2, <2>2, <2>4, <3>1 DEF PageInHand, lay
  <2>6. /\ src_h(t.lay) \in Nat \ {0} /\ rowlen(h, t.lay) \in Nat /\ h.height \in Nat
        /\ t.job.opt.rotate180 \in BOOLEAN
    BY <2>3, <2>4, <2>5, PageParts
  <2>7. RowInHand(t)
    BY <2>2, <2>4, <2>6 DEF RowInHand, White
  <2>8. \A y \in Int : ~Taken(t, y)
    BY <2>2, <2>6 DEF Taken
  <2>9. RowsInPlace(t)
    BY <2>2, <2>8 DEF RowsInPlace
  <2>10. h.height > 0
    BY <2>3, <2>4, <2>5, PageParts
  <2>11. LinesInHand(t)
    BY <2>2, <2>4, <2>6, <2>10 DEF LinesInHand, Unread
  <2> QED BY <2>1, <2>2, <2>3, <2>5, <2>7, <2>9, <2>11 DEF Held
<1>3. CASE ~HeaderOk(h)
  <2> DEFINE t == [r EXCEPT !.phase = "done"]
  <2>1. r' = t
    BY <1>3 DEF read_header, Stop
  <2>2. /\ DOMAIN t = Fields /\ t.job = r.job /\ t.phase = "done" /\ t.page = r.page
        /\ t.lay = r.lay /\ t.sent = r.sent /\ t.blank = r.blank
    BY <1>1 DEF Fields
  <2> HIDE DEF t
  <2>3. OnSheet(r, r.sent.bitmap) => OnSheet(t, t.sent.bitmap)
    BY <2>2, SamePage
  <2> QED BY <1>1, <2>1, <2>2, <2>3 DEF Held, JobInHand
<1> QED BY <1>2, <1>3

LEMMA PageFailsStep == RenderInv /\ page_fails => RenderInv'
<1> SUFFICES ASSUME Held(r), page_fails PROVE Held(r')
  BY DEF RenderInv
<1> DEFINE t == [r EXCEPT !.phase = "done", !.dead = TRUE]
<1>1. r' = t /\ r.sent = <<>> /\ DOMAIN r = Fields
  BY DEF page_fails, Step, Held, JobInHand
<1>2. /\ DOMAIN t = Fields /\ t.job = r.job /\ t.phase = "done" /\ t.page = r.page
      /\ t.sent = <<>>
  BY <1>1 DEF Fields
<1> HIDE DEF t
<1> QED BY <1>1, <1>2 DEF Held, JobInHand

LEMMA NextRowStep == RenderInv /\ next_row => RenderInv'
<1> SUFFICES ASSUME Held(r), next_row PROVE Held(r')
  BY DEF RenderInv
<1> DEFINE h == Header(r)
           lay == r.lay
           up == r.job.opt.rotate180
           n == rowlen(h, lay)
           w == src_w(lay)
           last == src_h(lay) - 1
           covered == Covered(h, lay, r.row, r.y)
           row == IF up THEN Reversed(covered, w) ELSE covered
           dst == IF up THEN last - r.y ELSE r.y
           grey == IF lay.rotate90 THEN Placed(r.gray, dst, row) ELSE r.gray
           dots == IF lay.rotate90 THEN r.bitmap
                   ELSE Placed(r.bitmap, dst, halftone_row(row, lay.video_x, dst, lay.depth))
           left == IF r.y < h.height THEN r.left - 1 ELSE r.left
           t == [r EXCEPT !.y = @ + 1, !.row = row, !.left = left,
                          !.gray = grey, !.bitmap = dots]
<1>1. r.phase = "rows" /\ r.y < src_h(lay) /\ JobInHand(r) /\ PageInHand(r)
        /\ RowInHand(r) /\ RowsInPlace(r) /\ r.sent = <<>> /\ LinesInHand(r)
  BY DEF next_row, Step, Held
<1>2. DOMAIN r = Fields
  BY <1>1 DEF JobInHand
<1>3. r' = t
  BY <1>1, <1>2 DEF next_row, hdr, Header, Fields
<1>4. /\ DOMAIN t = Fields /\ t.job = r.job /\ t.phase = "rows" /\ t.page = r.page
      /\ t.y = r.y + 1 /\ t.lay = lay /\ t.row = row /\ t.gray = grey /\ t.bitmap = dots
      /\ t.sent = <<>> /\ t.left = left /\ t.blank = r.blank
  BY <1>1, <1>2 DEF Fields
<1> HIDE DEF t
<1>5. /\ h.width \in Nat \ {0} /\ h.height \in Nat \ {0}
      /\ lay.video_x \in Nat \ {0} /\ lay.video_y \in Nat \ {0}
      /\ lay.video_x % Byte = 0 /\ lay.depth \in {1, 2} /\ lay.rotate90 \in BOOLEAN
      /\ w \in Nat \ {0} /\ src_h(lay) \in Nat \ {0} /\ last \in Nat
      /\ n \in Nat /\ w <= n /\ up \in BOOLEAN
  BY <1>1, PageParts
<1>6. /\ r.y \in 0..last /\ DOMAIN r.row = 0..(n - 1)
      /\ r.y > h.height => \A x \in DOMAIN r.row : r.row[x] = Paper
  <2>1. /\ r.y \in 0..src_h(lay) /\ DOMAIN r.row = 0..(n - 1)
        /\ r.y > h.height => \A x \in DOMAIN r.row : r.row[x] = Paper
    BY <1>1 DEF RowInHand
  <2>2. r.y \in 0..last
    BY <1>1, <1>5, <2>1
  <2> QED BY <2>1, <2>2
<1>7. /\ DOMAIN covered = 0..(n - 1)
      /\ \A x \in 0..(w - 1) :
           covered[x] = IF x < h.width /\ r.y < h.height THEN <<x, r.y>> ELSE Paper
      /\ r.y >= h.height => \A x \in DOMAIN covered : covered[x] = Paper
  <2> HIDE DEF h, lay
  <2>1. /\ r.y \in Nat /\ h.width \in Nat /\ h.height \in Nat
        /\ src_w(lay) \in Nat /\ rowlen(h, lay) \in Nat /\ src_w(lay) <= rowlen(h, lay)
        /\ DOMAIN r.row = 0..(rowlen(h, lay) - 1)
        /\ r.y > h.height => \A x \in DOMAIN r.row : r.row[x] = Paper
    BY <1>5, <1>6
  <2> QED BY ONLY <2>1, CoveredShows DEF covered
<1> HIDE DEF covered
<1>8. /\ DOMAIN row = 0..(n - 1)
      /\ \A x \in 0..(w - 1) : row[x] = covered[IF up THEN w - 1 - x ELSE x]
      /\ r.y >= h.height => \A x \in DOMAIN row : row[x] = Paper
  <2> HIDE DEF n, w, h, up
  <2>1. w \in 0..n
    BY <1>5
  <2>2. /\ DOMAIN Reversed(covered, w) = 0..(n - 1)
        /\ \A x \in 0..(w - 1) : Reversed(covered, w)[x] = covered[w - 1 - x]
        /\ (\A x \in DOMAIN covered : covered[x] = Paper) =>
             \A x \in 0..(n - 1) : Reversed(covered, w)[x] = Paper
    <3> HIDE DEF n, w
    <3> QED BY ONLY <1>5, <1>7, <2>1 DEF Reversed
  <2>3. CASE up
    BY <1>7, <2>2, <2>3
  <2>4. CASE ~up
    BY <1>7, <2>4
  <2> QED BY <2>3, <2>4
<1> HIDE DEF row
<1>9. dst \in 0..last /\ (IF up THEN last - dst ELSE dst) = r.y
  <2> HIDE DEF last, up
  <2> QED BY ONLY <1>5, <1>6 DEF dst
<1>10. Header(t) = h /\ \A y : Taken(t, y) <=> (y = dst \/ Taken(r, y))
  <2>1. Header(t) = h
    BY <1>4 DEF Header
  <2>2. src_h(lay) \in Nat /\ last = src_h(lay) - 1
    BY <1>1, PageParts
  <2>3. t.y = r.y + 1 /\ t.lay = lay /\ t.job.opt.rotate180 = up
    BY <1>4
  <2>4. r.y \in 0..last /\ up \in BOOLEAN
    BY <1>5, <1>6
  <2>5. \A y : Taken(t, y) <=> (y = dst \/ Taken(r, y))
    <3>1. \A y :
            /\ Taken(t, y) <=> /\ y \in 0..(src_h(lay) - 1)
                               /\ IF up THEN y >= src_h(lay) - (r.y + 1) ELSE y < r.y + 1
            /\ Taken(r, y) <=> /\ y \in 0..(src_h(lay) - 1)
                               /\ IF up THEN y >= src_h(lay) - r.y ELSE y < r.y
      BY <2>3 DEF Taken
    <3> DEFINE m == src_h(lay)
               n0 == r.y
    <3>2. m \in Nat /\ n0 \in 0..(m - 1)
      BY <2>2, <2>4
    <3>3. dst = IF up THEN m - 1 - n0 ELSE n0
      BY <2>2 DEF dst
    <3> HIDE DEF m, n0, up, dst
    <3>5. dst \in 0..(m - 1)
      BY ONLY <3>2, <3>3
    <3>4. ASSUME NEW y \in 0..(m - 1)
          PROVE  /\ y >= m - (n0 + 1) <=> (y = m - 1 - n0 \/ y >= m - n0)
                 /\ y < n0 + 1 <=> (y = n0 \/ y < n0)
      BY ONLY <3>2, <3>4
    <3> SUFFICES ASSUME NEW y PROVE Taken(t, y) <=> (y = dst \/ Taken(r, y))
      OBVIOUS
    <3>6. /\ Taken(t, y) <=> /\ y \in 0..(m - 1)
                              /\ IF up THEN y >= m - (n0 + 1) ELSE y < n0 + 1
          /\ Taken(r, y) <=> y \in 0..(m - 1) /\ IF up THEN y >= m - n0 ELSE y < n0
      BY <3>1 DEF m, n0
    <3>7. CASE y \in 0..(m - 1)
      <4>1. CASE up
        BY ONLY <3>3, <3>4, <3>6, <3>7, <4>1
      <4>2. CASE ~up
        BY ONLY <3>3, <3>4, <3>6, <3>7, <4>2
      <4> QED BY <4>1, <4>2
    <3>8. CASE y \notin 0..(m - 1)
      BY ONLY <3>5, <3>6, <3>8
    <3> QED BY <3>7, <3>8
  <2> QED BY <2>1, <2>5
<1> HIDE DEF dst
<1>11. \A x \in 0..(w - 1) : row[x] = Upright(h, lay, up, x, dst)
  <2> SUFFICES ASSUME NEW x \in 0..(w - 1) PROVE row[x] = Upright(h, lay, up, x, dst)
    OBVIOUS
  <2>1. (IF up THEN w - 1 - x ELSE x) \in 0..(w - 1)
    BY <1>5
  <2> QED BY <1>5, <1>7, <1>8, <1>9, <2>1 DEF Upright
<1>12. JobInHand(t) /\ PageInHand(t)
  BY <1>1, <1>4, <1>10 DEF JobInHand, PageInHand
<1>13. RowInHand(t)
  <2>1. t.y \in 0..src_h(lay)
    BY <1>4, <1>5, <1>6
  <2>2. DOMAIN t.row = 0..(rowlen(Header(t), t.lay) - 1)
    BY <1>4, <1>8, <1>10
  <2>3. t.y > Header(t).height => \A x \in DOMAIN t.row : t.row[x] = Paper
    BY <1>4, <1>5, <1>6, <1>8, <1>10
  <2> QED BY <1>4, <2>1, <2>2, <2>3 DEF RowInHand
<1>14. RowsInPlace(t)
  <2> HIDE DEF h
  <2>1. CASE lay.rotate90
    <3>1. GreyRow(t, row, dst)
      BY <1>4, <1>10, <1>11 DEF GreyRow
    <3>2. \A y : GreyRow(t, r.gray[y], y) <=> GreyRow(r, r.gray[y], y)
      BY <1>4, <1>10 DEF GreyRow, h
    <3>3. t.bitmap = <<>>
      BY <1>1, <1>4, <2>1 DEF RowsInPlace
    <3>5. t.gray = Placed(r.gray, dst, row)
      BY <1>4, <2>1
    <3>6. /\ DOMAIN t.gray = DOMAIN r.gray \cup {dst} /\ t.gray[dst] = row
          /\ \A y \in DOMAIN r.gray : y # dst => t.gray[y] = r.gray[y]
      BY ONLY <3>5 DEF Placed
    <3>4. ASSUME NEW y \in Int, Taken(t, y)
          PROVE  y \in DOMAIN t.gray /\ GreyRow(t, t.gray[y], y)
      <4>1. CASE y = dst
        BY <3>1, <3>6, <4>1
      <4>2. CASE y # dst
        <5>1. y \in DOMAIN r.gray /\ GreyRow(r, r.gray[y], y)
          BY <1>1, <1>10, <2>1, <3>4, <4>2 DEF RowsInPlace
        <5>2. y \in DOMAIN t.gray /\ t.gray[y] = r.gray[y]
          BY <3>6, <4>2, <5>1
        <5> QED BY <3>2, <5>1, <5>2
      <4> QED BY <4>1, <4>2
    <3> QED BY <1>4, <2>1, <3>3, <3>4 DEF RowsInPlace
  <2>2. CASE ~lay.rotate90
    <3> DEFINE packed == halftone_row(row, lay.video_x, dst, lay.depth)
    <3>1. lay.video_x = w /\ last = lay.video_y - 1
      BY <2>2 DEF src_w, src_h
    <3>2. DottedRow(t, packed, dst)
      <4>1. Packed(packed, row, lay.video_x, dst, lay.depth)
        BY <1>5, HalftoneShows
      <4> HIDE DEF packed
      <4> QED BY <1>4, <1>10, <1>11, <3>1, <4>1 DEF DottedRow, Packed
    <3> HIDE DEF packed
    <3>3. \A y : DottedRow(t, r.bitmap[y], y) <=> DottedRow(r, r.bitmap[y], y)
      BY <1>4, <1>10 DEF DottedRow, h
    <3>4. t.bitmap = Placed(r.bitmap, dst, packed)
      BY <1>4, <2>2 DEF packed
    <3>7. /\ DOMAIN t.bitmap = DOMAIN r.bitmap \cup {dst} /\ t.bitmap[dst] = packed
          /\ \A y \in DOMAIN r.bitmap : y # dst => t.bitmap[y] = r.bitmap[y]
      BY ONLY <3>4 DEF Placed
    <3>5. \A y \in DOMAIN t.bitmap : y \in Int /\ y < t.lay.video_y
      <4>1. \A y \in DOMAIN r.bitmap : y \in Int /\ y < lay.video_y
        BY <1>1, <2>2 DEF RowsInPlace
      <4>2. dst \in Int /\ dst < lay.video_y
        BY <1>5, <1>9, <3>1
      <4> QED BY <1>4, <3>7, <4>1, <4>2
    <3>6. ASSUME NEW y \in Int, Taken(t, y)
          PROVE  y \in DOMAIN t.bitmap /\ DottedRow(t, t.bitmap[y], y)
      <4>1. CASE y = dst
        BY <3>2, <3>7, <4>1
      <4>2. CASE y # dst
        <5>1. y \in DOMAIN r.bitmap /\ DottedRow(r, r.bitmap[y], y)
          BY <1>1, <1>10, <2>2, <3>6, <4>2 DEF RowsInPlace
        <5>2. y \in DOMAIN t.bitmap /\ t.bitmap[y] = r.bitmap[y]
          BY <3>7, <4>2, <5>1
        <5> QED BY <3>3, <5>1, <5>2
      <4> QED BY <4>1, <4>2
    <3> QED BY <1>4, <2>2, <3>5, <3>6 DEF RowsInPlace
  <2> QED BY <1>5, <2>1, <2>2
<1>15. LinesInHand(t)
  <2>1. r.y \in Nat /\ h.height \in Nat /\ r.left = Unread(r)
    BY <1>1 DEF LinesInHand
  <2>2. r.left = IF r.y < h.height THEN h.height - r.y ELSE 0
    BY <2>1 DEF Unread
  <2>3. t.y \in Nat /\ t.left = IF t.y < h.height THEN h.height - t.y ELSE 0
    <3> HIDE DEF h
    <3> QED BY <1>4, <2>1, <2>2
  <2> QED BY <1>10, <2>1, <2>3 DEF LinesInHand, Unread
<1> QED BY <1>3, <1>4, <1>12, <1>13, <1>14, <1>15 DEF Held

LEMMA TurnPageStep == RenderInv /\ turn_page => RenderInv'
<1> SUFFICES ASSUME Held(r), turn_page PROVE Held(r')
  BY DEF RenderInv
<1> DEFINE h == Header(r)
           lay == r.lay
           up == r.job.opt.rotate180
           turned(y) == [x \in 0..(lay.video_x - 1) |-> r.gray[src_h(lay) - 1 - x][y]]
           dots == IF ~lay.rotate90 THEN r.bitmap
                   ELSE [y \in 0..(lay.video_y - 1) |->
                           halftone_row(turned(y), lay.video_x, y, lay.depth)]
           t == [r EXCEPT !.phase = "drain", !.y = src_h(lay), !.bitmap = dots]
<1>1. r.phase = "rows" /\ r.y = src_h(lay) /\ JobInHand(r) /\ PageInHand(r)
        /\ RowsInPlace(r) /\ r.sent = <<>> /\ LinesInHand(r) /\ r.blank = FALSE
  BY DEF turn_page, Step, Held, PageInHand
<1>2. DOMAIN r = Fields
  BY <1>1 DEF JobInHand
<1>3. r' = t
  BY <1>1, <1>2 DEF turn_page, BelowPage
<1>4. /\ DOMAIN t = Fields /\ t.job = r.job /\ t.phase = "drain" /\ t.page = r.page
      /\ t.lay = lay /\ t.bitmap = dots /\ t.sent = <<>> /\ t.blank = FALSE
      /\ t.y = r.y /\ t.left = r.left
  BY <1>1, <1>2 DEF Fields
<1> HIDE DEF t
<1>5. /\ lay.video_x \in Nat \ {0} /\ lay.video_y \in Nat \ {0}
      /\ lay.video_x % Byte = 0 /\ lay.depth \in {1, 2} /\ lay.rotate90 \in BOOLEAN
      /\ src_h(lay) \in Nat \ {0} /\ up \in BOOLEAN
  BY <1>1, PageParts
<1>6. \A y \in 0..(src_h(lay) - 1) : Taken(r, y)
  BY <1>1, <1>5 DEF Taken
<1>7. Header(t) = h
  BY <1>4 DEF Header
<1>8. ASSUME NEW y \in 0..(lay.video_y - 1), NEW x \in 0..(lay.video_x - 1)
      PROVE  dots[y][x \div (Byte \div lay.depth)][x % (Byte \div lay.depth)]
               = <<Sheet(h, lay, up, x, y), x % Screen, y % Screen>>
  <2>1. CASE ~lay.rotate90
    <3>1. y \in Int /\ Taken(r, y)
      BY <1>5, <1>6, <2>1 DEF src_h
    <3>2. DottedRow(r, r.bitmap[y], y)
      BY <1>1, <2>1, <3>1 DEF RowsInPlace
    <3>3. r.bitmap[y][x \div (Byte \div lay.depth)][x % (Byte \div lay.depth)]
            = <<Upright(h, lay, up, x, y), x % Screen, y % Screen>>
      BY <3>2 DEF DottedRow
    <3>4. Sheet(h, lay, up, x, y) = Upright(h, lay, up, x, y)
      BY <2>1 DEF Sheet, Upright
    <3> QED BY <2>1, <3>3, <3>4
  <2>2. CASE lay.rotate90
    <3> DEFINE packed == halftone_row(turned(y), lay.video_x, y, lay.depth)
               row == turned(y)
    <3>1. Packed(packed, row, lay.video_x, y, lay.depth)
      BY <1>5, HalftoneShows
    <3>2. dots[y] = packed
      BY <2>2
    <3>3. lay.video_x = src_h(lay) /\ lay.video_y = src_w(lay)
      BY <2>2 DEF src_h, src_w
    <3>4. src_h(lay) - 1 - x \in 0..(src_h(lay) - 1) /\ y \in 0..(src_w(lay) - 1)
      BY <1>5, <3>3
    <3>5. GreyRow(r, r.gray[src_h(lay) - 1 - x], src_h(lay) - 1 - x)
      BY <1>1, <1>6, <2>2, <3>4 DEF RowsInPlace
    <3>6. row[x] = Upright(h, lay, up, y, src_h(lay) - 1 - x)
      BY <3>4, <3>5 DEF GreyRow
    <3>7. Sheet(h, lay, up, x, y) = Upright(h, lay, up, y, src_h(lay) - 1 - x)
      BY <2>2 DEF Sheet, Upright
    <3> HIDE DEF packed, row, dots
    <3>8. packed[x \div (Byte \div lay.depth)][x % (Byte \div lay.depth)]
            = <<row[x], x % Screen, y % Screen>>
      BY <3>1 DEF Packed
    <3> QED BY <3>2, <3>6, <3>7, <3>8
  <2> QED BY <1>5, <2>1, <2>2
<1> HIDE DEF dots
<1>9. OnSheet(t, t.bitmap)
  BY <1>4, <1>7, <1>8 DEF OnSheet
<1>10. LinesInHand(t)
  BY <1>1, <1>4, <1>7 DEF LinesInHand, Unread
<1> QED BY <1>1, <1>3, <1>4, <1>9, <1>10 DEF Held, JobInHand

LEMMA DrainStep == RenderInv /\ drain => RenderInv'
<1> SUFFICES ASSUME Held(r), drain PROVE Held(r')
  BY DEF RenderInv
<1> DEFINE h == Header(r)
           t == [r EXCEPT !.y = @ + 1, !.left = @ - 1]
           u == [r EXCEPT !.phase = "compress", !.dead = TRUE]
<1>1. /\ r.phase = "drain" /\ JobInHand(r) /\ OnSheet(r, r.bitmap) /\ r.sent = <<>>
      /\ LinesInHand(r) /\ r.y < h.height
  BY DEF drain, Step, Held, hdr, Header
<1>2. r' = t \/ r' = u
  BY DEF drain
<1>3. DOMAIN r = Fields
  BY <1>1 DEF JobInHand
(* A line is read: one less is unread. *)
<1>4. CASE r' = t
  <2>1. /\ DOMAIN t = Fields /\ t.job = r.job /\ t.phase = "drain" /\ t.page = r.page
        /\ t.y = r.y + 1 /\ t.left = r.left - 1 /\ t.lay = r.lay
        /\ t.bitmap = r.bitmap /\ t.blank = r.blank /\ t.sent = <<>>
    BY <1>1, <1>3 DEF Fields
  <2> HIDE DEF t
  <2>2. OnSheet(t, t.bitmap) /\ Header(t) = h
    BY <1>1, <2>1, SamePage DEF Header
  <2>3. r.y \in Nat /\ h.height \in Nat /\ r.left = h.height - r.y
    BY <1>1 DEF LinesInHand, Unread
  <2>4. t.y \in Nat /\ t.left = IF t.y < h.height THEN h.height - t.y ELSE 0
    <3>1. r.y < h.height
      BY <1>1
    <3>2. t.y = r.y + 1 /\ t.left = r.left - 1
      BY <2>1
    <3> DEFINE n == h.height
               k == r.y
               left == r.left
    <3>3. k \in Nat /\ n \in Nat /\ left = n - k /\ k < n
      BY <2>3, <3>1
    <3> HIDE DEF n, k, left
    <3>4. k + 1 \in Nat /\ left - 1 = IF k + 1 < n THEN n - (k + 1) ELSE 0
      BY ONLY <3>3
    <3> QED BY ONLY <3>2, <3>4 DEF n, k, left
  <2>5. LinesInHand(t)
    BY <2>2, <2>3, <2>4 DEF LinesInHand, Unread
  <2> QED BY <1>1, <1>4, <2>1, <2>2, <2>5 DEF Held, JobInHand
<1>5. CASE r' = u
  <2>1. /\ DOMAIN u = Fields /\ u.job = r.job /\ u.phase = "compress" /\ u.page = r.page
        /\ u.dead = TRUE /\ u.lay = r.lay
        /\ u.bitmap = r.bitmap /\ u.blank = r.blank /\ u.sent = <<>>
    BY <1>1, <1>3 DEF Fields
  <2> HIDE DEF u
  <2>2. OnSheet(u, u.bitmap)
    BY <1>1, <2>1, SamePage
  <2> QED BY <1>1, <1>5, <2>1, <2>2 DEF Held, JobInHand
<1> QED BY <1>2, <1>4, <1>5

LEMMA DrainEnds == RenderInv /\ drain_ends => RenderInv'
<1> SUFFICES ASSUME Held(r), drain_ends PROVE Held(r')
  BY DEF RenderInv
<1> DEFINE h == Header(r)
           t == [r EXCEPT !.phase = "compress"]
<1>1. /\ JobInHand(r) /\ OnSheet(r, r.bitmap) /\ r.sent = <<>>
      /\ LinesInHand(r) /\ r.y >= h.height /\ r' = t
  BY DEF drain_ends, Step, Held, hdr, Header
<1>2. /\ DOMAIN t = Fields /\ t.job = r.job /\ t.phase = "compress" /\ t.page = r.page
      /\ t.left = r.left /\ t.dead = r.dead /\ t.lay = r.lay
      /\ t.bitmap = r.bitmap /\ t.blank = r.blank /\ t.sent = <<>>
  BY <1>1 DEF JobInHand, Fields
<1> HIDE DEF t
(* The loop has come to the end of the raster: no line is unread. *)
<1>3. r.left = 0
  <2>1. r.y \in Nat /\ h.height \in Nat /\ ~(r.y < h.height)
    <3>1. r.y \in Nat /\ h.height \in Nat /\ r.y >= h.height
      BY <1>1 DEF LinesInHand
    <3> HIDE DEF h
    <3> QED BY <3>1
  <2> QED BY <1>1, <2>1 DEF LinesInHand, Unread
<1>4. OnSheet(t, t.bitmap)
  BY <1>1, <1>2, SamePage
<1> QED BY <1>1, <1>2, <1>3, <1>4 DEF Held, JobInHand

LEMMA CollectStep == RenderInv /\ jbig_collect => RenderInv'
<1> SUFFICES ASSUME Held(r), jbig_collect PROVE Held(r')
  BY DEF RenderInv
<1>1. /\ r.phase = "compress" /\ JobInHand(r) /\ OnSheet(r, r.bitmap) /\ r.sent = <<>>
      /\ ~r.dead => r.left = 0
  BY DEF jbig_collect, Step, Held
<1>2. PICK made, bie : r' = [r EXCEPT !.made = made, !.bie = bie]
  BY DEF jbig_collect
<1>3. /\ DOMAIN r' = Fields /\ r'.job = r.job /\ r'.phase = "compress" /\ r'.page = r.page
      /\ r'.left = r.left /\ r'.dead = r.dead /\ r'.lay = r.lay /\ r'.bitmap = r.bitmap
      /\ r'.sent = r.sent /\ r'.blank = r.blank
  BY <1>1, <1>2 DEF JobInHand, Fields
<1>4. OnSheet(r', r'.bitmap)
  BY <1>1, <1>3, SamePage
<1> QED BY <1>1, <1>3, <1>4 DEF Held, JobInHand

LEMMA FinishStep == RenderInv /\ finish_page => RenderInv'
<1> SUFFICES ASSUME Held(r), finish_page PROVE Held(r')
  BY DEF RenderInv
<1> DEFINE sent == [page |-> r.page, bitmap |-> r.bitmap, made |-> r.made,
                    bih |-> Min({BihLen, r.bie.len}), bid |-> BidChunks(r.bie.len)]
           s == [r EXCEPT !.bie = Idle.bie, !.made = <<>>, !.bitmap = <<>>,
                          !.gray = <<>>, !.row = <<>>]
<1>1. /\ r.phase = "compress" /\ JobInHand(r) /\ OnSheet(r, r.bitmap) /\ r.sent = <<>>
      /\ ~r.dead => r.left = 0
  BY DEF finish_page, Step, Held
<1>2. /\ DOMAIN s = Fields /\ s.job = r.job /\ s.page = r.page /\ s.left = r.left
      /\ s.dead = r.dead /\ s.lay = r.lay /\ s.sent = <<>> /\ s.blank = r.blank
  BY <1>1 DEF JobInHand, Fields
<1>3. r' = [s EXCEPT !.phase = "done"] \/ r' = [s EXCEPT !.phase = "header", !.sent = sent]
  BY DEF finish_page
<1>4. sent.bitmap = r.bitmap
  OBVIOUS
<1> HIDE DEF s, sent
<1>5. CASE r' = [s EXCEPT !.phase = "done"]
  <2>1. /\ DOMAIN r' = Fields /\ r'.job = r.job /\ r'.phase = "done" /\ r'.page = r.page
        /\ r'.sent = <<>>
    BY <1>2, <1>5 DEF Fields
  <2> QED BY <1>1, <2>1 DEF Held, JobInHand
<1>6. CASE r' = [s EXCEPT !.phase = "header", !.sent = sent]
  <2>1. /\ DOMAIN r' = Fields /\ r'.job = r.job /\ r'.phase = "header" /\ r'.page = r.page
        /\ r'.left = r.left /\ r'.dead = r.dead /\ r'.lay = r.lay /\ r'.sent = sent
        /\ r'.blank = r.blank
    BY <1>2, <1>6 DEF Fields
  <2>2. OnSheet(r', r'.sent.bitmap)
    BY <1>1, <1>4, <2>1 DEF OnSheet, Header
  <2> QED BY <1>1, <2>1, <2>2 DEF Held, JobInHand
<1> QED BY <1>3, <1>5, <1>6

LEMMA BlankStep == RenderInv /\ render_blank_page => RenderInv'
<1> SUFFICES ASSUME Held(r), render_blank_page PROVE Held(r')
  BY DEF RenderInv
<1> DEFINE lay == page_layout(hdr, r.job.opt)
           blank == [y \in 0..(src_h(lay) - 1) |->
                       [k \in 0..((src_w(lay) * lay.depth) \div Byte - 1) |-> Paper]]
           t == [r EXCEPT !.phase = "compress", !.page = @ + 1, !.lay = lay, !.sent = <<>>,
                          !.blank = TRUE, !.bitmap = blank]
<1>1. /\ r.phase = "header" /\ JobInHand(r)
      /\ ~r.dead => r.left = 0
  BY DEF render_blank_page, Step, Held
<1>2. r' = t
  BY DEF render_blank_page
<1>3. \A y \in DOMAIN blank : \A k \in DOMAIN blank[y] : blank[y][k] = Paper
  OBVIOUS
<1> HIDE DEF blank, lay
<1>4. /\ DOMAIN t = Fields /\ t.job = r.job /\ t.phase = "compress" /\ t.page = r.page + 1
      /\ t.left = r.left /\ t.dead = r.dead /\ t.bitmap = blank /\ t.sent = <<>>
      /\ t.blank = TRUE
  BY <1>1 DEF JobInHand, Fields
<1> HIDE DEF t
<1>5. t.page \in Nat
  BY <1>1, <1>4 DEF JobInHand
<1>6. OnSheet(t, t.bitmap)
  BY <1>3, <1>4 DEF OnSheet
<1> QED BY <1>1, <1>2, <1>4, <1>5, <1>6 DEF Held, JobInHand

LEMMA RenderInductive == RenderSpec => []RenderInv
<1>1. RenderInv /\ [RenderNext]_r => RenderInv'
  <2>1. ASSUME RenderInv, UNCHANGED r PROVE RenderInv'
    BY <2>1 DEF RenderInv
  <2> QED BY <2>1, ReadHeaderStep, PageFailsStep, NextRowStep, TurnPageStep, DrainStep,
             DrainEnds, CollectStep, FinishStep, BlankStep DEF RenderNext
<1> QED BY <1>1, RenderStart, PTL DEF RenderSpec

-----------------------------------------------------------------------------
(* Whatever the paper, the raster and the turns asked for, the row buffer    *)
(* takes a line of the raster and a row of the page, no row is empty and     *)
(* none is written below the page: the sizes of render_page, padded in 32    *)
(* bits, fit each other.                                                     *)
THEOREM RowHoldsAlways == RenderSpec => []RowHolds
<1>1. RenderInv => RowHolds
  <2> SUFFICES ASSUME Held(r), r.phase = "rows"
               PROVE  /\ src_w(r.lay) > 0 /\ r.lay.video_x > 0
                      /\ DOMAIN r.row = 0..(rowlen(hdr, r.lay) - 1)
                      /\ \A y \in DOMAIN r.bitmap : y < r.lay.video_y
    BY DEF RenderInv, RowHolds
  <2>1. JobInHand(r) /\ PageInHand(r) /\ RowInHand(r) /\ RowsInPlace(r)
    BY DEF Held
  <2>2. src_w(r.lay) \in Nat \ {0} /\ r.lay.video_x \in Nat \ {0}
    BY <2>1, PageParts
  <2>3. DOMAIN r.row = 0..(rowlen(hdr, r.lay) - 1)
    BY <2>1 DEF RowInHand, Header, hdr
  <2>4. \A y \in DOMAIN r.bitmap : y < r.lay.video_y
    BY <2>1 DEF RowsInPlace
  <2> QED BY <2>2, <2>3, <2>4
<1> QED BY <1>1, RenderInductive, PTL

(* Whatever the raster, the paper and the turns, the page that render_page   *)
(* sends shows every pixel of the raster in its place on the sheet, under    *)
(* the screen of the sheet, and white where the raster does not reach.       *)
THEOREM SheetIsPageHolds == RenderSpec => []SheetIsPage
<1>1. RenderInv => SheetIsPage
  BY DEF RenderInv, Held, SheetIsPage, OnSheet, Header, hdr
<1> QED BY <1>1, RenderInductive, PTL

(* However much of a raster the page buffer leaves over, the row loop of     *)
(* render_page and the loop below the page read every line of it, and none   *)
(* twice, before the next header is looked for, unless the stream died:      *)
(* where one loop stops at the sheet the other goes on to cupsHeight.        *)
THEOREM HeaderInPlaceHolds == RenderSpec => []HeaderInPlace
<1>1. RenderInv => HeaderInPlace
  BY DEF RenderInv, Held, HeaderInPlace
<1> QED BY <1>1, RenderInductive, PTL

(* At every cell of every screen halftone_row gives darker greys no less     *)
(* toner, in one bit per dot and in two, and a negative the exact opposite.  *)
THEOREM InkFollowsToneHolds == RenderSpec => []InkFollowsTone
<1>1. RenderInv => InkFollowsTone
  <2> SUFFICES ASSUME Held(r), r.phase = "rows", NEW thr \in Thresholds
               PROVE  LET depth == r.lay.depth
                          Ink(gray) == dot_code(gray, thr, depth, FALSE)
                          solid == IF depth = 1 THEN 1 ELSE 3
                      IN /\ Ink(0) = solid /\ Ink(255) = 0
                         /\ \A gray \in 0..254 : Ink(gray) >= Ink(gray + 1)
                         /\ \A gray \in 0..255 :
                              dot_code(gray, thr, depth, TRUE) = solid - Ink(gray)
    BY DEF RenderInv, InkFollowsTone
  <2>1. r.lay.depth \in {1, 2}
    BY PageParts DEF Held
  <2>2. thr \in 1..255
    BY RenderAssumption
  <2> QED BY <2>1, <2>2, Tone
<1> QED BY <1>1, RenderInductive, PTL

-----------------------------------------------------------------------------
(* What a page carries: the pieces of jbig, and the chunks they are sent in. *)

LEMMA TotalIs == \A pieces : Total(pieces) = SeqSum(0, pieces)
BY DEF Total, SeqSum

(* As many chunks as it takes, the last one not empty.                       *)
LEMMA ChunkCount ==
  ASSUME NEW t \in Nat
  PROVE  LET n == (t + BidMax - 1) \div BidMax IN
           n \in Nat /\ t <= n * BidMax /\ \A k \in 1..n : (k - 1) * BidMax < t
<1> DEFINE w == BidMax
           a == t + w - 1
           n == a \div w
           d == a % w
<1>1. w \in Nat \ {0}
  BY RenderAssumption
<1> HIDE DEF w
<1>2. a \in Nat
  BY <1>1
<1>3. n \in Nat /\ d \in 0..(w - 1) /\ a = n * w + d
  <2> HIDE DEF a
  <2> QED BY <1>1, <1>2
<1> HIDE DEF n, d
<1>4. n * w \in Int /\ t <= n * w /\ (n - 1) * w = n * w - w
  <2>1. n * w \in Int /\ (n - 1) * w = n * w - w
    BY <1>1, <1>3
  <2> DEFINE x == n * w
  <2>2. a = x + d /\ x \in Int
    BY <1>3, <2>1
  <2> HIDE DEF x
  <2>3. t <= x
    BY <1>1, <1>3, <2>2
  <2> QED BY <2>1, <2>3 DEF x
<1>5. ASSUME NEW k \in 1..n PROVE (k - 1) * w < t
  <2>1. (k - 1) * w <= (n - 1) * w
    <3>1. n - k \in Nat /\ (n - k) * w \in Nat
      BY <1>1, <1>3
    <3>2. (n - 1) * w = (k - 1) * w + (n - k) * w /\ (k - 1) * w \in Int
      BY <1>1, <1>3
    <3> QED BY <3>1, <3>2
  <2> DEFINE x == n * w
             y == (k - 1) * w
  <2>2. x \in Int /\ y \in Int /\ y <= x - w /\ a = x + d
    <3>1. y \in Int
      BY <1>1, <1>3
    <3> QED BY <1>3, <1>4, <2>1, <3>1
  <2> HIDE DEF x, y
  <2>3. y < t
    BY <1>1, <1>3, <2>2
  <2> QED BY <2>3 DEF y
<1> QED BY <1>3, <1>4, <1>5 DEF n, w

(* The chunks are what is left of the entity behind its header.              *)
LEMMA ChunksCarry ==
  ASSUME NEW len \in Nat, BihLen <= len
  PROVE  /\ BihLen + Total(BidChunks(len)) = len
         /\ \A k \in DOMAIN BidChunks(len) : BidChunks(len)[k] \in 1..BidMax
<1> DEFINE t == len - BihLen
           n == (t + BidMax - 1) \div BidMax
           Done(k) == IF k * BidMax <= t THEN k * BidMax ELSE t
           Chunk(k) == IF t - (k - 1) * BidMax <= BidMax THEN t - (k - 1) * BidMax
                       ELSE BidMax
           g == [k \in 0..n |-> Done(k)]
<1>1. t \in Nat /\ BidMax \in Nat \ {0} /\ BihLen \in Nat
  BY RenderAssumption
<1> HIDE DEF t
<1>2. n \in Nat /\ t <= n * BidMax /\ \A k \in 1..n : (k - 1) * BidMax < t
  BY <1>1, ChunkCount
<1>3. /\ DOMAIN BidChunks(len) = 1..n
      /\ \A k \in 1..n : BidChunks(len)[k] = Min({t - (k - 1) * BidMax, BidMax})
  BY DEF BidChunks, t
<1> HIDE DEF n
<1>4. ASSUME NEW k \in 1..n PROVE BidChunks(len)[k] = Chunk(k)
  <2> DEFINE x == t - (k - 1) * BidMax
  <2> DEFINE z == (k - 1) * BidMax
  <2>1. z \in Int /\ z < t
    BY <1>1, <1>2
  <2>2. x \in Nat /\ BidMax \in Nat
    <3>1. x = t - z
      OBVIOUS
    <3> HIDE DEF x, z
    <3> QED BY <1>1, <2>1, <3>1
  <2> HIDE DEF x
  <2>3. Min({x, BidMax}) = IF x <= BidMax THEN x ELSE BidMax
    BY <2>2, LesserOfTwo
  <2> QED BY <1>3, <2>3 DEF x
<1>5. ASSUME NEW k \in 1..n
      PROVE  Chunk(k) \in 1..BidMax /\ Done(k) = Done(k - 1) + Chunk(k)
  <2> DEFINE x == (k - 1) * BidMax
  <2>1. x \in Int /\ x < t /\ k * BidMax = x + BidMax
    <3>1. k \in Int /\ BidMax \in Int /\ x < t
      BY <1>1, <1>2
    <3>2. (k - 1) * BidMax \in Int /\ k * BidMax = (k - 1) * BidMax + BidMax
      BY ONLY <3>1
    <3>3. x = (k - 1) * BidMax
      OBVIOUS
    <3>4. x \in Int
      BY ONLY <3>2, <3>3
    <3>5. k * BidMax = x + BidMax
      BY ONLY <3>2, <3>3
    <3> HIDE DEF x
    <3> QED BY <3>1, <3>4, <3>5
  <2>2. Chunk(k) = IF t - x <= BidMax THEN t - x ELSE BidMax
    OBVIOUS
  <2>3. Done(k) = IF x + BidMax <= t THEN x + BidMax ELSE t
    BY <2>1
  <2>4. Done(k - 1) = x
    <3>1. Done(k - 1) = IF x <= t THEN x ELSE t
      OBVIOUS
    <3> HIDE DEF x, Done
    <3> QED BY <1>1, <2>1, <3>1
  <2> HIDE DEF Done, Chunk, x
  <2> QED BY <1>1, <2>1, <2>2, <2>3, <2>4
<1>6. g[0] = 0 /\ g[n] = t
  <2>1. 0 * BidMax = 0 /\ n * BidMax \in Int
    BY <1>1, <1>2
  <2>2. Done(0) = 0
    BY <1>1, <2>1
  <2>3. Done(n) = t
    BY <1>1, <1>2, <2>1
  <2> HIDE DEF Done
  <2> QED BY <1>2, <2>2, <2>3
<1>7. ASSUME NEW k \in 1..n PROVE g[k] = g[k - 1] + BidChunks(len)[k]
  <2>1. k \in 0..n /\ k - 1 \in 0..n
    BY <1>2
  <2>2. g[k] = Done(k) /\ g[k - 1] = Done(k - 1)
    BY <2>1
  <2> HIDE DEF g, Done, Chunk
  <2> QED BY <1>4, <1>5, <2>2
<1> HIDE DEF g, Done
<1>8. RunningSum(0, BidChunks(len), n, g)
  BY <1>6, <1>7 DEF RunningSum
<1>9. Total(BidChunks(len)) = t
  BY <1>2, <1>3, <1>6, <1>8, SeqSumIs, TotalIs
<1>10. \A k \in DOMAIN BidChunks(len) : BidChunks(len)[k] \in 1..BidMax
  <2> HIDE DEF Chunk
  <2> QED BY <1>3, <1>4, <1>5
<1>11. BihLen + t = len
  BY <1>1 DEF t
<1> QED BY <1>9, <1>10, <1>11

(* The entity that jbig_collect holds is what was made of the page, unless   *)
(* memory ran out; a page that is sent carries all of it.                    *)
BieHeld(s) ==
  /\ DOMAIN s.bie = {"len", "cap", "failed"} /\ s.bie.failed \in BOOLEAN
  /\ s.bie.len \in Nat /\ s.made \in Seq(Int)
  /\ ~s.bie.failed => s.bie.len = Total(s.made)

EntitySent(s) ==
  s.sent # <<>> =>
    /\ s.sent.bih = BihLen
    /\ s.sent.bih + Total(s.sent.bid) = Total(s.sent.made)
    /\ \A k \in DOMAIN s.sent.bid : s.sent.bid[k] \in 1..BidMax

EntityInv == DOMAIN r = Fields /\ BieHeld(r) /\ EntitySent(r)

(* Nothing was made yet.                                                     *)
LEMMA NothingMade ==
  ASSUME NEW s, s.bie = Idle.bie, s.made = <<>>
  PROVE  BieHeld(s)
<1>1. Total(<<>>) = 0
  BY TotalIs, SeqSumEmpty
<1>2. /\ DOMAIN Idle.bie = {"len", "cap", "failed"}
      /\ Idle.bie.len = 0 /\ Idle.bie.failed \in BOOLEAN
  BY DEF Idle
<1>3. <<>> \in Seq(Int)
  OBVIOUS
<1>4. Total(s.made) = 0 /\ s.made \in Seq(Int)
  BY <1>1, <1>3
<1> QED BY <1>2, <1>4 DEF BieHeld

LEMMA EntityStart == RenderInit => EntityInv
<1> SUFFICES ASSUME RenderInit PROVE EntityInv
  OBVIOUS
<1>1. /\ DOMAIN r = Fields /\ r.bie = Idle.bie /\ r.made = <<>> /\ r.sent = <<>>
  BY DEF RenderInit, Fields, Idle
<1> QED BY <1>1, NothingMade DEF EntityInv, EntitySent

(* The steps that leave the entity alone, or drop the page that was sent.    *)
LEMMA EntityAlone ==
  ASSUME EntityInv, NEW t, DOMAIN t = Fields, t.bie = r.bie, t.made = r.made,
         t.sent = r.sent \/ t.sent = <<>>, r' = t
  PROVE  EntityInv'
BY DEF EntityInv, BieHeld, EntitySent

LEMMA EntityOther ==
  EntityInv /\ (read_header \/ page_fails \/ next_row \/ turn_page \/ drain
                \/ drain_ends \/ render_blank_page)
    => EntityInv'
<1> SUFFICES ASSUME EntityInv,
                    read_header \/ page_fails \/ next_row \/ turn_page \/ drain
                      \/ drain_ends \/ render_blank_page
             PROVE  EntityInv'
  OBVIOUS
<1> DEFINE Alone(t) == /\ DOMAIN t = Fields /\ t.bie = r.bie /\ t.made = r.made
                       /\ (t.sent = r.sent \/ t.sent = <<>>)
<1>0. DOMAIN r = Fields
  BY DEF EntityInv
<1>1. ASSUME read_header PROVE Alone(r')
  BY <1>0, <1>1 DEF read_header, Stop, Fields
<1>2. ASSUME page_fails PROVE Alone(r')
  BY <1>0, <1>2 DEF page_fails, Fields
<1>3. ASSUME next_row PROVE Alone(r')
  BY <1>0, <1>3 DEF next_row, Fields
<1>4. ASSUME turn_page PROVE Alone(r')
  BY <1>0, <1>4 DEF turn_page, Fields
<1>5. ASSUME drain PROVE Alone(r')
  BY <1>0, <1>5 DEF drain, Fields
<1>6. ASSUME render_blank_page PROVE Alone(r')
  BY <1>0, <1>6 DEF render_blank_page, Fields
<1>8. ASSUME drain_ends PROVE Alone(r')
  BY <1>0, <1>8 DEF drain_ends, Fields
<1>7. Alone(r')
  <2> HIDE DEF Alone
  <2> QED BY <1>1, <1>2, <1>3, <1>4, <1>5, <1>6, <1>8
<1> QED BY <1>7, EntityAlone

LEMMA EntityCollect == EntityInv /\ jbig_collect => EntityInv'
<1> SUFFICES ASSUME EntityInv, jbig_collect PROVE EntityInv'
  OBVIOUS
<1>0. DOMAIN r = Fields /\ BieHeld(r) /\ EntitySent(r)
  BY DEF EntityInv
<1>1. PICK n \in Pieces, granted \in BOOLEAN :
        r' = [r EXCEPT !.made = Append(@, n), !.bie = buf_append(@, n, granted)]
  BY DEF jbig_collect
<1> DEFINE made == Append(r.made, n)
           bie == buf_append(r.bie, n, granted)
<1>2. n \in Nat
  BY RenderAssumption
<1>3. made \in Seq(Int) /\ Total(made) = Total(r.made) + n
  <2>1. r.made \in Seq(Int) /\ n \in Int
    BY <1>0, <1>2 DEF BieHeld
  <2>2. SeqSum(0, made) = SeqSum(0, r.made) + n
    BY <2>1, SeqSumAppend
  <2> QED BY <2>1, <2>2, TotalIs
<1>4. /\ DOMAIN bie = {"len", "cap", "failed"} /\ bie.failed \in BOOLEAN /\ bie.len \in Nat
      /\ ~bie.failed => ~r.bie.failed /\ bie.len = r.bie.len + n
  <2> DEFINE b == r.bie
             need == b.len + n
             grow == CHOOSE grow : grow = [c \in Nat |-> IF c >= need THEN c ELSE grow[2 * c]]
             from == IF b.cap = 0 THEN FirstCap ELSE b.cap
  <2>1. DOMAIN b = {"len", "cap", "failed"} /\ b.failed \in BOOLEAN /\ b.len \in Nat
    BY <1>0 DEF BieHeld
  <2> HIDE DEF b
  <2>2. bie = IF b.failed THEN b
              ELSE IF need <= b.cap THEN [b EXCEPT !.len = @ + n]
              ELSE IF granted THEN [b EXCEPT !.len = @ + n, !.cap = grow[from]]
              ELSE [b EXCEPT !.failed = TRUE]
    BY DEF buf_append, b
  <2> HIDE DEF grow, from
  <2> HIDE DEF bie, need
  <2>3. /\ DOMAIN bie = {"len", "cap", "failed"} /\ bie.failed \in BOOLEAN /\ bie.len \in Nat
        /\ ~bie.failed => ~b.failed /\ bie.len = b.len + n
    <3>1. CASE b.failed
      BY <2>1, <2>2, <3>1
    <3>2. CASE ~b.failed /\ need <= b.cap
      BY <1>2, <2>1, <2>2, <3>2
    <3>3. CASE ~b.failed /\ ~(need <= b.cap) /\ granted
      BY <1>2, <2>1, <2>2, <3>3
    <3>4. CASE ~b.failed /\ ~(need <= b.cap) /\ ~granted
      <4>1. bie = [b EXCEPT !.failed = TRUE]
        BY <2>2, <3>4
      <4>2. bie.failed = TRUE /\ DOMAIN bie = {"len", "cap", "failed"} /\ bie.len = b.len
        BY <2>1, <4>1
      <4> QED BY <2>1, <4>2
    <3> QED BY <3>1, <3>2, <3>3, <3>4
  <2> QED BY <2>3 DEF b
<1> HIDE DEF made, bie
<1>5. DOMAIN r' = Fields /\ r'.made = made /\ r'.bie = bie /\ r'.sent = r.sent
  BY <1>0, <1>1 DEF Fields, made, bie
<1>6. BieHeld(r)'
  <2>1. ~r.bie.failed => r.bie.len = Total(r.made)
    BY <1>0 DEF BieHeld
  <2> QED BY <1>3, <1>4, <1>5, <2>1 DEF BieHeld
<1>7. EntitySent(r)'
  BY <1>0, <1>5 DEF EntitySent
<1> QED BY <1>5, <1>6, <1>7 DEF EntityInv

LEMMA EntityFinish == EntityInv /\ finish_page => EntityInv'
<1> SUFFICES ASSUME EntityInv, finish_page PROVE EntityInv'
  OBVIOUS
<1>0. DOMAIN r = Fields /\ BieHeld(r) /\ EntitySent(r)
  BY DEF EntityInv
<1> DEFINE sent == [page |-> r.page, bitmap |-> r.bitmap, made |-> r.made,
                    bih |-> Min({BihLen, r.bie.len}), bid |-> BidChunks(r.bie.len)]
           s == [r EXCEPT !.bie = Idle.bie, !.made = <<>>, !.bitmap = <<>>,
                          !.gray = <<>>, !.row = <<>>]
           kept == [s EXCEPT !.phase = "done"]
           next == [s EXCEPT !.phase = "header", !.sent = sent]
<1>1. r' = IF r.bie.failed \/ r.bie.len < BihLen THEN kept ELSE next
  BY DEF finish_page
<1> HIDE DEF sent
<1>2. /\ DOMAIN kept = Fields /\ kept.bie = Idle.bie /\ kept.made = <<>> /\ kept.sent = r.sent
      /\ DOMAIN next = Fields /\ next.bie = Idle.bie /\ next.made = <<>> /\ next.sent = sent
  BY <1>0 DEF Fields
<1> HIDE DEF kept, next
<1>3. CASE r.bie.failed \/ r.bie.len < BihLen
  <2>1. BieHeld(r')
    BY <1>1, <1>2, <1>3, NothingMade
  <2> QED BY <1>0, <1>1, <1>2, <1>3, <2>1 DEF EntityInv, BieHeld, EntitySent
<1>4. CASE ~(r.bie.failed \/ r.bie.len < BihLen)
  <2> DEFINE len == r.bie.len
  <2>1. len \in Nat /\ BihLen \in Nat /\ BihLen <= len /\ len = Total(r.made)
    BY <1>0, <1>4, RenderAssumption DEF BieHeld
  <2>2. sent.bih = Min({BihLen, len}) /\ sent.bid = BidChunks(len) /\ sent.made = r.made
    BY DEF sent
  <2> HIDE DEF len
  <2>3. Min({BihLen, len}) = BihLen
    BY <2>1, LesserOfTwo
  <2>4. /\ BihLen + Total(BidChunks(len)) = len
        /\ \A k \in DOMAIN BidChunks(len) : BidChunks(len)[k] \in 1..BidMax
    BY <2>1, ChunksCarry
  <2>5. BieHeld(r')
    BY <1>1, <1>2, <1>4, NothingMade
  <2>6. EntitySent(r')
    BY <1>1, <1>2, <1>4, <2>1, <2>2, <2>3, <2>4 DEF EntitySent
  <2> QED BY <1>1, <1>2, <1>4, <2>5, <2>6 DEF EntityInv, BieHeld, EntitySent
<1> QED BY <1>3, <1>4

(* A page of the filter that is sent carries everything jbig delivered for   *)
(* it, cut into chunks the firmware takes, whatever the pieces and wherever  *)
(* memory runs out: buf_append counts every piece until it fails for good,   *)
(* and emit_page cuts exactly what was counted behind the header.            *)
THEOREM EntityWholeHolds == RenderSpec => []EntityWhole
<1>1. EntityInv /\ [RenderNext]_r => EntityInv'
  <2>1. EntityInv /\ UNCHANGED r => EntityInv'
    BY DEF EntityInv, BieHeld, EntitySent
  <2> QED BY <2>1, EntityOther, EntityCollect, EntityFinish DEF RenderNext
<1>2. EntityInv => EntityWhole
  BY DEF EntityInv, EntitySent, EntityWhole
<1> QED BY <1>1, <1>2, EntityStart, PTL DEF RenderSpec
================================================================================
