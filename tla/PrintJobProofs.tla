---------------------------- MODULE PrintJobProofs ----------------------------
(***************************************************************************)
(* What the printer sees of one run of the filter, for jobs of any length, *)
(* any number of copies and any mixture of faults.                         *)
(***************************************************************************)
EXTENDS PrintJob, SequenceTheorems, TLAPS

N == job.pages
Sheets == (N + 1) \div 2

(* Neither a torn write nor the end of the document among the first k.       *)
Good(k) == \A l \in 1..k : out[l] \notin {TORN, END}
Whole == Good(Len(out))

-----------------------------------------------------------------------------
(* Chunks, pages and the stream of the protocol. *)

LEMMA Kinds ==
  /\ {HEAD, PAUSE, END, TORN} \subseteq Chunk
  /\ HEAD \notin {PAUSE, END, TORN} /\ PAUSE \notin {END, TORN} /\ END # TORN
  /\ HEAD.kind = "head" /\ PAUSE.kind = "pause" /\ END.kind = "end" /\ TORN.kind = "torn"
BY DEF HEAD, PAUSE, END, TORN, Mark, Chunk

LEMMA Faces ==
  ASSUME NEW n \in Nat, NEW c \in Nat
  PROVE  /\ Face(n, c) \in Chunk /\ Face(n, c) \notin {HEAD, PAUSE, END, TORN}
         /\ Face(n, c).kind = "page" /\ Face(n, c).page = n /\ Face(n, c).copies = c
BY DEF Face, HEAD, PAUSE, END, TORN, Mark, Chunk

LEMMA JobParts ==
  ASSUME job \in Jobs
  PROVE  /\ N \in Nat /\ job.copies \in Nat /\ job.duplex \in BOOLEAN
         /\ Sheets \in Nat /\ N <= 2 * Sheets /\ 2 * Sheets <= N + 1
<1>1. N \in Nat
  BY PrintAssumption DEF Jobs, N
<1>2. job.copies \in Nat /\ job.duplex \in BOOLEAN
  BY PrintAssumption DEF Jobs
<1> QED BY <1>1, <1>2 DEF Sheets

LEMMA Joined ==
  ASSUME NEW s \in Seq(Chunk), NEW t \in Seq(Chunk)
  PROVE  /\ s \o t \in Seq(Chunk) /\ Len(s \o t) = Len(s) + Len(t)
         /\ \A k \in 1..Len(s) : (s \o t)[k] = s[k]
         /\ \A k \in 1..Len(t) : (s \o t)[Len(s) + k] = t[k]
<1>1. Len(s) \in Nat /\ Len(t) \in Nat
  OBVIOUS
<1>2. ASSUME NEW k \in 1..Len(s) PROVE (s \o t)[k] = s[k]
  BY ConcatProperties, <1>1
<1>3. ASSUME NEW k \in 1..Len(t) PROVE (s \o t)[Len(s) + k] = t[k]
  BY ConcatProperties, <1>1
<1> QED BY ConcatProperties, <1>2, <1>3

(* Arithmetic of n pages on s sheets. *)
LEMMA Halves ==
  ASSUME NEW n \in Nat, NEW s \in Nat, n <= 2 * s, 2 * s <= n + 1
  PROVE  /\ n \div 2 \in Nat /\ n \div 2 <= s
         /\ n \div 2 < s => s >= 1 /\ 2 * s = n + 1 /\ n \div 2 = s - 1
         /\ \A x \in 1..s : /\ 2 * x - 1 \in Nat /\ 2 * (s + 1 - x) \in Nat
                            /\ s + 1 - x \in 1..s
OBVIOUS

LEMMA BackIndex ==
  ASSUME NEW s \in Nat, NEW k \in 1..s
  PROVE  /\ s + 1 - k \in 1..s /\ s + 2 + (s + 1 - k) = 2 * s + 3 - k
         /\ s + 1 - (s + 1 - k) = k /\ 2 * s + 2 - k + 1 = 2 * s + 3 - k
         /\ 2 * s + 3 - k <= 2 * s + 3 /\ 2 * s + 3 - k = 2 * s + 2 - (k - 1)
OBVIOUS

LEMMA StreamShape ==
  ASSUME job \in Jobs
  PROVE  /\ job.duplex =>
              /\ Len(Stream) = 2 * Sheets + 3
              /\ Stream[1] = HEAD /\ Stream[Sheets + 2] = PAUSE
              /\ Stream[2 * Sheets + 3] = END
              /\ \A x \in 1..Sheets : Stream[1 + x] = Face(2 * x - 1, job.copies)
              /\ \A x \in 1..Sheets :
                   Stream[Sheets + 2 + x] = Face(2 * (Sheets + 1 - x), job.copies)
         /\ ~job.duplex =>
              /\ Len(Stream) = N + 2
              /\ Stream[1] = HEAD /\ Stream[N + 2] = END
              /\ \A x \in 1..N : Stream[1 + x] = Face(x, job.copies)
         /\ Stream \in Seq(Chunk)
<1> DEFINE Odd == [x \in 1..Sheets |-> Face(2 * x - 1, job.copies)]
           EvenBackwards == [x \in 1..Sheets |-> Face(2 * (Sheets + 1 - x), job.copies)]
           InOrder == [x \in 1..N |-> Face(x, job.copies)]
<1>1. N \in Nat /\ Sheets \in Nat /\ job.copies \in Nat
  BY JobParts
<1>2. /\ Odd \in Seq(Chunk) /\ Len(Odd) = Sheets
      /\ EvenBackwards \in Seq(Chunk) /\ Len(EvenBackwards) = Sheets
      /\ InOrder \in Seq(Chunk) /\ Len(InOrder) = N
  <2>1. /\ \A x \in 1..Sheets : Face(2 * x - 1, job.copies) \in Chunk
        /\ \A x \in 1..Sheets : Face(2 * (Sheets + 1 - x), job.copies) \in Chunk
        /\ \A x \in 1..N : Face(x, job.copies) \in Chunk
    BY <1>1, Faces
  <2>2. /\ Odd \in [1..Sheets -> Chunk] /\ EvenBackwards \in [1..Sheets -> Chunk]
        /\ InOrder \in [1..N -> Chunk]
    BY <2>1
  <2> HIDE DEF Odd, EvenBackwards, InOrder
  <2> QED BY <1>1, <2>2, SeqDef, LenProperties
<1>3. /\ \A x \in 1..Sheets : Odd[x] = Face(2 * x - 1, job.copies)
      /\ \A x \in 1..Sheets : EvenBackwards[x] = Face(2 * (Sheets + 1 - x), job.copies)
      /\ \A x \in 1..N : InOrder[x] = Face(x, job.copies)
  OBVIOUS
<1>4. Stream = IF job.duplex
               THEN <<HEAD>> \o Odd \o <<PAUSE>> \o EvenBackwards \o <<END>>
               ELSE <<HEAD>> \o InOrder \o <<END>>
  BY DEF Stream, N, Sheets
<1>5. HEAD \in Chunk /\ PAUSE \in Chunk /\ END \in Chunk
  BY Kinds
<1> HIDE DEF Odd, EvenBackwards, InOrder
<1>6. CASE job.duplex
  <2> DEFINE A == <<HEAD>> \o Odd
             B == A \o <<PAUSE>>
             C == B \o EvenBackwards
  <2>1. /\ A \in Seq(Chunk) /\ Len(A) = 1 + Sheets /\ A[1] = HEAD
        /\ \A x \in 1..Sheets : A[1 + x] = Odd[x]
    BY <1>1, <1>2, <1>5
  <2> HIDE DEF A
  <2>2. /\ B \in Seq(Chunk) /\ Len(B) = Sheets + 2 /\ B[Sheets + 2] = PAUSE
        /\ \A k \in 1..(1 + Sheets) : B[k] = A[k]
    BY <1>1, <1>5, <2>1
  <2> HIDE DEF B
  <2>3. /\ C \in Seq(Chunk) /\ Len(C) = 2 * Sheets + 2
        /\ \A k \in 1..(Sheets + 2) : C[k] = B[k]
        /\ \A x \in 1..Sheets : C[Sheets + 2 + x] = EvenBackwards[x]
    <3>1. /\ C \in Seq(Chunk) /\ Len(C) = Len(B) + Len(EvenBackwards)
          /\ \A k \in 1..Len(B) : C[k] = B[k]
          /\ \A k \in 1..Len(EvenBackwards) : C[Len(B) + k] = EvenBackwards[k]
      BY <1>2, <2>2, Joined
    <3> HIDE DEF C
    <3>2. \A x \in 1..Sheets : C[Sheets + 2 + x] = EvenBackwards[x]
      BY <1>2, <2>2, <3>1
    <3>3. Len(C) = 2 * Sheets + 2
      BY <1>1, <1>2, <2>2, <3>1
    <3> QED BY <2>2, <3>1, <3>2, <3>3
  <2> HIDE DEF C
  <2>4. /\ Stream \in Seq(Chunk) /\ Len(Stream) = 2 * Sheets + 3
        /\ \A k \in 1..(2 * Sheets + 2) : Stream[k] = C[k]
        /\ Stream[2 * Sheets + 3] = END
    <3>1. Stream = C \o <<END>>
      BY <1>4, <1>6 DEF A, B, C
    <3>2. <<END>> \in Seq(Chunk) /\ Len(<<END>>) = 1 /\ <<END>>[1] = END
      BY <1>5
    <3>3. /\ Stream \in Seq(Chunk) /\ Len(Stream) = Len(C) + 1
          /\ \A k \in 1..Len(C) : Stream[k] = C[k]
          /\ Stream[Len(C) + 1] = END
      BY <2>3, <3>1, <3>2, Joined
    <3> QED BY <1>1, <2>3, <3>3
  <2>5. ASSUME NEW x \in 1..Sheets
        PROVE  /\ Stream[1 + x] = Face(2 * x - 1, job.copies)
               /\ Stream[Sheets + 2 + x] = Face(2 * (Sheets + 1 - x), job.copies)
    <3>1. /\ 1 + x \in 1..(1 + Sheets) /\ 1 + x \in 1..(Sheets + 2)
          /\ 1 + x \in 1..(2 * Sheets + 2)
          /\ Sheets + 2 + x \in 1..(2 * Sheets + 2)
      BY <1>1
    <3>2. Stream[1 + x] = Odd[x]
      BY <2>1, <2>2, <2>3, <2>4, <3>1
    <3>3. Stream[Sheets + 2 + x] = EvenBackwards[x]
      BY <2>3, <2>4, <3>1
    <3> QED BY <1>3, <3>2, <3>3
  <2>6. Stream[1] = HEAD /\ Stream[Sheets + 2] = PAUSE
    BY <1>1, <2>1, <2>2, <2>3, <2>4
  <2> QED BY <1>6, <2>4, <2>5, <2>6
<1>7. CASE ~job.duplex
  <2> DEFINE A == <<HEAD>> \o InOrder
  <2>1. /\ A \in Seq(Chunk) /\ Len(A) = 1 + N /\ A[1] = HEAD
        /\ \A x \in 1..N : A[1 + x] = InOrder[x]
    BY <1>1, <1>2, <1>5
  <2> HIDE DEF A
  <2>2. /\ Stream \in Seq(Chunk) /\ Len(Stream) = N + 2
        /\ \A k \in 1..(1 + N) : Stream[k] = A[k]
        /\ Stream[N + 2] = END
    BY <1>1, <1>4, <1>5, <1>7, <2>1 DEF A
  <2>3. ASSUME NEW x \in 1..N PROVE Stream[1 + x] = Face(x, job.copies)
    BY <1>1, <1>3, <2>1, <2>2
  <2> QED BY <1>1, <1>7, <2>1, <2>2, <2>3
<1> QED BY <1>6, <1>7
-----------------------------------------------------------------------------
(* The inductive invariant. *)

(* Pages are read in order; while no failure and no cancel stopped it, the   *)
(* page loop ends with all of them, and odd and even ones are spooled apart. *)
PagesInOrder ==
  /\ pc = "start" => page = 0 /\ out = <<>>
  /\ pc \in {"header", "emit", "fronts", "blank"} => page <= N
  /\ pc \in {"render", "emit"} => page >= 1
  /\ pc = "end" /\ status = 0 /\ ~job_cancelled => page = N

Spooled ==
  /\ \A k \in 1..Len(fronts) : fronts[k] = 2 * k - 1
  /\ \A k \in 1..Len(backs) : backs[k] = 2 * k
  /\ job.duplex =>
       /\ pc \in {"start", "header"} \/ (pc = "end" /\ status = 0 /\ ~job_cancelled) =>
            Len(fronts) = (page + 1) \div 2 /\ Len(backs) = page \div 2
       /\ pc \in {"render", "emit"} =>
            Len(fronts) = page \div 2 /\ Len(backs) = (page - 1) \div 2

(* The replay of the spool starts with all pages and no failure.             *)
Replaying ==
  pc \in {"fronts", "blank", "backs"} =>
    /\ job.duplex
    /\ Len(fronts) = Sheets /\ Len(backs) = N \div 2
    /\ pc # "backs" => page = N
    /\ pc = "fronts" => status = 0 /\ 1 <= i /\ i <= Sheets + 1
    /\ pc = "backs" => i <= Len(backs)

(* How much of the stream has been written, by where the filter is.          *)
Written ==
  LET base == IF job.duplex THEN 0 ELSE page
  IN ~gone /\ Whole =>
       /\ pc = "header" => Len(out) = 1 + base
       /\ pc \in {"render", "emit"} => Len(out) = IF job.duplex THEN 1 ELSE page
       /\ pc = "end" /\ status = 0 /\ ~job_cancelled => Len(out) = 1 + base
       /\ pc = "fronts" => Len(out) = i
       /\ pc = "blank" => Len(out) = Sheets + 2
       /\ pc = "backs" /\ status = 0 => Len(out) = 2 * Sheets + 2 - i
       /\ pc = "trailer" /\ status = 0 /\ ~job_cancelled => Len(out) + 1 = Len(Stream)

(* Only a cancel tears a write, only the trailer closes the document, and    *)
(* the replay goes on as long as nothing failed.                             *)
TornByCancel == \A k \in 1..Len(out) : out[k] = TORN => job_cancelled
NoEnd == \A k \in 1..Len(out) : out[k] # END

Tears ==
  /\ TornByCancel
  /\ pc \notin {"flush", "done"} => NoEnd
  /\ ~gone /\ (pc = "fronts" \/ (pc \in {"blank", "backs"} /\ status = 0)) => Whole

(* The pause comes after the fronts, and the faces after it are whole.       *)
NoPause == \A p \in 1..Len(out) : out[p] # PAUSE

FacesWhole ==
  \A k \in 1..Len(out) :
    out[k].kind = "page" /\ (\E p \in 1..k : out[p] = PAUSE) => Good(k)

Turned ==
  /\ FacesWhole
  /\ pc \in {"start", "header", "render", "emit", "end", "fronts"} => NoPause
  /\ pc = "blank" /\ status # 0 /\ ~gone => NoPause

(* A job that reached its trailer closed it, and one without a failure wrote *)
(* all of the stream.                                                        *)
Ended ==
  /\ pc \in {"flush", "done"} /\ ~gone /\ out # <<>> => out[Len(out)] \in {END, TORN}
  /\ pc = "flush" /\ status = 0 /\ ~job_cancelled /\ ~gone => out = Stream
  /\ pc = "done" /\ status = 0 /\ ~job_cancelled => out = Stream

FilterInv ==
  /\ JobTypeOK /\ PagesInOrder /\ Spooled /\ Replaying /\ Written /\ Tears /\ Turned
  /\ PrintedIsPrefix /\ Ended
-----------------------------------------------------------------------------
(* What a step does to the output. *)

LEMMA TypeParts ==
  ASSUME FilterInv
  PROVE  /\ job \in Jobs /\ pc \in PCs /\ page \in Nat /\ i \in Nat /\ acct \in Nat
         /\ job_cancelled \in BOOLEAN /\ gone \in BOOLEAN /\ status \in {0, 1}
         /\ out \in Seq(Chunk) /\ Len(out) \in Nat
         /\ fronts \in Seq(Nat) /\ Len(fronts) \in Nat
         /\ backs \in Seq(Nat) /\ Len(backs) \in Nat
         /\ N \in Nat /\ job.copies \in Nat /\ job.duplex \in BOOLEAN
         /\ Sheets \in Nat /\ N <= 2 * Sheets /\ 2 * Sheets <= N + 1
         /\ job.pages = N
         /\ Stream \in Seq(Chunk) /\ Len(Stream) \in Nat
<1>1. JobTypeOK
  BY DEF FilterInv
<1>2. Stream \in Seq(Chunk)
  BY <1>1, StreamShape DEF JobTypeOK
<1>3. Len(out) \in Nat /\ Len(fronts) \in Nat /\ Len(backs) \in Nat /\ Len(Stream) \in Nat
  BY <1>1, <1>2 DEF JobTypeOK
<1>4. job.pages = N
  BY DEF N
<1> QED BY <1>1, <1>2, <1>3, <1>4, JobParts DEF JobTypeOK

(* The same, a few facts at a time. *)
LEMMA Sizes ==
  ASSUME FilterInv
  PROVE  /\ N \in Nat /\ Sheets \in Nat /\ Len(out) \in Nat /\ Len(Stream) \in Nat
         /\ job.copies \in Nat /\ page \in Nat /\ i \in Nat
BY TypeParts

LEMMA TwoSided ==
  ASSUME FilterInv, job.duplex
  PROVE  /\ Len(Stream) = 2 * Sheets + 3
         /\ Stream[1] = HEAD /\ Stream[Sheets + 2] = PAUSE
         /\ Stream[2 * Sheets + 3] = END
<1>1. job \in Jobs
  BY TypeParts
<1> QED BY <1>1, StreamShape

LEMMA OneSided ==
  ASSUME FilterInv, ~job.duplex
  PROVE  Len(Stream) = N + 2 /\ Stream[1] = HEAD /\ Stream[N + 2] = END
<1>1. job \in Jobs
  BY TypeParts
<1> QED BY <1>1, StreamShape

LEMMA FrontAt ==
  ASSUME FilterInv, job.duplex, NEW x \in 1..Sheets
  PROVE  Stream[1 + x] = Face(2 * x - 1, job.copies)
<1>1. job \in Jobs
  BY TypeParts
<1> QED BY <1>1, StreamShape

LEMMA BackAt ==
  ASSUME FilterInv, job.duplex, NEW x \in 1..Sheets
  PROVE  Stream[Sheets + 2 + x] = Face(2 * (Sheets + 1 - x), job.copies)
<1>1. job \in Jobs
  BY TypeParts
<1> QED BY <1>1, StreamShape

LEMMA PageAt ==
  ASSUME FilterInv, ~job.duplex, NEW x \in 1..N
  PROVE  Stream[1 + x] = Face(x, job.copies)
<1>1. job \in Jobs
  BY TypeParts
<1> QED BY <1>1, StreamShape

LEMMA SameJob ==
  ASSUME job' = job
  PROVE  N' = N /\ Sheets' = Sheets /\ Stream' = Stream
BY DEF N, Sheets, Stream

(* Facts of the output alone that every step keeps. *)
Sound == PrintedIsPrefix /\ TornByCancel /\ FacesWhole

LEMMA SoundNow == ASSUME FilterInv PROVE Sound
BY DEF FilterInv, Sound, Tears, Turned

(* Nothing is written. *)
LEMMA Silent ==
  ASSUME FilterInv, UNCHANGED <<job, out>>, job_cancelled => job_cancelled'
  PROVE  /\ Sound' /\ (Whole' <=> Whole) /\ (NoEnd' <=> NoEnd) /\ (NoPause' <=> NoPause)
         /\ N' = N /\ Sheets' = Sheets /\ Stream' = Stream
<1>1. N' = N /\ Sheets' = Sheets /\ Stream' = Stream
  BY SameJob
<1>2. \A k : Good(k)' <=> Good(k)
  BY DEF Good
<1>3. Sound
  BY SoundNow
<1>4. PrintedIsPrefix'
  BY <1>1, <1>3 DEF Sound, PrintedIsPrefix
<1>5. TornByCancel'
  BY <1>3 DEF Sound, TornByCancel
<1>6. FacesWhole'
  BY <1>2, <1>3 DEF Sound, FacesWhole
<1> QED BY <1>1, <1>2, <1>4, <1>5, <1>6 DEF Sound, Whole, NoEnd, NoPause

(* One chunk is appended to what was written. *)
LEMMA Grows ==
  ASSUME FilterInv, NEW c \in Chunk, out' = Append(out, c), UNCHANGED job,
         job_cancelled => job_cancelled', c = TORN => job_cancelled',
         Whole /\ c \notin {TORN, END} =>
           Len(out) + 1 <= Len(Stream) /\ c = Stream[Len(out) + 1],
         c.kind = "page" => Whole \/ NoPause
  PROVE  /\ Sound'
         /\ out' \in Seq(Chunk) /\ Len(out') = Len(out) + 1
         /\ out'[Len(out) + 1] = c /\ out' # <<>>
         /\ \A k \in 1..Len(out) : out'[k] = out[k]
         /\ Whole' <=> Whole /\ c \notin {TORN, END}
         /\ NoEnd' <=> NoEnd /\ c # END
         /\ NoPause' <=> NoPause /\ c # PAUSE
         /\ N' = N /\ Sheets' = Sheets /\ Stream' = Stream
<1>0. out \in Seq(Chunk) /\ Len(out) \in Nat /\ Len(Stream) \in Nat
  BY TypeParts
<1>1. /\ out' \in Seq(Chunk) /\ Len(out') = Len(out) + 1
      /\ out'[Len(out) + 1] = c /\ out' # <<>>
      /\ \A k \in 1..Len(out) : out'[k] = out[k]
  BY <1>0, AppendProperties
<1>2. N' = N /\ Sheets' = Sheets /\ Stream' = Stream
  BY SameJob
<1>3. \A k \in 1..Len(out) : Good(k)' <=> Good(k)
  BY <1>0, <1>1 DEF Good
<1> PICK top \in Nat : top = Len(out) + 1
  BY <1>0
<1>6. \A k \in 1..Len(out') : k \in 1..Len(out) \/ k = top
  BY <1>0, <1>1
<1>7. Len(out') = top /\ top \in 1..top /\ 1..Len(out) \subseteq 1..top
  BY <1>0, <1>1
<1>4. Good(top)' <=> Whole /\ c \notin {TORN, END}
  BY <1>1, <1>6, <1>7 DEF Good, Whole
<1>5. Whole' <=> Whole /\ c \notin {TORN, END}
  BY <1>4, <1>7 DEF Whole
<1>8. PrintedIsPrefix /\ TornByCancel /\ FacesWhole
  BY SoundNow DEF Sound
<1>9. PrintedIsPrefix'
  <2> SUFFICES ASSUME NEW k \in 1..Len(out'), Good(k)'
               PROVE  k <= Len(Stream) /\ out'[k] = Stream[k]
    BY <1>2 DEF PrintedIsPrefix, Good
  <2>1. CASE k \in 1..Len(out)
    BY <1>1, <1>3, <1>8, <2>1 DEF PrintedIsPrefix, Good
  <2>2. CASE k = top
    BY <1>1, <1>4, <1>7, <2>2
  <2> QED BY <1>6, <2>1, <2>2
<1>10. TornByCancel'
  BY <1>1, <1>6, <1>8 DEF TornByCancel
<1>11. NoPause' <=> NoPause /\ c # PAUSE
  BY <1>1, <1>6, <1>7 DEF NoPause
<1>12. NoEnd' <=> NoEnd /\ c # END
  BY <1>1, <1>6, <1>7 DEF NoEnd
<1>13. FacesWhole'
  <2> SUFFICES ASSUME NEW k \in 1..Len(out'), out'[k].kind = "page",
                      NEW p \in 1..k, out'[p] = PAUSE
               PROVE  Good(k)'
    BY DEF FacesWhole
  <2>1. CASE k \in 1..Len(out)
    <3>1. p \in 1..Len(out)
      BY <1>0, <2>1
    <3> QED BY <1>1, <1>3, <1>8, <2>1, <3>1 DEF FacesWhole
  <2>2. CASE k = top
    <3>1. c.kind = "page" /\ c \notin {PAUSE, TORN, END}
      BY <1>1, <2>2, Kinds
    <3>2. p \in 1..Len(out) /\ ~NoPause
      <4>1. p \in 1..Len(out')
        BY <1>0, <1>1, <2>2
      <4> QED BY <1>1, <1>6, <3>1, <4>1 DEF NoPause
    <3> QED BY <1>4, <2>2, <3>1, <3>2
  <2> QED BY <1>6, <2>1, <2>2
<1> QED BY <1>1, <1>2, <1>5, <1>9, <1>10, <1>11, <1>12, <1>13 DEF Sound

(* A chunk for the printer, which a backend that is gone no longer gets. *)
LEMMA Put ==
  ASSUME FilterInv, NEW c \in Chunk, Puts(c), c # TORN, UNCHANGED <<job, gone>>,
         Whole /\ ~gone /\ c # END =>
           Len(out) + 1 <= Len(Stream) /\ c = Stream[Len(out) + 1],
         ~gone /\ c.kind = "page" => Whole \/ NoPause
  PROVE  /\ Sound' /\ out' \in Seq(Chunk) /\ job_cancelled' = job_cancelled
         /\ ~gone => /\ Len(out') = Len(out) + 1 /\ out' # <<>>
                     /\ out'[Len(out')] = c
                     /\ \A k \in 1..Len(out) : out'[k] = out[k]
                     /\ Whole' <=> Whole /\ c # END
         /\ NoEnd /\ c # END => NoEnd'
         /\ NoPause /\ c # PAUSE => NoPause'
         /\ N' = N /\ Sheets' = Sheets /\ Stream' = Stream
<1>1. CASE gone
  BY <1>1, Silent, TypeParts DEF Puts
<1>2. CASE ~gone
  BY <1>2, Grows DEF Puts
<1> QED BY <1>1, <1>2, TypeParts

(* A write that fails because nobody reads or a cancel tore it. *)
LEMMA PutFailed ==
  ASSUME FilterInv, PutFails, UNCHANGED <<job, gone>>
  PROVE  /\ Sound' /\ out' \in Seq(Chunk) /\ job_cancelled' \in BOOLEAN
         /\ job_cancelled => job_cancelled'
         /\ ~gone => /\ job_cancelled' /\ ~Whole' /\ out' # <<>>
                     /\ out'[Len(out')] = TORN
         /\ NoEnd => NoEnd'
         /\ NoPause => NoPause'
         /\ N' = N /\ Sheets' = Sheets /\ Stream' = Stream
<1>1. CASE gone /\ UNCHANGED <<out, job_cancelled>>
  BY <1>1, Silent, TypeParts
<1>2. CASE ~gone /\ out' = Append(out, TORN) /\ job_cancelled' = TRUE
  <2>1. TORN \in Chunk /\ TORN.kind # "page" /\ TORN \notin {END, PAUSE}
    BY Kinds
  <2> QED BY <1>2, <2>1, Grows
<1> QED BY <1>1, <1>2 DEF PutFails
-----------------------------------------------------------------------------
(* One lemma per action. *)

LEMMA Parts ==
  ASSUME FilterInv
  PROVE  /\ JobTypeOK /\ PagesInOrder /\ Spooled /\ Replaying /\ Written
         /\ Tears /\ Turned /\ PrintedIsPrefix /\ Ended
BY DEF FilterInv

LEMMA BeginsDocument ==
  ASSUME FilterInv, begin_document
  PROVE  FilterInv'
<1>0. /\ JobTypeOK /\ PagesInOrder /\ Spooled /\ Replaying /\ Written
      /\ Tears /\ Turned /\ PrintedIsPrefix /\ Ended
  BY Parts
<1>1. /\ pc = "start" /\ page = 0 /\ out = <<>> /\ Len(out) = 0
      /\ UNCHANGED <<job, page, i, gone, acct, fronts, backs>>
  BY <1>0 DEF begin_document, PagesInOrder
<1>2. CASE Puts(HEAD) /\ pc' = "header" /\ UNCHANGED status
  <2>1. Len(Stream) >= 2 /\ Stream[1] = HEAD
    BY Sizes, TwoSided, OneSided
  <2>2. /\ Sound' /\ out' \in Seq(Chunk) /\ job_cancelled' = job_cancelled
        /\ ~gone => /\ Len(out') = Len(out) + 1 /\ (Whole' <=> Whole)
        /\ NoEnd' /\ NoPause'
        /\ N' = N /\ Sheets' = Sheets
    <3>1. HEAD \in Chunk /\ HEAD \notin {TORN, END, PAUSE} /\ HEAD.kind # "page"
      BY Kinds
    <3>2. NoEnd /\ NoPause
      BY <1>0, <1>1 DEF Tears, Turned
    <3>3. Len(out) + 1 <= Len(Stream) /\ HEAD = Stream[Len(out) + 1]
      BY <1>1, <2>1, TypeParts
    <3> QED BY <1>1, <1>2, <3>1, <3>2, <3>3, Put
  <2>3. JobTypeOK'
    BY <1>0, <1>1, <1>2, <2>2 DEF JobTypeOK, PCs
  <2>4. PagesInOrder'
    BY <1>1, <1>2, <2>2, TypeParts DEF PagesInOrder
  <2>5. Spooled' /\ Replaying'
    BY <1>0, <1>1, <1>2 DEF Spooled, Replaying
  <2>6. Written'
    BY <1>1, <1>2, <2>1, <2>2 DEF Written
  <2>7. Tears' /\ Turned' /\ PrintedIsPrefix' /\ Ended'
    BY <1>2, <2>2 DEF Sound, Tears, Turned, Ended
  <2> QED BY <2>3, <2>4, <2>5, <2>6, <2>7 DEF FilterInv
<1>3. CASE status' = 1 /\ pc' = "done" /\ UNCHANGED <<out, job_cancelled>>
  <2>1. Sound' /\ NoEnd' /\ NoPause' /\ N' = N /\ Sheets' = Sheets
    BY <1>0, <1>1, <1>3, Silent DEF Tears, Turned
  <2>3. JobTypeOK'
    BY <1>0, <1>1, <1>3 DEF JobTypeOK, PCs
  <2>4. PagesInOrder' /\ Spooled' /\ Replaying' /\ Written'
    BY <1>0, <1>1, <1>3 DEF PagesInOrder, Spooled, Replaying, Written
  <2>7. Tears' /\ Turned' /\ PrintedIsPrefix' /\ Ended'
    BY <1>1, <1>3, <2>1 DEF Sound, Tears, Turned, Ended
  <2> QED BY <2>3, <2>4, <2>7 DEF FilterInv
<1> QED BY <1>2, <1>3 DEF begin_document, Goto, Error

(* The actions of the page loop that write nothing to the printer. *)

LEMMA ReadsHeader ==
  ASSUME FilterInv, read_header
  PROVE  FilterInv'
<1>0. /\ JobTypeOK /\ PagesInOrder /\ Spooled /\ Replaying /\ Written
      /\ Tears /\ Turned /\ PrintedIsPrefix /\ Ended
  BY Parts
<1>1. /\ pc = "header" /\ ~job_cancelled
      /\ UNCHANGED <<job, i, job_cancelled, gone, out, fronts, backs>>
      /\ \/ status' = 1 /\ pc' = "end" /\ UNCHANGED <<page, acct>>
         \/ /\ page' = page + 1 /\ acct' = acct + job.copies
            /\ pc' = "render" /\ status' = status
  BY DEF read_header, Error, Goto
<1>2. /\ Sound' /\ (Whole' <=> Whole) /\ (NoEnd' <=> NoEnd) /\ (NoPause' <=> NoPause)
      /\ N' = N /\ Sheets' = Sheets
  BY <1>1, Silent
<1>3. JobTypeOK'
  <2>1. page' \in Nat /\ acct' \in Nat /\ status' \in {0, 1} /\ pc' \in PCs
    <3>1. acct + job.copies \in Nat /\ page + 1 \in Nat
      BY TypeParts
    <3> QED BY <1>1, <3>1, TypeParts DEF PCs
  <2> QED BY <1>0, <1>1, <2>1 DEF JobTypeOK
<1>4. PagesInOrder' /\ Replaying'
  BY <1>1, <1>2, TypeParts DEF PagesInOrder, Replaying
<1>5. Spooled'
  <2>1. CASE status' = 1 /\ pc' = "end" /\ UNCHANGED <<page, acct>>
    BY <1>0, <1>1, <2>1 DEF Spooled
  <2>2. CASE page' = page + 1 /\ pc' = "render"
    <3>1. page' \div 2 = (page + 1) \div 2 /\ page' - 1 = page
      BY <2>2, TypeParts
    <3> QED BY <1>0, <1>1, <2>2, <3>1 DEF Spooled
  <2> QED BY <1>1, <2>1, <2>2
<1>6. Written'
  BY <1>0, <1>1, <1>2, TypeParts DEF Written
<1>7. Tears' /\ Turned' /\ PrintedIsPrefix' /\ Ended'
  BY <1>0, <1>1, <1>2 DEF Sound, Tears, Turned, Ended
<1> QED BY <1>3, <1>4, <1>5, <1>6, <1>7 DEF FilterInv

(* The loop ends uncancelled only behind the last whole page, when nothing   *)
(* known to be broken follows.                                               *)
LEMMA LoopStops ==
  ASSUME FilterInv, loop_ends
  PROVE  job_cancelled \/ (page = N /\ ~KnownBroken)
<1> SUFFICES ASSUME ~job_cancelled PROVE page = N /\ ~KnownBroken
  OBVIOUS
<1>1. pc = "header" /\ ~HeaderComes
  BY DEF loop_ends
<1>2. page <= N /\ page \in Nat /\ N \in Nat /\ job.pages = N
  BY <1>1, TypeParts, Parts DEF PagesInOrder
<1>3. ~(page < N)
  BY <1>1, <1>2 DEF HeaderComes
<1>4. page = N
  BY <1>2, <1>3
<1> QED BY <1>1, <1>2, <1>4 DEF HeaderComes, KnownBroken

LEMMA LoopEnds ==
  ASSUME FilterInv, loop_ends
  PROVE  FilterInv'
<1>0. /\ JobTypeOK /\ PagesInOrder /\ Spooled /\ Replaying /\ Written
      /\ Tears /\ Turned /\ PrintedIsPrefix /\ Ended
  BY Parts
<1>1. /\ pc = "header" /\ (job_cancelled \/ page = N)
      /\ pc' = "end"
      /\ UNCHANGED <<job, page, i, job_cancelled, gone, status, out, acct, fronts, backs>>
  BY LoopStops DEF loop_ends, Goto
<1>2. /\ Sound' /\ (Whole' <=> Whole) /\ (NoEnd' <=> NoEnd) /\ (NoPause' <=> NoPause)
      /\ N' = N /\ Sheets' = Sheets
  BY <1>1, Silent
<1>3. JobTypeOK'
  BY <1>0, <1>1, TypeParts DEF JobTypeOK, PCs
<1>4. PagesInOrder' /\ Replaying'
  BY <1>0, <1>1, <1>2, TypeParts DEF PagesInOrder, Replaying
<1>5. Spooled'
  BY <1>0, <1>1, TypeParts DEF Spooled
<1>6. Written'
  BY <1>0, <1>1, <1>2, TypeParts DEF Written
<1>7. Tears' /\ Turned' /\ PrintedIsPrefix' /\ Ended'
  BY <1>0, <1>1, <1>2 DEF Sound, Tears, Turned, Ended
<1> QED BY <1>3, <1>4, <1>5, <1>6, <1>7 DEF FilterInv

LEMMA RendersPage ==
  ASSUME FilterInv, render_page
  PROVE  FilterInv'
<1>0. /\ JobTypeOK /\ PagesInOrder /\ Spooled /\ Replaying /\ Written
      /\ Tears /\ Turned /\ PrintedIsPrefix /\ Ended
  BY Parts
<1>1. /\ pc = "render"
      /\ \/ pc' = "emit" /\ status' = status /\ page <= N
         \/ pc' = "end" /\ status' = IF job_cancelled THEN status ELSE 1
      /\ UNCHANGED <<job, page, i, job_cancelled, gone, out, acct, fronts, backs>>
  BY DEF render_page, Goto, PageError, Filled, N
<1>2. /\ Sound' /\ (Whole' <=> Whole) /\ (NoEnd' <=> NoEnd) /\ (NoPause' <=> NoPause)
      /\ N' = N /\ Sheets' = Sheets
  BY <1>1, Silent
<1>3. JobTypeOK'
  BY <1>0, <1>1, TypeParts DEF JobTypeOK, PCs
<1>4. PagesInOrder' /\ Replaying'
  BY <1>0, <1>1, <1>2, TypeParts DEF PagesInOrder, Replaying
<1>5. Spooled'
  BY <1>0, <1>1, TypeParts DEF Spooled
<1>6. Written'
  BY <1>0, <1>1, <1>2, TypeParts DEF Written
<1>7. Tears' /\ Turned' /\ PrintedIsPrefix' /\ Ended'
  BY <1>0, <1>1, <1>2 DEF Sound, Tears, Turned, Ended
<1> QED BY <1>3, <1>4, <1>5, <1>6, <1>7 DEF FilterInv

LEMMA SpoolsPage ==
  ASSUME FilterInv, spool_page
  PROVE  FilterInv'
<1>0. /\ JobTypeOK /\ PagesInOrder /\ Spooled /\ Replaying /\ Written
      /\ Tears /\ Turned /\ PrintedIsPrefix /\ Ended
  BY Parts
<1>1. /\ pc = "emit" /\ job.duplex
      /\ UNCHANGED <<job, page, i, job_cancelled, gone, out, acct>>
      /\ pc' \in {"header", "end"} /\ status' \in {status, 1}
      /\ pc' = "end" => job_cancelled \/ status' = 1
  BY DEF spool_page, Goto, PageError, Error
<1>2. /\ Sound' /\ (Whole' <=> Whole) /\ (NoEnd' <=> NoEnd) /\ (NoPause' <=> NoPause)
      /\ N' = N /\ Sheets' = Sheets
  BY <1>1, Silent
<1>3. /\ fronts' \in Seq(Nat) /\ backs' \in Seq(Nat) /\ Spooled'
  <2>1. CASE pc' = "end" /\ UNCHANGED <<fronts, backs>>
    BY <1>0, <1>1, <2>1, TypeParts DEF Spooled
  <2>2. CASE pc' = "header" /\ page % 2 = 1 /\ fronts' = Append(fronts, page)
             /\ backs' = backs
    <3>1. /\ Len(fronts) = page \div 2 /\ Len(backs) = (page - 1) \div 2 /\ page \in Nat
          /\ page >= 1 /\ \A k \in 1..Len(fronts) : fronts[k] = 2 * k - 1
      BY <1>0, <1>1, TypeParts DEF Spooled, PagesInOrder
    <3>2. /\ fronts' \in Seq(Nat) /\ Len(fronts') = Len(fronts) + 1
          /\ fronts'[Len(fronts) + 1] = page
          /\ \A k \in 1..Len(fronts) : fronts'[k] = fronts[k]
      BY <2>2, TypeParts, AppendProperties
    <3>3. /\ Len(fronts') = (page + 1) \div 2 /\ Len(backs) = page \div 2
          /\ page = 2 * (Len(fronts) + 1) - 1
      BY <2>2, <3>1, <3>2
    <3>4. \A k \in 1..Len(fronts') : fronts'[k] = 2 * k - 1
      <4>1. \A k \in 1..Len(fronts') : k \in 1..Len(fronts) \/ k = Len(fronts) + 1
        BY <3>2, TypeParts
      <4> QED BY <3>1, <3>2, <3>3, <4>1
    <3> QED BY <1>0, <1>1, <2>2, <3>2, <3>3, <3>4, TypeParts DEF Spooled
  <2>3. CASE pc' = "header" /\ page % 2 # 1 /\ backs' = Append(backs, page)
             /\ fronts' = fronts
    <3>1. /\ Len(fronts) = page \div 2 /\ Len(backs) = (page - 1) \div 2 /\ page \in Nat
          /\ page >= 1 /\ \A k \in 1..Len(backs) : backs[k] = 2 * k
      BY <1>0, <1>1, TypeParts DEF Spooled, PagesInOrder
    <3>2. /\ backs' \in Seq(Nat) /\ Len(backs') = Len(backs) + 1
          /\ backs'[Len(backs) + 1] = page
          /\ \A k \in 1..Len(backs) : backs'[k] = backs[k]
      BY <2>3, TypeParts, AppendProperties
    <3>3. /\ Len(backs') = page \div 2 /\ Len(fronts) = (page + 1) \div 2
          /\ page = 2 * (Len(backs) + 1)
      BY <2>3, <3>1, <3>2
    <3>4. \A k \in 1..Len(backs') : backs'[k] = 2 * k
      <4>1. \A k \in 1..Len(backs') : k \in 1..Len(backs) \/ k = Len(backs) + 1
        BY <3>2, TypeParts
      <4> QED BY <3>1, <3>2, <3>3, <4>1
    <3> QED BY <1>0, <1>1, <2>3, <3>2, <3>3, <3>4, TypeParts DEF Spooled
  <2> QED BY <2>1, <2>2, <2>3 DEF spool_page, Goto
<1>4. JobTypeOK'
  BY <1>0, <1>1, <1>3, TypeParts DEF JobTypeOK, PCs
<1>5. PagesInOrder' /\ Replaying'
  BY <1>0, <1>1, <1>2, TypeParts DEF PagesInOrder, Replaying
<1>6. Written'
  BY <1>0, <1>1, <1>2, TypeParts DEF Written
<1>7. Tears' /\ Turned' /\ PrintedIsPrefix' /\ Ended'
  BY <1>0, <1>1, <1>2 DEF Sound, Tears, Turned, Ended
<1> QED BY <1>3, <1>4, <1>5, <1>6, <1>7 DEF FilterInv

LEMMA PagesEnd ==
  ASSUME FilterInv, pages_end
  PROVE  FilterInv'
<1>0. /\ JobTypeOK /\ PagesInOrder /\ Spooled /\ Replaying /\ Written
      /\ Tears /\ Turned /\ PrintedIsPrefix /\ Ended
  BY Parts
<1>1. /\ pc = "end"
      /\ status' = IF status = 0 /\ ~job_cancelled /\ page = 0 THEN 1 ELSE status
      /\ UNCHANGED <<job, page, job_cancelled, gone, out, acct, fronts, backs>>
      /\ IF job.duplex /\ status = 0 /\ ~job_cancelled /\ page > 0
         THEN pc' = "fronts" /\ i' = 1
         ELSE pc' = "trailer" /\ i' = i
  BY DEF pages_end, Goto, Replays
<1>2. /\ Sound' /\ (Whole' <=> Whole) /\ (NoEnd' <=> NoEnd) /\ (NoPause' <=> NoPause)
      /\ N' = N /\ Sheets' = Sheets /\ Stream' = Stream
  BY <1>1, Silent
<1>3. JobTypeOK'
  BY <1>0, <1>1, TypeParts DEF JobTypeOK, PCs
<1>4. CASE job.duplex /\ status = 0 /\ ~job_cancelled /\ page > 0
  <2>1. page = N /\ Len(fronts) = Sheets /\ Len(backs) = N \div 2
    BY <1>0, <1>1, <1>4 DEF PagesInOrder, Spooled, Sheets
  (* Nothing tears a write unless the job is cancelled. *)
  <2>2. Whole
    BY <1>0, <1>1, <1>4 DEF Tears, TornByCancel, NoEnd, Whole, Good
  <2>3. PagesInOrder' /\ Replaying'
    BY <1>0, <1>1, <1>2, <1>4, <2>1, TypeParts DEF PagesInOrder, Replaying
  <2>4. Spooled'
    BY <1>0, <1>1, <1>4 DEF Spooled
  <2>5. Written'
    BY <1>0, <1>1, <1>2, <1>4, TypeParts DEF Written
  <2>6. Tears' /\ Turned' /\ PrintedIsPrefix' /\ Ended'
    BY <1>0, <1>1, <1>2, <1>4, <2>2 DEF Sound, Tears, Turned, Ended
  <2> QED BY <1>3, <2>3, <2>4, <2>5, <2>6 DEF FilterInv
<1>5. CASE ~(job.duplex /\ status = 0 /\ ~job_cancelled /\ page > 0)
  <2>1. pc' = "trailer" /\ i' = i
    BY <1>1, <1>5
  <2>2. PagesInOrder' /\ Replaying' /\ Spooled'
    BY <1>0, <2>1, <1>1, <1>2, TypeParts DEF PagesInOrder, Replaying, Spooled
  <2>3. Written'
    <3> SUFFICES ASSUME ~gone, Whole, status' = 0, ~job_cancelled
                 PROVE  Len(out) + 1 = Len(Stream)
      BY <1>1, <1>2, <2>1 DEF Written
    <3>1. status = 0 /\ page > 0 /\ ~job.duplex
      BY <1>1, <1>5, TypeParts
    <3>2. page = N /\ Len(out) = 1 + page
      BY <1>0, <1>1, <3>1 DEF PagesInOrder, Written
    <3> QED BY <3>1, <3>2, Sizes, OneSided
  <2>4. Tears' /\ Turned' /\ PrintedIsPrefix' /\ Ended'
    BY <1>0, <1>1, <1>2, <2>1 DEF Sound, Tears, Turned, Ended
  <2> QED BY <1>3, <2>2, <2>3, <2>4 DEF FilterInv
<1> QED BY <1>4, <1>5

(* The actions that write to the printer. *)

LEMMA EmitsPage ==
  ASSUME FilterInv, emit_page
  PROVE  FilterInv'
<1>0. /\ JobTypeOK /\ PagesInOrder /\ Spooled /\ Replaying /\ Written
      /\ Tears /\ Turned /\ PrintedIsPrefix /\ Ended
  BY Parts
<1>1. /\ pc = "emit" /\ ~job.duplex
      /\ UNCHANGED <<job, page, i, gone, acct, fronts, backs>>
  BY DEF emit_page
<1>2. /\ page >= 1 /\ page <= N /\ NoEnd /\ NoPause
      /\ ~gone /\ Whole => Len(out) = page
  BY <1>0, <1>1 DEF PagesInOrder, Tears, Turned, Written
<1>3. CASE Puts(Face(page, job.copies)) /\ pc' = "header" /\ status' = status
  <2>1. /\ Face(page, job.copies) \in Chunk
        /\ Face(page, job.copies) \notin {TORN, END, PAUSE}
    BY TypeParts, Faces
  <2>2. page \in 1..N /\ Len(Stream) = N + 2 /\ page \in Nat
    BY <1>1, <1>2, Sizes, OneSided
  <2>3. Stream[1 + page] = Face(page, job.copies)
    BY <1>1, <2>2, PageAt
  <2>4. ~gone /\ Whole =>
          Len(out) + 1 <= Len(Stream) /\ Face(page, job.copies) = Stream[Len(out) + 1]
    BY <1>2, <2>2, <2>3, TypeParts
  <2>5. /\ Sound' /\ out' \in Seq(Chunk) /\ job_cancelled' = job_cancelled
        /\ ~gone => Len(out') = Len(out) + 1 /\ (Whole' <=> Whole)
        /\ NoEnd' /\ NoPause' /\ N' = N /\ Sheets' = Sheets
    BY <1>1, <1>2, <1>3, <2>1, <2>4, Put
  <2>6. JobTypeOK'
    BY <1>0, <1>1, <1>3, <2>5 DEF JobTypeOK, PCs
  <2>7. PagesInOrder' /\ Replaying' /\ Spooled'
    BY <1>0, <1>1, <1>2, <1>3, <2>5 DEF PagesInOrder, Replaying, Spooled
  <2>8. Written'
    BY <1>1, <1>2, <1>3, <2>5, TypeParts DEF Written
  <2>9. Tears' /\ Turned' /\ PrintedIsPrefix' /\ Ended'
    BY <1>1, <1>3, <2>5 DEF Sound, Tears, Turned, Ended
  <2> QED BY <2>6, <2>7, <2>8, <2>9 DEF FilterInv
<1>4. CASE PutFails /\ pc' = "end"
           /\ status' = IF ~gone \/ job_cancelled THEN status ELSE 1
  <2>1. /\ Sound' /\ out' \in Seq(Chunk) /\ job_cancelled' \in BOOLEAN
        /\ ~gone => job_cancelled' /\ ~Whole'
        /\ job_cancelled => job_cancelled'
        /\ NoEnd' /\ NoPause' /\ N' = N /\ Sheets' = Sheets
    BY <1>1, <1>2, <1>4, PutFailed
  <2>2. job_cancelled' \/ status' = 1
    BY <1>4, <2>1
  <2>3. JobTypeOK'
    BY <1>0, <1>1, <1>4, <2>1 DEF JobTypeOK, PCs
  <2>4. PagesInOrder' /\ Replaying' /\ Spooled' /\ Written'
    BY <1>0, <1>1, <1>2, <1>4, <2>1, <2>2 DEF PagesInOrder, Replaying, Spooled, Written
  <2>5. Tears' /\ Turned' /\ PrintedIsPrefix' /\ Ended'
    BY <1>1, <1>4, <2>1 DEF Sound, Tears, Turned, Ended
  <2> QED BY <2>3, <2>4, <2>5 DEF FilterInv
<1> QED BY <1>3, <1>4 DEF emit_page, Goto, PageError

(* CopyFails and BlankFails write a torn chunk or nothing. *)
LEMMA CopyFailed ==
  ASSUME FilterInv, CopyFails \/ BlankFails, UNCHANGED <<job, gone>>
  PROVE  /\ Sound' /\ out' \in Seq(Chunk) /\ job_cancelled' \in BOOLEAN
         /\ NoEnd => NoEnd'
         /\ NoPause => NoPause'
         /\ N' = N /\ Sheets' = Sheets /\ Stream' = Stream
<1>1. CASE PutFails
  BY <1>1, PutFailed
<1>2. CASE UNCHANGED <<out, job_cancelled>>
  BY <1>2, Silent, TypeParts
<1> QED BY <1>1, <1>2 DEF CopyFails, BlankFails

LEMMA ReplaysFront ==
  ASSUME FilterInv, replay_front
  PROVE  FilterInv'
<1>0. /\ JobTypeOK /\ PagesInOrder /\ Spooled /\ Replaying /\ Written
      /\ Tears /\ Turned /\ PrintedIsPrefix /\ Ended
  BY Parts
<1>1. /\ pc = "fronts" /\ i <= Len(fronts)
      /\ UNCHANGED <<job, page, gone, acct, fronts, backs>>
  BY DEF replay_front
<1>2. /\ job.duplex /\ status = 0 /\ 1 <= i /\ i <= Sheets /\ i \in Nat
      /\ page = N /\ Len(fronts) = Sheets /\ Len(backs) = N \div 2
      /\ NoEnd /\ NoPause
      /\ ~gone => Whole /\ Len(out) = i
  BY <1>0, <1>1, TypeParts DEF Replaying, Tears, Turned, Written
<1>3. CASE Puts(Face(fronts[i], job.copies)) /\ i' = i + 1 /\ UNCHANGED <<pc, status>>
  <2> DEFINE c == Face(2 * i - 1, job.copies)
  <2>1. fronts[i] = 2 * i - 1
    BY <1>0, <1>1, <1>2, TypeParts DEF Spooled
  <2>2. c \in Chunk /\ c \notin {TORN, END, PAUSE}
    <3>1. 2 * i - 1 \in Nat
      BY <1>2
    <3> HIDE DEF c
    <3> QED BY <3>1, TypeParts, Faces DEF c
  <2>3. Len(Stream) = 2 * Sheets + 3 /\ Stream[1 + i] = c
    <3>1. i \in 1..Sheets
      BY <1>2, Sizes
    <3> QED BY <1>2, <3>1, TwoSided, FrontAt DEF c
  <2> HIDE DEF c
  <2>4. ~gone => Len(out) + 1 <= Len(Stream) /\ c = Stream[Len(out) + 1]
    BY <1>2, <2>3, TypeParts
  <2>5. Puts(c)
    BY <1>3, <2>1 DEF c
  <2>6. /\ Sound' /\ out' \in Seq(Chunk) /\ job_cancelled' = job_cancelled
        /\ ~gone => Len(out') = Len(out) + 1 /\ Whole'
        /\ NoEnd' /\ NoPause' /\ N' = N /\ Sheets' = Sheets
    BY <1>1, <1>2, <2>2, <2>4, <2>5, Put
  <2>7. JobTypeOK'
    BY <1>0, <1>1, <1>2, <1>3, <2>6 DEF JobTypeOK, PCs
  <2>8. PagesInOrder' /\ Spooled'
    BY <1>0, <1>1, <1>3, <2>6 DEF PagesInOrder, Spooled
  <2>9. Replaying'
    BY <1>1, <1>2, <1>3, <2>6, TypeParts DEF Replaying
  <2>10. Written'
    BY <1>1, <1>2, <1>3, <2>6 DEF Written
  <2>11. Tears' /\ Turned' /\ PrintedIsPrefix' /\ Ended'
    BY <1>1, <1>3, <2>6 DEF Sound, Tears, Turned, Ended
  <2> QED BY <2>7, <2>8, <2>9, <2>10, <2>11 DEF FilterInv
<1>4. CASE CopyFails /\ status' = 1 /\ pc' = "trailer" /\ UNCHANGED i
  <2>1. /\ Sound' /\ out' \in Seq(Chunk) /\ job_cancelled' \in BOOLEAN
        /\ NoEnd' /\ NoPause' /\ N' = N /\ Sheets' = Sheets
    BY <1>1, <1>2, <1>4, CopyFailed
  <2>2. JobTypeOK'
    BY <1>0, <1>1, <1>4, <2>1 DEF JobTypeOK, PCs
  <2>3. PagesInOrder' /\ Replaying' /\ Spooled' /\ Written'
    BY <1>0, <1>1, <1>4 DEF PagesInOrder, Replaying, Spooled, Written
  <2>4. Tears' /\ Turned' /\ PrintedIsPrefix' /\ Ended'
    BY <1>1, <1>4, <2>1 DEF Sound, Tears, Turned, Ended
  <2> QED BY <2>2, <2>3, <2>4 DEF FilterInv
<1> QED BY <1>3, <1>4 DEF replay_front, Goto, Error

LEMMA Pauses ==
  ASSUME FilterInv, pause
  PROVE  FilterInv'
<1>0. /\ JobTypeOK /\ PagesInOrder /\ Spooled /\ Replaying /\ Written
      /\ Tears /\ Turned /\ PrintedIsPrefix /\ Ended
  BY Parts
<1>1. /\ pc = "fronts" /\ i > Len(fronts) /\ pc' = "blank"
      /\ UNCHANGED <<job, page, i, gone, acct, fronts, backs>>
  BY DEF pause, Goto
<1>2. /\ job.duplex /\ status = 0 /\ i = Sheets + 1
      /\ page = N /\ Len(fronts) = Sheets /\ Len(backs) = N \div 2
      /\ NoEnd /\ NoPause
      /\ ~gone => Whole /\ Len(out) = Sheets + 1
  BY <1>0, <1>1, TypeParts DEF Replaying, Tears, Turned, Written
<1>3. CASE Puts(PAUSE) /\ UNCHANGED status
  <2>1. PAUSE \in Chunk /\ PAUSE \notin {TORN, END} /\ PAUSE.kind # "page"
    BY Kinds
  <2>2. ~gone => Len(out) + 1 <= Len(Stream) /\ PAUSE = Stream[Len(out) + 1]
    <3>1. Sheets + 1 + 1 = Sheets + 2 /\ Sheets + 2 <= Len(Stream)
      BY <1>2, Sizes, TwoSided
    <3> QED BY <1>2, <3>1, Sizes, TwoSided
  <2>3. /\ Sound' /\ out' \in Seq(Chunk) /\ job_cancelled' = job_cancelled
        /\ ~gone => Len(out') = Len(out) + 1 /\ Whole'
        /\ NoEnd' /\ N' = N /\ Sheets' = Sheets
    BY <1>1, <1>2, <1>3, <2>1, <2>2, Put
  <2>4. JobTypeOK'
    BY <1>0, <1>1, <1>3, <2>3 DEF JobTypeOK, PCs
  <2>5. PagesInOrder' /\ Spooled' /\ Replaying'
    BY <1>0, <1>1, <1>2, <2>3 DEF PagesInOrder, Spooled, Replaying
  <2>6. Written'
    BY <1>1, <1>2, <2>3, TypeParts DEF Written
  <2>7. Tears' /\ Turned' /\ PrintedIsPrefix' /\ Ended'
    BY <1>1, <1>2, <1>3, <2>3 DEF Sound, Tears, Turned, Ended
  <2> QED BY <2>4, <2>5, <2>6, <2>7 DEF FilterInv
<1>4. CASE PutFails /\ status' = 1
  <2>1. /\ Sound' /\ out' \in Seq(Chunk) /\ job_cancelled' \in BOOLEAN
        /\ ~gone => ~Whole'
        /\ NoEnd' /\ NoPause' /\ N' = N /\ Sheets' = Sheets
    BY <1>1, <1>2, <1>4, PutFailed
  <2>2. JobTypeOK'
    BY <1>0, <1>1, <1>4, <2>1 DEF JobTypeOK, PCs
  <2>3. PagesInOrder' /\ Replaying' /\ Spooled' /\ Written'
    BY <1>0, <1>1, <1>2, <1>4, <2>1 DEF PagesInOrder, Replaying, Spooled, Written
  <2>4. Tears' /\ Turned' /\ PrintedIsPrefix' /\ Ended'
    BY <1>1, <1>4, <2>1 DEF Sound, Tears, Turned, Ended
  <2> QED BY <2>2, <2>3, <2>4 DEF FilterInv
<1> QED BY <1>3, <1>4 DEF pause, Error

(* An odd page count: the blank back is the one that lies on top.            *)
LEMMA BlankBack ==
  ASSUME FilterInv, render_blank_page
  PROVE  FilterInv'
<1>0. /\ JobTypeOK /\ PagesInOrder /\ Spooled /\ Replaying /\ Written
      /\ Tears /\ Turned /\ PrintedIsPrefix /\ Ended
  BY Parts
<1>1. /\ pc = "blank" /\ i' = Len(backs) /\ pc' = "backs"
      /\ UNCHANGED <<job, gone, fronts, backs>>
  BY DEF render_blank_page, Goto
<1>2. /\ job.duplex
      /\ page = N /\ Len(fronts) = Sheets /\ Len(backs) = N \div 2
      /\ NoEnd /\ (~gone => (status = 0 => Whole) /\ (status # 0 => NoPause))
      /\ ~gone /\ Whole => Len(out) = Sheets + 2
  BY <1>0, <1>1, TypeParts DEF Replaying, Tears, Turned, Written
<1>3. /\ Spooled' /\ Replaying'
      /\ PagesInOrder'
  <2>1. N' = N /\ Sheets' = Sheets
    BY <1>1, SameJob
  <2> QED BY <1>0, <1>1, <1>2, <2>1, TypeParts DEF Spooled, Replaying, PagesInOrder
<1>4. CASE Len(backs) < Len(fronts) /\ page' = page + 1 /\ acct' = acct + 1
           /\ Puts(Face(page + 1, job.copies)) /\ UNCHANGED status
  <2> DEFINE c == Face(page + 1, job.copies)
  <2>1. c \in Chunk /\ c \notin {TORN, END, PAUSE}
    <3>1. page + 1 \in Nat
      BY TypeParts
    <3> HIDE DEF c
    <3> QED BY <3>1, TypeParts, Faces DEF c
  <2>2. Stream[Sheets + 3] = c /\ Len(Stream) = 2 * Sheets + 3 /\ Sheets >= 1
        /\ Len(backs) = Sheets - 1
    <3>1. Sheets >= 1 /\ 2 * Sheets = N + 1 /\ Len(backs) = Sheets - 1
      <4>1. N \in Nat /\ Sheets \in Nat /\ N <= 2 * Sheets /\ 2 * Sheets <= N + 1
        BY TypeParts
      <4>2. N \div 2 < Sheets
        BY <1>2, <1>4
      <4> QED BY <1>2, <4>1, <4>2, Halves
    <3>2. 1 \in 1..Sheets /\ Sheets + 2 + 1 = Sheets + 3 /\ 2 * (Sheets + 1 - 1) = page + 1
      BY <1>2, <3>1, TypeParts
    <3>3. Stream[Sheets + 2 + 1] = Face(2 * (Sheets + 1 - 1), job.copies)
      BY ONLY <1>2, <3>2, FilterInv, BackAt
    <3>4. Stream[Sheets + 3] = c
      BY ONLY <3>2, <3>3 DEF c
    <3> HIDE DEF c
    <3> QED BY <1>2, <3>1, <3>4, TwoSided
  <2> HIDE DEF c
  <2>3. ~gone /\ Whole => Len(out) + 1 <= Len(Stream) /\ c = Stream[Len(out) + 1]
    <3> SUFFICES ASSUME ~gone, Whole
                 PROVE  Len(out) + 1 <= Len(Stream) /\ c = Stream[Len(out) + 1]
      OBVIOUS
    <3>1. Len(out) = Sheets + 2
      BY <1>2, <2>2, Sizes
    <3>2. Len(out) + 1 = Sheets + 3 /\ Sheets + 3 <= 2 * Sheets + 3
      BY ONLY <3>1, FilterInv, Sizes
    <3> QED BY ONLY <2>2, <3>2
  <2>4. /\ Sound' /\ out' \in Seq(Chunk) /\ job_cancelled' = job_cancelled
        /\ ~gone => Len(out') = Len(out) + 1 /\ (Whole' <=> Whole)
        /\ NoEnd' /\ N' = N /\ Sheets' = Sheets
    BY <1>1, <1>2, <1>4, <2>1, <2>3, TypeParts, Put DEF c
  <2>5. JobTypeOK'
    BY <1>0, <1>1, <1>4, <2>4, TypeParts DEF JobTypeOK, PCs
  <2>6. Written'
    <3> SUFFICES ASSUME ~gone', Whole', status' = 0
                 PROVE  Len(out') = 2 * Sheets' + 2 - i'
      BY <1>1 DEF Written
    <3>1. Len(out') = Sheets + 2 + 1
      BY <1>1, <1>2, <2>4
    <3>2. Sheets \in Nat
      BY TypeParts
    <3> QED BY <1>1, <2>2, <2>4, <3>1, <3>2
  <2>7. Tears' /\ Turned' /\ PrintedIsPrefix' /\ Ended'
    BY <1>1, <1>2, <1>4, <2>4 DEF Sound, Tears, Turned, Ended
  <2> QED BY <1>3, <2>5, <2>6, <2>7 DEF FilterInv
<1>5. CASE page' = page + 1 /\ acct' = acct + 1 /\ BlankFails /\ status' = 1
  <2>1. /\ Sound' /\ out' \in Seq(Chunk) /\ job_cancelled' \in BOOLEAN /\ NoEnd'
    BY <1>1, <1>2, <1>5, CopyFailed
  <2>2. JobTypeOK'
    BY <1>0, <1>1, <1>5, <2>1, TypeParts DEF JobTypeOK, PCs
  <2>3. Written' /\ Tears' /\ Turned' /\ PrintedIsPrefix' /\ Ended'
    BY <1>1, <1>5, <2>1 DEF Written, Sound, Tears, Turned, Ended
  <2> QED BY <1>3, <2>2, <2>3 DEF FilterInv
<1>6. CASE Len(backs) = Len(fronts) /\ UNCHANGED <<page, acct, out, job_cancelled, status>>
  <2>1. /\ Sound' /\ (Whole' <=> Whole) /\ NoEnd' /\ N' = N /\ Sheets' = Sheets
    BY <1>1, <1>2, <1>6, Silent
  <2>2. JobTypeOK'
    BY <1>0, <1>1, <1>6, TypeParts DEF JobTypeOK, PCs
  <2>3. Written'
    BY <1>1, <1>2, <1>6, <2>1, TypeParts DEF Written
  <2>4. Tears' /\ Turned' /\ PrintedIsPrefix' /\ Ended'
    BY <1>1, <1>2, <1>6, <2>1 DEF Sound, Tears, Turned, Ended
  <2> QED BY <1>3, <2>2, <2>3, <2>4 DEF FilterInv
<1> QED BY <1>4, <1>5, <1>6 DEF render_blank_page, Error

(* The backs backwards: the i-th meets the i-th front.                       *)
LEMMA ReplaysBack ==
  ASSUME FilterInv, replay_back
  PROVE  FilterInv'
<1>0. /\ JobTypeOK /\ PagesInOrder /\ Spooled /\ Replaying /\ Written
      /\ Tears /\ Turned /\ PrintedIsPrefix /\ Ended
  BY Parts
<1>1. /\ pc = "backs" /\ status = 0 /\ i > 0 /\ i' = i - 1
      /\ UNCHANGED <<job, pc, page, gone, acct, fronts, backs>>
  BY DEF replay_back
<1>2. /\ job.duplex
      /\ Len(fronts) = Sheets /\ Len(backs) = N \div 2 /\ i <= Len(backs) /\ i \in Nat
      /\ NoEnd
      /\ ~gone => Whole /\ Len(out) = 2 * Sheets + 2 - i
  BY <1>0, <1>1, TypeParts DEF Replaying, Tears, Written
<1>3. i \in 1..Sheets /\ i \in 1..Len(backs) /\ i' \in Nat
  <2>1. Len(backs) \in Nat /\ Len(backs) <= Sheets /\ Sheets \in Nat
    BY <1>2, TypeParts, Halves
  <2> QED BY <1>1, <1>2, <2>1
<1>4. Spooled' /\ Replaying' /\ PagesInOrder'
  <2>1. N' = N /\ Sheets' = Sheets
    BY <1>1, SameJob
  <2> QED BY <1>0, <1>1, <1>2, <1>3, <2>1 DEF Spooled, Replaying, PagesInOrder
<1>5. CASE Puts(Face(back_at(i), job.copies)) /\ UNCHANGED status
  <2> DEFINE c == Face(2 * i, job.copies)
  <2>1. back_at(i) = 2 * i
    BY <1>0, <1>3 DEF Spooled, back_at
  <2>2. c \in Chunk /\ c \notin {TORN, END, PAUSE}
    <3>1. 2 * i \in Nat
      BY <1>2
    <3> HIDE DEF c
    <3> QED BY <3>1, TypeParts, Faces DEF c
  <2>3. Len(Stream) = 2 * Sheets + 3 /\ Stream[2 * Sheets + 3 - i] = c
    <3> DEFINE x == Sheets + 1 - i
    <3>1. x \in 1..Sheets /\ Sheets + 2 + x = 2 * Sheets + 3 - i /\ Sheets + 1 - x = i
      BY <1>3, TypeParts, BackIndex
    <3> HIDE DEF x
    <3>2. Stream[Sheets + 2 + x] = Face(2 * (Sheets + 1 - x), job.copies)
      BY <1>2, <3>1, BackAt
    <3> QED BY <1>2, <3>1, <3>2, TwoSided
  <2> HIDE DEF c
  <2>4. ~gone => Len(out) + 1 <= Len(Stream) /\ c = Stream[Len(out) + 1]
    <3> SUFFICES ASSUME ~gone PROVE Len(out) + 1 <= Len(Stream) /\ c = Stream[Len(out) + 1]
      OBVIOUS
    <3>1. 2 * Sheets + 2 - i + 1 = 2 * Sheets + 3 - i
          /\ 2 * Sheets + 3 - i <= 2 * Sheets + 3
      BY <1>3, TypeParts, BackIndex
    <3> QED BY <1>2, <2>3, <3>1
  <2>5. Puts(c)
    BY <1>5, <2>1 DEF c
  <2>6. /\ Sound' /\ out' \in Seq(Chunk) /\ job_cancelled' = job_cancelled
        /\ ~gone => Len(out') = Len(out) + 1 /\ Whole'
        /\ NoEnd' /\ N' = N /\ Sheets' = Sheets
    BY <1>1, <1>2, <2>2, <2>4, <2>5, Put
  <2>7. JobTypeOK'
    BY <1>0, <1>1, <1>3, <1>5, <2>6 DEF JobTypeOK
  <2>8. Written'
    <3>1. 2 * Sheets + 2 - i + 1 = 2 * Sheets + 2 - i'
      BY <1>1, <1>3, TypeParts, BackIndex
    <3> QED BY <1>1, <1>2, <1>5, <2>6, <3>1 DEF Written
  <2>9. Tears' /\ Turned' /\ PrintedIsPrefix' /\ Ended'
    BY <1>1, <1>5, <2>6 DEF Sound, Tears, Turned, Ended
  <2> QED BY <1>4, <2>7, <2>8, <2>9 DEF FilterInv
<1>6. CASE CopyFails /\ status' = 1
  <2>1. /\ Sound' /\ out' \in Seq(Chunk) /\ job_cancelled' \in BOOLEAN /\ NoEnd'
    BY <1>1, <1>2, <1>6, CopyFailed
  <2>2. JobTypeOK'
    BY <1>0, <1>1, <1>3, <1>6, <2>1 DEF JobTypeOK
  <2>3. Written' /\ Tears' /\ Turned' /\ PrintedIsPrefix' /\ Ended'
    BY <1>1, <1>6, <2>1 DEF Written, Sound, Tears, Turned, Ended
  <2> QED BY <1>4, <2>2, <2>3 DEF FilterInv
<1> QED BY <1>5, <1>6 DEF replay_back, Error

LEMMA ReplayEnds ==
  ASSUME FilterInv, replay_ends
  PROVE  FilterInv'
<1>0. /\ JobTypeOK /\ PagesInOrder /\ Spooled /\ Replaying /\ Written
      /\ Tears /\ Turned /\ PrintedIsPrefix /\ Ended
  BY Parts
<1>1. /\ pc = "backs" /\ (status # 0 \/ i = 0) /\ pc' = "trailer"
      /\ UNCHANGED <<job, page, i, job_cancelled, gone, status, out, acct, fronts, backs>>
  BY DEF replay_ends, Goto
<1>2. /\ Sound' /\ (Whole' <=> Whole) /\ (NoEnd' <=> NoEnd)
      /\ N' = N /\ Sheets' = Sheets /\ Stream' = Stream
  BY <1>1, Silent
<1>3. JobTypeOK'
  BY <1>0, <1>1, TypeParts DEF JobTypeOK, PCs
<1>4. PagesInOrder' /\ Spooled' /\ Replaying'
  BY <1>0, <1>1 DEF PagesInOrder, Spooled, Replaying
<1>5. Written'
  <2>1. ~gone /\ Whole /\ status = 0 => Len(out) = 2 * Sheets + 2
    BY <1>0, <1>1, TypeParts DEF Written
  <2>2. Len(Stream) = 2 * Sheets + 3
    BY <1>0, <1>1, TwoSided DEF Replaying
  <2>3. ~gone /\ Whole /\ status = 0 => Len(out) + 1 = Len(Stream)
    BY <2>1, <2>2, Sizes
  <2>4. pc' = "trailer" /\ gone' = gone /\ status' = status /\ out' = out
    BY <1>1
  <2> QED BY ONLY <1>2, <2>3, <2>4 DEF Written
<1>6. Tears' /\ Turned' /\ PrintedIsPrefix' /\ Ended'
  BY <1>0, <1>1, <1>2 DEF Sound, Tears, Turned, Ended
<1> QED BY <1>3, <1>4, <1>5, <1>6 DEF FilterInv

(* The end of the document completes the stream of a job without failure.    *)
LEMMA EndsDocument ==
  ASSUME FilterInv, end_document
  PROVE  FilterInv'
<1>0. /\ JobTypeOK /\ PagesInOrder /\ Spooled /\ Replaying /\ Written
      /\ Tears /\ Turned /\ PrintedIsPrefix /\ Ended
  BY Parts
<1>1. /\ pc = "trailer" /\ pc' = "flush"
      /\ UNCHANGED <<job, page, i, gone, acct, fronts, backs>>
  BY DEF end_document, Goto
<1>2. PagesInOrder' /\ Spooled' /\ Replaying' /\ Written'
  BY <1>0, <1>1 DEF PagesInOrder, Spooled, Replaying, Written
<1>3. CASE Puts(END) /\ UNCHANGED status
  <2>1. END \in Chunk /\ END # TORN /\ END.kind # "page"
    BY Kinds
  <2>2. /\ Sound' /\ out' \in Seq(Chunk) /\ job_cancelled' = job_cancelled
        /\ ~gone => /\ Len(out') = Len(out) + 1 /\ out' # <<>>
                    /\ out'[Len(out')] = END
                    /\ \A k \in 1..Len(out) : out'[k] = out[k]
        /\ Stream' = Stream
    BY <1>1, <1>3, <2>1, Put
  <2>3. status = 0 /\ ~job_cancelled /\ ~gone => out' = Stream
    <3> SUFFICES ASSUME status = 0, ~job_cancelled, ~gone PROVE out' = Stream
      OBVIOUS
    <3>1. Whole
      BY <1>0, <1>1 DEF Tears, TornByCancel, NoEnd, Whole, Good
    <3>2. Len(out) + 1 = Len(Stream)
      BY <1>0, <1>1, <3>1 DEF Written
    <3>3. \A k \in 1..Len(out) : out[k] = Stream[k]
      <4>1. \A k \in 1..Len(out) : \A l \in 1..k : out[l] \notin {TORN, END}
        BY <3>1, TypeParts DEF Whole, Good
      <4> QED BY <1>0, <4>1 DEF PrintedIsPrefix
    <3>4. Stream[Len(Stream)] = END
      BY TwoSided, OneSided
    <3>5. \A k \in 1..Len(out') : k \in 1..Len(out) \/ k = Len(Stream)
      BY <2>2, <3>2, TypeParts
    <3>6. \A k \in 1..Len(out') : out'[k] = Stream[k]
      BY <2>2, <3>2, <3>3, <3>4, <3>5
    <3>7. Stream \in Seq(Chunk) /\ out' \in Seq(Chunk) /\ Len(out') = Len(Stream)
      BY <2>2, <3>2, TypeParts
    <3> QED BY <3>6, <3>7, SeqEqual
  <2>4. JobTypeOK'
    BY <1>0, <1>1, <1>3, <2>2 DEF JobTypeOK, PCs
  <2>5. Tears' /\ Turned' /\ PrintedIsPrefix'
    BY <1>1, <2>2 DEF Sound, Tears, Turned
  <2>6. Ended'
    BY <1>1, <1>3, <2>2, <2>3 DEF Ended
  <2> QED BY <1>2, <2>4, <2>5, <2>6 DEF FilterInv
<1>4. CASE PutFails /\ status' = 1
  <2>1. /\ Sound' /\ out' \in Seq(Chunk) /\ job_cancelled' \in BOOLEAN
        /\ ~gone => out'[Len(out')] = TORN
    BY <1>1, <1>4, PutFailed
  <2>2. JobTypeOK'
    BY <1>0, <1>1, <1>4, <2>1 DEF JobTypeOK, PCs
  <2>3. Tears' /\ Turned' /\ PrintedIsPrefix' /\ Ended'
    BY <1>1, <1>4, <2>1 DEF Sound, Tears, Turned, Ended
  <2> QED BY <1>2, <2>2, <2>3 DEF FilterInv
<1> QED BY <1>3, <1>4 DEF end_document, Error

(* An output cut off in the middle is one that was torn there.               *)
LEMMA CutOff ==
  ASSUME FilterInv, NEW n \in 0..(Len(out) - 1),
         out' = Append(SubSeq(out, 1, n), TORN), UNCHANGED job, job_cancelled'
  PROVE  /\ Sound' /\ out' \in Seq(Chunk) /\ Len(out') = n + 1
         /\ \A k \in 1..n : out'[k] = out[k]
         /\ out'[n + 1] = TORN
<1>0. out \in Seq(Chunk) /\ Len(out) \in Nat /\ n \in Nat /\ n <= Len(out) - 1
  BY TypeParts
<1> DEFINE s == SubSeq(out, 1, n)
<1>1. /\ s \in Seq(Chunk) /\ Len(s) = n
      /\ \A k \in 1..n : s[k] = out[k]
  <2>1. \A k \in 1..n : out[k] \in Chunk
    BY <1>0
  <2> QED BY <1>0, <2>1, SubSeqProperties
<1> HIDE DEF s
<1>2. /\ out' \in Seq(Chunk) /\ Len(out') = n + 1 /\ out'[n + 1] = TORN
      /\ \A k \in 1..n : out'[k] = s[k]
  BY <1>0, <1>1, AppendProperties, Kinds DEF s
<1>3. \A k \in 1..n : out'[k] = out[k] /\ k \in 1..Len(out)
  BY <1>0, <1>1, <1>2
<1>4. \A k \in 1..Len(out') : k \in 1..n \/ k = n + 1
  BY <1>0, <1>2
<1>5. n + 1 \in 1..(n + 1)
  BY <1>0
<1>6. \A k \in 1..n : Good(k)' <=> Good(k)
  <2> SUFFICES ASSUME NEW k \in 1..n PROVE Good(k)' <=> Good(k)
    OBVIOUS
  <2>1. \A l \in 1..k : l \in 1..n
    BY <1>0
  <2> QED BY <1>3, <2>1 DEF Good
<1>7. PrintedIsPrefix /\ TornByCancel /\ FacesWhole
  BY SoundNow DEF Sound
<1>8. PrintedIsPrefix'
  <2> SUFFICES ASSUME NEW k \in 1..Len(out'), Good(k)'
               PROVE  k <= Len(Stream) /\ out'[k] = Stream[k]
    BY SameJob DEF PrintedIsPrefix, Good
  <2>1. k # n + 1
    BY <1>2, <1>5 DEF Good
  <2>2. k \in 1..n /\ Good(k)
    BY <1>4, <1>6, <2>1
  <2> QED BY <1>3, <1>7, <2>2 DEF PrintedIsPrefix, Good
<1>9. TornByCancel'
  BY DEF TornByCancel
<1>10. FacesWhole'
  <2> SUFFICES ASSUME NEW k \in 1..Len(out'), out'[k].kind = "page",
                      NEW p \in 1..k, out'[p] = PAUSE
               PROVE  Good(k)'
    BY DEF FacesWhole
  <2>1. k # n + 1
    BY <1>2, Kinds
  <2>2. k \in 1..n /\ p \in 1..n
    BY <1>0, <1>4, <2>1
  <2> QED BY <1>3, <1>6, <1>7, <2>2 DEF FacesWhole
<1> QED BY <1>2, <1>3, <1>8, <1>9, <1>10 DEF Sound

LEMMA Flushes ==
  ASSUME FilterInv, flush
  PROVE  FilterInv'
<1>0. /\ JobTypeOK /\ PagesInOrder /\ Spooled /\ Replaying /\ Written
      /\ Tears /\ Turned /\ PrintedIsPrefix /\ Ended
  BY Parts
<1>1. /\ pc = "flush" /\ pc' = "done"
      /\ UNCHANGED <<job, page, i, gone, acct, fronts, backs>>
  BY DEF flush, Goto
<1>2. PagesInOrder' /\ Spooled' /\ Replaying' /\ Written'
  BY <1>0, <1>1 DEF PagesInOrder, Spooled, Replaying, Written
<1>3. CASE UNCHANGED out /\ (job_cancelled => job_cancelled') /\ job_cancelled' \in BOOLEAN
           /\ ((UNCHANGED <<status, job_cancelled>> /\ ~gone) \/ status' = 1)
  <2>1. Sound' /\ Stream' = Stream
    BY <1>1, <1>3, Silent
  <2>2. JobTypeOK'
    BY <1>0, <1>1, <1>3, TypeParts DEF JobTypeOK, PCs
  <2>3. Tears' /\ Turned' /\ PrintedIsPrefix'
    BY <1>1, <2>1 DEF Sound, Tears, Turned
  <2>4. Ended'
    BY <1>0, <1>1, <1>3, <2>1 DEF Ended
  <2> QED BY <1>2, <2>2, <2>3, <2>4 DEF FilterInv
<1>4. CASE job_cancelled' = TRUE /\ status' = 1
           /\ \E n \in 0..(Len(out) - 1) : out' = Append(SubSeq(out, 1, n), TORN)
  <2>1. PICK n \in 0..(Len(out) - 1) : out' = Append(SubSeq(out, 1, n), TORN)
    BY <1>4
  <2>2. Sound' /\ out' \in Seq(Chunk) /\ Len(out') = n + 1 /\ out'[n + 1] = TORN
    BY <1>1, <1>4, <2>1, CutOff
  <2>3. JobTypeOK'
    BY <1>0, <1>1, <1>4, <2>2 DEF JobTypeOK, PCs
  <2>4. Tears' /\ Turned' /\ PrintedIsPrefix'
    BY <1>1, <2>2 DEF Sound, Tears, Turned
  <2>5. Ended'
    BY <1>1, <1>4, <2>2 DEF Ended
  <2> QED BY <1>2, <2>3, <2>4, <2>5 DEF FilterInv
<1>5. CASE ~gone /\ UNCHANGED <<status, out, job_cancelled>>
  BY <1>3, <1>5, TypeParts
<1>6. CASE FlushBreaksOff /\ status' = 1
  <2>1. job_cancelled' = TRUE /\ job_cancelled' \in BOOLEAN
    BY <1>6 DEF FlushBreaksOff
  <2>2. CASE UNCHANGED out
    BY <1>3, <1>6, <2>1, <2>2
  <2>3. CASE \E n \in 0..(Len(out) - 1) : out' = Append(SubSeq(out, 1, n), TORN)
    BY <1>4, <1>6, <2>1, <2>3
  <2> QED BY <1>6, <2>2, <2>3 DEF FlushBreaksOff
<1>7. CASE gone /\ status' = 1 /\ UNCHANGED <<out, job_cancelled>>
  BY <1>3, <1>7, TypeParts
<1> QED BY <1>5, <1>6, <1>7 DEF flush, Error

(* A SIGTERM or a backend that goes away changes one flag.                   *)
LEMMA Disturbed ==
  ASSUME FilterInv, on_cancel \/ BackendGoes
  PROVE  FilterInv'
<1>0. /\ JobTypeOK /\ PagesInOrder /\ Spooled /\ Replaying /\ Written
      /\ Tears /\ Turned /\ PrintedIsPrefix /\ Ended
  BY Parts
<1>1. /\ pc # "done"
      /\ UNCHANGED <<job, pc, page, i, status, out, acct, fronts, backs>>
      /\ \/ job_cancelled' = TRUE /\ gone' = gone
         \/ gone' = TRUE /\ job_cancelled' = job_cancelled
  BY DEF on_cancel, BackendGoes
<1>2. job_cancelled => job_cancelled'
  BY <1>1
<1>3. gone => gone'
  BY <1>1
<1>4. /\ Sound' /\ (Whole' <=> Whole) /\ (NoEnd' <=> NoEnd) /\ (NoPause' <=> NoPause)
      /\ N' = N /\ Sheets' = Sheets /\ Stream' = Stream
  BY <1>1, <1>2, Silent
<1>5. JobTypeOK'
  BY <1>0, <1>1, TypeParts DEF JobTypeOK
<1>6. PagesInOrder'
  BY <1>0, <1>1, <1>2, <1>4 DEF PagesInOrder
<1>7. Spooled'
  BY <1>0, <1>1, <1>2 DEF Spooled
<1>8. Replaying'
  BY <1>0, <1>1, <1>4 DEF Replaying
<1>9. Written'
  BY <1>0, <1>1, <1>2, <1>3, <1>4 DEF Written
<1>10. Tears' /\ Turned' /\ PrintedIsPrefix'
  BY <1>0, <1>1, <1>3, <1>4 DEF Sound, Tears, Turned
<1>11. Ended'
  BY <1>0, <1>1, <1>2, <1>3, <1>4 DEF Ended
<1> QED BY <1>5, <1>6, <1>7, <1>8, <1>9, <1>10, <1>11 DEF FilterInv

LEMMA FilterInductive == Spec => []FilterInv
<1>1. Init => FilterInv
  <2> SUFFICES ASSUME Init PROVE FilterInv
    OBVIOUS
  <2>1. job \in Jobs /\ N \in Nat
    BY JobParts DEF Init
  <2>2. /\ Len(out) = 0 /\ Len(fronts) = 0 /\ Len(backs) = 0
        /\ out \in Seq(Chunk) /\ fronts \in Seq(Nat) /\ backs \in Seq(Nat)
    BY DEF Init
  <2>3. JobTypeOK
    BY <2>1, <2>2 DEF Init, JobTypeOK, PCs
  <2>4. PagesInOrder /\ Spooled /\ Replaying /\ Written
    BY <2>1, <2>2 DEF Init, PagesInOrder, Spooled, Replaying, Written
  <2>5. Tears /\ Turned /\ PrintedIsPrefix /\ Ended
    BY <2>2 DEF Init, Tears, TornByCancel, NoEnd, Turned, FacesWhole, NoPause,
       PrintedIsPrefix, Ended, Whole, Good
  <2> QED BY <2>3, <2>4, <2>5 DEF FilterInv
<1>2. FilterInv /\ [Next]_vars => FilterInv'
  <2> SUFFICES ASSUME FilterInv, [Next]_vars PROVE FilterInv'
    OBVIOUS
  <2>1. CASE Filter
    BY <2>1, BeginsDocument, ReadsHeader, LoopEnds, RendersPage, EmitsPage, SpoolsPage,
       PagesEnd, ReplaysFront, Pauses, BlankBack, ReplaysBack, ReplayEnds, EndsDocument,
       Flushes DEF Filter
  <2>2. CASE on_cancel \/ BackendGoes
    BY <2>2, Disturbed
  <2>3. CASE UNCHANGED vars
    <3>1. /\ Sound' /\ (Whole' <=> Whole) /\ (NoEnd' <=> NoEnd) /\ (NoPause' <=> NoPause)
          /\ N' = N /\ Sheets' = Sheets /\ Stream' = Stream
      BY <2>3, Silent DEF vars
    <3>2. JobTypeOK' /\ PagesInOrder' /\ Spooled'
      BY <2>3, <3>1, Parts DEF vars, JobTypeOK, PagesInOrder, Spooled
    <3>3. Replaying' /\ Written' /\ Tears' /\ Turned' /\ PrintedIsPrefix' /\ Ended'
      BY <2>3, <3>1, Parts DEF vars, Replaying, Written, Sound, Tears, Turned, Ended
    <3> QED BY <3>2, <3>3 DEF FilterInv
  <2> QED BY <2>1, <2>2, <2>3 DEF Next
<1> QED BY <1>1, <1>2, PTL DEF Spec

-----------------------------------------------------------------------------
(* A stream that is known to be broken leaves the page loop with a failure   *)
(* or with a cancel, and no replay of the spool begins after either.         *)
BrokenStops ==
  /\ pc \in {"end", "trailer", "flush", "done"} /\ status = 0 /\ ~job_cancelled =>
       ~KnownBroken
  /\ pc \in {"fronts", "blank", "backs"} => ~KnownBroken

BrokenInv == BrokenStops /\ BrokenPrintsNothing

(* What is added that is no page prints no page. *)
LEMMA AddsNoPage ==
  ASSUME FilterInv, BrokenPrintsNothing, UNCHANGED job,
         NEW chunk \in Chunk, chunk.kind # "page",
         out' = out \/ out' = Append(out, chunk)
  PROVE  BrokenPrintsNothing'
<1>1. CASE out' = out
  BY <1>1 DEF BrokenPrintsNothing, KnownBroken
<1>2. CASE out' = Append(out, chunk)
  <2>1. /\ Len(out') = Len(out) + 1 /\ out'[Len(out) + 1] = chunk
        /\ \A k \in 1..Len(out) : out'[k] = out[k]
    BY <1>2, TypeParts, AppendProperties
  <2>2. \A k \in 1..Len(out') : k \in 1..Len(out) \/ k = Len(out) + 1
    BY <2>1, TypeParts
  <2> QED BY <2>1, <2>2 DEF BrokenPrintsNothing, KnownBroken
<1> QED BY <1>1, <1>2

LEMMA MarksPrintNoPage ==
  ASSUME FilterInv, BrokenPrintsNothing, UNCHANGED job,
         Puts(HEAD) \/ Puts(PAUSE) \/ Puts(END) \/ PutFails \/ UNCHANGED out
  PROVE  BrokenPrintsNothing'
<1>1. \A m \in {HEAD, PAUSE, END, TORN} : m \in Chunk /\ m.kind # "page"
  BY Kinds
<1>2. \E m \in {HEAD, PAUSE, END, TORN} : out' = out \/ out' = Append(out, m)
  BY DEF Puts, PutFails
<1> QED BY <1>1, <1>2, AddsNoPage

(* Where pages are printed the stream is not known to be broken, or the job  *)
(* is not a manual duplex one.                                               *)
LEMMA PrintsOnlySound ==
  ASSUME ~(job.duplex /\ KnownBroken), UNCHANGED job
  PROVE  BrokenPrintsNothing'
BY DEF BrokenPrintsNothing, KnownBroken

LEMMA BrokenInductive == Spec => []BrokenInv
<1>1. Init => BrokenInv
  BY DEF Init, BrokenInv, BrokenStops, BrokenPrintsNothing
<1>2. FilterInv /\ BrokenInv /\ [Next]_vars => BrokenInv'
  <2> SUFFICES ASSUME FilterInv, BrokenInv, [Next]_vars PROVE BrokenInv'
    OBVIOUS
  <2>0. BrokenStops /\ BrokenPrintsNothing /\ status \in {0, 1}
    BY TypeParts DEF BrokenInv
  <2>1. CASE begin_document
    <3>1. UNCHANGED job /\ (Puts(HEAD) \/ UNCHANGED out)
          /\ (pc' = "header" \/ (status' = 1 /\ pc' = "done"))
      BY <2>1 DEF begin_document, Goto, Error
    <3>2. BrokenPrintsNothing'
      BY <2>0, <3>1, MarksPrintNoPage
    <3> QED BY <3>1, <3>2 DEF BrokenInv, BrokenStops
  <2>2. CASE read_header
    <3>1. UNCHANGED <<job, out>> /\ (pc' = "render" \/ (status' = 1 /\ pc' = "end"))
      BY <2>2 DEF read_header, Goto, Error
    <3> QED BY <2>0, <3>1 DEF BrokenInv, BrokenStops, BrokenPrintsNothing, KnownBroken
  <2>3. CASE loop_ends
    <3>1. /\ UNCHANGED <<job, out, job_cancelled>> /\ pc' = "end"
          /\ job_cancelled \/ ~KnownBroken
      BY <2>3, LoopStops DEF loop_ends, Goto
    <3> QED BY <2>0, <3>1 DEF BrokenInv, BrokenStops, BrokenPrintsNothing, KnownBroken
  <2>4. CASE render_page
    <3>1. /\ UNCHANGED <<job, out, job_cancelled>>
          /\ pc' = "emit" \/ (pc' = "end" /\ (job_cancelled \/ status' = 1))
      BY <2>4 DEF render_page, Goto, PageError
    <3> QED BY <2>0, <3>1 DEF BrokenInv, BrokenStops, BrokenPrintsNothing, KnownBroken
  <2>5. CASE emit_page
    <3>1. /\ UNCHANGED job /\ ~job.duplex
          /\ pc' = "header" \/ (pc' = "end" /\ (job_cancelled' \/ status' = 1))
      BY <2>5 DEF emit_page, Goto, PageError, PutFails
    <3>2. BrokenPrintsNothing'
      BY <3>1, PrintsOnlySound
    <3> QED BY <3>1, <3>2 DEF BrokenInv, BrokenStops
  <2>6. CASE spool_page
    <3>1. /\ UNCHANGED <<job, out, job_cancelled>>
          /\ pc' = "header" \/ (pc' = "end" /\ (job_cancelled \/ status' = 1))
      BY <2>6 DEF spool_page, Goto, PageError, Error
    <3> QED BY <2>0, <3>1 DEF BrokenInv, BrokenStops, BrokenPrintsNothing, KnownBroken
  <2>7. CASE pages_end
    <3>1. /\ UNCHANGED <<job, out, job_cancelled>> /\ pc = "end"
          /\ status' = 0 => status = 0
          /\ pc' = "trailer" \/ (pc' = "fronts" /\ status = 0 /\ ~job_cancelled)
      BY <2>0, <2>7 DEF pages_end, Goto, Replays
    <3> QED BY <2>0, <3>1 DEF BrokenInv, BrokenStops, BrokenPrintsNothing, KnownBroken
  (* No replay of a stream that is known to be broken. *)
  <2>8. CASE replay_front \/ pause \/ render_blank_page \/ replay_back \/ replay_ends
    <3>1. /\ UNCHANGED job /\ pc \in {"fronts", "blank", "backs"}
      BY <2>8 DEF replay_front, pause, render_blank_page, replay_back, replay_ends
    <3>2. ~KnownBroken /\ ~KnownBroken'
      BY <2>0, <3>1 DEF BrokenStops, KnownBroken
    <3> QED BY <3>1, <3>2, PrintsOnlySound DEF BrokenInv, BrokenStops
  <2>9. CASE end_document
    <3>1. /\ UNCHANGED job /\ (Puts(END) \/ PutFails) /\ pc = "trailer" /\ pc' = "flush"
          /\ status' = 0 => status = 0 /\ UNCHANGED job_cancelled
      BY <2>9 DEF end_document, Goto, Error, Puts
    <3>2. BrokenPrintsNothing'
      BY <2>0, <3>1, MarksPrintNoPage
    <3> QED BY <2>0, <3>1, <3>2 DEF BrokenInv, BrokenStops, KnownBroken
  <2>10. CASE flush
    <3>1. /\ UNCHANGED job /\ pc = "flush" /\ pc' = "done"
          /\ status' = 0 => status = 0 /\ UNCHANGED job_cancelled
          /\ \/ UNCHANGED out
             \/ /\ job_cancelled'
                /\ \E n \in 0..(Len(out) - 1) : out' = Append(SubSeq(out, 1, n), TORN)
      BY <2>10 DEF flush, FlushBreaksOff, Goto, Error
    <3>2. CASE UNCHANGED out
      BY <2>0, <3>1, <3>2 DEF BrokenInv, BrokenStops, BrokenPrintsNothing, KnownBroken
    <3>3. ASSUME NEW n \in 0..(Len(out) - 1), job_cancelled',
                 out' = Append(SubSeq(out, 1, n), TORN)
          PROVE  BrokenPrintsNothing'
      <4>1. /\ Len(out') = n + 1 /\ out'[n + 1] = TORN /\ TORN.kind # "page"
            /\ \A k \in 1..n : out'[k] = out[k]
        BY <3>1, <3>3, CutOff, Kinds
      <4>2. \A k \in 1..Len(out') : k = n + 1 \/ (k \in 1..n /\ k \in 1..Len(out))
        BY <4>1, TypeParts
      <4> QED BY <2>0, <3>1, <4>1, <4>2 DEF BrokenPrintsNothing, KnownBroken
    <3> QED BY <2>0, <3>1, <3>2, <3>3 DEF BrokenInv, BrokenStops, KnownBroken
  <2>11. CASE on_cancel \/ BackendGoes \/ UNCHANGED vars
    <3>1. /\ UNCHANGED <<job, pc, status, out>>
          /\ job_cancelled => job_cancelled'
      BY <2>11 DEF on_cancel, BackendGoes, vars
    <3> QED BY <2>0, <3>1 DEF BrokenInv, BrokenStops, BrokenPrintsNothing, KnownBroken
  <2> QED BY <2>1, <2>2, <2>3, <2>4, <2>5, <2>6, <2>7, <2>8, <2>9, <2>10, <2>11
        DEF Next, Filter
<1> QED BY <1>1, <1>2, FilterInductive, PTL DEF Spec

-----------------------------------------------------------------------------
(* The filter's variables keep their types, for jobs of any length.          *)
THEOREM JobTypeCorrect == Spec => []JobTypeOK
<1>1. FilterInv => JobTypeOK
  BY DEF FilterInv
<1> QED BY <1>1, FilterInductive, PTL

(* Until a write is cut short or the document is closed, the printer has     *)
(* seen a beginning of the right stream of the whole pages, and a manual     *)
(* duplex job that the filter knows to be broken prints no page: for any     *)
(* number of pages and copies, however spool, memory, backend or stream fail *)
(* and whenever a cancel comes.  A stream that ends in a header or below the *)
(* page buffer is not known to be broken: the pages before it are printed.   *)
THEOREM StreamIsPrefixHolds == Spec => []StreamIsPrefix
<1>1. FilterInv /\ BrokenInv => StreamIsPrefix
  BY DEF FilterInv, BrokenInv, StreamIsPrefix
<1> QED BY <1>1, FilterInductive, BrokenInductive, PTL

(* Success that no cancel explains means that all of the stream of the whole *)
(* pages was written, and that no header was refused and no row missing from *)
(* a page buffer.                                                            *)
THEOREM JobWholeHolds == Spec => []JobWhole
<1>1. FilterInv /\ BrokenInv => JobWhole
  BY DEF FilterInv, Ended, BrokenInv, BrokenStops, JobWhole
<1> QED BY <1>1, FilterInductive, BrokenInductive, PTL

(* A document that was begun is closed.                                      *)
THEOREM DocClosedHolds == Spec => []DocClosed
<1>1. FilterInv => DocClosed
  BY DEF FilterInv, Ended, DocClosed
<1> QED BY <1>1, FilterInductive, PTL

(* Every back that comes out after the pause is the back of its front, for   *)
(* any number of sheets and wherever the replay breaks off.                  *)
THEOREM SheetsPairedHolds == Spec => []SheetsPaired
<1>1. FilterInv => SheetsPaired
  <2> SUFFICES ASSUME FilterInv, NEW p \in 1..Len(out), out[p] = PAUSE,
                      NEW j \in 1..(Len(out) - p), out[p + j].kind = "page"
               PROVE  /\ p - j \in 1..Len(out) /\ out[p - j].kind = "page"
                      /\ out[p + j] = Face(out[p - j].page + 1, out[p - j].copies)
    BY DEF SheetsPaired
  <2>0. PrintedIsPrefix /\ FacesWhole
    BY DEF FilterInv, Turned
  <2>1. p + j \in 1..Len(out) /\ p \in 1..(p + j) /\ p \in Nat /\ j \in Nat /\ j >= 1
        /\ p >= 1
    <3>1. Len(out) \in Nat
      BY TypeParts
    <3>2. p \in Nat /\ p >= 1
      BY ONLY <3>1, p \in 1..Len(out)
    <3>3. j \in Nat /\ j >= 1 /\ p + j <= Len(out)
      BY ONLY <3>1, <3>2, j \in 1..(Len(out) - p)
    <3> QED BY ONLY <3>1, <3>2, <3>3
  <2>2. Good(p + j)
    BY <2>0, <2>1 DEF FacesWhole
  <2>3. \A k \in 1..(p + j) : k <= Len(Stream) /\ out[k] = Stream[k]
    <3> SUFFICES ASSUME NEW k \in 1..(p + j)
                 PROVE  k <= Len(Stream) /\ out[k] = Stream[k]
      OBVIOUS
    <3>1. k \in 1..Len(out) /\ 1..k \subseteq 1..(p + j)
      BY <2>1, TypeParts
    <3> QED BY <2>0, <2>2, <3>1 DEF PrintedIsPrefix, Good
  <2>4. Stream[p] = PAUSE /\ p + j <= Len(Stream) /\ p <= Len(Stream)
        /\ out[p + j] = Stream[p + j]
    <3>1. p + j \in 1..(p + j)
      BY <2>1
    <3> QED BY <2>1, <2>3, <3>1
  (* The pause is where the protocol has it. *)
  <2>5. job.duplex /\ p = Sheets + 2
    <3>1. ASSUME ~job.duplex PROVE FALSE
      <4>1. p = 1 \/ p = N + 2 \/ (p - 1 \in 1..N /\ p = 1 + (p - 1))
        <5>1. N \in Nat /\ p <= N + 2
          BY <2>4, <3>1, Sizes, OneSided
        <5> QED BY ONLY <2>1, <5>1
      <4>2. Stream[1] # PAUSE /\ Stream[N + 2] # PAUSE
        BY <3>1, OneSided, Kinds
      <4>3. ASSUME NEW x \in 1..N PROVE Stream[1 + x] # PAUSE
        <5>1. x \in Nat /\ job.copies \in Nat
          BY TypeParts
        <5>2. Stream[1 + x] = Face(x, job.copies)
          BY <3>1, PageAt
        <5>3. Face(x, job.copies) # PAUSE
          BY <5>1, Faces
        <5> QED BY ONLY <5>2, <5>3
      <4> QED BY <2>4, <4>1, <4>2, <4>3
    <3>2. job.duplex
      BY <3>1
    <3>3. \/ p = 1 \/ p = Sheets + 2 \/ p = 2 * Sheets + 3
          \/ p - 1 \in 1..Sheets /\ p = 1 + (p - 1)
          \/ p - (Sheets + 2) \in 1..Sheets /\ p = Sheets + 2 + (p - (Sheets + 2))
      <4>1. Sheets \in Nat /\ p <= 2 * Sheets + 3
        BY <2>4, <3>2, Sizes, TwoSided
      <4> QED BY ONLY <2>1, <4>1
    <3>4. Stream[1] # PAUSE /\ Stream[2 * Sheets + 3] # PAUSE
      BY <3>2, TwoSided, Kinds
    <3>5. ASSUME NEW x \in 1..Sheets
          PROVE  Stream[1 + x] # PAUSE /\ Stream[Sheets + 2 + x] # PAUSE
      <4>1. 2 * x - 1 \in Nat /\ 2 * (Sheets + 1 - x) \in Nat
        BY Sizes
      <4>2. /\ Stream[1 + x] = Face(2 * x - 1, job.copies)
            /\ Stream[Sheets + 2 + x] = Face(2 * (Sheets + 1 - x), job.copies)
        BY <3>2, FrontAt, BackAt
      <4>3. job.copies \in Nat
        BY Sizes
      <4>4. Face(2 * x - 1, job.copies) # PAUSE
        BY <4>1, <4>3, Faces
      <4>5. Face(2 * (Sheets + 1 - x), job.copies) # PAUSE
        BY <4>1, <4>3, Faces
      <4> QED BY ONLY <4>2, <4>4, <4>5
    <3> QED BY <2>4, <3>2, <3>3, <3>4, <3>5
  <2>6. j <= Sheets
    <3>1. Len(Stream) = 2 * Sheets + 3 /\ Stream[2 * Sheets + 3] = END
      BY <2>5, TwoSided
    <3>2. END.kind # "page"
      BY Kinds
    <3>3. p + j # 2 * Sheets + 3
      BY <2>4, <3>1, <3>2
    <3>4. Sheets \in Nat /\ Sheets + 2 + j <= 2 * Sheets + 3
          /\ Sheets + 2 + j # 2 * Sheets + 3
      BY <2>4, <2>5, <3>1, <3>3, TypeParts
    <3> QED BY <2>1, <3>4
  <2> DEFINE x == Sheets + 1 - j
  <2>7. x \in 1..Sheets /\ p - j = 1 + x /\ p - j \in 1..(p + j) /\ p - j \in 1..Len(out)
        /\ j \in 1..Sheets /\ p + j = Sheets + 2 + j /\ 2 * (Sheets + 1 - j) = 2 * x
        /\ 2 * x - 1 \in Nat /\ 2 * x \in Nat /\ 2 * x - 1 + 1 = 2 * x
    <3>1. Sheets \in Nat /\ p = Sheets + 2 /\ Len(out) \in Nat /\ p + j <= Len(out)
      BY <2>1, <2>5, TypeParts
    <3> QED BY <2>1, <2>6, <3>1
  <2> HIDE DEF x
  <2>8. out[p - j] = Face(2 * x - 1, job.copies)
    BY <2>3, <2>5, <2>7, FrontAt
  <2>9. out[p + j] = Face(2 * x, job.copies)
    <3>1. Stream[Sheets + 2 + j] = Face(2 * (Sheets + 1 - j), job.copies)
      BY <2>5, <2>7, BackAt
    <3> QED BY <2>4, <2>7, <3>1
  <2>10. job.copies \in Nat
    BY TypeParts
  <2>11. /\ out[p - j].kind = "page" /\ out[p - j].page = 2 * x - 1
         /\ out[p - j].copies = job.copies
    <3>1. 2 * x - 1 \in Nat
      BY <2>7
    <3> QED BY <2>8, <2>10, <3>1, Faces
  <2> QED BY <2>7, <2>9, <2>11
<1> QED BY <1>1, FilterInductive, PTL
===============================================================================
