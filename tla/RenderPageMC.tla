----------------------------- MODULE RenderPageMC -----------------------------
(* A paper table of two sizes and rasters that are smaller and larger than   *)
(* the page they are printed on.                                             *)
EXTENDS RenderPage

PapersMC == [s \in {"A5", "A4"} |-> IF s = "A5" THEN [x |-> 4, y |-> 8]
                                    ELSE [x |-> 8, y |-> 4]]

HeadersMC ==
  {[size |-> size, width |-> width, height |-> height, bytes |-> bytes] :
     size \in {"A5", "A4", "A5 turned", "custom"},
     width \in {3, 9}, height \in {3, 9}, bytes \in {9, 10}}
  \cup {[size |-> "custom", width |-> 63, height |-> 2, bytes |-> 63],
        [size |-> "custom", width |-> 0, height |-> 2, bytes |-> 0]}

JobsMC ==
  [opt : [dpi1200 : BOOLEAN, rotate180 : BOOLEAN, duplex : {TRUE}],
   pages : {<<h>> : h \in HeadersMC}]
  \cup [opt : [dpi1200 : {FALSE}, rotate180 : BOOLEAN, duplex : {FALSE}],
        pages : {<<h, g>> : h, g \in {f \in HeadersMC : f.bytes = 9}}]
  \cup [opt : [dpi1200 : {FALSE}, rotate180 : {FALSE}, duplex : {TRUE}],
        pages : {<<h, h>> : h \in {f \in HeadersMC : f.bytes = 9 /\ f.height = 9}}]
===============================================================================
