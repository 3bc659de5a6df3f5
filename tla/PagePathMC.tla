------------------------------ MODULE PagePathMC ------------------------------
(* A small page, a small torus and the blocks a device may send for it.      *)
EXTENDS PagePath

GaussMC == [d \in 0..2 |-> CASE d = 0 -> 10 [] d = 1 -> 6 [] OTHER -> 4]
SeedsMC == {{0, 1, 2, 3}, {0, 2, 8, 10}, {3, 7, 8, 14}}

SizesMC == {<<3, 2>>, <<5, 4>>}

Header(first, rows, planes, pixels, body) ==
  [first |-> first, rows |-> rows, planes |-> planes, pixels |-> pixels,
   body |-> body, jpeg |-> FALSE]

HeadersMC ==
  {[Header(0, 1, 1, 5, 5) EXCEPT !.jpeg = TRUE], Header(0, 0, 1, 5, 5),
   Header(0, 2, 3, 5, 5), Header(0, 3, 2, 5, 30),
   Header(0, 1, 1, 9, 6), Header(0, 3, 1, 2, 19), Header(2, 1, 1, 9, 6),
   Header(1, 3, 1, 9, 13), Header(7, 3, 1, 9, 19),
   Header(0, 1, 3, 5, 14), Header(2, 3, 3, 5, 45), Header(7, 3, 3, 5, 28)}
=============================================================================
