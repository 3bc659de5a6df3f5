---------------------------- MODULE ScanSessionMC ----------------------------
EXTENDS SessionContract

(* In order, a gap, a repeat, a run past the end of the page. *)
BlocksMC == {<<0, 1>>, <<1, 1>>, <<1, 2>>}
=============================================================================
