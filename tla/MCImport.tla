--------------------------------- MODULE MCImport ---------------------------------
(* Two machines alike, and two users. *)
EXTENDS Import, TLC

CONSTANTS laptop, desktop, u1, u2
Alike == Permutations({laptop, desktop}) \cup Permutations({u1, u2})
===================================================================================
