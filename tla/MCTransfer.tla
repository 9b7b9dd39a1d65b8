------------------------------ MODULE MCTransfer ------------------------------
(***************************************************************************)
(* Instances of Transfer for TLC.                                          *)
(***************************************************************************)
EXTENDS Transfer, TLC

CONSTANTS c1, c2, f1, f2, l1, d1, s1, s2

\* A directory with a link in it going up, then one file coming down.
TreeAndFile == (c1 :> <<f1, l1>>) @@ (c2 :> <<f2>>)
IntoTree    == (c1 :> d1) @@ (c2 :> Nil)

\* Two files of one name, picked in two directories.
SameName == [c \in {c1, c2} |-> <<f1>>]
NoDirs   == [c \in {c1, c2} |-> Nil]

=============================================================================
