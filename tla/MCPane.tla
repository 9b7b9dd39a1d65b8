--------------------------------- MODULE MCPane ---------------------------------
(***************************************************************************)
(* Hosts enough to step between sessions both ways, or two panes and one   *)
(* host, so that what is left of a closed pane runs beside its successor.  *)
(***************************************************************************)
EXTENDS Pane
================================================================================
