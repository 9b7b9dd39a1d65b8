-------------------------------- MODULE MCTyping --------------------------------
(***************************************************************************)
(* One session, with and without tmux, and a view two lines back at most.  *)
(***************************************************************************)
EXTENDS Typing
================================================================================
