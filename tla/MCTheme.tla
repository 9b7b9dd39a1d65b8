---------------------------------- MODULE MCTheme ----------------------------------
(* One window, one palette built in, Omarchy with two themes of its own. *)
EXTENDS Theme
===================================================================================
