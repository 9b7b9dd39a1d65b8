----------------------------- MODULE MCCredential -----------------------------
(***************************************************************************)
(* Two windows, each as good as the other, and a credential: no action     *)
(* touches two of them.                                                    *)
(***************************************************************************)
EXTENDS Credential, TLC

Alike == Permutations(Window)
===============================================================================
