------------------------------- MODULE MCTunnel -------------------------------
(***************************************************************************)
(* Instances of Tunnel for TLC.                                            *)
(***************************************************************************)
EXTENDS Tunnel

CONSTANTS w1, w2, r1, r2, prod, staging, p1

\* Every rule listens on the one port.
OnePort == [r \in {r1, r2} |-> p1]

=============================================================================
