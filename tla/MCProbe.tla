------------------------------- MODULE MCProbe -------------------------------
(***************************************************************************)
(* Hosts of every kind: one dialled, two behind one bastion recorded twice *)
(* as different hosts, one known only by a ProxyCommand, one no address.   *)
(***************************************************************************)
EXTENDS Probe

MCHost == {"direct", "inner1", "inner2", "command", "blank"}
MCGroups == {{"direct", "inner1", "inner2"}, {"command", "blank"}}
MCDialled == {"direct", "blank"}
MCAddressed == MCHost \ {"blank"}
MCJump == [h \in MCHost |-> CASE h = "inner1" -> "bastion" [] h = "inner2" -> "bastion by name" [] OTHER -> Nil]
MCPorts == [h \in MCHost |-> CASE h = "direct" -> {"open", "closed"} [] h = "inner2" -> {"closed"} [] OTHER -> {"open"}]
MCMachine == [j \in {"bastion", "bastion by name"} |-> "edge:22"]
==============================================================================
