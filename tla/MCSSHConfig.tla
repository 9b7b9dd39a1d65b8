------------------------------- MODULE MCSSHConfig -------------------------------
(* A bastion, a machine behind it and one behind that; two spellings; a file that *)
(* names one of them, covers all, or lets one out of a route that covers all.     *)
EXTENDS SSHConfig

web == <<"web", "">>
Web == <<"web", "W">>
db  == <<"db", "">>
bad == <<"edge", "">>
edge == <<"ops@edge", "">>

Host(on, not, sets) == [kind |-> "host", on |-> on, not |-> not, sets |-> sets]
MCItems ==
    {Host({Star}, {}, [Unset EXCEPT !["User"] = "all", !["IdentityFile"] = "shared", !["Port"] = 2200]),
     Host({Star}, {web}, [Unset EXCEPT !["ProxyJump"] = edge]),
     Host({web}, {}, [Unset EXCEPT !["HostName"] = <<"elsewhere", "">>, !["IdentityFile"] = "own"]),
     Host({db}, {}, [Unset EXCEPT !["ProxyCommand"] = NoRoute]),
     [kind |-> "opaque", on |-> {}, not |-> {}, sets |-> [Unset EXCEPT !["IdentityFile"] = "agent", !["ProxyJump"] = web]],
     [kind |-> "match", on |-> {db}, not |-> {}, sets |-> [Unset EXCEPT !["HostName"] = <<"moved", "">>]]}
MCIncluded == <<Host({db}, {}, [Unset EXCEPT !["User"] = "included"])>>
\* One that sends a host through a jump host.
MCRouted == <<Host({web}, {}, [Unset EXCEPT !["ProxyJump"] = edge])>>
\* Settings under no Host line, and an Include.
MCLoose == MCItems \cup {[kind |-> "include"], [kind |-> "bare", sets |-> [Unset EXCEPT !["User"] = "mine"]]}
\* Nothing but an Include, and a line.
MCIncluding == {[kind |-> "include"], Host({web}, {}, [Unset EXCEPT !["User"] = "mine"])}
MCHosts ==
    {[name |-> web, addr |-> <<"10.0.0.1", "">>, port |-> None, user |-> "me", key |-> "k", jump |-> None],
     [name |-> web, addr |-> <<"10.0.0.1", "">>, port |-> 2222, user |-> None, key |-> None, jump |-> bad],
     [name |-> Web, addr |-> <<"10.0.0.1", "">>, port |-> None, user |-> None, key |-> None, jump |-> edge],
     [name |-> db, addr |-> <<"10.0.0.2", "">>, port |-> 22, user |-> None, key |-> None, jump |-> web],
     [name |-> bad, addr |-> <<"10.0.0.3", "">>, port |-> None, user |-> None, key |-> None, jump |-> None]}
MCUnusable == {bad}
===================================================================================
