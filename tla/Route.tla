------------------------------- MODULE Route --------------------------------
(***************************************************************************)
(* The command lines omassh hands to ssh: internal/sshx.  Every connection *)
(* is one ssh for the host and one more, nested in its ProxyCommand, for   *)
(* each jump host of the list in front of it, and all of them are made     *)
(* here: sessions, sftp, snippet runs, forwards and the probe of a host    *)
(* behind a jump host.                                                     *)
(*                                                                         *)
(* Nothing here changes: these are functions of a host as it is resolved.  *)
(* A host and its jump hosts are one sequence, the host first, so that     *)
(* chain[i + 1] is the Jump of chain[i].                                   *)
(***************************************************************************)
EXTENDS Naturals, Sequences

CONSTANTS Text,     \* addresses, users, keys, ids and names; "" is none given
          Seconds   \* how long a probe waits for its hop

\* A hop written as a destination, and a host as it is resolved, by itself; `via' is a
\* ProxyJump that no host is named by.
Destination == [addr : Text, port : 0..65535, user : Text]
Resolved == [addr : Text, port : 0..65535, user : Text, identity : Text, alias : Text,
             password : BOOLEAN, via : Seq(Destination)]
Chain == Seq(Resolved) \ {<<>>}

Opt(k, v) == [key |-> k, value |-> v]
Flag(there, o) == IF there THEN <<o>> ELSE <<>>

\* What connections there are, and those nobody is in front of.
Watched    == {"session", "pane"}
Unwatched  == {"sftp", "run", "forward", "probe"}
Connection == Watched \cup Unwatched

-----------------------------------------------------------------------------
(* Settings no -o of the user's may override.                              *)

\* BatchMode refuses the helper too, so a password is asked for once instead.
Unattended(h) ==
    IF h.password THEN <<Opt("BatchMode", "no"), Opt("NumberOfPasswordPrompts", 1)>>
                  ELSE <<Opt("BatchMode", "yes")>>

Fixed(what, h) ==
    CASE what \in Watched   -> <<>>
      [] what = "sftp"      -> Unattended(h)
      [] what = "run"       -> Unattended(h) \o <<Opt("RequestTTY", "no")>>
      [] what = "forward"   -> Unattended(h) \o <<Opt("ExitOnForwardFailure", "yes")>>
      [] what = "probe"     -> Unattended(h) \o <<Opt("ConnectTimeout", Seconds)>>

-----------------------------------------------------------------------------
(* One ssh, and the ones nested in it.                                     *)

Port(h) == IF h.port = 0 THEN 22 ELSE h.port
ForwardTarget(h) == [addr |-> h.addr, port |-> Port(h)]

\* The route to chain[i]: through the next of the list, or as ProxyJump says.
Jump(chain, i) ==
    IF i < Len(chain) THEN <<Opt("ProxyCommand", i + 1)>>
    ELSE Flag(chain[i].via # <<>>, Opt("ProxyJump", chain[i].via))

\* What is known of the machine, and what this ssh is for.
Known(chain, i, extra) ==
    LET h == chain[i] IN
    Flag(h.port \notin {0, 22}, Opt("Port", h.port)) \o Flag(h.identity # "", Opt("IdentityFile", h.identity))
    \o Jump(chain, i) \o extra \o Flag(h.alias \notin {"", h.addr}, Opt("HostName", h.addr))

Preferred(h) == Flag(h.password, Opt("PreferredAuthentications", "password"))

\* The order is the point: ssh keeps the first value it is given of a setting.
BuildWith(fixed, globals, chain, i, extra) ==
    [args |-> (fixed \o Preferred(chain[i])) \o (globals \o Known(chain, i, extra)),
     dest |-> [user |-> chain[i].user,
               name |-> IF chain[i].alias = "" THEN chain[i].addr ELSE chain[i].alias]]

\* The -W of a hop: the machine before it, written out for it to dial.
Carries(chain, i) == <<Opt("-W", ForwardTarget(chain[i - 1]))>>

\* Every ssh of a connection: its own, and those of the jump hosts behind it,
\* who are handed the same fixed settings.  `own' is what only the first needs.
Connect(what, globals, chain, own) ==
    [i \in DOMAIN chain |->
        BuildWith(Fixed(what, chain[1]), globals, chain, i,
                  IF i = 1 THEN own ELSE Carries(chain, i))]

\* A hop written as a destination, the rest of its chain still in front of it.
HopOf(via) ==
    [addr |-> via[Len(via)].addr, port |-> via[Len(via)].port, user |-> via[Len(via)].user,
     identity |-> "", alias |-> "", password |-> FALSE, via |-> SubSeq(via, 1, Len(via) - 1)]

\* The machine a probe of chain[1] goes through, with those behind it; none for
\* a host that is dialled.  `config' is the ProxyJump of ssh's own config.
Hop(chain, config) ==
    IF Len(chain) > 1 THEN Tail(chain)
    ELSE IF chain[1].via # <<>> THEN <<HopOf(chain[1].via)>>
    ELSE IF config # <<>> THEN <<HopOf(config)>> ELSE <<>>

\* The probe asks the hop for the machine, as the ssh of a connection would.
ProbeThrough(globals, chain, config) ==
    Connect("probe", globals, Hop(chain, config), <<Opt("-W", ForwardTarget(chain[1]))>>)

-----------------------------------------------------------------------------
(* ssh, and the helper it asks.                                            *)

\* ssh takes the first value it is given of a setting; of the two ways of giving
\* it a route, the first of either.
First(args, keys, o) ==
    \E i \in DOMAIN args : args[i] = o /\ \A j \in 1..(i - 1) : args[j].key \notin keys
Takes(args, k, v) == First(args, {k}, Opt(k, v))
TakesRoute(args, o) == First(args, {"ProxyCommand", "ProxyJump"}, o)

\* The environment: whether the helper is there to be asked, and whether it may
\* put a question to somebody.  `self' is whether omassh knows where it is.
Env(what, h, self) == [helper |-> h.password /\ self, attended |-> what \in Watched]

\* Who answers a prompt of an ssh.
Prompts == {"password", "question"}
AnsweredBy(args, env, prompt) ==
    IF Takes(args, "BatchMode", "yes") THEN "nobody"
    ELSE IF ~ env.helper THEN "person"
    ELSE IF prompt = "password" THEN "keychain"
    ELSE IF env.attended THEN "person" ELSE "no"
=============================================================================
