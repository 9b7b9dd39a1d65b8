----------------------------- MODULE PaneProofs ------------------------------
(***************************************************************************)
(* A session, and the command line it is opened with.  The first part is   *)
(* about every command line of Route, for any host, any jump hosts behind  *)
(* it and any -o settings given to omassh; the second about the pane, for  *)
(* any list of hosts and however many panes; the third about what is typed *)
(* and scrolled in it, for a history of any length.                        *)
(***************************************************************************)
EXTENDS Pane, Route, Typing, FiniteSetTheorems, SequenceTheorems, TLAPS

-----------------------------------------------------------------------------
(* Sequences of settings.                                                  *)

IsArgs(a) == \E S : a \in Seq(S)
Lacks(a, opts) == \A i \in DOMAIN a : a[i].key \notin opts

\* What comes first is taken, whatever is put behind it.
LEMMA FirstIsTaken ==
    ASSUME NEW a, NEW b, IsArgs(a), IsArgs(b), NEW opts, NEW o, First(a, opts, o)
    PROVE  First(a \o b, opts, o)
<1>1. PICK S : a \in Seq(S)
  BY DEF IsArgs
<1>2. PICK T : b \in Seq(T)
  BY DEF IsArgs
<1> QED BY <1>1, <1>2 DEF First

\* What is taken behind settings of other keys is taken with them in front.
LEMMA OthersAreNot ==
    ASSUME NEW a, NEW b, IsArgs(a), IsArgs(b), NEW opts, NEW o, First(b, opts, o), Lacks(a, opts)
    PROVE  First(a \o b, opts, o)
<1>1. PICK S : a \in Seq(S)
  BY DEF IsArgs
<1>2. PICK T : b \in Seq(T)
  BY DEF IsArgs
<1>3. PICK i \in DOMAIN b : b[i] = o /\ \A j \in 1..(i - 1) : b[j].key \notin opts
  BY DEF First
<1>4. (a \o b)[Len(a) + i] = o /\ Len(a) + i \in DOMAIN (a \o b)
  BY <1>1, <1>2, <1>3
<1>5. ASSUME NEW j \in 1..((Len(a) + i) - 1) PROVE (a \o b)[j].key \notin opts
  <2>1. CASE j <= Len(a)
    BY <2>1, <1>1, <1>2 DEF Lacks
  <2>2. CASE j > Len(a)
    <3>1. j - Len(a) \in 1..(i - 1) /\ (a \o b)[j] = b[j - Len(a)]
      BY <2>2, <1>1, <1>2, <1>3
    <3> QED BY <3>1, <1>3
  <2> QED BY <2>1, <2>2, <1>1, <1>2
<1> QED BY <1>4, <1>5 DEF First

\* Settings put one behind the other are settings, of the keys of both.
LEMMA Together ==
    ASSUME NEW a, NEW b, IsArgs(a), IsArgs(b)
    PROVE  /\ IsArgs(a \o b)
           /\ \A opts : Lacks(a, opts) /\ Lacks(b, opts) => Lacks(a \o b, opts)
<1>1. PICK S : a \in Seq(S)
  BY DEF IsArgs
<1>2. PICK T : b \in Seq(T)
  BY DEF IsArgs
<1>3. a \in Seq(S \cup T) /\ b \in Seq(S \cup T)
  BY <1>1, <1>2
<1>4. a \o b \in Seq(S \cup T)
  BY <1>3
<1> QED BY <1>1, <1>2, <1>4 DEF IsArgs, Lacks

\* A setting on its own, and one that is given or left out.
LEMMA One ==
    ASSUME NEW k, NEW v
    PROVE  /\ IsArgs(<<>>) /\ \A opts : Lacks(<<>>, opts)
           /\ IsArgs(<<Opt(k, v)>>)
           /\ \A opts : k \notin opts => Lacks(<<Opt(k, v)>>, opts)
           /\ \A opts : First(<<Opt(k, v)>>, opts, Opt(k, v))
<1>1. <<>> \in Seq({}) /\ <<Opt(k, v)>> \in Seq({Opt(k, v)})
  OBVIOUS
<1>2. IsArgs(<<>>) /\ IsArgs(<<Opt(k, v)>>)
  BY <1>1 DEF IsArgs
<1>3. DOMAIN <<>> = {} /\ DOMAIN <<Opt(k, v)>> = {1} /\ <<Opt(k, v)>>[1] = Opt(k, v) /\ 1..(1 - 1) = {}
  OBVIOUS
<1>4. Opt(k, v).key = k
  BY DEF Opt
<1>5. \A opts : Lacks(<<>>, opts) /\ (k \notin opts => Lacks(<<Opt(k, v)>>, opts))
  BY <1>3, <1>4 DEF Lacks
<1>6. \A opts : First(<<Opt(k, v)>>, opts, Opt(k, v))
  BY <1>3 DEF First
<1> QED BY <1>2, <1>5, <1>6

LEMMA FlagIsOne ==
    ASSUME NEW there \in BOOLEAN, NEW k, NEW v
    PROVE  /\ IsArgs(Flag(there, Opt(k, v)))
           /\ \A opts : k \notin opts => Lacks(Flag(there, Opt(k, v)), opts)
<1>1. CASE there
  BY <1>1, One DEF Flag
<1>2. CASE ~ there
  BY <1>2, One DEF Flag
<1> QED BY <1>1, <1>2

-----------------------------------------------------------------------------
(* The parts of a command line.                                            *)

RouteKeys == {"ProxyCommand", "ProxyJump", "-W"}

\* What is fixed are settings, none of them a route or an order of methods.
LEMMA FixedIsSettings ==
    ASSUME NEW what \in Connection, NEW h \in Resolved
    PROVE  /\ IsArgs(Fixed(what, h))
           /\ Lacks(Fixed(what, h), RouteKeys) /\ Lacks(Fixed(what, h), {"PreferredAuthentications"})
<1> DEFINE Fine(a) == IsArgs(a) /\ Lacks(a, RouteKeys) /\ Lacks(a, {"PreferredAuthentications"})
<1>1. Fine(<<>>) /\ \A k, v : k \notin RouteKeys \cup {"PreferredAuthentications"} => Fine(<<Opt(k, v)>>)
  BY One
<1>2. Fine(<<Opt("BatchMode", "no")>>) /\ Fine(<<Opt("NumberOfPasswordPrompts", 1)>>)
      /\ Fine(<<Opt("BatchMode", "yes")>>) /\ Fine(<<Opt("RequestTTY", "no")>>)
      /\ Fine(<<Opt("ExitOnForwardFailure", "yes")>>) /\ Fine(<<Opt("ConnectTimeout", Seconds)>>)
  BY <1>1 DEF RouteKeys
<1>3. ASSUME NEW a, NEW b, Fine(a), Fine(b) PROVE Fine(a \o b)
  BY <1>3, Together
<1> HIDE DEF Fine
<1>4. <<Opt("BatchMode", "no"), Opt("NumberOfPasswordPrompts", 1)>>
      = <<Opt("BatchMode", "no")>> \o <<Opt("NumberOfPasswordPrompts", 1)>>
  OBVIOUS
<1>5. Fine(Unattended(h))
  BY <1>2, <1>3, <1>4 DEF Unattended
<1>6. Fine(Fixed(what, h))
  <2>1. CASE what \in Watched
    BY <2>1, <1>1 DEF Fixed, Watched
  <2>2. CASE what = "sftp"
    BY <2>2, <1>5 DEF Fixed, Watched
  <2>3. CASE what = "run"
    BY <2>3, <1>2, <1>3, <1>5 DEF Fixed, Watched
  <2>4. CASE what = "forward"
    BY <2>4, <1>2, <1>3, <1>5 DEF Fixed, Watched
  <2>5. CASE what = "probe"
    BY <2>5, <1>2, <1>3, <1>5 DEF Fixed, Watched
  <2> QED BY <2>1, <2>2, <2>3, <2>4, <2>5 DEF Connection, Unwatched
<1> QED BY <1>6 DEF Fine

\* What is known of a machine are settings, as long as what it is for is.
LEMMA KnownIsArgs ==
    ASSUME NEW chain, NEW i, NEW extra, IsArgs(extra)
    PROVE  IsArgs(Known(chain, i, extra))
<1> DEFINE h == chain[i]
           A == Flag(h.port \notin {0, 22}, Opt("Port", h.port))
           B == Flag(h.identity # "", Opt("IdentityFile", h.identity))
           C == Flag(h.alias \notin {"", h.addr}, Opt("HostName", h.addr))
<1>1. IsArgs(A) /\ IsArgs(B) /\ IsArgs(C)
  BY FlagIsOne
<1>2. IsArgs(Jump(chain, i))
  BY One, FlagIsOne DEF Jump
<1> HIDE DEF A, B, C
<1>3. IsArgs(A \o B)
  BY <1>1, Together
<1>4. IsArgs((A \o B) \o Jump(chain, i))
  BY <1>2, <1>3, Together
<1>5. IsArgs(((A \o B) \o Jump(chain, i)) \o extra)
  BY <1>4, Together
<1>6. IsArgs((((A \o B) \o Jump(chain, i)) \o extra) \o C)
  BY <1>1, <1>5, Together
<1>7. Known(chain, i, extra) = (((A \o B) \o Jump(chain, i)) \o extra) \o C
  BY DEF Known, A, B, C
<1> QED BY <1>6, <1>7

\* What of a command line is not fixed, and comes after what the user gave.
Rest(chain, i, own) == Known(chain, i, IF i = 1 THEN own ELSE Carries(chain, i))

\* A host says whether it has a password.
LEMMA PasswordOrNot == \A h \in Resolved : h.password \in BOOLEAN
<1> SUFFICES ASSUME NEW h \in Resolved PROVE h.password \in BOOLEAN
  OBVIOUS
<1> QED BY Z3 DEF Resolved

\* How every ssh of a connection is put together, its own and those of the jump hosts.
LEMMA Parts ==
    ASSUME NEW what \in Connection, NEW globals, IsArgs(globals), NEW chain \in Chain,
           NEW own, IsArgs(own), NEW i \in DOMAIN chain
    PROVE  /\ IsArgs(Rest(chain, i, own)) /\ IsArgs(globals \o Rest(chain, i, own))
           /\ IsArgs(Fixed(what, chain[1])) /\ IsArgs(Preferred(chain[i]))
           /\ Connect(what, globals, chain, own)[i].args
                = (Fixed(what, chain[1]) \o Preferred(chain[i])) \o (globals \o Rest(chain, i, own))
<1> DEFINE extra == IF i = 1 THEN own ELSE Carries(chain, i)
<1>1. IsArgs(extra)
  BY One DEF Carries
<1>2. IsArgs(Rest(chain, i, own))
  BY <1>1, KnownIsArgs DEF Rest
<1>3. chain[1] \in Resolved /\ chain[i] \in Resolved
  BY DEF Chain
<1>4. chain[i].password \in BOOLEAN
  BY <1>3, PasswordOrNot
<1>5. IsArgs(Fixed(what, chain[1])) /\ IsArgs(Preferred(chain[i]))
  BY <1>3, <1>4, FixedIsSettings, FlagIsOne DEF Preferred
<1>6. IsArgs(globals \o Rest(chain, i, own))
  BY <1>2, Together
<1>7. Connect(what, globals, chain, own)[i].args
        = (Fixed(what, chain[1]) \o Preferred(chain[i])) \o (globals \o Rest(chain, i, own))
  BY DEF Connect, BuildWith, Rest
<1> QED BY <1>2, <1>5, <1>6, <1>7

\* What is fixed for the connection holds at every hop of it.
LEMMA FixedHolds ==
    ASSUME NEW what \in Connection, NEW globals, IsArgs(globals), NEW chain \in Chain,
           NEW own, IsArgs(own), NEW i \in DOMAIN chain,
           NEW k, NEW v, Takes(Fixed(what, chain[1]), k, v)
    PROVE  Takes(Connect(what, globals, chain, own)[i].args, k, v)
<1> DEFINE F == Fixed(what, chain[1])
           P == Preferred(chain[i])
           R == globals \o Rest(chain, i, own)
<1>1. /\ IsArgs(R) /\ IsArgs(F) /\ IsArgs(P)
      /\ Connect(what, globals, chain, own)[i].args = (F \o P) \o R
  BY Parts
<1>2. First(F, {k}, Opt(k, v))
  BY DEF Takes
<1> HIDE DEF F, P, R
<1>3. First(F \o P, {k}, Opt(k, v))
  BY <1>1, <1>2, FirstIsTaken
<1>4. IsArgs(F \o P)
  BY <1>1, Together
<1>5. First((F \o P) \o R, {k}, Opt(k, v))
  BY <1>1, <1>3, <1>4, FirstIsTaken
<1> QED BY <1>1, <1>5 DEF Takes

\* What an unattended connection is fixed to.
LEMMA UnattendedIsFixed ==
    ASSUME NEW what \in Unwatched, NEW h \in Resolved
    PROVE  /\ h.password => /\ Takes(Fixed(what, h), "BatchMode", "no")
                            /\ Takes(Fixed(what, h), "NumberOfPasswordPrompts", 1)
           /\ ~ h.password => Takes(Fixed(what, h), "BatchMode", "yes")
<1> DEFINE U == Unattended(h)
           Held(a) == /\ IsArgs(a)
                      /\ h.password => /\ First(a, {"BatchMode"}, Opt("BatchMode", "no"))
                                       /\ First(a, {"NumberOfPasswordPrompts"}, Opt("NumberOfPasswordPrompts", 1))
                      /\ ~ h.password => First(a, {"BatchMode"}, Opt("BatchMode", "yes"))
<1>1. Held(U)
  <2>1. CASE h.password
    <3> DEFINE A == <<Opt("BatchMode", "no")>>
               B == <<Opt("NumberOfPasswordPrompts", 1)>>
    <3>1. U = A \o B
      BY <2>1 DEF Unattended
    <3>2. /\ IsArgs(A) /\ IsArgs(B) /\ Lacks(A, {"NumberOfPasswordPrompts"})
          /\ First(A, {"BatchMode"}, Opt("BatchMode", "no"))
          /\ First(B, {"NumberOfPasswordPrompts"}, Opt("NumberOfPasswordPrompts", 1))
      <4>1. "BatchMode" \notin {"NumberOfPasswordPrompts"}
        OBVIOUS
      <4> QED BY <4>1, One
    <3> HIDE DEF A, B
    <3>3. First(A \o B, {"BatchMode"}, Opt("BatchMode", "no"))
      BY <3>2, FirstIsTaken
    <3>4. First(A \o B, {"NumberOfPasswordPrompts"}, Opt("NumberOfPasswordPrompts", 1))
      BY <3>2, OthersAreNot
    <3>5. IsArgs(A \o B)
      BY <3>2, Together
    <3> QED BY <2>1, <3>1, <3>3, <3>4, <3>5
  <2>2. CASE ~ h.password
    BY <2>2, One DEF Unattended
  <2> QED BY <2>1, <2>2
<1>2. ASSUME NEW k, NEW v PROVE Held(U \o <<Opt(k, v)>>)
  <2>1. IsArgs(<<Opt(k, v)>>)
    BY One
  <2>2. IsArgs(U \o <<Opt(k, v)>>)
    BY <1>1, <2>1, Together
  <2> HIDE DEF U
  <2>3. ASSUME NEW opts, NEW o, First(U, opts, o) PROVE First(U \o <<Opt(k, v)>>, opts, o)
    BY <1>1, <2>1, <2>3, FirstIsTaken
  <2> QED BY <1>1, <2>2, <2>3
<1> HIDE DEF Held
<1>3. Held(Fixed(what, h))
  <2>1. CASE what = "sftp"
    BY <2>1, <1>1 DEF Fixed, Watched
  <2>2. CASE what = "run"
    BY <2>2, <1>2 DEF Fixed, Watched
  <2>3. CASE what = "forward"
    BY <2>3, <1>2 DEF Fixed, Watched
  <2>4. CASE what = "probe"
    BY <2>4, <1>2 DEF Fixed, Watched
  <2> QED BY <2>1, <2>2, <2>3, <2>4 DEF Unwatched
<1> QED BY <1>3 DEF Held, Takes

\* A value taken is the only one of its key that is.
LEMMA TakenOnce ==
    ASSUME NEW a, IsArgs(a), NEW k, NEW v, NEW w, Takes(a, k, v), Takes(a, k, w)
    PROVE  v = w
<1>1. PICK S : a \in Seq(S)
  BY DEF IsArgs
<1>2. PICK i \in DOMAIN a : a[i] = Opt(k, v) /\ \A j \in 1..(i - 1) : a[j].key \notin {k}
  BY DEF Takes, First
<1>3. PICK j \in DOMAIN a : a[j] = Opt(k, w) /\ \A n \in 1..(j - 1) : a[n].key \notin {k}
  BY DEF Takes, First
<1>4. a[i].key = k /\ a[j].key = k /\ a[i].value = v /\ a[j].value = w
  BY <1>2, <1>3 DEF Opt
<1>5. i = j
  BY <1>1, <1>2, <1>3, <1>4
<1> QED BY <1>4, <1>5

\* The route of an ssh is the first it is given of either kind, and its -W the
\* first -W, as long as the user's -o settings are about something else.
LEMMA RouteIsTaken ==
    ASSUME NEW what \in Connection, NEW globals, IsArgs(globals), Lacks(globals, RouteKeys),
           NEW chain \in Chain, NEW own, IsArgs(own), NEW i \in DOMAIN chain
    PROVE  LET args == Connect(what, globals, chain, own)[i].args
               extra == IF i = 1 THEN own ELSE Carries(chain, i) IN
           /\ i < Len(chain) => TakesRoute(args, Opt("ProxyCommand", i + 1))
           /\ \A t : extra = <<Opt("-W", t)>> => Takes(args, "-W", t)
<1> DEFINE args == Connect(what, globals, chain, own)[i].args
           extra == IF i = 1 THEN own ELSE Carries(chain, i)
           h == chain[i]
           F == Fixed(what, chain[1])
           P == Preferred(h)
           A == Flag(h.port \notin {0, 22}, Opt("Port", h.port))
           B == Flag(h.identity # "", Opt("IdentityFile", h.identity))
           C == Flag(h.alias \notin {"", h.addr}, Opt("HostName", h.addr))
           J == Jump(chain, i)
           Plain(a) == IsArgs(a) /\ Lacks(a, RouteKeys)
<1>1. chain[1] \in Resolved /\ h \in Resolved
  BY DEF Chain
<1>2. h.password \in BOOLEAN
  BY <1>1, PasswordOrNot
<1>3. Plain(F) /\ Plain(globals)
  BY <1>1, FixedIsSettings
<1>4. Plain(P) /\ Plain(A) /\ Plain(B) /\ Plain(C)
  <2>1. ASSUME NEW there \in BOOLEAN, NEW k, NEW v, k \notin RouteKeys PROVE Plain(Flag(there, Opt(k, v)))
    BY <2>1, FlagIsOne
  <2>2. "PreferredAuthentications" \notin RouteKeys /\ "Port" \notin RouteKeys
        /\ "IdentityFile" \notin RouteKeys /\ "HostName" \notin RouteKeys
    BY DEF RouteKeys
  <2> HIDE DEF Plain, h
  <2> QED BY <1>2, <2>1, <2>2 DEF Preferred
<1>5. IsArgs(extra)
  BY One DEF Carries
<1>6. IsArgs(J)
  BY One, FlagIsOne DEF Jump
<1>7. Lacks(J, {"-W"})
  BY One, FlagIsOne DEF Jump
<1>8. args = (F \o P) \o (globals \o ((((A \o B) \o J) \o extra) \o C))
  BY DEF Connect, BuildWith, Known
<1>9. ASSUME NEW a, NEW b, Plain(a), Plain(b) PROVE Plain(a \o b)
  BY <1>9, Together
<1> HIDE DEF args, extra, F, P, A, B, C, J, h, Plain
<1>10. Plain(F \o P) /\ Plain(A \o B)
  BY <1>3, <1>4, <1>9
<1>11. IsArgs((A \o B) \o J) /\ IsArgs(((A \o B) \o J) \o extra)
       /\ IsArgs((((A \o B) \o J) \o extra) \o C)
       /\ IsArgs(globals \o ((((A \o B) \o J) \o extra) \o C))
  <2>1. IsArgs((A \o B) \o J)
    BY <1>6, <1>10, Together DEF Plain
  <2>2. IsArgs(((A \o B) \o J) \o extra)
    BY <2>1, <1>5, Together
  <2>3. IsArgs((((A \o B) \o J) \o extra) \o C)
    BY <2>2, <1>4, Together DEF Plain
  <2>4. IsArgs(globals \o ((((A \o B) \o J) \o extra) \o C))
    BY <2>3, <1>3, Together DEF Plain
  <2> QED BY <2>1, <2>2, <2>3, <2>4
\* Whatever is first of its keys in what is known is first in the whole.
<1>12. ASSUME NEW opts, NEW o, opts \subseteq RouteKeys,
              First((((A \o B) \o J) \o extra) \o C, opts, o)
       PROVE  First(args, opts, o)
  <2>1. Lacks(globals, opts) /\ Lacks(F \o P, opts)
    BY <1>3, <1>10, <1>12 DEF Lacks, Plain
  <2>2. First(globals \o ((((A \o B) \o J) \o extra) \o C), opts, o)
    BY <2>1, <1>3, <1>11, <1>12, OthersAreNot DEF Plain
  <2>3. First((F \o P) \o (globals \o ((((A \o B) \o J) \o extra) \o C)), opts, o)
    BY <2>1, <2>2, <1>10, <1>11, OthersAreNot DEF Plain
  <2> QED BY <2>3, <1>8
<1>13. ASSUME i < Len(chain) PROVE TakesRoute(args, Opt("ProxyCommand", i + 1))
  <2> DEFINE opts == {"ProxyCommand", "ProxyJump"}
             o == Opt("ProxyCommand", i + 1)
  <2>1. J = <<o>>
    BY <1>13 DEF J, Jump
  <2>2. First(J, opts, o)
    BY <2>1, One
  <2>3. Lacks(A \o B, opts)
    BY <1>10 DEF Plain, Lacks, RouteKeys
  <2> HIDE DEF opts, o
  <2>4. First((A \o B) \o J, opts, o)
    BY <2>2, <2>3, <1>6, <1>10, OthersAreNot DEF Plain
  <2>5. First(((A \o B) \o J) \o extra, opts, o)
    BY <2>4, <1>5, <1>11, FirstIsTaken
  <2>6. First((((A \o B) \o J) \o extra) \o C, opts, o)
    BY <2>5, <1>4, <1>11, FirstIsTaken DEF Plain
  <2>7. First(args, opts, o)
    BY <2>6, <1>12 DEF opts, RouteKeys
  <2> QED BY <2>7 DEF TakesRoute, opts, o
<1>14. ASSUME NEW t, extra = <<Opt("-W", t)>> PROVE Takes(args, "-W", t)
  <2> DEFINE opts == {"-W"}
             o == Opt("-W", t)
  <2>1. First(extra, opts, o)
    BY <1>14, One
  <2>2. Lacks(A \o B, opts)
    BY <1>10 DEF Plain, Lacks, RouteKeys
  <2>3. Lacks(J, opts)
    BY <1>7
  <2> HIDE DEF opts, o
  <2>4. Lacks((A \o B) \o J, opts)
    BY <2>2, <2>3, <1>6, <1>10, Together DEF Plain
  <2>5. First(((A \o B) \o J) \o extra, opts, o)
    BY <2>1, <2>4, <1>5, <1>11, OthersAreNot
  <2>6. First((((A \o B) \o J) \o extra) \o C, opts, o)
    BY <2>5, <1>4, <1>11, FirstIsTaken DEF Plain
  <2>7. First(args, opts, o)
    BY <2>6, <1>12 DEF opts, RouteKeys
  <2> QED BY <2>7 DEF Takes, opts, o
<1> QED BY <1>13, <1>14 DEF args, extra

-----------------------------------------------------------------------------
(* The theorems.                                                           *)

\* Nobody is in front of a copy, a forward, a snippet run or a probe, so none of
\* its ssh processes, at any hop, may put a question to the terminal omassh draws
\* on: a host without a password turns questions off, and one with a password has
\* them answered by the helper, whatever -o settings omassh was given.
THEOREM NobodyIsAsked ==
    ASSUME NEW what \in Unwatched, NEW globals, IsArgs(globals), NEW chain \in Chain,
           NEW own, IsArgs(own), NEW i \in DOMAIN chain, NEW prompt \in Prompts
    PROVE  AnsweredBy(Connect(what, globals, chain, own)[i].args,
                      Env(what, chain[1], TRUE), prompt) # "person"
<1> DEFINE args == Connect(what, globals, chain, own)[i].args
<1> SUFFICES AnsweredBy(args, Env(what, chain[1], TRUE), prompt) # "person"
  OBVIOUS
<1>1. chain[1] \in Resolved /\ what \in Connection /\ what \notin Watched
  BY DEF Chain, Connection, Watched, Unwatched
<1>2. CASE ~ chain[1].password
  <2>1. Takes(args, "BatchMode", "yes")
    BY <1>1, <1>2, UnattendedIsFixed, FixedHolds
  <2> HIDE DEF args
  <2> QED BY <2>1 DEF AnsweredBy
<1>3. CASE chain[1].password
  <2>1. Env(what, chain[1], TRUE).helper /\ ~ Env(what, chain[1], TRUE).attended
    BY <1>1, <1>3 DEF Env
  <2> HIDE DEF args
  <2> QED BY <2>1 DEF AnsweredBy, Prompts
<1>4. chain[1].password \in BOOLEAN
  BY <1>1, PasswordOrNot
<1> QED BY <1>2, <1>3, <1>4

\* A saved password is given, and given once: at every hop of an unattended
\* connection to a host that has one, the password prompt is answered from the
\* keychain and a second one is not put, so a wrong password cannot loop.
THEOREM PasswordIsGivenOnce ==
    ASSUME NEW what \in Unwatched, NEW globals, IsArgs(globals), NEW chain \in Chain,
           NEW own, IsArgs(own), NEW i \in DOMAIN chain, chain[1].password
    PROVE  /\ AnsweredBy(Connect(what, globals, chain, own)[i].args,
                         Env(what, chain[1], TRUE), "password") = "keychain"
           /\ Takes(Connect(what, globals, chain, own)[i].args, "NumberOfPasswordPrompts", 1)
<1> DEFINE args == Connect(what, globals, chain, own)[i].args
<1>1. chain[1] \in Resolved /\ what \in Connection
  BY DEF Chain, Connection
<1>2. Takes(args, "BatchMode", "no") /\ Takes(args, "NumberOfPasswordPrompts", 1)
  BY <1>1, UnattendedIsFixed, FixedHolds
<1>3. IsArgs(args)
  <2>1. /\ IsArgs(globals \o Rest(chain, i, own)) /\ IsArgs(Fixed(what, chain[1])) /\ IsArgs(Preferred(chain[i]))
        /\ args = (Fixed(what, chain[1]) \o Preferred(chain[i])) \o (globals \o Rest(chain, i, own))
    BY <1>1, Parts
  <2>2. IsArgs(Fixed(what, chain[1]) \o Preferred(chain[i]))
    BY <2>1, Together
  <2> HIDE DEF args
  <2> QED BY <2>1, <2>2, Together
<1> HIDE DEF args
<1>4. ~ Takes(args, "BatchMode", "yes")
  BY <1>2, <1>3, TakenOnce
<1>5. Env(what, chain[1], TRUE).helper
  BY DEF Env
<1>6. AnsweredBy(args, Env(what, chain[1], TRUE), "password") = "keychain"
  BY <1>4, <1>5 DEF AnsweredBy
<1> QED BY <1>2, <1>6 DEF args

\* A password is tried before any key, at every hop and in every connection to a
\* host that has one: a server gives up after a few keys it does not know, and no
\* -o setting of the user's may put the keys first again.
THEOREM PasswordGoesFirst ==
    ASSUME NEW what \in Connection, NEW globals, IsArgs(globals), NEW chain \in Chain,
           NEW own, IsArgs(own), NEW i \in DOMAIN chain, chain[i].password
    PROVE  Takes(Connect(what, globals, chain, own)[i].args, "PreferredAuthentications", "password")
<1> DEFINE F == Fixed(what, chain[1])
           P == Preferred(chain[i])
           R == globals \o Rest(chain, i, own)
           k == "PreferredAuthentications"
           o == Opt(k, "password")
<1>1. /\ IsArgs(F) /\ IsArgs(P) /\ IsArgs(R)
      /\ Connect(what, globals, chain, own)[i].args = (F \o P) \o R
  BY Parts
<1>2. Lacks(F, {k})
  BY FixedIsSettings DEF Chain
<1>3. First(P, {k}, o)
  BY One DEF Preferred, Flag
<1> HIDE DEF F, P, R, k, o
<1>4. First(F \o P, {k}, o)
  BY <1>1, <1>2, <1>3, OthersAreNot
<1>5. IsArgs(F \o P)
  BY <1>1, Together
<1>6. First((F \o P) \o R, {k}, o)
  BY <1>1, <1>4, <1>5, FirstIsTaken
<1> QED BY <1>1, <1>6 DEF Takes, k, o

\* A connection goes through the jump hosts of the list, every one and in their
\* order: each ssh is given the next one as its way and no other, and that one is
\* told to dial the machine it is the way to.
THEOREM RouteIsTheChain ==
    ASSUME NEW what \in Connection, NEW globals, IsArgs(globals), Lacks(globals, RouteKeys),
           NEW chain \in Chain, NEW own, IsArgs(own), NEW i \in DOMAIN chain, i < Len(chain)
    PROVE  /\ TakesRoute(Connect(what, globals, chain, own)[i].args, Opt("ProxyCommand", i + 1))
           /\ Takes(Connect(what, globals, chain, own)[i + 1].args, "-W", ForwardTarget(chain[i]))
<1>1. i + 1 \in DOMAIN chain /\ i + 1 # 1 /\ (i + 1) - 1 = i
  BY DEF Chain
<1>2. (IF i + 1 = 1 THEN own ELSE Carries(chain, i + 1)) = <<Opt("-W", ForwardTarget(chain[i]))>>
  BY <1>1 DEF Carries
<1> QED BY <1>1, <1>2, RouteIsTaken

\* The probe of a host behind jump hosts asks the way a connection would go: the
\* same machines in the same order, each dialling the same one.
THEOREM ProbeGoesTheSameWay ==
    ASSUME NEW what \in Connection, NEW globals, IsArgs(globals), Lacks(globals, RouteKeys),
           NEW chain \in Chain, NEW own, IsArgs(own), NEW config, NEW i \in 1..(Len(chain) - 1)
    PROVE  LET probe == ProbeThrough(globals, chain, config)[i]
               gone == Connect(what, globals, chain, own)[i + 1] IN
           /\ probe.dest = gone.dest
           /\ Takes(probe.args, "-W", ForwardTarget(chain[i]))
           /\ Takes(gone.args, "-W", ForwardTarget(chain[i]))
<1> DEFINE hop == Tail(chain)
           asks == <<Opt("-W", ForwardTarget(chain[1]))>>
<1>1. /\ hop \in Chain /\ i \in DOMAIN hop /\ i \in DOMAIN chain /\ i + 1 \in DOMAIN chain
      /\ i < Len(chain) /\ hop[i] = chain[i + 1] /\ (i # 1 => hop[i - 1] = chain[i])
  <2>1. chain \in Seq(Resolved) /\ Len(chain) \in Nat /\ Len(chain) > 1 /\ DOMAIN chain = 1..Len(chain)
    BY DEF Chain
  <2>2. hop \in Seq(Resolved) /\ Len(hop) = Len(chain) - 1 /\ \A j \in 1..Len(hop) : hop[j] = chain[j + 1]
    BY <2>1
  <2>3. hop # <<>> /\ DOMAIN hop = 1..Len(hop)
    <3>1. Len(hop) > 0
      BY <2>1, <2>2
    <3> HIDE DEF hop
    <3> QED BY <2>2, <3>1
  <2>4. i \in Nat /\ i < Len(chain) /\ i >= 1
    BY <2>1
  <2> HIDE DEF hop
  <2>5. hop \in Chain /\ i \in DOMAIN hop /\ i \in DOMAIN chain /\ i + 1 \in DOMAIN chain
        /\ hop[i] = chain[i + 1]
    BY <2>1, <2>2, <2>3, <2>4 DEF Chain
  <2>6. i # 1 => hop[i - 1] = chain[i]
    BY <2>1, <2>2, <2>4
  <2> QED BY <2>4, <2>5, <2>6
<1>2. ProbeThrough(globals, chain, config) = Connect("probe", globals, hop, asks)
  BY <1>1 DEF ProbeThrough, Hop
<1>3. IsArgs(asks) /\ "probe" \in Connection
  BY One DEF Connection, Unwatched
<1>4. (IF i = 1 THEN asks ELSE Carries(hop, i)) = <<Opt("-W", ForwardTarget(chain[i]))>>
  BY <1>1 DEF Carries
<1>5. Takes(Connect("probe", globals, hop, asks)[i].args, "-W", ForwardTarget(chain[i]))
  BY <1>1, <1>3, <1>4, RouteIsTaken
<1>6. Takes(Connect(what, globals, chain, own)[i + 1].args, "-W", ForwardTarget(chain[i]))
  BY <1>1, RouteIsTheChain
<1>7. Connect("probe", globals, hop, asks)[i].dest = Connect(what, globals, chain, own)[i + 1].dest
  BY <1>1 DEF Connect, BuildWith
<1> QED BY <1>2, <1>5, <1>6, <1>7

-----------------------------------------------------------------------------
(* The pane: its states, and what a step may do to one.                    *)

Panes == [host : Host \cup {Nil}, client : {"none", "starting", "on", "gone"}, told : BOOLEAN,
          open : BOOLEAN, pty : BOOLEAN, closed : BOOLEAN, fresh : BOOLEAN,
          alt : BOOLEAN, signal : BOOLEAN, exited : BOOLEAN, drawn : BOOLEAN,
          watch : {"none", "called", "either", "output", "end", "more", "over"}]

Kinds ==
    /\ tmux \in BOOLEAN /\ session \subseteq Host /\ listed \subseteq Host /\ live \subseteq Host
    /\ pane \in [Pane -> Panes] /\ attached \in Pane \cup {Nil}
    /\ asked \in [host : Host, connected : BOOLEAN] \cup {Nil}
    /\ promised \subseteq Host /\ killed \subseteq Host

\* What is left to do of a key, and which pane it is done to.
Agenda ==
    /\ ui = [todo |-> ui.todo, why |-> ui.why, to |-> ui.to]
    /\ \/ ui = Idle
       \/ /\ ui.why = "attach" /\ ui.to \in Host
          /\ \/ attached = Nil /\ ui.todo = <<"open">>
             \/ attached # Nil /\ ui.todo \in {<<"await", "reap", "open">>, <<"reap", "open">>}
       \/ /\ ui.why = "end" /\ attached # Nil /\ ui.to = Nil
          /\ ui.todo \in {<<"await", "reap", "kill">>, <<"reap", "kill">>, <<"kill">>}
       \/ /\ ui.why \in {"detach", "quit", "vanish"} /\ attached # Nil /\ ui.to = Nil
          /\ ui.todo \in {<<"await", "reap">>, <<"reap">>}

\* Only the attached pane is of a host; the others have let go of theirs.
OnlyOne ==
    \A p \in Pane : IF p = attached THEN pane[p].host \in Host /\ pane[p].client # "none"
                    ELSE pane[p].client \in {"none", "gone"} /\ ~ pane[p].told
\* Nothing has come of a client that is starting.
Began ==
    \A p \in Pane : pane[p].client = "starting" => ~ pane[p].pty /\ ~ pane[p].alt /\ ~ pane[p].exited
\* A client is told to go after the wait for it, and is gone before its session is ended.
Told ==
    attached # Nil => /\ pane[attached].told => Doing("reap") \/ Doing("kill")
                      /\ Doing("kill") => pane[attached].client = "gone"
\* Of a session that was ended there is no client which could make it again.
Over ==
    \A h \in killed \cap listed : /\ h \notin session
                                  /\ \A p \in Pane : pane[p].client = "starting" => pane[p].host # h

Sound == Kinds /\ Agenda /\ OnlyOne /\ Began /\ Told /\ Over

\* The pane as another may have it after a step in which no client begins.
Milder(f, g) ==
    \A q \in Pane : /\ g[q].host = f[q].host /\ g[q].told = f[q].told
                    /\ g[q].client \in {f[q].client, "gone"}
                    /\ g[q].client = "starting" => /\ g[q].pty = f[q].pty /\ g[q].alt = f[q].alt
                                                   /\ g[q].exited = f[q].exited
\* And one in which none ends.
Same(f, g) == \A q \in Pane : g[q].client = f[q].client

LEMMA NotHeld == Nil \notin Pane
BY PaneAssumption

\* One pane written over.
LEMMA Written ==
    ASSUME pane \in [Pane -> Panes], NEW p \in Pane, NEW r \in Panes, pane' = [pane EXCEPT ![p] = r],
           r.host = pane[p].host, r.told = pane[p].told, r.client \in {pane[p].client, "gone"},
           r.client = "starting" => r.pty = pane[p].pty /\ r.alt = pane[p].alt /\ r.exited = pane[p].exited
    PROVE  /\ pane' \in [Pane -> Panes] /\ Milder(pane, pane')
           /\ r.client = pane[p].client => Same(pane, pane')
BY DEF Milder, Same

LEMMA Drawing ==
    ASSUME NEW f \in [Pane -> Panes], NEW a \in Pane \cup {Nil}
    PROVE  Draw(f, a) \in [Pane -> Panes] /\ Milder(f, Draw(f, a)) /\ Same(f, Draw(f, a))
<1>1. CASE a = Nil
  BY <1>1 DEF Draw, Milder, Same
<1>2. CASE a # Nil
  <2> DEFINE r == [f[a] EXCEPT !.fresh = FALSE, !.drawn = f[a].exited]
  <2>1. a \in Pane /\ f[a] \in Panes
    BY <1>2
  <2>2. /\ r \in Panes /\ r.host = f[a].host /\ r.told = f[a].told /\ r.client = f[a].client
        /\ r.pty = f[a].pty /\ r.alt = f[a].alt /\ r.exited = f[a].exited
    BY <2>1 DEF Panes
  <2>3. \A q \in Pane : Draw(f, a)[q] = IF q = a THEN r ELSE f[q]
    BY <1>2, <2>1 DEF Draw, Panes
  <2>4. Draw(f, a) = [q \in Pane |-> Draw(f, a)[q]]
    BY <1>2 DEF Draw
  <2> HIDE DEF r
  <2>5. Draw(f, a) \in [Pane -> Panes]
    BY <2>2, <2>3, <2>4
  <2> QED BY <2>2, <2>3, <2>5 DEF Milder, Same
<1> QED BY <1>1, <1>2

LEMMA Cutting ==
    ASSUME pane \in [Pane -> Panes], NEW h
    PROVE  /\ Cut(h) \in [Pane -> Panes] /\ Milder(pane, Cut(h))
           /\ \A q \in Pane : Cut(h)[q].client = "on" => pane[q].client = "on" /\ pane[q].host # h
           /\ \A q \in Pane : pane[q].client = "starting" => Cut(h)[q].client = "starting"
<1>1. ASSUME NEW r \in Panes
      PROVE  LET s == [r EXCEPT !.client = "gone", !.pty = TRUE] IN
             s \in Panes /\ s.host = r.host /\ s.told = r.told /\ s.client = "gone"
  BY <1>1 DEF Panes
<1>2. \A q \in Pane : Cut(h)[q] = IF pane[q].host = h /\ pane[q].client = "on"
                                 THEN [pane[q] EXCEPT !.client = "gone", !.pty = TRUE] ELSE pane[q]
  BY DEF Cut
<1>3. ASSUME NEW q \in Pane
      PROVE  /\ Cut(h)[q] \in Panes /\ Cut(h)[q].host = pane[q].host /\ Cut(h)[q].told = pane[q].told
             /\ IF pane[q].host = h /\ pane[q].client = "on" THEN Cut(h)[q].client = "gone"
                                                            ELSE Cut(h)[q] = pane[q]
  <2>1. pane[q] \in Panes
    OBVIOUS
  <2>2. CASE pane[q].host = h /\ pane[q].client = "on"
    <3>1. Cut(h)[q] = [pane[q] EXCEPT !.client = "gone", !.pty = TRUE]
      BY <1>2, <2>2
    <3> QED BY <1>1, <2>1, <2>2, <3>1
  <2>3. CASE ~ (pane[q].host = h /\ pane[q].client = "on")
    BY <1>2, <2>1, <2>3
  <2> QED BY <2>2, <2>3
<1>4. Cut(h) \in [Pane -> Panes]
  BY <1>3 DEF Cut
<1> QED BY <1>3, <1>4 DEF Milder

\* Such a step keeps what is known of the panes.
LEMMA MildStep ==
    ASSUME Sound, pane' \in [Pane -> Panes], Milder(pane, pane'), attached' = attached
    PROVE  /\ OnlyOne' /\ Began'
           /\ ui' = ui => Told'
           /\ session' \subseteq session /\ killed' = killed /\ listed' \subseteq listed => Over'
<1> USE NotHeld
<1>1. OnlyOne'
  BY DEF Sound, OnlyOne, Milder
<1>2. Began'
  BY DEF Sound, Began, Milder, OnlyOne
<1>3. ASSUME ui' = ui PROVE Told'
  <2>1. attached # Nil => /\ attached \in Pane /\ pane'[attached].told = pane[attached].told
                          /\ pane[attached].client = "gone" => pane'[attached].client = "gone"
    BY DEF Sound, Kinds, Milder
  <2>2. \A work : Doing(work)' <=> Doing(work)
    BY <1>3 DEF Doing
  <2> QED BY <2>1, <2>2 DEF Sound, Told
<1>4. ASSUME session' \subseteq session, killed' = killed, listed' \subseteq listed PROVE Over'
  BY <1>4 DEF Sound, Over, Milder
<1> QED BY <1>1, <1>2, <1>3, <1>4

-----------------------------------------------------------------------------
(* Places in a list.                                                       *)

Below(S, h) == {x \in S : x < h}
Place(S, h) == Cardinality(Below(S, h))

\* The place of a member tells it from every other, and there are no places left over.
LEMMA Places ==
    ASSUME NEW S \in SUBSET Nat, IsFiniteSet(S)
    PROVE  /\ Cardinality(S) \in Nat
           /\ \A h \in Nat : Place(S, h) \in 0..Cardinality(S)
           /\ \A h \in S : Place(S, h) < Cardinality(S)
           /\ \A h \in Nat, k \in Nat : h < k => Place(S, h) <= Place(S, k)
           /\ \A h \in S, k \in Nat : h < k => Place(S, h) < Place(S, k)
           /\ \A n \in 0..(Cardinality(S) - 1) : \E h \in S : Place(S, h) = n
<1>1. Cardinality(S) \in Nat
  BY FS_CardinalityType
<1>2. \A h \in Nat : IsFiniteSet(Below(S, h)) /\ Place(S, h) \in 0..Cardinality(S)
  <2> TAKE h \in Nat
  <2>1. Below(S, h) \in SUBSET S
    BY DEF Below
  <2>2. IsFiniteSet(Below(S, h)) /\ Cardinality(Below(S, h)) <= Cardinality(S)
    BY <2>1, FS_Subset
  <2>3. Cardinality(Below(S, h)) \in Nat
    BY <2>2, FS_CardinalityType
  <2> QED BY <1>1, <2>2, <2>3 DEF Place
<1>3. ASSUME NEW h \in S PROVE Place(S, h) < Cardinality(S)
  <2>1. Below(S, h) \in SUBSET S /\ h \notin Below(S, h)
    BY DEF Below
  <2>2. Cardinality(Below(S, h)) # Cardinality(S)
    BY <2>1, FS_Subset
  <2>3. Cardinality(Below(S, h)) \in 0..Cardinality(S)
    BY <1>2 DEF Place
  <2> QED BY <1>1, <2>2, <2>3 DEF Place
<1>4. ASSUME NEW h \in Nat, NEW k \in Nat, h < k
      PROVE  Place(S, h) <= Place(S, k) /\ (h \in S => Place(S, h) < Place(S, k))
  <2>1. \A x \in Below(S, h) : x \in Below(S, k)
    <3>1. \A x \in S : x < h => x < k
      BY <1>4
    <3> QED BY <3>1 DEF Below
  <2>2. IsFiniteSet(Below(S, k)) /\ Below(S, h) \in SUBSET Below(S, k)
    BY <1>2, <2>1
  <2>3. /\ Cardinality(Below(S, h)) <= Cardinality(Below(S, k))
        /\ Cardinality(Below(S, k)) = Cardinality(Below(S, h)) => Below(S, k) = Below(S, h)
    BY <2>2, FS_Subset
  <2>4. h \in S => h \in Below(S, k) /\ h \notin Below(S, h)
    BY <1>4 DEF Below
  <2>5. Place(S, h) \in 0..Cardinality(S) /\ Place(S, k) \in 0..Cardinality(S)
    BY <1>2
  <2>6. Place(S, h) \in Nat /\ Place(S, k) \in Nat
    BY <1>1, <2>5
  <2> QED BY <2>3, <2>4, <2>6 DEF Place
<1>5. ASSUME NEW n \in 0..(Cardinality(S) - 1) PROVE \E h \in S : Place(S, h) = n
  <2> DEFINE T == 0..(Cardinality(S) - 1)
  <2>1. ASSUME NEW h \in S PROVE Place(S, h) \in T
    <3>1. Place(S, h) \in 0..Cardinality(S)
      BY <1>2
    <3> QED BY <1>1, <1>3, <3>1
  <2>2. ASSUME NEW a \in S, NEW b \in S, a # b PROVE Place(S, a) # Place(S, b)
    <3>1. Place(S, a) \in 0..Cardinality(S) /\ Place(S, b) \in 0..Cardinality(S)
      BY <1>2
    <3>2. a \in Nat /\ b \in Nat /\ (a < b \/ b < a)
      BY <2>2
    <3> QED BY <1>1, <1>4, <3>1, <3>2
  <2>4. IsFiniteSet(T) /\ Cardinality(T) = Cardinality(S)
    <3> DEFINE m == Cardinality(S) - 1
    <3>1. m \in Int /\ (IF 0 > m THEN 0 ELSE m - 0 + 1) = Cardinality(S)
      BY <1>1
    <3> HIDE DEF m
    <3>2. IsFiniteSet(0..m) /\ Cardinality(0..m) = IF 0 > m THEN 0 ELSE m - 0 + 1
      BY <3>1, FS_Interval
    <3> QED BY <3>1, <3>2 DEF m
  <2>5. n \in T
    OBVIOUS
  <2> HIDE DEF T
  <2> DEFINE f == [h \in S |-> Place(S, h)]
  <2>6. f \in [S -> T]
    BY <2>1
  <2>7. f \in Injection(S, T)
    BY <2>2, <2>6 DEF Injection, IsInjective
  <2>8. f \in Surjection(S, T)
    BY <2>4, <2>7, FS_Injection
  <2>9. PICK h \in S : f[h] = n
    BY <2>5, <2>8 DEF Surjection
  <2> QED BY <2>9
<1> QED BY <1>1, <1>2, <1>3, <1>4, <1>5

LEMMA Modulo ==
    ASSUME NEW n \in Nat \ {0}
    PROVE  /\ \A a \in 0..(n - 1) : a % n = a
           /\ n % n = 0
           /\ \A a \in (-n)..(-1) : a % n = a + n
OBVIOUS

\* The other sessions there are, and the place of the one on show among them; one that is
\* not listed is before them all.
Shows == Kinds /\ attached # Nil /\ pane[attached].host \in Host
Here  == IF pane[attached].host \in listed THEN pane[attached].host ELSE 0

LEMMA Neighbours ==
    ASSUME Shows
    PROVE  /\ Others \in SUBSET Nat /\ Others \subseteq Host /\ IsFiniteSet(Others) /\ N \in Nat \ {0}
           /\ Here \in 0..N /\ Here \notin Others
           /\ \A h : Before(h) = Place(Others, h)
           /\ Slot = Place(Others, Here) /\ Slot \in 0..Cardinality(Others)
<1>1. N \in Nat \ {0} /\ Others \subseteq Host
  BY PaneAssumption DEF Others, Shows, Kinds
<1>2. Others \in SUBSET Nat /\ IsFiniteSet(Others)
  <2>1. IsFiniteSet(Host)
    BY <1>1, FS_Interval DEF Host
  <2>2. IsFiniteSet(Others)
    BY <1>1, <2>1, FS_Subset
  <2> QED BY <1>1, <2>2 DEF Host
<1>3. Here \in 0..N /\ Here \notin Others
  BY <1>1 DEF Here, Shows, Others, Host
<1>4. \A h : Before(h) = Place(Others, h)
  BY DEF Before, Place, Below
<1>5. Slot = Place(Others, Here)
  <2>1. CASE pane[attached].host \in listed
    BY <1>4, <2>1 DEF Slot, Here
  <2>2. CASE pane[attached].host \notin listed
    <3>1. \A x \in Nat : ~ x < 0
      OBVIOUS
    <3>2. Below(Others, 0) = {}
      BY <1>2, <3>1 DEF Below
    <3> QED BY <2>2, <3>2, FS_EmptySet DEF Slot, Here, Place
  <2> QED BY <2>1, <2>2
<1>6. Slot \in 0..Cardinality(Others)
  BY <1>2, <1>3, <1>5, Places
<1> QED BY <1>1, <1>2, <1>3, <1>4, <1>5, <1>6

\* A step goes to a place, and there is one session at it.
LEMMA Targets ==
    ASSUME Shows, Others # {}, NEW dir \in {-1, 1}
    PROVE  /\ Cardinality(Others) \in Nat \ {0}
           /\ Target(dir) = IF dir = 1 THEN (IF Slot = Cardinality(Others) THEN 0 ELSE Slot)
                            ELSE (IF Slot = 0 THEN Cardinality(Others) - 1 ELSE Slot - 1)
           /\ \E h \in Others : Before(h) = Target(dir)
<1> DEFINE n == Cardinality(Others)
<1>1. n \in Nat \ {0} /\ Slot \in 0..n
  BY Neighbours, FS_CardinalityType, FS_EmptySet
<1>2. Target(dir) = IF dir = 1 THEN (IF Slot = n THEN 0 ELSE Slot)
                    ELSE (IF Slot = 0 THEN n - 1 ELSE Slot - 1)
  <2> HIDE DEF n
  <2>1. Target(dir) = (IF dir < 0 THEN Slot - 1 ELSE Slot) % n
    BY DEF Target, n
  <2>2. CASE dir = 1
    <3>1. Target(dir) = Slot % n
      BY <2>1, <2>2
    <3>2. CASE Slot = n
      BY <1>1, <2>2, <3>1, <3>2, Modulo
    <3>3. CASE Slot # n
      BY <1>1, <2>2, <3>1, <3>3, Modulo
    <3> QED BY <3>2, <3>3
  <2>3. CASE dir = -1
    <3>1. Target(dir) = (Slot - 1) % n
      BY <2>1, <2>3
    <3>2. CASE Slot = 0
      <4>1. -1 \in (-n)..(-1) /\ (-1) + n = n - 1 /\ 0 - 1 = -1
        BY <1>1
      <4>2. (-1) % n = n - 1
        BY <1>1, <4>1, Modulo
      <4> QED BY <2>3, <3>1, <3>2, <4>1, <4>2
    <3>3. CASE Slot # 0
      <4>1. Slot - 1 \in 0..(n - 1)
        BY <1>1, <3>3
      <4>2. (Slot - 1) % n = Slot - 1
        BY <1>1, <4>1, Modulo
      <4> QED BY <2>3, <3>1, <3>3, <4>2
    <3> QED BY <3>2, <3>3
  <2> QED BY <2>2, <2>3
<1>3. Target(dir) \in 0..(n - 1)
  BY <1>1, <1>2
<1>4. PICK h \in Others : Place(Others, h) = Target(dir)
  BY <1>3, Neighbours, Places
<1>5. Before(h) = Target(dir)
  BY <1>4, Neighbours
<1> QED BY <1>1, <1>2, <1>4, <1>5

\* Going on is to the next in the list and going back to the one before, and from either
\* end to the other: of the others it is the one the fewest hosts away.
LEMMA NextIsNearest ==
    ASSUME Shows, NEW dir \in {-1, 1}, NEW to \in Others, Before(to) = Target(dir), NEW h \in Others
    PROVE  (dir * (to - Here)) % (N + 1) <= (dir * (h - Here)) % (N + 1)
<1> DEFINE S == Others
           n == Cardinality(S)
           s == Place(S, Here)
<1>1. /\ S \in SUBSET Nat /\ IsFiniteSet(S) /\ N \in Nat \ {0} /\ Here \in 0..N /\ Here \in Nat
      /\ to \in 1..N /\ h \in 1..N /\ to # Here /\ h # Here
  BY Neighbours DEF Host
<1>2. /\ n \in Nat \ {0} /\ s \in 0..n
      /\ Place(S, to) = IF dir = 1 THEN (IF s = n THEN 0 ELSE s) ELSE (IF s = 0 THEN n - 1 ELSE s - 1)
  BY Neighbours, Targets
<1> HIDE DEF S, n, s
<1>3. /\ Place(S, h) \in 0..n /\ Place(S, h) < n
      /\ to < h => Place(S, to) < Place(S, h)
      /\ h < to => Place(S, h) < Place(S, to)
      /\ Here < h => s <= Place(S, h)
      /\ Here < to => s <= Place(S, to)
      /\ h < Here => Place(S, h) < s
      /\ to < Here => Place(S, to) < s
  BY <1>1, Places DEF S, n, s
<1>4. /\ \A a \in 0..N : a % (N + 1) = a
      /\ \A a \in (-N)..(-1) : a % (N + 1) = a + (N + 1)
  <2>1. N + 1 \in Nat \ {0} /\ (N + 1) - 1 = N
    BY <1>1
  <2>2. \A a \in 0..N : a % (N + 1) = a
    BY <2>1, Modulo
  <2>3. \A a \in (-(N + 1))..(-1) : a % (N + 1) = a + (N + 1)
    BY <2>1, Modulo
  <2> QED BY <1>1, <2>2, <2>3
<1>5. CASE dir = 1
  <2>1. /\ to > Here => (to - Here) % (N + 1) = to - Here
        /\ to < Here => (to - Here) % (N + 1) = to - Here + N + 1
        /\ h > Here => (h - Here) % (N + 1) = h - Here
        /\ h < Here => (h - Here) % (N + 1) = h - Here + N + 1
    BY <1>1, <1>4
  <2>2. dir * (to - Here) = to - Here /\ dir * (h - Here) = h - Here
    BY <1>1, <1>5
  <2>3. Place(S, to) = IF s = n THEN 0 ELSE s
    BY <1>2, <1>5
  <2>4. to < Here => s = n
    BY <1>1, <1>2, <1>3, <2>3
  <2>5. s = n => h < Here /\ to <= h
    BY <1>1, <1>2, <1>3, <2>3
  <2>6. h > Here => to <= h
    BY <1>1, <1>2, <1>3, <2>3, <2>5
  <2> QED BY <1>1, <2>1, <2>2, <2>4, <2>5, <2>6
<1>6. CASE dir = -1
  <2>1. /\ to < Here => (Here - to) % (N + 1) = Here - to
        /\ to > Here => (Here - to) % (N + 1) = Here - to + N + 1
        /\ h < Here => (Here - h) % (N + 1) = Here - h
        /\ h > Here => (Here - h) % (N + 1) = Here - h + N + 1
    BY <1>1, <1>4
  <2>2. dir * (to - Here) = Here - to /\ dir * (h - Here) = Here - h
    BY <1>1, <1>6
  <2>3. Place(S, to) = IF s = 0 THEN n - 1 ELSE s - 1
    BY <1>2, <1>6
  <2>4. to > Here => s = 0
    BY <1>1, <1>2, <1>3, <2>3
  <2>5. s = 0 => h > Here /\ h <= to
    BY <1>1, <1>2, <1>3, <2>3
  <2>6. h < Here => h <= to
    BY <1>1, <1>2, <1>3, <2>3, <2>5
  <2> QED BY <1>1, <2>1, <2>2, <2>4, <2>5, <2>6
<1> QED BY <1>5, <1>6

\* The count given with it is its place among those running.
LEMMA PositionIsSo ==
    ASSUME Shows, NEW dir \in {-1, 1}, NEW to \in Others, Before(to) = Target(dir),
           NEW counted, counted = Others \cup (IF Here # 0 /\ Alive(attached) THEN {Here} ELSE {})
    PROVE  Position(dir) = <<Cardinality({h \in counted : h <= to}), Cardinality(counted)>>
<1> DEFINE S == Others
           n == Cardinality(S)
           s == Place(S, Here)
           t == Place(S, to)
           counts == Here # 0 /\ Alive(attached)
           upTo == {h \in counted : h <= to}
<1>1. /\ S \in SUBSET Nat /\ IsFiniteSet(S) /\ Here \in Nat /\ to \in Nat /\ to # Here /\ Here \notin S
      /\ to \in S
  BY Neighbours
<1>2. /\ n \in Nat /\ t \in 0..n /\ s \in 0..n
      /\ Here < to => s <= t
      /\ to < Here => t < s
  BY <1>1, Places
<1>3. Position(dir) = <<t + 1 + IF counts /\ t >= s THEN 1 ELSE 0, n + IF counts THEN 1 ELSE 0>>
  <2>1. 0 \notin Host
    BY DEF Host
  <2>2. (pane[attached].host \in listed) <=> Here # 0
    BY <2>1 DEF Here, Shows
  <2>3. Target(dir) = t /\ Slot = s
    BY Neighbours
  <2> HIDE DEF t, s
  <2> QED BY <2>2, <2>3 DEF Position
<1>4. IsFiniteSet(Below(S, to)) /\ to \notin Below(S, to) /\ Here \notin Below(S, to)
  <2>1. Below(S, to) \in SUBSET S
    BY DEF Below
  <2>2. to \notin Below(S, to)
    BY <1>1 DEF Below
  <2> QED BY <1>1, <2>1, <2>2, FS_Subset
<1>5. Cardinality(counted) = n + IF counts THEN 1 ELSE 0
  <2>1. CASE counts
    <3>1. counted = S \cup {Here}
      BY <2>1
    <3> HIDE DEF S
    <3> QED BY <1>1, <2>1, <3>1, FS_AddElement
  <2>2. CASE ~ counts
    <3>1. counted = S
      BY <2>2
    <3> HIDE DEF S
    <3> QED BY <1>2, <2>2, <3>1
  <2> QED BY <2>1, <2>2
<1>6. Cardinality(Below(S, to) \cup {to}) = t + 1 /\ IsFiniteSet(Below(S, to) \cup {to})
  BY <1>4, FS_AddElement DEF Place
<1>7. upTo = IF counts /\ Here < to THEN (Below(S, to) \cup {to}) \cup {Here} ELSE Below(S, to) \cup {to}
  <2>1. \A h \in S : h <= to <=> (h < to \/ h = to)
    BY <1>1
  <2>2. \A h : h \in upTo <=> (h \in S \/ (counts /\ h = Here)) /\ h <= to
    OBVIOUS
  <2>3. Here <= to <=> Here < to
    BY <1>1
  <2>4. \A h : h \in Below(S, to) <=> h \in S /\ h < to
    BY DEF Below
  <2> HIDE DEF S, upTo, counts
  <2>5. \A h : h \in upTo <=> h \in Below(S, to) \/ h = to \/ (counts /\ Here < to /\ h = Here)
    BY <1>1, <2>1, <2>2, <2>3, <2>4
  <2> QED BY <2>5
<1>8. Cardinality(upTo) = t + 1 + IF counts /\ t >= s THEN 1 ELSE 0
  <2> HIDE DEF S, upTo, counts
  <2>1. Here < to <=> t >= s
    BY <1>1, <1>2
  <2>2. CASE counts /\ Here < to
    <3>1. Here \notin Below(S, to) \cup {to}
      BY <1>1, <1>4
    <3>2. Cardinality((Below(S, to) \cup {to}) \cup {Here}) = (t + 1) + 1
      BY <1>6, <3>1, FS_AddElement
    <3> QED BY <1>7, <2>1, <2>2, <3>2
  <2>3. CASE ~ (counts /\ Here < to)
    <3>1. Cardinality(upTo) = t + 1
      BY <1>6, <1>7, <2>3
    <3>2. t \in Nat
      BY <1>2
    <3> HIDE DEF t
    <3> QED BY <2>1, <2>3, <3>1, <3>2
  <2> QED BY <2>2, <2>3
<1> QED BY <1>3, <1>5, <1>8

-----------------------------------------------------------------------------
(* The steps of a pane's own, and those that only draw.                    *)

LEMMA QuietSteps ==
    ASSUME Sound, NEW p \in Pane,
           \/ Speaks(p) \/ Read(p) \/ ReadEnds(p) \/ Reaped(p) \/ Look(p) \/ Awaken(p) \/ handlePaneOutput(p)
    PROVE  /\ pane' \in [Pane -> Panes] /\ Milder(pane, pane') /\ Same(pane, pane')
           /\ UNCHANGED <<world, live, attached, ui, asked, ghost>>
<1>0. pane \in [Pane -> Panes] /\ pane[p] \in Panes /\ attached \in Pane \cup {Nil}
  BY DEF Sound, Kinds
<1>1. ASSUME NEW r \in Panes
      PROVE  /\ [r EXCEPT !.pty = TRUE] \in Panes /\ [r EXCEPT !.pty = TRUE].host = r.host
             /\ [r EXCEPT !.pty = TRUE].told = r.told /\ [r EXCEPT !.pty = TRUE].client = r.client
             /\ [r EXCEPT !.exited = TRUE] \in Panes /\ [r EXCEPT !.exited = TRUE].host = r.host
             /\ [r EXCEPT !.exited = TRUE].told = r.told /\ [r EXCEPT !.exited = TRUE].client = r.client
  BY <1>1 DEF Panes
<1>2. CASE Speaks(p)
  <2> DEFINE r == [pane[p] EXCEPT !.pty = TRUE]
  <2>1. r \in Panes /\ r.host = pane[p].host /\ r.told = pane[p].told /\ r.client = pane[p].client
    BY <1>0, <1>1
  <2>2. pane' = [pane EXCEPT ![p] = r] /\ pane[p].client = "on"
    BY <1>2 DEF Speaks, Becomes
  <2>3. UNCHANGED <<world, live, attached, ui, asked, ghost>>
    BY <1>2 DEF Speaks
  <2> HIDE DEF r
  <2> QED BY <1>0, <2>1, <2>2, <2>3, Written
<1>3. CASE Read(p)
  <2> DEFINE r == [pane[p] EXCEPT !.pty = FALSE, !.fresh = TRUE, !.alt = tmux, !.signal = TRUE]
  <2>1. r \in Panes /\ r.host = pane[p].host /\ r.told = pane[p].told /\ r.client = pane[p].client
    BY <1>0 DEF Panes, Sound, Kinds
  <2>2. pane' = [pane EXCEPT ![p] = r] /\ pane[p].pty
    BY <1>3 DEF Read, Becomes
  <2>3. pane[p].client # "starting"
    BY <2>2 DEF Sound, Began
  <2>4. UNCHANGED <<world, live, attached, ui, asked, ghost>>
    BY <1>3 DEF Read
  <2> HIDE DEF r
  <2> QED BY <1>0, <2>1, <2>2, <2>3, <2>4, Written
<1>4. CASE ReadEnds(p)
  <2> DEFINE r == [pane[p] EXCEPT !.closed = TRUE]
  <2>1. /\ r \in Panes /\ r.host = pane[p].host /\ r.told = pane[p].told /\ r.client = pane[p].client
        /\ r.pty = pane[p].pty /\ r.alt = pane[p].alt /\ r.exited = pane[p].exited
    BY <1>0 DEF Panes
  <2>2. pane' = [pane EXCEPT ![p] = r]
    BY <1>4 DEF ReadEnds, Becomes
  <2>3. UNCHANGED <<world, live, attached, ui, asked, ghost>>
    BY <1>4 DEF ReadEnds
  <2> HIDE DEF r
  <2> QED BY <1>0, <2>1, <2>2, <2>3, Written
<1>5. CASE Reaped(p)
  <2> DEFINE r == [pane[p] EXCEPT !.exited = TRUE]
  <2>1. r \in Panes /\ r.host = pane[p].host /\ r.told = pane[p].told /\ r.client = pane[p].client
    BY <1>0, <1>1
  <2>2. pane' = [pane EXCEPT ![p] = r] /\ pane[p].client = "gone"
    BY <1>5 DEF Reaped, Becomes
  <2>3. UNCHANGED <<world, live, attached, ui, asked, ghost>>
    BY <1>5 DEF Reaped
  <2> HIDE DEF r
  <2> QED BY <1>0, <2>1, <2>2, <2>3, Written
\* What only the watcher's state, or the signal to it, is written over with.
<1>6. ASSUME NEW w \in {"none", "called", "either", "output", "end", "more", "over"}, NEW s \in BOOLEAN
      PROVE  LET r == [pane[p] EXCEPT !.watch = w]
                 t == [pane[p] EXCEPT !.watch = w, !.signal = s] IN
             /\ r \in Panes /\ r.host = pane[p].host /\ r.told = pane[p].told /\ r.client = pane[p].client
             /\ r.pty = pane[p].pty /\ r.alt = pane[p].alt /\ r.exited = pane[p].exited
             /\ t \in Panes /\ t.host = pane[p].host /\ t.told = pane[p].told /\ t.client = pane[p].client
             /\ t.pty = pane[p].pty /\ t.alt = pane[p].alt /\ t.exited = pane[p].exited
  BY <1>0, <1>6 DEF Panes
<1>7. CASE Look(p)
  <2> DEFINE r == [pane[p] EXCEPT !.watch = IF pane[p].exited THEN "output" ELSE "either"]
  <2>1. /\ r \in Panes /\ r.host = pane[p].host /\ r.told = pane[p].told /\ r.client = pane[p].client
        /\ r.pty = pane[p].pty /\ r.alt = pane[p].alt /\ r.exited = pane[p].exited
    BY <1>6
  <2>2. pane' = [pane EXCEPT ![p] = r]
    BY <1>7 DEF Look, Becomes
  <2>3. UNCHANGED <<world, live, attached, ui, asked, ghost>>
    BY <1>7 DEF Look
  <2> HIDE DEF r
  <2> QED BY <1>0, <2>1, <2>2, <2>3, Written
<1>8. CASE Awaken(p)
  <2>1. PICK r : /\ r \in Panes /\ r.host = pane[p].host /\ r.told = pane[p].told /\ r.client = pane[p].client
                 /\ r.pty = pane[p].pty /\ r.alt = pane[p].alt /\ r.exited = pane[p].exited
                 /\ pane' = [pane EXCEPT ![p] = r]
    <3>1. CASE pane' = [pane EXCEPT ![p] = [pane[p] EXCEPT !.watch = "more", !.signal = FALSE]]
      BY <1>6, <3>1
    <3>2. CASE pane' = [pane EXCEPT ![p] = [pane[p] EXCEPT !.watch = "end"]]
      BY <1>6, <3>2
    <3>3. CASE pane' = [pane EXCEPT ![p] = [pane[p] EXCEPT !.watch = "more"]]
      BY <1>6, <3>3
    <3>4. CASE pane' = [pane EXCEPT ![p] = [pane[p] EXCEPT !.watch = "over"]]
      BY <1>6, <3>4
    <3> QED BY <1>8, <3>1, <3>2, <3>3, <3>4 DEF Awaken, Becomes, AfterTheOutput, OfTheEnd
  <2>2. UNCHANGED <<world, live, attached, ui, asked, ghost>>
    BY <1>8 DEF Awaken
  <2> QED BY <1>0, <2>1, <2>2, Written
<1>9. CASE handlePaneOutput(p)
  <2>1. PICK w : /\ w \in {"called", "none"}
                 /\ pane' = Draw([pane EXCEPT ![p].watch = w], attached)
    BY <1>9 DEF handlePaneOutput
  <2> DEFINE r == [pane[p] EXCEPT !.watch = w]
             f == [pane EXCEPT ![p].watch = w]
  <2>2. /\ r \in Panes /\ r.host = pane[p].host /\ r.told = pane[p].told /\ r.client = pane[p].client
        /\ r.pty = pane[p].pty /\ r.alt = pane[p].alt /\ r.exited = pane[p].exited
    BY <1>6, <2>1
  <2>3. f \in [Pane -> Panes] /\ \A q \in Pane : f[q] = IF q = p THEN r ELSE pane[q]
    BY <1>0, <2>2
  <2> HIDE DEF r, f
  <2>4. Milder(pane, f) /\ Same(pane, f)
    BY <2>2, <2>3 DEF Milder, Same
  <2>5. /\ Draw(f, attached) \in [Pane -> Panes] /\ Milder(f, Draw(f, attached))
        /\ Same(f, Draw(f, attached))
    BY <1>0, <2>3, Drawing
  <2>6. pane' = Draw(f, attached)
    BY <2>1 DEF f
  <2>7. UNCHANGED <<world, live, attached, ui, asked, ghost>>
    BY <1>9 DEF handlePaneOutput
  <2> QED BY <2>4, <2>5, <2>6, <2>7 DEF Milder, Same
<1> QED BY <1>2, <1>3, <1>4, <1>5, <1>7, <1>8, <1>9

-----------------------------------------------------------------------------
(* Every step.                                                             *)

LEMMA Records ==
    /\ Unused \in Panes /\ Unused.client = "none" /\ Unused.told = FALSE
    /\ \A h \in Host : /\ Opened(h) \in Panes /\ Opened(h).host = h /\ Opened(h).client = "starting"
                       /\ Opened(h).told = FALSE /\ Opened(h).pty = FALSE /\ Opened(h).alt = FALSE
                       /\ Opened(h).exited = FALSE
    /\ \A r \in Panes : Closed(r) \in Panes /\ Closed(r).client = "gone" /\ Closed(r).told = FALSE
<1>1. Unused \in Panes /\ Unused.client = "none" /\ Unused.told = FALSE
  BY DEF Unused, Panes
<1>2. ASSUME NEW h \in Host
      PROVE  /\ Opened(h) \in Panes /\ Opened(h).host = h /\ Opened(h).client = "starting"
             /\ Opened(h).told = FALSE /\ Opened(h).pty = FALSE /\ Opened(h).alt = FALSE
             /\ Opened(h).exited = FALSE
  BY DEF Opened, Unused, Panes
<1>3. ASSUME NEW r \in Panes PROVE Closed(r) \in Panes /\ Closed(r).client = "gone" /\ Closed(r).told = FALSE
  BY DEF Closed, Unused, Panes
<1> QED BY <1>1, <1>2, <1>3

\* The work there is, by what comes first of it.
Attaches(todo) == ui.todo = todo /\ ui.why = "attach" /\ ui.to \in Host
Ends(todo)     == ui.todo = todo /\ ui.why = "end" /\ ui.to = Nil
Leaving(todo)  == ui.todo = todo /\ ui.why \in {"detach", "quit", "vanish"} /\ ui.to = Nil

LEMMA Works ==
    ASSUME Agenda
    PROVE  /\ ui = Idle => ui.todo = <<>> /\ \A w : ~ Doing(w)
           /\ Doing("await") =>
                /\ attached # Nil
                /\ \/ Attaches(<<"await", "reap", "open">>) \/ Ends(<<"await", "reap", "kill">>)
                   \/ Leaving(<<"await", "reap">>)
           /\ Doing("reap") =>
                /\ attached # Nil
                /\ Attaches(<<"reap", "open">>) \/ Ends(<<"reap", "kill">>) \/ Leaving(<<"reap">>)
           /\ Doing("kill") => attached # Nil /\ Ends(<<"kill">>)
           /\ Doing("open") => attached = Nil /\ Attaches(<<"open">>)
<1>1. ui = Idle => ui.todo = <<>> /\ \A w : ~ Doing(w)
  BY DEF Idle, Doing
<1>2. /\ Head(<<"await", "reap", "open">>) = "await" /\ Head(<<"await", "reap", "kill">>) = "await"
      /\ Head(<<"await", "reap">>) = "await" /\ Head(<<"reap", "open">>) = "reap"
      /\ Head(<<"reap", "kill">>) = "reap" /\ Head(<<"reap">>) = "reap"
      /\ Head(<<"kill">>) = "kill" /\ Head(<<"open">>) = "open"
  OBVIOUS
<1> DEFINE A == attached # Nil
<1>3. \/ ui = Idle
      \/ ~ A /\ Attaches(<<"open">>)
      \/ A /\ Attaches(<<"await", "reap", "open">>)
      \/ A /\ Attaches(<<"reap", "open">>)
      \/ A /\ Ends(<<"await", "reap", "kill">>)
      \/ A /\ Ends(<<"reap", "kill">>)
      \/ A /\ Ends(<<"kill">>)
      \/ A /\ Leaving(<<"await", "reap">>)
      \/ A /\ Leaving(<<"reap">>)
  BY DEF Agenda, Attaches, Ends, Leaving
<1>4. \A w, todo : Doing(w) /\ (Attaches(todo) \/ Ends(todo) \/ Leaving(todo)) => Head(todo) = w
  BY DEF Doing, Attaches, Ends, Leaving
<1>5. /\ "await" # "reap" /\ "await" # "kill" /\ "await" # "open" /\ "reap" # "kill"
      /\ "reap" # "open" /\ "kill" # "open"
  OBVIOUS
<1> HIDE DEF A
<1>6. Doing("await") => A /\ \/ Attaches(<<"await", "reap", "open">>) \/ Ends(<<"await", "reap", "kill">>)
                             \/ Leaving(<<"await", "reap">>)
  BY <1>1, <1>2, <1>3, <1>4, <1>5
<1>7. Doing("reap") => A /\ (Attaches(<<"reap", "open">>) \/ Ends(<<"reap", "kill">>) \/ Leaving(<<"reap">>))
  BY <1>1, <1>2, <1>3, <1>4, <1>5
<1>8. Doing("kill") => A /\ Ends(<<"kill">>)
  BY <1>1, <1>2, <1>3, <1>4, <1>5
<1>9. Doing("open") => ~ A /\ Attaches(<<"open">>)
  BY <1>1, <1>2, <1>3, <1>4, <1>5
<1> QED BY <1>1, <1>6, <1>7, <1>8, <1>9 DEF A

LEMMA GoesOn ==
    ASSUME Agenda, Goes
    PROVE  /\ ui' = [todo |-> ui'.todo, why |-> ui'.why, to |-> ui'.to]
           /\ Attaches(<<"await", "reap", "open">>) => Attaches(<<"reap", "open">>)'
           /\ Attaches(<<"reap", "open">>) => Attaches(<<"open">>)' /\ Leaves
           /\ Attaches(<<"open">>) => ui' = Idle
           /\ Ends(<<"await", "reap", "kill">>) => Ends(<<"reap", "kill">>)'
           /\ Ends(<<"reap", "kill">>) => Ends(<<"kill">>)' /\ ~ Leaves
           /\ Ends(<<"kill">>) => ui' = Idle /\ Leaves
           /\ Leaving(<<"await", "reap">>) => Leaving(<<"reap">>)'
           /\ Leaving(<<"reap">>) => ui' = Idle /\ Leaves
<1>1. /\ Tail(<<"await", "reap", "open">>) = <<"reap", "open">> /\ Tail(<<"reap", "open">>) = <<"open">>
      /\ Tail(<<"await", "reap", "kill">>) = <<"reap", "kill">> /\ Tail(<<"reap", "kill">>) = <<"kill">>
      /\ Tail(<<"await", "reap">>) = <<"reap">>
      /\ Tail(<<"reap">>) = <<>> /\ Tail(<<"kill">>) = <<>> /\ Tail(<<"open">>) = <<>>
      /\ <<"reap", "open">> # <<>> /\ <<"open">> # <<>> /\ <<"reap", "kill">> # <<>> /\ <<"kill">> # <<>>
      /\ <<"reap">> # <<>> /\ <<"kill">> # <<"open">>
  OBVIOUS
<1>2. ui' = IF Tail(ui.todo) = <<>> THEN Idle
            ELSE [todo |-> Tail(ui.todo), why |-> ui.why, to |-> ui.to]
  <2>1. \A t : [ui EXCEPT !.todo = t] = [todo |-> t, why |-> ui.why, to |-> ui.to]
    BY DEF Agenda
  <2> QED BY <2>1 DEF Goes
<1>3. ui' = [todo |-> ui'.todo, why |-> ui'.why, to |-> ui'.to]
  BY <1>2 DEF Idle
<1>4. /\ Tail(ui.todo) # <<>> => ui'.todo = Tail(ui.todo) /\ ui'.why = ui.why /\ ui'.to = ui.to
      /\ Tail(ui.todo) = <<>> => ui' = Idle
  BY <1>2
<1>5. Leaves <=> Tail(ui.todo) = <<>> \/ Tail(ui.todo) = <<"open">>
  BY DEF Leaves
<1> QED BY <1>1, <1>3, <1>4, <1>5 DEF Attaches, Ends, Leaving

LEMMA ThreeOf ==
    ASSUME NEW S, NEW a \in S, NEW b \in S, NEW c \in S
    PROVE  <<a, b>> \o <<c>> = <<a, b, c>>
<1> DEFINE s == <<a, b>>
           t == <<c>>
           u == <<a, b, c>>
<1>1. s \in Seq(S) /\ t \in Seq(S) /\ Len(s) = 2 /\ Len(t) = 1 /\ s[1] = a /\ s[2] = b /\ t[1] = c
  OBVIOUS
<1>2. u \in Seq(S) /\ Len(u) = 3 /\ u[1] = a /\ u[2] = b /\ u[3] = c
  OBVIOUS
<1> HIDE DEF s, t, u
<1>3. /\ s \o t \in Seq(S) /\ Len(s \o t) = 3
      /\ \A i \in 1..3 : (s \o t)[i] = IF i <= 2 THEN s[i] ELSE t[i - 2]
  <2>1. /\ s \o t \in Seq(S) /\ Len(s \o t) = Len(s) + Len(t)
        /\ \A i \in 1..(Len(s) + Len(t)) : (s \o t)[i] = IF i <= Len(s) THEN s[i] ELSE t[i - Len(s)]
    BY <1>1, ConcatProperties
  <2>2. Len(s) + Len(t) = 3
    BY <1>1
  <2>3. Len(s \o t) = 3
    BY <2>1, <2>2
  <2> QED BY <1>1, <2>1, <2>2, <2>3
<1>4. (s \o t)[1] = a /\ (s \o t)[2] = b /\ (s \o t)[3] = c
  BY <1>1, <1>3
<1>5. \A i \in 1..3 : (s \o t)[i] = u[i]
  <2>1. \A i \in 1..3 : i = 1 \/ i = 2 \/ i = 3
    OBVIOUS
  <2> QED BY <1>2, <1>4, <2>1
<1>6. s \o t = u
  BY <1>2, <1>3, <1>5, SeqEqual
<1> QED BY <1>6 DEF s, t, u

LEMMA StepsAre ==
    /\ Steps("attach") = <<"await", "reap", "open">> /\ Steps("end") = <<"await", "reap", "kill">>
    /\ \A why \in {"detach", "quit", "vanish"} : Steps(why) = <<"await", "reap">>
<1>1. /\ <<"await", "reap">> \o <<"open">> = <<"await", "reap", "open">>
      /\ <<"await", "reap">> \o <<"kill">> = <<"await", "reap", "kill">>
      /\ <<"await", "reap">> \o <<>> = <<"await", "reap">>
  <2>1. "await" \in Work /\ "reap" \in Work /\ "kill" \in Work /\ "open" \in Work
    BY DEF Work
  <2>2. <<"await", "reap">> \in Seq(Work)
    BY <2>1
  <2> QED BY <2>1, <2>2, ThreeOf, ConcatEmptySeq
<1>2. Steps("attach") = <<"await", "reap">> \o <<"open">>
  BY DEF Steps
<1>3. Steps("end") = <<"await", "reap">> \o <<"kill">>
  BY DEF Steps
<1>4. \A why \in {"detach", "quit", "vanish"} : Steps(why) = <<"await", "reap">> \o <<>>
  BY DEF Steps
<1> QED BY <1>1, <1>2, <1>3, <1>4

\* A key begins with nothing of the last left to do, and nobody told to go.
LEMMA Begins ==
    ASSUME Sound, ui = Idle, attached' = attached, Milder(pane, pane'),
           NEW todo, NEW why, NEW to, Begin(todo, why, to),
           \/ attached = Nil /\ todo = <<"open">> /\ why = "attach" /\ to \in Host
           \/ attached # Nil /\ todo = Steps(why) /\ why = "attach" /\ to \in Host
           \/ attached # Nil /\ todo = Steps(why) /\ why \in {"end", "detach", "quit", "vanish"} /\ to = Nil
    PROVE  Agenda' /\ Told'
<1>1. ui' = [todo |-> todo, why |-> why, to |-> to]
  BY DEF Begin
<1>2. ui'.todo = todo /\ ui'.why = why /\ ui'.to = to /\ ui' = [todo |-> ui'.todo, why |-> ui'.why, to |-> ui'.to]
  BY <1>1
<1>3. Agenda'
  BY <1>2, StepsAre DEF Agenda
<1>4. ASSUME attached # Nil PROVE ~ Doing("kill")' /\ ~ pane'[attached].told
  <2>1. Head(<<"await", "reap", "open">>) # "kill" /\ Head(<<"await", "reap", "kill">>) # "kill"
        /\ Head(<<"await", "reap">>) # "kill"
    OBVIOUS
  <2>2. ~ Doing("kill")'
    BY <1>2, <1>4, <2>1, StepsAre DEF Doing
  <2>3. attached \in Pane /\ ~ pane[attached].told
    BY <1>4, Works DEF Sound, Kinds, Told
  <2> QED BY <2>2, <2>3 DEF Milder
<1> QED BY <1>3, <1>4 DEF Told

LEMMA SoundInit == Init => Sound
<1> SUFFICES ASSUME Init PROVE Sound
  OBVIOUS
<1>1. \A p \in Pane : pane[p] = Unused
  BY DEF Init
<1>2. Kinds
  BY <1>1, Records DEF Kinds, Init
<1>3. Agenda
  BY DEF Agenda, Init, Idle
<1>4. OnlyOne /\ Began /\ Told /\ Over
  BY <1>1, Records, NotHeld DEF OnlyOne, Began, Told, Over, Init
<1> QED BY <1>2, <1>3, <1>4 DEF Sound

LEMMA SoundQuiet ==
    ASSUME Sound, pane' \in [Pane -> Panes], Milder(pane, pane'),
           UNCHANGED <<attached, ui, tmux, live>>, session' \subseteq session, listed' = listed,
           asked' \in [host : Host, connected : BOOLEAN] \cup {Nil},
           promised' \subseteq promised, killed' = killed
    PROVE  Sound'
<1>1. Kinds'
  BY DEF Sound, Kinds
<1>2. Agenda'
  BY DEF Sound, Agenda
<1> QED BY <1>1, <1>2, MildStep DEF Sound

\* A client that goes, for whatever reason, and makes nothing.
LEMMA Goners ==
    ASSUME Sound, NEW p \in Pane, Fails(p) \/ Heeds(p)
    PROVE  /\ pane' \in [Pane -> Panes] /\ Milder(pane, pane')
           /\ \A q \in Pane \ {p} : pane'[q] = pane[q]
           /\ pane'[p].client = "gone"
           /\ UNCHANGED <<world, live, attached, ui, asked, killed>>
<1>0. pane \in [Pane -> Panes] /\ pane[p] \in Panes
  BY DEF Sound, Kinds
<1>1. CASE Fails(p)
  <2> DEFINE r == [pane[p] EXCEPT !.client = "gone", !.pty = TRUE]
  <2>1. r \in Panes /\ r.host = pane[p].host /\ r.told = pane[p].told /\ r.client = "gone"
    BY <1>0 DEF Panes
  <2>2. pane' = [pane EXCEPT ![p] = r] /\ UNCHANGED <<world, live, attached, ui, asked, killed>>
    BY <1>1 DEF Fails, Becomes
  <2> HIDE DEF r
  <2> QED BY <1>0, <2>1, <2>2, Written
<1>2. CASE Heeds(p)
  <2> DEFINE r == [pane[p] EXCEPT !.client = "gone"]
  <2>1. r \in Panes /\ r.host = pane[p].host /\ r.told = pane[p].told /\ r.client = "gone"
    BY <1>0 DEF Panes
  <2>2. pane' = [pane EXCEPT ![p] = r] /\ UNCHANGED <<world, live, attached, ui, asked, killed>>
    BY <1>2 DEF Heeds, Becomes, ghost
  <2> HIDE DEF r
  <2> QED BY <1>0, <2>1, <2>2, Written
<1> QED BY <1>1, <1>2

\* The client that starts is the attached pane's, and nobody has ended its session.
LEMMA Started ==
    ASSUME Sound, NEW p \in Pane, Starts(p)
    PROVE  /\ p = attached /\ pane[p].host \in Host /\ pane' \in [Pane -> Panes]
           /\ pane'[p].host = pane[p].host /\ pane'[p].told = pane[p].told /\ pane'[p].client = "on"
           /\ \A q \in Pane \ {p} : pane'[q] = pane[q]
           /\ pane[p].client = "starting" /\ session' = IF tmux THEN session \cup {pane[p].host} ELSE session
           /\ UNCHANGED <<tmux, listed, live, attached, ui, asked, ghost>>
<1> DEFINE r == [pane[p] EXCEPT !.client = "on", !.pty = TRUE]
<1>0. pane \in [Pane -> Panes] /\ pane[p] \in Panes
  BY DEF Sound, Kinds
<1>1. r \in Panes /\ r.host = pane[p].host /\ r.told = pane[p].told /\ r.client = "on"
  BY <1>0 DEF Panes
<1>2. /\ pane' = [pane EXCEPT ![p] = r] /\ pane[p].client = "starting"
      /\ session' = IF tmux THEN session \cup {pane[p].host} ELSE session
      /\ UNCHANGED <<tmux, listed, live, attached, ui, asked, ghost>>
  BY DEF Starts, Becomes
<1>3. p = attached /\ pane[p].host \in Host
  BY <1>2 DEF Sound, OnlyOne
<1> HIDE DEF r
<1> QED BY <1>0, <1>1, <1>2, <1>3

\* Attaching is to a host, and either draws the pane that is there or begins.
LEMMA Attaching ==
    ASSUME Sound, Free, NEW h \in Host, attachHost(h), attached' = attached
    PROVE  /\ pane' \in [Pane -> Panes] /\ Milder(pane, pane') /\ Same(pane, pane')
           /\ Agenda' /\ Told' /\ ui'.todo \in {<<>>, <<"open">>, <<"await", "reap", "open">>}
<1>0. ui = Idle /\ pane \in [Pane -> Panes] /\ attached \in Pane \cup {Nil}
  BY DEF Sound, Kinds, Free
<1>1. CASE attachedTo(h)
  <2>1. pane' = Draw(pane, attached) /\ ui' = ui
    BY <1>1 DEF attachHost
  <2>2. pane' \in [Pane -> Panes] /\ Milder(pane, pane') /\ Same(pane, pane')
    BY <1>0, <2>1, Drawing
  <2>3. Agenda'
    BY <2>1 DEF Sound, Agenda
  <2>4. ui'.todo = <<>>
    BY <1>0, <2>1 DEF Idle
  <2> QED BY <2>1, <2>2, <2>3, <2>4, MildStep
<1>2. CASE ~ attachedTo(h)
  <2> DEFINE todo == IF attached = Nil THEN <<"open">> ELSE Replaces
  <2>1. pane' = pane /\ Begin(todo, "attach", h)
    BY <1>2 DEF attachHost
  <2>2. Milder(pane, pane') /\ Same(pane, pane')
    BY <2>1 DEF Milder, Same
  <2>3. todo = IF attached = Nil THEN <<"open">> ELSE Steps("attach")
    BY DEF Replaces
  <2> HIDE DEF todo
  <2>4. Agenda' /\ Told'
    BY <1>0, <2>1, <2>2, <2>3, Begins
  <2>5. ui'.todo = todo
    BY <2>1 DEF Begin
  <2> QED BY <1>0, <2>1, <2>2, <2>3, <2>4, <2>5, StepsAre
<1> QED BY <1>1, <1>2

\* A step through an open question or into a key that leaves the clients as they are.
LEMMA SoundBegins ==
    ASSUME Sound, pane' \in [Pane -> Panes], Milder(pane, pane'), Agenda', Told',
           UNCHANGED <<attached, tmux>>, live' \subseteq Host, session' \subseteq session,
           listed' \subseteq listed, asked' \in [host : Host, connected : BOOLEAN] \cup {Nil},
           promised' \subseteq Host, killed' \subseteq Host, \A h \in killed' \cap listed' : h \in killed
    PROVE  Sound'
<1>1. Kinds'
  BY DEF Sound, Kinds
<1>2. Over'
  BY DEF Sound, Over, Milder
<1> QED BY <1>1, <1>2, MildStep DEF Sound

LEMMA SoundStarts ==
    ASSUME Sound, NEW p \in Pane, Starts(p)
    PROVE  Sound'
<1>1. /\ p = attached /\ pane[p].host \in Host /\ pane' \in [Pane -> Panes]
      /\ pane'[p].host = pane[p].host /\ pane'[p].told = pane[p].told /\ pane'[p].client = "on"
      /\ \A q \in Pane \ {p} : pane'[q] = pane[q]
      /\ pane[p].client = "starting" /\ session' = IF tmux THEN session \cup {pane[p].host} ELSE session
  BY Started
<1>2. UNCHANGED <<tmux, listed, live, attached, ui, asked, promised, killed>>
  BY Started DEF ghost
<1>3. Kinds'
  BY <1>1, <1>2 DEF Sound, Kinds
<1>4. Agenda'
  BY <1>2 DEF Sound, Agenda
<1>5. OnlyOne' /\ Began'
  BY <1>1, <1>2 DEF Sound, OnlyOne, Began
<1>6. Told'
  <2>1. ~ Doing("kill") /\ (pane[p].told => Doing("reap") \/ Doing("kill"))
    BY <1>1, NotHeld DEF Sound, Told
  <2>2. \A w : Doing(w)' <=> Doing(w)
    BY <1>2 DEF Doing
  <2> QED BY <1>1, <1>2, <2>1, <2>2 DEF Told
<1>7. Over'
  <2>1. \A h \in killed \cap listed : h \notin session /\ pane[p].host # h
    BY <1>1 DEF Sound, Over
  <2>2. \A q \in Pane : pane'[q].client = "starting" => FALSE
    BY <1>1 DEF Sound, OnlyOne
  <2> QED BY <1>1, <1>2, <2>1, <2>2 DEF Over
<1> QED BY <1>3, <1>4, <1>5, <1>6, <1>7 DEF Sound

LEMMA SoundKeys ==
    ASSUME Sound,
           \/ \E h \in Host : attachSession(h) \/ askDeleteHost(h)
           \/ \E dir \in {-1, 1} : switchSession(dir)
           \/ \E why \in {"detach", "quit"} : Leave(why)
           \/ killSession \/ Refuse
    PROVE  Sound'
<1>0. pane \in [Pane -> Panes] /\ attached \in Pane \cup {Nil} /\ Milder(pane, pane) /\ Same(pane, pane)
  BY DEF Sound, Kinds, Milder, Same
<1>1. ASSUME NEW h \in Host, attachSession(h) PROVE Sound'
  <2>1. /\ Free /\ attachHost(h) /\ UNCHANGED <<tmux, session, listed, live, attached, asked, promised, killed>>
    BY <1>1 DEF attachSession, world, ghost
  <2>2. pane' \in [Pane -> Panes] /\ Milder(pane, pane') /\ Agenda' /\ Told'
    BY <2>1, Attaching
  <2> QED BY <2>1, <2>2, SoundBegins DEF Sound, Kinds
<1>2. ASSUME NEW h \in Host, askDeleteHost(h) PROVE Sound'
  <2>1. /\ asked' = [host |-> h, connected |-> h \in live \/ attachedTo(h)]
        /\ pane' = Draw(pane, attached) /\ UNCHANGED <<tmux, session, listed, live, attached, ui, promised, killed>>
    BY <1>2 DEF askDeleteHost, world, ghost
  <2>2. asked' \in [host : Host, connected : BOOLEAN]
    <3>1. (h \in live \/ attachedTo(h)) \in BOOLEAN
      OBVIOUS
    <3> HIDE DEF attachedTo
    <3> QED BY <2>1, <3>1
  <2>3. pane' \in [Pane -> Panes] /\ Milder(pane, pane')
    BY <1>0, <2>1, Drawing
  <2> QED BY <2>1, <2>2, <2>3, SoundQuiet
<1>3. ASSUME NEW dir \in {-1, 1}, switchSession(dir) PROVE Sound'
  <2>1. /\ Free /\ attached # Nil /\ live' = session \cap Doomed
        /\ UNCHANGED <<tmux, session, listed, attached, asked, promised, killed>>
    BY <1>3 DEF switchSession, world, ghost
  <2>2. live' \subseteq Host
    BY <2>1 DEF Sound, Kinds
  <2>3. CASE Others = {}
    <3>1. pane' = Draw(pane, attached) /\ ui' = ui
      BY <1>3, <2>3 DEF switchSession
    <3>2. pane' \in [Pane -> Panes] /\ Milder(pane, pane')
      BY <1>0, <3>1, Drawing
    <3>3. Agenda'
      BY <2>1, <3>1 DEF Sound, Agenda
    <3>4. Told'
      BY <2>1, <3>1, <3>2, MildStep
    <3> QED BY <2>1, <2>2, <3>2, <3>3, <3>4, SoundBegins DEF Sound, Kinds
  <2>4. CASE Others # {}
    <3> DEFINE h == CHOOSE x \in Others : Before(x) = Target(dir)
    <3>1. Shows
      BY <2>1 DEF Sound, Shows, OnlyOne, Kinds
    <3>2. h \in Others
      BY <2>4, <3>1, Targets
    <3>3. h \in Host
      BY <3>1, <3>2, Neighbours
    <3>4. attachHost(h)
      BY <1>3, <2>4 DEF switchSession
    <3> HIDE DEF h
    <3>5. pane' \in [Pane -> Panes] /\ Milder(pane, pane') /\ Agenda' /\ Told'
      BY <2>1, <3>3, <3>4, Attaching
    <3> QED BY <2>1, <2>2, <3>5, SoundBegins DEF Sound, Kinds
  <2> QED BY <2>3, <2>4
<1>4. ASSUME NEW why \in {"detach", "quit"}, Leave(why) PROVE Sound'
  <2>1. /\ ui = Idle /\ attached # Nil /\ Begin(Steps(why), why, Nil) /\ promised' = Promise
        /\ UNCHANGED <<tmux, session, listed, live, pane, attached, asked, killed>>
    BY <1>4 DEF Leave, world, Free
  <2>2. Milder(pane, pane') /\ pane' \in [Pane -> Panes]
    BY <1>0, <2>1
  <2>3. Agenda' /\ Told'
    BY <2>1, <2>2, Begins
  <2>4. promised' \subseteq Host
    BY <2>1, NotHeld DEF Promise, Sound, Kinds, OnlyOne
  <2> QED BY <2>1, <2>2, <2>3, <2>4, SoundBegins DEF Sound, Kinds
<1>5. CASE killSession
  <2>1. /\ ui = Idle /\ attached # Nil /\ Begin(Steps("end"), "end", Nil)
        /\ UNCHANGED <<tmux, session, listed, live, pane, attached, asked, promised, killed>>
    BY <1>5 DEF killSession, world, ghost, Free
  <2>2. Milder(pane, pane') /\ pane' \in [Pane -> Panes]
    BY <1>0, <2>1
  <2>3. Agenda' /\ Told'
    BY <2>1, <2>2, Begins
  <2> QED BY <2>1, <2>2, <2>3, SoundBegins DEF Sound, Kinds
<1>6. CASE Refuse
  <2>1. asked' = Nil /\ UNCHANGED <<tmux, session, listed, live, pane, attached, ui, promised, killed>>
    BY <1>6 DEF Refuse, world, ghost
  <2>2. Milder(pane, pane') /\ pane' \in [Pane -> Panes]
    BY <1>0, <2>1
  <2> QED BY <2>1, <2>2, SoundQuiet
<1> QED BY <1>1, <1>2, <1>3, <1>4, <1>5, <1>6

LEMMA SoundOutside ==
    ASSUME Sound, NEW h \in Host, RemoteExits(h) \/ OtherOpens(h)
    PROVE  Sound'
<1>0. pane \in [Pane -> Panes]
  BY DEF Sound, Kinds
<1>1. CASE RemoteExits(h)
  <2>1. /\ session' = session \ {h} /\ pane' = Cut(h) /\ promised' = promised \ {h}
        /\ UNCHANGED <<tmux, listed, live, attached, ui, asked, killed>>
    BY <1>1 DEF RemoteExits
  <2>2. pane' \in [Pane -> Panes] /\ Milder(pane, pane')
    BY <1>0, <2>1, Cutting
  <2> QED BY <2>1, <2>2, SoundQuiet DEF Sound, Kinds
<1>2. CASE OtherOpens(h)
  <2>1. /\ session' = session \cup {h} /\ killed' = killed \ {h}
        /\ UNCHANGED <<tmux, listed, live, pane, attached, ui, asked, promised>>
    BY <1>2 DEF OtherOpens
  <2>2. Kinds' /\ Agenda' /\ OnlyOne' /\ Began'
    BY <2>1 DEF Sound, Kinds, Agenda, OnlyOne, Began
  <2>3. Told' /\ Over'
    BY <2>1 DEF Sound, Told, Over, Doing
  <2> QED BY <2>2, <2>3 DEF Sound
<1> QED BY <1>1, <1>2

LEMMA SoundDelete ==
    ASSUME Sound, Delete
    PROVE  Sound'
<1> DEFINE h == asked.host
           kills == asked.connected
           gone == IF kills THEN {h} ELSE {}
           left == IF kills /\ tmux THEN Cut(h) ELSE pane
<1>0. pane \in [Pane -> Panes] /\ attached \in Pane \cup {Nil} /\ asked \in [host : Host, connected : BOOLEAN]
  BY DEF Sound, Kinds, Delete
<1>1. /\ ui = Idle /\ asked' = Nil /\ session' = session \ gone /\ listed' = listed \ {h}
      /\ live' = session' \cap Doomed /\ promised' = promised \ gone /\ killed' = killed \cup gone
      /\ IF attached # Nil /\ pane[attached].host \notin listed'
         THEN pane' = left /\ Begin(Steps("vanish"), "vanish", Nil)
         ELSE pane' = Draw(left, attached) /\ UNCHANGED ui
      /\ UNCHANGED <<tmux, attached>>
  BY DEF Delete
<1>2. h \in Host /\ gone \subseteq {h}
  BY <1>0
<1> HIDE DEF h, kills, gone
<1>3. left \in [Pane -> Panes] /\ Milder(pane, left)
  BY <1>0, Cutting DEF Milder
<1> HIDE DEF left
<1>4. pane' \in [Pane -> Panes] /\ Milder(pane, pane') /\ Agenda' /\ Told'
  <2>1. CASE attached # Nil /\ pane[attached].host \notin listed'
    <3>1. pane' = left /\ Begin(Steps("vanish"), "vanish", Nil)
      BY <1>1, <2>1
    <3>2. Milder(pane, pane')
      BY <1>3, <3>1
    <3>3. Agenda' /\ Told'
      BY <1>1, <2>1, <3>1, <3>2, Begins
    <3> QED BY <1>3, <3>1, <3>3
  <2>2. CASE ~ (attached # Nil /\ pane[attached].host \notin listed')
    <3>1. pane' = Draw(left, attached) /\ ui' = ui
      BY <1>1, <2>2
    <3>2. Draw(left, attached) \in [Pane -> Panes] /\ Milder(left, Draw(left, attached))
      BY <1>0, <1>3, Drawing
    <3>3. pane' \in [Pane -> Panes] /\ Milder(pane, pane')
      BY <1>3, <3>1, <3>2 DEF Milder
    <3>4. Agenda'
      BY <1>1, <3>1 DEF Sound, Agenda
    <3> QED BY <1>1, <3>1, <3>3, <3>4, MildStep
  <2> QED BY <2>1, <2>2
<1>5. /\ session' \subseteq session /\ session' \subseteq Host /\ live' \subseteq Host /\ listed' \subseteq listed
      /\ promised' \subseteq Host /\ killed' \subseteq Host
      /\ \A x \in killed' \cap listed' : x \in killed
  BY <1>1, <1>2 DEF Sound, Kinds
<1> QED BY <1>1, <1>4, <1>5, SoundBegins

\* With the pane let go of, no client of this window is left but those that end.
LEMMA NobodyThere ==
    ASSUME Sound, attached' = Nil, pane' \in [Pane -> Panes], Agenda',
           \A q \in Pane : pane'[q].client \in {"none", "gone"} /\ ~ pane'[q].told,
           UNCHANGED <<tmux, listed, asked>>, session' \subseteq session, live' \subseteq Host,
           promised' \subseteq promised, killed' \subseteq Host,
           \A h \in killed' \ killed : h \notin session'
    PROVE  Sound'
<1>1. Kinds'
  BY DEF Sound, Kinds
<1>2. OnlyOne' /\ Began' /\ Told' /\ Over'
  BY NotHeld DEF Sound, OnlyOne, Began, Told, Over
<1> QED BY <1>1, <1>2 DEF Sound

LEMMA SoundClosing ==
    ASSUME Sound, Await \/ Reap \/ Kill
    PROVE  Sound'
<1> DEFINE a == attached
<1>0. pane \in [Pane -> Panes] /\ Agenda
  BY DEF Sound, Kinds
<1>1. a # Nil /\ a \in Pane /\ pane[a] \in Panes /\ pane[a].host \in Host
  <2>1. a # Nil
    BY Works DEF Sound, Await, Reap, Kill
  <2> QED BY <1>0, <2>1 DEF Sound, Kinds, OnlyOne
<1>2. \A q \in Pane \ {a} : pane[q].client \in {"none", "gone"} /\ ~ pane[q].told
  BY DEF Sound, OnlyOne
<1>3. Goes
  BY DEF Await, Reap, Kill
<1>4. ui' = [todo |-> ui'.todo, why |-> ui'.why, to |-> ui'.to]
  BY <1>0, <1>3, GoesOn
<1>5. CASE Await
  <2> DEFINE r == [pane[a] EXCEPT !.told = TRUE]
  <2>1. /\ r \in Panes /\ r.host = pane[a].host /\ r.client = pane[a].client /\ r.told = TRUE
        /\ r.pty = pane[a].pty /\ r.alt = pane[a].alt /\ r.exited = pane[a].exited
    BY <1>1 DEF Panes
  <2>2. /\ Doing("await") /\ pane' = [pane EXCEPT ![a] = r]
        /\ UNCHANGED <<tmux, session, listed, live, attached, asked, promised, killed>>
    BY <1>5 DEF Await, Becomes, world, ghost
  <2>3. /\ \/ Attaches(<<"reap", "open">>)' \/ Ends(<<"reap", "kill">>)' \/ Leaving(<<"reap">>)'
    BY <1>0, <1>3, <2>2, Works, GoesOn
  <2>4. Agenda'
    BY <1>1, <1>4, <2>2, <2>3 DEF Agenda, Attaches, Ends, Leaving
  <2>5. Doing("reap")' /\ ~ Doing("kill")'
    <3>1. /\ Head(<<"reap", "open">>) = "reap" /\ Head(<<"reap", "kill">>) = "reap" /\ Head(<<"reap">>) = "reap"
          /\ <<"reap", "open">> # <<>> /\ <<"reap", "kill">> # <<>> /\ <<"reap">> # <<>> /\ "reap" # "kill"
      OBVIOUS
    <3> QED BY <2>3, <3>1 DEF Doing, Attaches, Ends, Leaving
  <2> HIDE DEF r
  <2>6. pane' \in [Pane -> Panes] /\ pane'[a] = r /\ \A q \in Pane \ {a} : pane'[q] = pane[q]
    BY <1>0, <1>1, <2>1, <2>2
  <2>7. Kinds'
    BY <2>2, <2>6 DEF Sound, Kinds
  <2>8. OnlyOne' /\ Began'
    BY <1>1, <1>2, <2>1, <2>2, <2>6 DEF Sound, OnlyOne, Began
  <2>9. Told'
    BY <2>5 DEF Told
  <2>10. Over'
    BY <2>1, <2>2, <2>6 DEF Sound, Over
  <2> QED BY <2>4, <2>7, <2>8, <2>9, <2>10 DEF Sound
<1>6. CASE Reap
  <2> DEFINE f == [pane EXCEPT ![a] = IF Leaves THEN Closed(@) ELSE [@ EXCEPT !.open = FALSE, !.client = "gone"]]
             r == [pane[a] EXCEPT !.open = FALSE, !.client = "gone"]
  <2>1. /\ r \in Panes /\ r.host = pane[a].host /\ r.client = "gone" /\ r.told = pane[a].told
    BY <1>1 DEF Panes
  <2>2. Closed(pane[a]) \in Panes /\ Closed(pane[a]).client = "gone" /\ Closed(pane[a]).told = FALSE
    BY <1>1, Records
  <2>3. /\ Doing("reap") /\ pane' = After(f) /\ UNCHANGED <<tmux, session, listed, asked, promised, killed>>
        /\ IF Leaves THEN attached' = Nil /\ live' = session \cap Doomed ELSE UNCHANGED <<attached, live>>
    BY <1>6 DEF Reap, world, ghost
  <2>4. /\ f \in [Pane -> Panes] /\ \A q \in Pane \ {a} : f[q] = pane[q]
        /\ f[a] = IF Leaves THEN Closed(pane[a]) ELSE r
    BY <1>0, <1>1, <2>1, <2>2
  <2>5. \/ Attaches(<<"reap", "open">>) \/ Ends(<<"reap", "kill">>) \/ Leaving(<<"reap">>)
    BY <1>0, <2>3, Works
  <2> HIDE DEF f, r
  <2>6. CASE Attaches(<<"reap", "open">>) \/ Leaving(<<"reap">>)
    <3>1. Leaves /\ attached' = Nil /\ live' = session \cap Doomed
      BY <1>0, <1>3, <2>3, <2>6, GoesOn
    <3>2. Agenda'
      BY <1>0, <1>3, <1>4, <2>6, <3>1, GoesOn DEF Agenda, Attaches
    <3>3. pane' \in [Pane -> Panes] /\ \A q \in Pane : pane'[q].client \in {"none", "gone"} /\ ~ pane'[q].told
      <4>1. \A q \in Pane : f[q].client \in {"none", "gone"} /\ ~ f[q].told
        BY <1>2, <2>2, <2>4, <3>1
      <4>2. CASE ui.why = "quit"
        BY <2>3, <4>2, Records DEF After
      <4>3. CASE ui.why # "quit"
        BY <2>3, <2>4, <4>1, <4>3 DEF After
      <4> QED BY <4>2, <4>3
    <3> QED BY <2>3, <3>1, <3>2, <3>3, NobodyThere DEF Sound, Kinds
  <2>7. CASE Ends(<<"reap", "kill">>)
    <3>1. ~ Leaves /\ Ends(<<"kill">>)' /\ UNCHANGED <<attached, live>>
      BY <1>0, <1>3, <2>3, <2>7, GoesOn
    <3>2. Agenda'
      BY <1>1, <1>4, <3>1 DEF Agenda, Ends
    <3>3. pane' = f /\ f[a] = r
      BY <2>3, <2>4, <2>7, <3>1 DEF After, Ends
    <3>4. Doing("kill")'
      <4>1. Head(<<"kill">>) = "kill" /\ <<"kill">> # <<>>
        OBVIOUS
      <4> QED BY <3>1, <4>1 DEF Doing, Ends
    <3>5. Kinds'
      BY <2>3, <2>4, <3>1, <3>3 DEF Sound, Kinds
    <3>6. OnlyOne' /\ Began'
      BY <1>1, <1>2, <2>1, <2>4, <3>1, <3>3 DEF OnlyOne, Began, Sound
    <3>7. Told'
      BY <2>1, <3>1, <3>3, <3>4 DEF Told
    <3>8. Over'
      BY <1>2, <2>1, <2>3, <2>4, <3>3 DEF Sound, Over
    <3> QED BY <3>2, <3>5, <3>6, <3>7, <3>8 DEF Sound
  <2> QED BY <2>5, <2>6, <2>7
<1>7. CASE Kill
  <2> DEFINE h == pane[a].host
             f == IF tmux THEN Cut(h) ELSE pane
  <2>1. Doing("kill") /\ Leaves /\ ui' = Idle
    BY <1>0, <1>3, <1>7, Works, GoesOn DEF Kill
  <2>2. /\ session' = session \ {h} /\ killed' = killed \cup {h} /\ promised' = promised \ {h}
        /\ pane' = [f EXCEPT ![a] = Closed(@)] /\ attached' = Nil /\ live' = session' \cap Doomed
        /\ UNCHANGED <<tmux, listed, asked>>
    BY <1>7, <2>1 DEF Kill
  <2>3. h \in Host
    BY <1>1
  <2> HIDE DEF h
  <2>4. f \in [Pane -> Panes] /\ Milder(pane, f)
    BY <1>0, Cutting DEF Milder
  <2> HIDE DEF f
  <2>5. Closed(f[a]) \in Panes /\ Closed(f[a]).client = "gone" /\ Closed(f[a]).told = FALSE
    BY <1>1, <2>4, Records
  <2>6. /\ pane' \in [Pane -> Panes] /\ pane'[a] = Closed(f[a]) /\ \A q \in Pane \ {a} : pane'[q] = f[q]
    BY <1>1, <2>2, <2>4, <2>5
  <2>7. \A q \in Pane : pane'[q].client \in {"none", "gone"} /\ ~ pane'[q].told
    BY <1>2, <2>4, <2>5, <2>6 DEF Milder
  <2>8. Agenda'
    BY <1>4, <2>1 DEF Agenda
  <2>9. session' \subseteq session /\ live' \subseteq Host /\ killed' \subseteq Host
        /\ \A x \in killed' \ killed : x \notin session'
    BY <2>2, <2>3 DEF Sound, Kinds
  <2> QED BY <2>2, <2>6, <2>7, <2>8, <2>9, NobodyThere
<1> QED BY <1>5, <1>6, <1>7

LEMMA SoundOpen ==
    ASSUME Sound, Open
    PROVE  Sound'
<1>0. pane \in [Pane -> Panes] /\ Agenda
  BY DEF Sound, Kinds
<1>1. attached = Nil /\ Attaches(<<"open">>) /\ ui' = Idle
  BY <1>0, Works, GoesOn DEF Open
<1>2. UNCHANGED <<tmux, session, listed, live, asked, promised>>
  BY DEF Open, world
<1>3. Agenda'
  BY <1>1 DEF Agenda, Idle
<1>4. \A w : ~ Doing(w)'
  BY <1>1 DEF Doing, Idle
<1>5. CASE UNCHANGED <<pane, attached, killed>>
  <2>1. Kinds' /\ OnlyOne' /\ Began' /\ Over'
    BY <1>2, <1>5 DEF Sound, Kinds, OnlyOne, Began, Over
  <2>2. Told'
    BY <1>1, <1>5 DEF Told
  <2> QED BY <1>3, <2>1, <2>2 DEF Sound
<1>6. ASSUME NEW p \in Pane, Becomes(p, Opened(ui.to)), attached' = p, killed' = killed \ {ui.to}
      PROVE  Sound'
  <2>1. /\ Opened(ui.to) \in Panes /\ Opened(ui.to).host = ui.to /\ ui.to \in Host
        /\ Opened(ui.to).client = "starting" /\ Opened(ui.to).told = FALSE
        /\ Opened(ui.to).pty = FALSE /\ Opened(ui.to).alt = FALSE /\ Opened(ui.to).exited = FALSE
    BY <1>1, Records DEF Attaches
  <2>2. /\ pane' \in [Pane -> Panes] /\ pane'[p] = Opened(ui.to) /\ \A q \in Pane \ {p} : pane'[q] = pane[q]
    BY <1>0, <1>6, <2>1 DEF Becomes
  <2>3. \A q \in Pane : pane[q].client \in {"none", "gone"} /\ ~ pane[q].told
    BY <1>1, NotHeld DEF Sound, OnlyOne
  <2>4. Kinds'
    BY <1>2, <1>6, <2>2 DEF Sound, Kinds
  <2>5. OnlyOne' /\ Began'
    BY <1>6, <2>1, <2>2, <2>3 DEF OnlyOne, Began
  <2>6. Told'
    BY <1>4, <1>6, <2>1, <2>2 DEF Told
  <2>7. Over'
    BY <1>2, <1>6, <2>1, <2>2, <2>3 DEF Sound, Over
  <2> QED BY <1>3, <2>4, <2>5, <2>6, <2>7 DEF Sound
<1> QED BY <1>5, <1>6 DEF Open

LEMMA SoundNext == Sound /\ [Next]_vars => Sound'
<1> SUFFICES ASSUME Sound, [Next]_vars PROVE Sound'
  OBVIOUS
<1>1. CASE UNCHANGED vars
  BY <1>1 DEF vars, Sound, Kinds, Agenda, OnlyOne, Began, Told, Over, Doing
<1>2. ASSUME NEW p \in Pane,
             \/ Speaks(p) \/ Read(p) \/ ReadEnds(p) \/ Reaped(p) \/ Look(p) \/ Awaken(p) \/ handlePaneOutput(p)
      PROVE  Sound'
  <2>1. /\ pane' \in [Pane -> Panes] /\ Milder(pane, pane')
        /\ UNCHANGED <<world, live, attached, ui, asked, ghost>>
    BY <1>2, QuietSteps
  <2>2. UNCHANGED <<tmux, session, listed, live, attached, ui, asked, promised, killed>>
    BY <2>1 DEF world, ghost
  <2> QED BY <2>1, <2>2, SoundQuiet DEF Sound, Kinds
<1>3. ASSUME NEW p \in Pane, Fails(p) \/ Heeds(p) PROVE Sound'
  <2>1. /\ pane' \in [Pane -> Panes] /\ Milder(pane, pane')
        /\ UNCHANGED <<world, live, attached, ui, asked, killed>>
    BY <1>3, Goners
  <2>2. promised' \subseteq promised
    BY <1>3 DEF Fails, Heeds, ghost
  <2>3. UNCHANGED <<tmux, session, listed, live, attached, ui, asked, killed>>
    BY <2>1 DEF world
  <2> QED BY <2>1, <2>2, <2>3, SoundQuiet DEF Sound, Kinds
<1> QED BY <1>1, <1>2, <1>3, SoundStarts, SoundOutside, SoundKeys, SoundDelete, SoundClosing, SoundOpen DEF Next

-----------------------------------------------------------------------------
(* What was said of a session.                                             *)

\* A client of tmux that is on shows a session the server keeps.
There == tmux => \A p \in Pane : pane[p].client = "on" => pane[p].host \in session
\* A session said to be still running is there, or its client is still being waited for.
Kept ==
    \A h \in promised :
        /\ tmux
        /\ \/ h \in session
           \/ /\ attached # Nil /\ ui.todo = <<"await", "reap">>
              /\ pane[attached].host = h /\ pane[attached].client = "starting"

Honest == Sound /\ There /\ Kept

\* While no key is being answered, every one said to be running is there.
LEMMA KeptAtRest ==
    ASSUME Kept, ui.todo # <<"await", "reap">>
    PROVE  promised \subseteq session /\ (promised # {} => tmux)
BY DEF Kept

LEMMA IdleAtRest == ui = Idle => ui.todo # <<"await", "reap">>
BY DEF Idle

\* A step in which no client begins or starts, and in which what goes of the sessions is
\* neither shown nor promised.
LEMMA Unmoved ==
    ASSUME Honest, tmux' = tmux, attached' = attached, Milder(pane, pane'),
           tmux => \A q \in Pane : pane'[q].client = "on" /\ pane[q].host \in session
                                     => pane[q].host \in session',
           \A h \in promised' : h \in promised /\ (h \in session => h \in session'),
           \/ ui = Idle
           \/ /\ ui' = ui
              /\ \A h \in promised' :
                    attached # Nil /\ pane[attached].host = h /\ pane[attached].client = "starting"
                       /\ ui.todo = <<"await", "reap">>
                       => pane'[attached].client = "starting"
    PROVE  There' /\ Kept'
<1>1. There'
  BY DEF Honest, There, Milder
<1>2. attached # Nil => attached \in Pane
  BY DEF Honest, Sound, Kinds
<1>3. CASE ui = Idle
  <2>1. promised \subseteq session /\ (promised # {} => tmux)
    BY <1>3, KeptAtRest, IdleAtRest DEF Honest
  <2> QED BY <1>1, <2>1 DEF Kept
<1>4. CASE /\ ui' = ui
           /\ \A h \in promised' :
                 attached # Nil /\ pane[attached].host = h /\ pane[attached].client = "starting"
                    /\ ui.todo = <<"await", "reap">>
                    => pane'[attached].client = "starting"
  BY <1>1, <1>2, <1>4 DEF Honest, Kept, Milder
<1> QED BY <1>1, <1>3, <1>4

LEMMA HonestStarts ==
    ASSUME Honest, NEW p \in Pane, Starts(p)
    PROVE  There' /\ Kept'
<1>1. /\ p = attached /\ pane'[p].host = pane[p].host /\ pane'[p].client = "on"
      /\ \A q \in Pane \ {p} : pane'[q] = pane[q]
      /\ session' = IF tmux THEN session \cup {pane[p].host} ELSE session
  BY Started DEF Honest
<1>2. UNCHANGED <<tmux, attached, ui, promised>>
  BY Started DEF Honest, ghost
<1>3. There'
  BY <1>1, <1>2 DEF Honest, There
<1>4. Kept'
  BY <1>1, <1>2 DEF Honest, Kept
<1> QED BY <1>3, <1>4

\* What a pane does by itself, and how its client ends.
LEMMA HonestAlone ==
    ASSUME Honest, NEW p \in Pane,
           \/ Speaks(p) \/ Read(p) \/ ReadEnds(p) \/ Reaped(p) \/ Look(p) \/ Awaken(p) \/ handlePaneOutput(p)
           \/ Fails(p) \/ Heeds(p)
    PROVE  There' /\ Kept'
<1>0. attached # Nil => attached \in Pane
  BY DEF Honest, Sound, Kinds
<1>1. CASE \/ Speaks(p) \/ Read(p) \/ ReadEnds(p) \/ Reaped(p) \/ Look(p) \/ Awaken(p) \/ handlePaneOutput(p)
  <2>1. Milder(pane, pane') /\ Same(pane, pane') /\ UNCHANGED <<world, live, attached, ui, asked, ghost>>
    BY <1>1, QuietSteps DEF Honest
  <2>2. UNCHANGED <<tmux, session, attached, ui, promised>>
    BY <2>1 DEF world, ghost
  <2>3. attached # Nil => pane'[attached].client = pane[attached].client
    BY <1>0, <2>1 DEF Same
  <2> QED BY <2>1, <2>2, <2>3, Unmoved
<1>2. CASE Fails(p) \/ Heeds(p)
  <2>1. /\ Milder(pane, pane') /\ \A q \in Pane \ {p} : pane'[q] = pane[q]
        /\ UNCHANGED <<world, live, attached, ui, asked, killed>>
    BY <1>2, Goners DEF Honest
  <2>2. UNCHANGED <<tmux, session, attached, ui>>
    BY <2>1 DEF world
  <2>3. promised' \subseteq promised
    BY <1>2 DEF Fails, Heeds, ghost
  <2>4. ASSUME NEW h \in promised', attached # Nil, pane[attached].host = h,
               pane[attached].client = "starting", ui.todo = <<"await", "reap">>
        PROVE  pane'[attached].client = "starting"
    <3>1. CASE p # attached
      BY <1>0, <2>1, <2>4, <3>1
    <3>2. CASE p = attached /\ Fails(p)
      BY <2>4, <3>2 DEF Fails
    <3>3. CASE p = attached /\ Heeds(p)
      <4>1. Head(<<"await", "reap">>) = "await" /\ "await" # "reap" /\ "await" # "kill"
        OBVIOUS
      <4>2. pane[attached].told
        BY <3>3 DEF Heeds
      <4> QED BY <2>4, <4>1, <4>2 DEF Honest, Sound, Told, Doing
    <3> QED BY <1>2, <3>1, <3>2, <3>3
  <2> QED BY <2>1, <2>2, <2>3, <2>4, Unmoved
<1> QED BY <1>1, <1>2

LEMMA HonestOutside ==
    ASSUME Honest, NEW h \in Host, RemoteExits(h) \/ OtherOpens(h)
    PROVE  There' /\ Kept'
<1>0. pane \in [Pane -> Panes] /\ (attached # Nil => attached \in Pane)
  BY DEF Honest, Sound, Kinds
<1>1. CASE RemoteExits(h)
  <2>1. /\ session' = session \ {h} /\ pane' = Cut(h) /\ promised' = promised \ {h}
        /\ UNCHANGED <<tmux, attached, ui>>
    BY <1>1 DEF RemoteExits
  <2>2. /\ Milder(pane, pane')
        /\ \A q \in Pane : pane'[q].client = "on" => pane[q].host # h
        /\ \A q \in Pane : pane[q].client = "starting" => pane'[q].client = "starting"
    BY <1>0, <2>1, Cutting
  <2> QED BY <1>0, <2>1, <2>2, Unmoved
<1>2. CASE OtherOpens(h)
  <2>1. session \subseteq session' /\ UNCHANGED <<tmux, pane, attached, ui, promised>>
    BY <1>2 DEF OtherOpens
  <2>2. Milder(pane, pane')
    BY <2>1 DEF Milder
  <2> QED BY <2>1, <2>2, Unmoved
<1> QED BY <1>1, <1>2

\* Every key but the ones that leave the session promises nothing.
LEMMA HonestKeys ==
    ASSUME Honest,
           \/ \E h \in Host : attachSession(h) \/ askDeleteHost(h)
           \/ \E dir \in {-1, 1} : switchSession(dir)
           \/ killSession \/ Refuse
    PROVE  There' /\ Kept'
<1>0. pane \in [Pane -> Panes] /\ attached \in Pane \cup {Nil} /\ Sound
  BY DEF Honest, Sound, Kinds
<1>1. ui = Idle /\ UNCHANGED <<tmux, session, attached, promised>>
  BY DEF attachSession, askDeleteHost, switchSession, killSession, Refuse, Free, world, ghost
<1>2. Milder(pane, pane')
  <2>0. Milder(pane, pane) /\ Milder(pane, Draw(pane, attached))
    BY <1>0, Drawing DEF Milder
  <2>1. ASSUME NEW h \in Host, attachHost(h) PROVE Milder(pane, pane')
    BY <2>0, <2>1 DEF attachHost
  <2>2. ASSUME NEW h \in Host, attachSession(h) \/ askDeleteHost(h) PROVE Milder(pane, pane')
    BY <2>0, <2>1, <2>2 DEF attachSession, askDeleteHost
  <2>3. ASSUME NEW dir \in {-1, 1}, switchSession(dir) PROVE Milder(pane, pane')
    <3>1. pane' = pane \/ pane' = Draw(pane, attached)
      BY <2>3 DEF switchSession, attachHost
    <3> QED BY <2>0, <3>1
  <2>4. CASE killSession \/ Refuse
    BY <2>0, <2>4 DEF killSession, Refuse
  <2> QED BY <2>2, <2>3, <2>4
<1> QED BY <1>1, <1>2, Unmoved

\* What is said on leaving is so: the session is there, or its client is waited for.
LEMMA HonestLeave ==
    ASSUME Honest, NEW why \in {"detach", "quit"}, Leave(why)
    PROVE  There' /\ Kept'
<1>1. /\ ui = Idle /\ attached # Nil /\ Begin(Steps(why), why, Nil) /\ promised' = Promise
      /\ UNCHANGED <<tmux, session, pane, attached>>
  BY DEF Leave, world, Free
<1>2. There'
  BY <1>1 DEF Honest, There
<1>3. ui'.todo = <<"await", "reap">>
  BY <1>1, StepsAre DEF Begin
<1>4. promised \subseteq session /\ (promised # {} => tmux)
  BY <1>1, KeptAtRest, IdleAtRest DEF Honest
<1>5. ASSUME NEW h \in promised', h \notin promised
      PROVE  tmux /\ pane[attached].host = h /\ pane[attached].client \in {"starting", "on"}
  <2>1. tmux /\ pane[attached].host = h /\ pane[attached].client # "gone"
    BY <1>1, <1>5 DEF Promise
  <2>2. attached \in Pane /\ pane[attached] \in Panes /\ pane[attached].client # "none"
    BY <1>1 DEF Honest, Sound, Kinds, OnlyOne
  <2> QED BY <2>1, <2>2 DEF Panes
<1>6. attached \in Pane
  BY <1>1 DEF Honest, Sound, Kinds
<1>7. Kept'
  BY <1>1, <1>3, <1>4, <1>5, <1>6 DEF Kept, Honest, There
<1> QED BY <1>2, <1>7

LEMMA HonestDelete ==
    ASSUME Honest, Delete
    PROVE  There' /\ Kept'
<1> DEFINE h == asked.host
           kills == asked.connected
           gone == IF kills THEN {h} ELSE {}
           left == IF kills /\ tmux THEN Cut(h) ELSE pane
<1>0. pane \in [Pane -> Panes] /\ attached \in Pane \cup {Nil}
  BY DEF Honest, Sound, Kinds
<1>1. /\ ui = Idle /\ session' = session \ gone /\ promised' = promised \ gone
      /\ pane' = left \/ pane' = Draw(left, attached)
      /\ UNCHANGED <<tmux, attached>>
  BY DEF Delete
<1>2. gone \subseteq {h} /\ (gone # {} => kills)
  OBVIOUS
<1> HIDE DEF h, gone
<1>3. /\ left \in [Pane -> Panes] /\ Milder(pane, left)
      /\ tmux /\ kills => \A q \in Pane : left[q].client = "on" => pane[q].host # h
  BY <1>0, Cutting DEF Milder
<1> HIDE DEF left, kills
<1>4. /\ Milder(pane, pane')
      /\ tmux /\ kills => \A q \in Pane : pane'[q].client = "on" => pane[q].host # h
  <2>1. Milder(left, Draw(left, attached)) /\ Same(left, Draw(left, attached))
    BY <1>0, <1>3, Drawing
  <2>2. Milder(left, left) /\ Same(left, left)
    BY DEF Milder, Same
  <2>3. Milder(left, pane') /\ Same(left, pane')
    BY <1>1, <2>1, <2>2
  <2> QED BY <1>3, <2>3 DEF Milder, Same
<1> QED BY <1>1, <1>2, <1>4, Unmoved

\* The wait for a client ends only once it has attached, so that what was promised is there by then.
LEMMA HonestClosing ==
    ASSUME Honest, ~ Slow, Await \/ Reap \/ Kill
    PROVE  There' /\ Kept'
<1>0. pane \in [Pane -> Panes] /\ Agenda
  BY DEF Honest, Sound, Kinds
<1>1. attached \in Pane /\ pane[attached] \in Panes
  <2>1. attached # Nil
    BY <1>0, Works DEF Await, Reap, Kill
  <2> QED BY <1>0, <2>1 DEF Honest, Sound, Kinds
<1>2. /\ Head(<<"await", "reap">>) = "await" /\ "await" # "reap" /\ "await" # "kill"
  OBVIOUS
<1>3. promised \subseteq session /\ (promised # {} => tmux)
  <2>1. CASE Await
    <3>1. ASSUME NEW h \in promised, h \notin session PROVE FALSE
      <4>1. tmux /\ pane[attached].client = "starting"
        BY <3>1 DEF Honest, Kept
      <4>2. ~ pane[attached].alt /\ ~ pane[attached].exited
        BY <1>1, <4>1 DEF Honest, Sound, Began
      <4> QED BY <2>1, <4>1, <4>2 DEF Await, Attached
    <3> QED BY <3>1 DEF Honest, Kept
  <2>2. CASE Reap \/ Kill
    <3>1. ui.todo # <<"await", "reap">>
      BY <1>2, <2>2 DEF Reap, Kill, Doing
    <3> QED BY <3>1, KeptAtRest DEF Honest
  <2> QED BY <2>1, <2>2
<1>4. CASE Await
  <2>1. UNCHANGED <<tmux, session, promised>> /\ pane' = [pane EXCEPT ![attached] = [pane[attached] EXCEPT !.told = TRUE]]
    BY <1>4 DEF Await, Becomes, world, ghost
  <2>2. \A q \in Pane : pane'[q].client = pane[q].client /\ pane'[q].host = pane[q].host
    <3>1. /\ [pane[attached] EXCEPT !.told = TRUE].client = pane[attached].client
          /\ [pane[attached] EXCEPT !.told = TRUE].host = pane[attached].host
      BY <1>1 DEF Panes
    <3> QED BY <1>0, <1>1, <2>1, <3>1
  <2> QED BY <1>3, <2>1, <2>2 DEF Honest, There, Kept
<1>5. CASE Reap \/ Kill
  <2>1. \A q \in Pane : pane'[q].client # "on"
    <3>1. \A q \in Pane \ {attached} : pane[q].client # "on"
      BY DEF Honest, Sound, OnlyOne
    <3>2. CASE Reap
      <4> DEFINE r == [pane[attached] EXCEPT !.open = FALSE, !.client = "gone"]
                 f == [pane EXCEPT ![attached] = IF Leaves THEN Closed(@) ELSE r]
      <4>1. r.client = "gone"
        BY <1>1 DEF Panes
      <4>2. Closed(pane[attached]).client = "gone" /\ Unused.client = "none"
        BY <1>1, Records
      <4>3. pane' = After(f)
        BY <3>2 DEF Reap
      <4> HIDE DEF r
      <4>4. f[attached].client = "gone" /\ \A q \in Pane \ {attached} : f[q] = pane[q]
        BY <1>0, <1>1, <4>1, <4>2
      <4>5. pane' = f \/ pane' = [p \in Pane |-> Unused]
        BY <4>3 DEF After
      <4> HIDE DEF f
      <4> QED BY <1>1, <3>1, <4>2, <4>4, <4>5
    <3>3. CASE Kill
      <4> DEFINE f == IF tmux THEN Cut(pane[attached].host) ELSE pane
      <4>1. f \in [Pane -> Panes] /\ Milder(pane, f)
        BY <1>0, Cutting DEF Milder
      <4>2. Leaves
        BY <1>0, <3>3, Works, GoesOn DEF Kill
      <4>3. pane' = [f EXCEPT ![attached] = Closed(@)]
        BY <3>3, <4>2 DEF Kill
      <4> HIDE DEF f
      <4>4. Closed(f[attached]).client = "gone"
        BY <1>1, <4>1, Records
      <4> QED BY <1>1, <3>1, <4>1, <4>3, <4>4 DEF Milder
    <3> QED BY <1>5, <3>2, <3>3
  <2>2. tmux' = tmux /\ promised' \subseteq promised /\ promised' \subseteq session'
    <3>1. CASE Reap
      BY <1>3, <3>1 DEF Reap, world, ghost
    <3>2. CASE Kill
      <4>1. PICK h : session' = session \ {h} /\ promised' = promised \ {h} /\ tmux' = tmux
        BY <3>2 DEF Kill
      <4> QED BY <1>3, <4>1
    <3> QED BY <1>5, <3>1, <3>2
  <2>3. There'
    BY <2>1 DEF There
  <2>4. Kept'
    BY <1>3, <2>2 DEF Kept
  <2> QED BY <2>3, <2>4
<1> QED BY <1>4, <1>5

LEMMA HonestOpen ==
    ASSUME Honest, Open
    PROVE  There' /\ Kept'
<1>0. pane \in [Pane -> Panes] /\ Agenda
  BY DEF Honest, Sound, Kinds
<1>1. Attaches(<<"open">>) /\ UNCHANGED <<tmux, session, promised>>
  BY <1>0, Works DEF Open, world
<1>2. <<"open">> # <<"await", "reap">>
  <2>1. Len(<<"open">>) = 1 /\ Len(<<"await", "reap">>) = 2
    OBVIOUS
  <2> QED BY <2>1
<1>3. promised \subseteq session /\ (promised # {} => tmux)
  BY <1>1, <1>2, KeptAtRest DEF Honest, Attaches
<1>4. Kept'
  BY <1>1, <1>3 DEF Kept
<1>5. \A q \in Pane : pane'[q] = pane[q] \/ pane'[q].client # "on"
  <2>1. Opened(ui.to) \in Panes /\ Opened(ui.to).client = "starting"
    BY <1>1, Records DEF Attaches
  <2>2. CASE UNCHANGED pane
    BY <2>2
  <2>3. ASSUME NEW p \in Pane, Becomes(p, Opened(ui.to)) PROVE \A q \in Pane : pane'[q] = pane[q] \/ pane'[q].client # "on"
    BY <1>0, <2>1, <2>3 DEF Becomes
  <2> QED BY <2>2, <2>3 DEF Open
<1>6. There'
  BY <1>1, <1>5 DEF Honest, There
<1> QED BY <1>4, <1>6

LEMMA HonestInit == Init => Honest
<1> SUFFICES ASSUME Init PROVE Honest
  OBVIOUS
<1>1. Sound
  BY SoundInit
<1>2. There /\ Kept
  BY Records DEF Init, There, Kept
<1> QED BY <1>1, <1>2 DEF Honest

LEMMA HonestNext ==
    ASSUME ~ Slow, Honest, [Next]_vars
    PROVE  Honest'
<1>1. Sound'
  BY SoundNext DEF Honest
<1>2. There' /\ Kept'
  <2>1. UNCHANGED vars => There' /\ Kept'
    BY DEF vars, Honest, There, Kept
  <2>2. Next => There' /\ Kept'
    BY HonestStarts, HonestAlone, HonestOutside, HonestKeys, HonestLeave, HonestDelete, HonestClosing,
       HonestOpen DEF Next
  <2> QED BY <2>1, <2>2
<1> QED BY <1>1, <1>2 DEF Honest

-----------------------------------------------------------------------------
(* The theorems about the pane.                                            *)

LEMMA SoundAlways == Spec => []Sound
<1>1. Init => Sound
  BY SoundInit
<1>2. Sound /\ [Next]_vars => Sound'
  BY SoundNext
<1> QED BY <1>1, <1>2, PTL DEF Spec

LEMMA TodoIsWork == Agenda => ui.todo \in Seq(Work) /\ ui.why \in {"attach", "detach", "end", "vanish", "quit", Nil}
                              /\ ui.to \in Host \cup {Nil}
<1>1. "await" \in Work /\ "reap" \in Work /\ "kill" \in Work /\ "open" \in Work
  BY DEF Work
<1>2. /\ <<"await", "reap", "open">> \in Seq(Work) /\ <<"await", "reap", "kill">> \in Seq(Work)
      /\ <<"await", "reap">> \in Seq(Work) /\ <<"reap", "open">> \in Seq(Work) /\ <<"reap", "kill">> \in Seq(Work)
      /\ <<"reap">> \in Seq(Work) /\ <<"kill">> \in Seq(Work) /\ <<"open">> \in Seq(Work) /\ <<>> \in Seq(Work)
  BY <1>1
<1>3. ui = Idle => ui.todo = <<>> /\ ui.why = Nil /\ ui.to = Nil
  BY DEF Idle
<1> QED BY <1>2, <1>3 DEF Agenda

\* The type of the state: in particular whatever is attached is some host's pane, and the
\* event loop is only ever in the middle of a Close, an Open or the end of a session.
THEOREM PaneTypes == Spec => []TypeOK
<1>1. Sound => TypeOK
  <2> SUFFICES ASSUME Sound PROVE TypeOK
    OBVIOUS
  <2>1. Kinds /\ Agenda
    BY DEF Sound
  <2>2. attached # Nil => pane[attached].host # Nil
    BY PaneAssumption DEF Sound, Kinds, OnlyOne
  <2>3. ui \in [todo : Seq(Work), why : {"attach", "detach", "end", "vanish", "quit", Nil}, to : Host \cup {Nil}]
    <3>1. ui = [todo |-> ui.todo, why |-> ui.why, to |-> ui.to]
      BY <2>1 DEF Agenda
    <3> QED BY <2>1, <3>1, TodoIsWork
  <2> QED BY <2>1, <2>2, <2>3 DEF Kinds, Panes, TypeOK
<1> QED BY <1>1, SoundAlways, PTL

\* session.go:103: while the event loop is closing nothing, no child of this window but the
\* attached pane's is alive that has not been told to go, whatever is pressed, fails or ends.
THEOREM OneChildAtATime == Spec => []OneConnection
<1>1. Sound => OneConnection
  BY DEF Sound, OnlyOne, OneConnection
<1> QED BY <1>1, SoundAlways, PTL

\* session.go:170: however many hosts there are, and whichever are listed, running and shown,
\* ctrl+\ n and p go to the nearest in the list, round its end, and the count is its place.
THEOREM StepsAreToTheNeighbour == Spec => []StepsToTheNeighbour
<1>1. Sound => StepsToTheNeighbour
  <2> SUFFICES ASSUME Sound, attached # Nil, Others # {}, NEW dir \in {-1, 1}
               PROVE  LET to      == CHOOSE h \in Others : Before(h) = Target(dir)
                          here    == IF pane[attached].host \in listed THEN pane[attached].host ELSE 0
                          away(h) == (dir * (h - here)) % (N + 1)
                          counted == Others \cup (IF here # 0 /\ Alive(attached) THEN {here} ELSE {})
                      IN  /\ \A h \in Others : away(to) <= away(h)
                          /\ Position(dir) = <<Cardinality({h \in counted : h <= to}), Cardinality(counted)>>
    BY DEF StepsToTheNeighbour
  <2> DEFINE to      == CHOOSE h \in Others : Before(h) = Target(dir)
             counted == Others \cup (IF Here # 0 /\ Alive(attached) THEN {Here} ELSE {})
  <2>1. Shows
    BY DEF Sound, Shows, OnlyOne, Kinds
  <2>2. to \in Others /\ Before(to) = Target(dir)
    BY <2>1, Targets
  <2> HIDE DEF to
  <2>3. \A h \in Others : (dir * (to - Here)) % (N + 1) <= (dir * (h - Here)) % (N + 1)
    BY <2>1, <2>2, NextIsNearest
  <2>4. Position(dir) = <<Cardinality({h \in counted : h <= to}), Cardinality(counted)>>
    BY <2>1, <2>2, PositionIsSo
  <2> QED BY <2>3, <2>4 DEF to, Here
<1> QED BY <1>1, SoundAlways, PTL

\* pane.go:549: a session that was ended stays ended, even where a client takes longer to
\* attach than Close waits for it: it is gone before the session is ended behind it.
THEOREM EndedIsGone == Spec => []KilledIsGone
<1>1. Sound => KilledIsGone
  BY DEF Sound, Over, KilledIsGone
<1> QED BY <1>1, SoundAlways, PTL

\* session.go:464, pane.go:533: with every client attached within the second Close gives it, a
\* session said to be "still running" is on the server until its remote or somebody ends it,
\* and one that was ended is not.
THEOREM WhatIsSaidIsSo ==
    ASSUME ~ Slow
    PROVE  Spec => []SaidOfSessions
<1>1. Init => Honest
  BY HonestInit
<1>2. Honest /\ [Next]_vars => Honest'
  BY HonestNext
<1>3. Honest => SaidOfSessions
  <2> SUFFICES ASSUME Honest PROVE SaidOfSessions
    OBVIOUS
  <2>1. LeftRunning
    BY KeptAtRest, IdleAtRest DEF Honest, LeftRunning
  <2>2. KilledIsGone
    BY DEF Honest, Sound, Over, KilledIsGone
  <2> QED BY <2>1, <2>2 DEF SaidOfSessions
<1> QED BY <1>1, <1>2, <1>3, PTL DEF Spec

-----------------------------------------------------------------------------
(* What is typed, pasted, dragged and scrolled over a session.             *)

\* What the variables are, one by one.
Flags ==
    /\ hasTmux \in BOOLEAN /\ running \in BOOLEAN /\ copy \in BOOLEAN /\ shown \in BOOLEAN /\ alive \in BOOLEAN
    /\ finds \in BOOLEAN /\ prefixArmed \in BOOLEAN /\ scrollArmed \in BOOLEAN /\ finding \in BOOLEAN
    /\ coming \in BOOLEAN /\ called \in BOOLEAN /\ unseen \in BOOLEAN
Ranges ==
    /\ pos \in 0..back /\ back \in 0..MaxBack /\ program \in {"shell", "full", "mouse"}
    /\ focus \in {"hosts", "session"} /\ (focus = "session" => shown)
    /\ tmuxOffset \in 0..MaxBack /\ press \in {"no", "down", "dragged"}
    /\ went \in {"none", "shell", "copy", "dropped"}
Values == Flags /\ Ranges
\* Copy mode is tmux's, of a session that is there; and the view of one that is not in it is live.
Moded == (running => alive) /\ (copy => hasTmux /\ running) /\ (~ copy => pos = 0)
\* What the pane remembers is so.  A drag is no longer one, if copy mode has been left.
Remembered ==
    shown /\ hasTmux /\ running /\ alive /\ ~ unseen =>
        /\ copy => Scrolled
        /\ ~ copy /\ ~ coming => tmuxOffset = 0
        /\ copy /\ press # "dragged" /\ ~ coming => tmuxOffset = pos
\* The prefix is armed by the key or by a scroll, and both are over when the pane is left.
Armed ==
    /\ scrollArmed => prefixArmed
    /\ called <=> prefixArmed /\ ~ scrollArmed
    /\ ~ shown => ~ prefixArmed

\* That is the type invariant, said one by one.
LEMMA SameValues == Values <=> TypingTypes
BY DEF Values, Flags, Ranges, TypingTypes

\* The four together: what every step keeps.
TypingInv == Values /\ Moded /\ Remembered /\ Armed

\* No step breaks one of them, and no step has its input go to copy mode for a command.
LEMMA TypingSteps == ASSUME TypingInv, TypingNext
    PROVE TypingInv' /\ ReachesTheShell
<1> USE TypingAssumption DEF TypingAssumption, TypingInv, Values, Flags, Ranges, Moded, Remembered, Armed,
                             InTmux, Scrolled
<1>1. CASE Prefix
  <2>1. Flags'
    BY <1>1, ZenonT(30) DEF Prefix, Stays, SameView, Disarm, Send, remote, server, view,
       ScrollToBottom, Live, View
  <2>2. Ranges' /\ Moded' /\ Remembered' /\ Armed' /\ ReachesTheShell
    BY <1>1, SMTT(30) DEF Prefix, Stays, SameView, Disarm, Send, remote, server, view,
       ScrollToBottom, Live, View, ReachesTheShell
  <2> QED BY <2>1, <2>2
<1>2. CASE Letter
  <2>1. Flags'
    BY <1>2, ZenonT(30) DEF Letter, Heard, Stays, Disarm, FromScroll, Send, SameView, remote,
       ScrollToBottom, server, view, Live, View
  <2>2. Ranges' /\ Moded' /\ Remembered' /\ Armed' /\ ReachesTheShell
    BY <1>2, SMTT(30) DEF Letter, Heard, Stays, Disarm, FromScroll, Send, SameView, remote,
       ScrollToBottom, server, view, Live, View, ReachesTheShell
  <2> QED BY <2>1, <2>2
<1>3. CASE Paste
  <2>1. Flags'
    BY <1>3, ZenonT(30) DEF Paste, Send, Stays, keys, ScrollToBottom, remote, Live, server, View,
       view
  <2>2. Ranges' /\ Moded' /\ Remembered' /\ Armed' /\ ReachesTheShell
    BY <1>3, SMTT(30) DEF Paste, Send, Stays, keys, ScrollToBottom, remote, Live, server, View,
       view, ReachesTheShell
  <2> QED BY <2>1, <2>2
<1>4. CASE ToTheList
  <2>1. Flags'
    BY <1>4, ZenonT(30) DEF ToTheList, Disarm, ScrollToBottom, Stays, Live, server, remote, View,
       view
  <2>2. Ranges' /\ Moded' /\ Remembered' /\ Armed' /\ ReachesTheShell
    BY <1>4, SMTT(30) DEF ToTheList, Disarm, ScrollToBottom, Stays, Live, server, remote, View,
       view, ReachesTheShell
  <2> QED BY <2>1, <2>2
<1>5. CASE ToTheBottom
  <2>1. Flags'
    BY <1>5, ZenonT(30) DEF ToTheBottom, Disarm, ScrollToBottom, Stays, Live, server, remote,
       View, view
  <2>2. Ranges' /\ Moded' /\ Remembered' /\ Armed' /\ ReachesTheShell
    BY <1>5, SMTT(30) DEF ToTheBottom, Disarm, ScrollToBottom, Stays, Live, server, remote, View,
       view, ReachesTheShell
  <2> QED BY <2>1, <2>2
<1>6. CASE openFind
  <2>1. Flags'
    BY <1>6, ZenonT(30) DEF openFind, Disarm, Stays, SameView, remote, server, view
  <2>2. Ranges' /\ Moded' /\ Remembered' /\ Armed' /\ ReachesTheShell
    BY <1>6, SMTT(30) DEF openFind, Disarm, Stays, SameView, remote, server, view, ReachesTheShell
  <2> QED BY <2>1, <2>2
<1>7. CASE LeaveFind
  <2>1. Flags'
    BY <1>7, ZenonT(30) DEF LeaveFind, Stays, SameView, remote, server, view
  <2>2. Ranges' /\ Moded' /\ Remembered' /\ Armed' /\ ReachesTheShell
    BY <1>7, SMTT(30) DEF LeaveFind, Stays, SameView, remote, server, view, ReachesTheShell
  <2> QED BY <2>1, <2>2
<1>8. CASE Detach
  <2>1. Flags'
    BY <1>8, ZenonT(30) DEF Detach, Disarm, server
  <2>2. Ranges' /\ Moded' /\ Remembered' /\ Armed' /\ ReachesTheShell
    BY <1>8, SMTT(30) DEF Detach, Disarm, server, ReachesTheShell
  <2> QED BY <2>1, <2>2
<1>9. CASE Attach
  <2>1. Flags'
    BY <1>9, ZenonT(30) DEF Attach, server, Live, Lines, View, view
  <2>2. Ranges' /\ Moded' /\ Remembered' /\ Armed' /\ ReachesTheShell
    BY <1>9, SMTT(30) DEF Attach, server, Live, Lines, View,
       view, ReachesTheShell
  <2> QED BY <2>1, <2>2
<1>10. CASE \E n \in {-1, 1} : ScrollKey(n)
  <2>1. Flags'
    BY <1>10, ZenonT(30) DEF ScrollKey, Scroll, Arm, Stays, Most, Least, server, View, Recorded,
       remote
  <2>2. Ranges' /\ Moded' /\ Remembered' /\ Armed' /\ ReachesTheShell
    BY <1>10, SMTT(30) DEF ScrollKey, Scroll, Arm, Stays, Most, Least, server, View, Recorded,
       remote, ReachesTheShell
  <2> QED BY <2>1, <2>2
<1>11. CASE \E n \in {-1, 1} : Wheel(n)
  <2>1. Flags'
    BY <1>11, ZenonT(30) DEF Wheel, Still, ToHistory, Scroll, SameView, remote, Most, Least,
       server, View, Recorded, view
  <2>2. Ranges' /\ Moded' /\ Remembered' /\ Armed' /\ ReachesTheShell
    BY <1>11, SMTT(30) DEF Wheel, Still, ToHistory, Scroll, SameView, remote, Most, Least, server,
       View, Recorded, view, ReachesTheShell
  <2> QED BY <2>1, <2>2
<1>12. CASE \E again \in BOOLEAN : runFind(again)
  <2>1. Flags'
    BY <1>12, ZenonT(30) DEF runFind, Find, Stays, PutBack, View, server, remote, Live, view
  <2>2. Ranges' /\ Moded' /\ Remembered' /\ Armed' /\ ReachesTheShell
    BY <1>12, SMTT(30) DEF runFind, Find, Stays, PutBack, View, server, remote, Live, view,
       ReachesTheShell
  <2> QED BY <2>1, <2>2
<1>13. CASE \E f \in {"hosts", "session"} : Focus(f)
  <2>1. Flags'
    BY <1>13, ZenonT(30) DEF Focus, Stays, SameView, remote, server, view
  <2>2. Ranges' /\ Moded' /\ Remembered' /\ Armed' /\ ReachesTheShell
    BY <1>13, SMTT(30) DEF Focus, Stays, SameView, remote, server, view, ReachesTheShell
  <2> QED BY <2>1, <2>2
<1>14. CASE Press
  <2>1. Flags'
    BY <1>14, ZenonT(30) DEF Press, Still, server, remote
  <2>2. Ranges' /\ Moded' /\ Remembered' /\ Armed' /\ ReachesTheShell
    BY <1>14, SMTT(30) DEF Press, Still, server, remote, ReachesTheShell
  <2> QED BY <2>1, <2>2
<1>15. CASE Drag
  <2>1. Flags'
    BY <1>15, ZenonT(30) DEF Drag, Still, TakesMouse, View, server, remote
  <2>2. Ranges' /\ Moded' /\ Remembered' /\ Armed' /\ ReachesTheShell
    BY <1>15, SMTT(30) DEF Drag, Still, TakesMouse, View, server, remote, ReachesTheShell
  <2> QED BY <2>1, <2>2
<1>16. CASE Release
  <2>1. Flags'
    BY <1>16, ZenonT(30) DEF Release, Still, Live, server, remote, View, view
  <2>2. Ranges' /\ Moded' /\ Remembered' /\ Armed' /\ ReachesTheShell
    BY <1>16, SMTT(30) DEF Release, Still, Live, server, remote, View, view, ReachesTheShell
  <2> QED BY <2>1, <2>2
<1>17. CASE Copied
  <2>1. Flags'
    BY <1>17, ZenonT(30) DEF Copied, CopyIsLive, Still, server, remote
  <2>2. Ranges' /\ Moded' /\ Remembered' /\ Armed' /\ ReachesTheShell
    BY <1>17, SMTT(30) DEF Copied, CopyIsLive, Still, server, remote, ReachesTheShell
  <2> QED BY <2>1, <2>2
<1>18. CASE Output
  <2>1. Flags'
    BY <1>18, ZenonT(30) DEF Output, server, Untouched, keys, view
  <2>2. Ranges' /\ Moded' /\ Remembered' /\ Armed' /\ ReachesTheShell
    BY <1>18, SMTT(30) DEF Output, server, Untouched, keys,
       view, ReachesTheShell
  <2> QED BY <2>1, <2>2
<1>19. CASE \E p \in {"shell", "full", "mouse"} : Runs(p)
  <2>1. Flags'
    BY <1>19, ZenonT(30) DEF Runs, server, Untouched, keys, view
  <2>2. Ranges' /\ Moded' /\ Remembered' /\ Armed' /\ ReachesTheShell
    BY <1>19, SMTT(30) DEF Runs, server, Untouched, keys, view, ReachesTheShell
  <2> QED BY <2>1, <2>2
<1>20. CASE SessionExits
  <2>1. Flags'
    BY <1>20, ZenonT(30) DEF SessionExits, Live, Untouched, View, view, keys
  <2>2. Ranges' /\ Moded' /\ Remembered' /\ Armed' /\ ReachesTheShell
    BY <1>20, SMTT(30) DEF SessionExits, Live, Untouched, View, view, keys, ReachesTheShell
  <2> QED BY <2>1, <2>2
<1>21. CASE OtherMoves
  <2>1. Flags'
    BY <1>21, ZenonT(30) DEF OtherMoves, Live, View, remote, Untouched, view, keys
  <2>2. Ranges' /\ Moded' /\ Remembered' /\ Armed' /\ ReachesTheShell
    BY <1>21, SMTT(30) DEF OtherMoves, Live, View, remote, Untouched, view, keys, ReachesTheShell
  <2> QED BY <2>1, <2>2
    <1> QED BY <1>1, <1>2, <1>3, <1>4, <1>5, <1>6, <1>7, <1>8, <1>9, <1>10, <1>11, <1>12, <1>13,
       <1>14, <1>15, <1>16, <1>17, <1>18, <1>19, <1>20, <1>21 DEF TypingNext

\* And so it begins.
LEMMA TypingBegins == ASSUME TypingInit
    PROVE TypingInv
<1> USE TypingAssumption DEF TypingAssumption, TypingInit, Lines
<1>1. Flags
  BY Zenon DEF Flags
<1>2. Ranges
  BY SMT DEF Ranges
<1>3. Moded /\ Remembered /\ Armed
  BY SMT DEF Moded, Remembered, Armed
<1> QED BY <1>1, <1>2, <1>3 DEF TypingInv, Values

\* A step that changes nothing changes none of them.
LEMMA TypingStays == ASSUME TypingInv, UNCHANGED typingVars
    PROVE TypingInv'
BY DEF TypingInv, Values, Flags, Ranges, Moded, Remembered, Armed, Scrolled, typingVars

\* What is remembered of the view is what the code is promised of it.
LEMMA RemembersIt == ASSUME TypingInv
    PROVE RemembersTheView
<1> SUFFICES ASSUME shown, InTmux, ~ unseen
    PROVE (copy => Scrolled) /\ (press # "dragged" /\ ~ coming => tmuxOffset = pos)
  BY DEF RemembersTheView
<1>1. (copy => Scrolled) /\ (~ copy /\ ~ coming => tmuxOffset = 0)
      /\ (copy /\ press # "dragged" /\ ~ coming => tmuxOffset = pos)
  BY DEF TypingInv, Remembered, InTmux
<1>2. ~ copy => pos = 0
  BY DEF TypingInv, Moded
<1> QED BY <1>1, <1>2

\* A key that is typed is dropped if it was a command, or the session cannot take it.
LEMMA TypedSo == ASSUME TypingInv, Letter
    PROVE went' = "dropped" <=> called \/ focus = "hosts" \/ ~ (prefixArmed \/ alive)
<1>1. focus = "session" \/ focus = "hosts"
  BY DEF TypingInv, Values, Ranges
<1>2. /\ scrollArmed => prefixArmed
      /\ called <=> prefixArmed /\ ~ scrollArmed
  BY DEF TypingInv, Armed
<1>3. focus = "hosts" => prefixArmed
  BY DEF Letter, Heard
<1>4. CASE focus = "session" /\ (IF prefixArmed THEN scrollArmed ELSE alive)
  <2>1. went' # "dropped"
    BY <1>4, Zenon DEF Letter, FromScroll, Send
  <2> QED BY <1>2, <1>4, <2>1
<1>5. CASE ~ (focus = "session" /\ (IF prefixArmed THEN scrollArmed ELSE alive))
  <2>1. went' = "dropped"
    BY <1>5 DEF Letter, FromScroll
  <2> QED BY <1>1, <1>2, <1>5, <2>1
<1> QED BY <1>4, <1>5

\* The variables of what is typed and scrolled have their types: session.go's focus and prefix,
\* pane.go's offset, and tmux's view.
THEOREM TypingTypesAlways == TypingSpec => []TypingTypes
<1>1. TypingInit => TypingInv
  BY TypingBegins
<1>2. TypingInv /\ [TypingNext]_typingVars => TypingInv'
  BY TypingSteps, TypingStays
<1>3. TypingInv => TypingTypes
  BY SameValues DEF TypingInv
<1> QED BY <1>1, <1>2, <1>3, PTL DEF TypingSpec

\* pane.go:86, 393: for a history of any length, with or without tmux, and with other windows moving
\* the view: where the view is, is known, and no input goes to copy mode for a command, unless copy
\* mode came on where the pane had no way to know of it.
THEOREM TheViewIsKnown == TypingSpec => KnowsTheView
<1>1. TypingInit => TypingInv
  BY TypingBegins
<1>2. TypingInv /\ [TypingNext]_typingVars => TypingInv'
  BY TypingSteps, TypingStays
<1>3. TypingInv => RemembersTheView
  BY RemembersIt
<1>4. TypingInv /\ [TypingNext]_typingVars => ReachesTheShell \/ UNCHANGED typingVars
  BY TypingSteps
<1> QED BY <1>1, <1>2, <1>3, <1>4, PTL DEF TypingSpec, KnowsTheView

\* session.go:284, 335: a key is dropped if the prefix was pressed for it, the list has the focus or
\* the session has ended, and otherwise typed, however much was scrolled in between.
THEOREM WhatIsTypedIsMeant == TypingSpec => TypedAsMeant
<1>1. TypingInit => TypingInv
  BY TypingBegins
<1>2. TypingInv /\ [TypingNext]_typingVars => TypingInv'
  BY TypingSteps, TypingStays
<1>3. TypingInv /\ [TypingNext]_typingVars
      => [Letter => (went' = "dropped" <=> called \/ focus = "hosts" \/ ~ (prefixArmed \/ alive))]_typingVars
  BY TypedSo
<1> QED BY <1>1, <1>2, <1>3, PTL DEF TypingSpec, TypedAsMeant

=============================================================================
