---------------------------------- MODULE Pane ----------------------------------
(***************************************************************************)
(* The session in the main pane: internal/term/pane.go and tmux.go, and    *)
(* what internal/ui/session.go does to open, watch, leave, switch and end  *)
(* one.  A pane is a child process (a tmux client, or ssh itself where     *)
(* there is no tmux), a goroutine that reads its output into the emulator, *)
(* one that waits for it to end, and a command of the event loop that      *)
(* watches both.  Closing one blocks the event loop; nothing else stops.   *)
(*                                                                         *)
(* What is typed into a session, and where it is scrolled, is in Typing.   *)
(***************************************************************************)
EXTENDS Integers, FiniteSets, Sequences

CONSTANTS
    N,      \* hosts, 1 to N as the list has them
    Pane,   \* what tells panes apart; one that nothing holds any more is used again
    Slow,   \* a tmux client may take longer to attach than Close waits for it
    Holds,  \* something may go on holding the terminal of an ssh that has ended
    Doomed, \* the hosts that may be deleted
    Nil

Host == 1..N

ASSUME PaneAssumption == N \in Nat \ {0} /\ {Slow, Holds} \subseteq BOOLEAN /\ Nil \notin Pane \cup Host /\ Doomed \subseteq Host

VARIABLES
    tmux,      \* TmuxAvailable
    session,   \* hosts whose session the tmux server keeps
    listed,    \* the hosts there are
    live,      \* m.d.live: what the last reload saw of session, as far as a question asks
    pane,      \* the panes
    attached,  \* m.attached
    ui,        \* what the event loop has still to do of a key
    asked,     \* m.confirm: the host to delete, and whether it was connected
    promised,  \* HISTORY: hosts said to be "still running" that nothing has ended since
    killed     \* HISTORY: hosts whose session was ended here and that nothing has opened since

world == <<tmux, session, listed>>
ghost == <<promised, killed>>
vars  == <<tmux, session, listed, live, pane, attached, ui, asked, promised, killed>>

\* A pane.  pty: output not yet read; closed: the channel changed is; fresh: output on the emulator
\* and not drawn; alt: the emulator has seen the client take the screen over; drawn: its end has been.
Unused == [host |-> Nil, client |-> "none", told |-> FALSE, open |-> FALSE, pty |-> FALSE, closed |-> TRUE,
           fresh |-> FALSE, alt |-> FALSE, signal |-> FALSE, exited |-> FALSE, drawn |-> FALSE, watch |-> "none"]
Opened(h) == [Unused EXCEPT !.host = h, !.client = "starting", !.open = TRUE, !.closed = FALSE, !.watch = "called"]
\* A mistake: the process left as it is.
LetGo(r) == [Unused EXCEPT !.client = r.client, !.closed = r.closed, !.signal = r.signal,
                           !.exited = r.exited, !.watch = r.watch]
\* One that Close has let go of: its process killed, its terminal closed, its goroutines about to end.
Closed(r) == [Unused EXCEPT !.client = "gone", !.closed = r.closed, !.signal = r.signal,
                            !.exited = r.exited, !.watch = r.watch]
\* Nothing of it is left.
Spent(p) == pane[p].watch = "none" /\ pane[p].closed /\ (pane[p].client = "none" \/ pane[p].exited)

Alive(p) == ~ pane[p].exited
Work == {"await", "reap", "kill", "open"}
Idle == [todo |-> <<>>, why |-> Nil, to |-> Nil]
\* No key is being answered, and no question is open.
Free == ui = Idle /\ asked = Nil

\* Every message is followed by a draw: of what is attached then.
Draw(f, a) == IF a = Nil THEN f ELSE [f EXCEPT ![a].fresh = FALSE, ![a].drawn = f[a].exited]

-----------------------------------------------------------------------------
(* The child, and the tmux server.                                         *)

Becomes(p, r) == pane' = [pane EXCEPT ![p] = r]

\* new-session -A: a session that is there is attached to, one that is not is made.
Starts(p) ==
    /\ pane[p].client = "starting"
    /\ session' = IF tmux THEN session \cup {pane[p].host} ELSE session
    /\ Becomes(p, [pane[p] EXCEPT !.client = "on", !.pty = TRUE])
    /\ UNCHANGED <<tmux, listed, live, attached, ui, asked, ghost>>

\* The client that ends before it has attached ends for good, with something to say.
Fails(p) ==
    /\ pane[p].client = "starting" /\ ~ pane[p].told
    /\ Becomes(p, [pane[p] EXCEPT !.client = "gone", !.pty = TRUE])
    /\ promised' = promised \ {pane[p].host}
    /\ UNCHANGED <<world, live, attached, ui, asked, killed>>

Speaks(p) ==
    /\ pane[p].client = "on" /\ ~ pane[p].pty
    /\ Becomes(p, [pane[p] EXCEPT !.pty = TRUE])
    /\ UNCHANGED <<world, live, attached, ui, asked, ghost>>

\* Told to go by Close: a tmux client detaches, an ssh ends.
Heeds(p) ==
    /\ pane[p].client \in {"starting", "on"} /\ pane[p].told
    /\ Becomes(p, [pane[p] EXCEPT !.client = "gone"])
    /\ UNCHANGED <<world, live, attached, ui, asked, ghost>>

\* What the end of h's remote does to the clients showing it.
Cut(h) == [p \in Pane |-> IF pane[p].host = h /\ pane[p].client = "on"
                          THEN [pane[p] EXCEPT !.client = "gone", !.pty = TRUE] ELSE pane[p]]

\* The remote exits, or another window ends the session.
RemoteExits(h) ==
    /\ h \in session \/ \E p \in Pane : pane[p].host = h /\ pane[p].client = "on"
    /\ session' = session \ {h} /\ pane' = Cut(h) /\ promised' = promised \ {h}
    /\ UNCHANGED <<tmux, listed, live, attached, ui, asked, killed>>

\* Another window connects to h.
OtherOpens(h) ==
    /\ tmux /\ h \in listed \ session
    /\ session' = session \cup {h} /\ killed' = killed \ {h}
    /\ UNCHANGED <<tmux, listed, live, pane, attached, ui, asked, promised>>

-----------------------------------------------------------------------------
(* The pane's goroutines, and the command that watches it.                 *)

\* The reader: into the emulator, and the signal, which has room for one.
Read(p) ==
    /\ pane[p].pty /\ pane[p].open
    /\ Becomes(p, [pane[p] EXCEPT !.pty = FALSE, !.fresh = TRUE, !.alt = tmux, !.signal = TRUE])
    /\ UNCHANGED <<world, live, attached, ui, asked, ghost>>
ReadEnds(p) ==
    /\ ~ pane[p].closed /\ (pane[p].open => pane[p].client = "gone" /\ ~ pane[p].pty /\ ~ Holds)
    /\ Becomes(p, [pane[p] EXCEPT !.closed = TRUE])
    /\ UNCHANGED <<world, live, attached, ui, asked, ghost>>

\* cmd.Wait: the end is recorded, and done closed.
Reaped(p) ==
    /\ pane[p].client = "gone" /\ ~ pane[p].exited
    /\ Becomes(p, [pane[p] EXCEPT !.exited = TRUE])
    /\ UNCHANGED <<world, live, attached, ui, asked, ghost>>

\* watchPane's command begins: an end that is there by then is not waited for.
Look(p) ==
    /\ pane[p].watch = "called"
    /\ Becomes(p, [pane[p] EXCEPT !.watch = IF pane[p].exited THEN "output" ELSE "either"])
    /\ UNCHANGED <<world, live, attached, ui, asked, ghost>>

\* A mistake: the end of the process taken for the end of its output.
OverAtTheEnd == "over"
\* What is said of a process that has ended.
OfTheEnd == "more"
\* A mistake: the end of the output not waiting for that of the process.
OverAtOnce == "over"
\* The process is waited for as well, so that it can be said how it ended.
AfterTheOutput == "end"

\* awaitOutput: what there is to say; when both have happened it is either.
Awaken(p) ==
    /\ \/ /\ pane[p].watch \in {"either", "output"} /\ pane[p].signal
          /\ Becomes(p, [pane[p] EXCEPT !.watch = "more", !.signal = FALSE])
       \/ /\ pane[p].watch \in {"either", "output"} /\ ~ pane[p].signal /\ pane[p].closed
          /\ Becomes(p, [pane[p] EXCEPT !.watch = AfterTheOutput])
       \/ /\ pane[p].watch = "either" /\ pane[p].exited
          /\ Becomes(p, [pane[p] EXCEPT !.watch = OfTheEnd])
       \/ /\ pane[p].watch = "end" /\ pane[p].exited
          /\ Becomes(p, [pane[p] EXCEPT !.watch = "over"])
    /\ UNCHANGED <<world, live, attached, ui, asked, ghost>>

\* A mistake: whatever says it has output watched again.
AnyPane(p) == TRUE
\* A message of a pane that has been closed or replaced ends its watcher.
IsWatched(p) == p = attached

handlePaneOutput(p) ==
    /\ ui = Idle /\ pane[p].watch \in {"more", "over"}
    /\ pane' = Draw([pane EXCEPT ![p].watch = IF @ = "more" /\ IsWatched(p) THEN "called" ELSE "none"], attached)
    /\ UNCHANGED <<world, live, attached, ui, asked, ghost>>

-----------------------------------------------------------------------------
(* The keys.                                                               *)

attachedTo(h) == attached # Nil /\ Alive(attached) /\ pane[attached].host = h

\* A mistake: the session ended before the client that may yet make it.
KillFirst(why) == (IF why = "end" THEN <<"kill">> ELSE <<>>) \o <<"await", "reap">>
                  \o (IF why = "attach" THEN <<"open">> ELSE <<>>)
\* Close, and what follows it.
Steps(why) == <<"await", "reap">> \o (CASE why = "end" -> <<"kill">> [] why = "attach" -> <<"open">> [] OTHER -> <<>>)
\* A mistake: the pane that is there forgotten, not closed.
JustOpens == <<"open">>
Replaces == Steps("attach")

Begin(todo, why, to) == ui' = [todo |-> todo, why |-> why, to |-> to]

\* attachHost.
attachHost(h) ==
    IF attachedTo(h) THEN pane' = Draw(pane, attached) /\ UNCHANGED ui
    ELSE Begin(IF attached = Nil THEN <<"open">> ELSE Replaces, "attach", h) /\ UNCHANGED pane

attachSession(h) ==
    /\ Free /\ h \in listed /\ attachHost(h)
    /\ UNCHANGED <<world, live, attached, asked, ghost>>

\* The other hosts with a session, in the order of the list.
Others == (listed \cap session) \ {pane[attached].host}
Before(h) == Cardinality({x \in Others : x < h})
\* How many of them come before this one; a host that is not listed goes first.
Slot == LET here == pane[attached].host IN
        IF here \notin listed THEN 0 ELSE Before(here)
\* A mistake: the next one taken to be after this one's slot.
PastTheSlot(dir) == (Slot + dir) % Cardinality(Others)
Target(dir) == (IF dir < 0 THEN Slot - 1 ELSE Slot) % Cardinality(Others)
\* What switchSession says of it: which it is, and of how many.
Position(dir) ==
    LET counts == pane[attached].host \in listed /\ Alive(attached)
    IN  <<Target(dir) + 1 + IF counts /\ Target(dir) >= Slot THEN 1 ELSE 0, Cardinality(Others) + IF counts THEN 1 ELSE 0>>

switchSession(dir) ==
    /\ Free /\ attached # Nil /\ tmux
    /\ live' = session \cap Doomed
    /\ IF Others = {} THEN pane' = Draw(pane, attached) /\ UNCHANGED ui
       ELSE attachHost(CHOOSE h \in Others : Before(h) = Target(dir))
    /\ UNCHANGED <<world, attached, asked, ghost>>

\* detachMessage: a session of tmux that is Alive is said to be still running; an end on its way
\* here, which nobody can know of, is no broken promise.
Promise == IF tmux /\ Alive(attached) /\ pane[attached].client # "gone" THEN promised \cup {pane[attached].host} ELSE promised

\* ctrl+\ d, and quitting; ctrl+\ w and the keys that only draw change nothing here.
Leave(why) ==
    /\ Free /\ attached # Nil /\ why \in {"detach", "quit"}
    /\ Begin(Steps(why), why, Nil) /\ promised' = Promise
    /\ UNCHANGED <<world, live, pane, attached, asked, killed>>

\* ctrl+\ X.
killSession ==
    /\ Free /\ attached # Nil
    /\ Begin(Steps("end"), "end", Nil)
    /\ UNCHANGED <<world, live, pane, attached, asked, ghost>>

askDeleteHost(h) ==
    /\ Free /\ h \in listed \cap Doomed
    /\ asked' = [host |-> h, connected |-> h \in live \/ attachedTo(h)]
    /\ pane' = Draw(pane, attached) /\ UNCHANGED <<world, live, attached, ui, ghost>>

\* The confirmation's run, the reload after it, and releaseVanishedSession.
Delete ==
    /\ ui = Idle /\ asked # Nil /\ asked' = Nil
    /\ LET h == asked.host
           kills == asked.connected
           gone == IF kills THEN {h} ELSE {}
       IN  /\ session' = session \ gone /\ listed' = listed \ {h} /\ live' = session' \cap Doomed
           /\ promised' = promised \ gone /\ killed' = killed \cup gone
           /\ LET left == IF kills /\ tmux THEN Cut(h) ELSE pane IN
                  IF attached # Nil /\ pane[attached].host \notin listed'
                  THEN pane' = left /\ Begin(Steps("vanish"), "vanish", Nil)
                  ELSE pane' = Draw(left, attached) /\ UNCHANGED ui
    /\ UNCHANGED <<tmux, attached>>

Refuse == ui = Idle /\ asked # Nil /\ asked' = Nil /\ UNCHANGED <<world, live, pane, attached, ui, ghost>>

-----------------------------------------------------------------------------
(* What the event loop is in the middle of.                                *)

Doing(work) == ui.todo # <<>> /\ Head(ui.todo) = work
\* The last of it: the pane is let go of, and the list read again.
Leaves == Tail(ui.todo) \in {<<>>, <<"open">>}
Goes == ui' = IF Tail(ui.todo) = <<>> THEN Idle ELSE [ui EXCEPT !.todo = Tail(@)]
\* A mistake: a pane forgotten while there is more to do with its host.
AllForgotten(f) == [p \in Pane |-> Unused]
\* What Close leaves; the window that quits takes its goroutines with it, and is opened again.
After(f) == IF ui.why = "quit" THEN [p \in Pane |-> Unused] ELSE f

\* A mistake: a client told to go at once.
AtOnce(p) == TRUE
\* awaitClient: a tmux client is given a second to attach.
Attached(p) == ~ tmux \/ pane[p].alt \/ pane[p].exited \/ Slow

\* Close: awaitClient, and the signal.
Await ==
    /\ Doing("await") /\ Attached(attached)
    /\ Becomes(attached, [pane[attached] EXCEPT !.told = TRUE]) /\ Goes
    /\ UNCHANGED <<world, live, attached, asked, ghost>>

\* Close: the process ends, or a second passes and it is killed; and the terminal is closed.
Reap ==
    /\ Doing("reap") /\ Goes
    /\ pane' = After([pane EXCEPT ![attached] = IF Leaves THEN Closed(@) ELSE [@ EXCEPT !.open = FALSE, !.client = "gone"]])
    /\ IF Leaves THEN attached' = Nil /\ live' = session \cap Doomed ELSE UNCHANGED <<attached, live>>
    /\ UNCHANGED <<world, asked, ghost>>

\* KillSession.
Kill ==
    /\ Doing("kill") /\ Goes
    /\ LET h == pane[attached].host IN
           /\ session' = session \ {h} /\ killed' = killed \cup {h} /\ promised' = promised \ {h}
           /\ LET f == IF tmux THEN Cut(h) ELSE pane IN
                  pane' = IF Leaves THEN [f EXCEPT ![attached] = Closed(@)] ELSE f
    /\ IF Leaves THEN attached' = Nil /\ live' = session' \cap Doomed ELSE UNCHANGED <<attached, live>>
    /\ UNCHANGED <<tmux, listed, asked>>

\* term.Open, which may fail.
Open ==
    /\ Doing("open") /\ Goes
    /\ \/ \E p \in Pane : /\ Spent(p) /\ Becomes(p, Opened(ui.to))
                          /\ attached' = p /\ killed' = killed \ {ui.to}
       \/ UNCHANGED <<pane, attached, killed>>
    /\ UNCHANGED <<world, live, asked, promised>>

Init ==
    /\ tmux \in BOOLEAN /\ session \in SUBSET (IF tmux THEN Host ELSE {}) /\ listed = Host /\ live = session \cap Doomed
    /\ pane = [p \in Pane |-> Unused] /\ attached = Nil /\ ui = Idle /\ asked = Nil
    /\ promised = {} /\ killed = {}

Next ==
    \/ \E p \in Pane : \/ Starts(p) \/ Fails(p) \/ Speaks(p) \/ Heeds(p)
                       \/ Read(p) \/ ReadEnds(p) \/ Reaped(p) \/ Look(p) \/ Awaken(p) \/ handlePaneOutput(p)
    \/ \E h \in Host : RemoteExits(h) \/ OtherOpens(h) \/ attachSession(h) \/ askDeleteHost(h)
    \/ \E dir \in {-1, 1} : switchSession(dir)
    \/ \E why \in {"detach", "quit"} : Leave(why)
    \/ killSession \/ Delete \/ Refuse \/ Await \/ Reap \/ Kill \/ Open

\* Each goroutine, the child and the event loop go on when they can, and a message that has been
\* sent is handled though keys come before it.  Nobody has to press one, and no remote to speak or end.
Fairness ==
    /\ \A p \in Pane : /\ WF_vars(Starts(p) \/ Fails(p) \/ Heeds(p)) /\ WF_vars(Read(p) \/ ReadEnds(p))
                      /\ WF_vars(Reaped(p)) /\ WF_vars(Look(p) \/ Awaken(p)) /\ SF_vars(handlePaneOutput(p))
    /\ WF_vars(Await \/ Reap \/ Kill \/ Open)

Spec == Init /\ [][Next]_vars /\ Fairness

-----------------------------------------------------------------------------
(* What must hold.                                                         *)

TypeOK ==
    /\ tmux \in BOOLEAN /\ session \subseteq Host /\ listed \subseteq Host /\ live \subseteq Host
    /\ pane \in [Pane -> [host : Host \cup {Nil}, client : {"none", "starting", "on", "gone"}, told : BOOLEAN,
                          open : BOOLEAN, pty : BOOLEAN, closed : BOOLEAN, fresh : BOOLEAN,
                          alt : BOOLEAN, signal : BOOLEAN, exited : BOOLEAN, drawn : BOOLEAN,
                          watch : {"none", "called", "either", "output", "end", "more", "over"}]]
    /\ attached \in Pane \cup {Nil} /\ (attached # Nil => pane[attached].host # Nil)
    /\ ui \in [todo : Seq(Work), why : {"attach", "detach", "end", "vanish", "quit", Nil}, to : Host \cup {Nil}]
    /\ asked \in [host : Host, connected : BOOLEAN] \cup {Nil}
    /\ promised \subseteq Host /\ killed \subseteq Host

\* session.go:464, pane.go:533: a session said to be "still running" is on the server until its
\* remote ends it or somebody asks for its end, however soon after opening it was left.
LeftRunning == ui = Idle => promised \subseteq session

\* pane.go:549: ending a session ends it: no client of this window that was still starting
\* makes it again behind the key that ended it.
KilledIsGone == \A h \in killed \cap listed : h \notin session

\* session.go:103: connections the user cannot see do not accumulate: while nothing is being
\* closed, the only child of this window that has not been told to go is the attached pane's.
OneConnection ==
    ui = Idle => \A p \in Pane \ {attached} : pane[p].client \in {"none", "gone"}

\* session.go:170: n and p step to the neighbour in the list, round its end, and the count they
\* give is the place of that session among those running.
StepsToTheNeighbour ==
    (tmux /\ attached # Nil /\ Others # {}) =>
        \A dir \in {-1, 1} :
            LET to      == CHOOSE h \in Others : Before(h) = Target(dir)
                here    == IF pane[attached].host \in listed THEN pane[attached].host ELSE 0
                away(h) == (dir * (h - here)) % (N + 1)
                counted == Others \cup (IF here # 0 /\ Alive(attached) THEN {here} ELSE {})
            IN  /\ \A h \in Others : away(to) <= away(h)
                /\ Position(dir) = <<Cardinality({h \in counted : h <= to}), Cardinality(counted)>>

\* session.go:65: what a session last said is drawn, whether its process ends before its
\* output does or after.
LastOutputIsDrawn ==
    \A p \in Pane : (attached = p /\ pane[p].fresh) ~> (attached # p \/ ~ pane[p].fresh)

\* session.go:65: a session that has ended is drawn as one, with nobody pressing a key.
EndIsShown ==
    \A p \in Pane : (attached = p /\ pane[p].exited) ~> (attached # p \/ pane[p].drawn)

\* session.go:528: a pane that has been closed or replaced leaves no goroutine waiting on it.
ClosedIsForgotten ==
    \A p \in Pane : (attached # p) ~> (attached = p \/ Spent(p))

\* The same of a host that was deleted: what app.go:990 and pane.go:549 say, and not so where the
\* window's own client was still starting.
EndedStaysEnded == killed \cap session = {}


\* What was said of a session is so: left, it is running; ended, it is gone.
SaidOfSessions == LeftRunning /\ KilledIsGone

\* The end of a session is drawn, with what it last said, and leaves nothing waiting.
EndIsDrawn == LastOutputIsDrawn /\ EndIsShown /\ ClosedIsForgotten
================================================================================
