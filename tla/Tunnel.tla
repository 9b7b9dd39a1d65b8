-------------------------------- MODULE Tunnel --------------------------------
(***************************************************************************)
(* Port forwarding: the tunnels of one host.  internal/term/forward.go     *)
(* runs each rule's ssh in a tmux session named by the rule's id, and      *)
(* internal/ui/forward.go starts, stops, edits and deletes the rules.      *)
(*                                                                         *)
(* The rules are in the store and the tunnels in tmux; every window works  *)
(* from the list and the states it last read.  A start runs off the        *)
(* window's own goroutine and takes its time; the rest of a window is      *)
(* serial.  What the store does is in Store; here a rule is the route it   *)
(* describes, and Routes stands for everything ForwardFingerprint covers.  *)
(***************************************************************************)
EXTENDS Naturals

CONSTANTS
    Window,     \* the Omassh windows that are open
    Rule,       \* ids of forwarding rules of the host
    Stored,     \* the rules in the store to begin with
    Routes,     \* what a rule may say
    Port,       \* Port[r]: the port rule r listens on
    Start,      \* the starts that may be under way at once
    Dialogs,    \* the user opens dialogs over the list
    Quits,      \* the user ends windows
    MaxTicks,   \* BOUND on the refresh timers of one window
    Nil

ASSUME TunnelAssumption ==
    /\ Stored \subseteq Rule /\ Dialogs \in BOOLEAN /\ Quits \in BOOLEAN
    /\ MaxTicks \in Nat \ {0}
    /\ Nil \notin Routes /\ Nil \notin Rule /\ Nil \notin Window

VARIABLES
    rules,      \* the store: the route of each rule that is there
    host,       \* the store: whether the host is there
    minted,     \* rule ids handed out
    tmux,       \* the session of each rule's tunnel, as tmux has it
    starts,     \* startForward commands under way; crossed is HISTORY, another of its rule's was too
    list,       \* m.d.forwards: the rules each window last read
    seen,       \* m.d.hosts: whether the host was there then
    fwd,        \* m.d.fwd: the tunnels each window last saw
    view,       \* m.mode
    dialog,     \* the form or confirmation on screen, and what it is about
    ticks       \* forwardTick timers running

store  == <<rules, host, minted>>
window == <<list, seen, fwd, view, dialog, ticks>>
vars   == <<store, tmux, starts, window>>

Session == [ssh : {"connecting", "carrying", "dead"}, args : Routes]
Running(s) == s # Nil /\ s.ssh # "dead"
Idle   == [pc |-> "idle", window |-> Nil, rule |-> Nil, route |-> Nil, failed |-> FALSE,
           crossed |-> FALSE]
Quiet  == [what |-> "none", rule |-> Nil, back |-> "browse"]

Lists(w)    == \E r \in Rule : list[w][r] # Nil
Busy(r)     == \E j \in Start : starts[j].pc # "idle" /\ starts[j].rule = r
PortTaken(r) == \E x \in Rule : tmux[x] # Nil /\ tmux[x].ssh = "carrying" /\ Port[x] = Port[r]

\* refreshForwards: tmux is asked, unless there is no rule to ask about.
Refreshed(w, t) == IF Lists(w) THEN [fwd EXCEPT ![w] = t] ELSE fwd
Killed(r)       == [tmux EXCEPT ![r] = Nil]

-----------------------------------------------------------------------------
(* StartForward, on a goroutine of its own.                                *)

Step(j, pc) == starts' = [starts EXCEPT ![j].pc = pc]
Fail(j)     == starts' = [starts EXCEPT ![j].pc = "done", ![j].failed = TRUE]

\* A mistake: a stopped session left where it is.
KillRunning(j) ==
    /\ starts[j].pc = "kill"
    /\ tmux' = IF Running(tmux[starts[j].rule]) THEN Killed(starts[j].rule) ELSE tmux
    /\ Step(j, "listen")
    /\ UNCHANGED <<store, window>>

\* Whatever was there goes first.
Kill(j) ==
    /\ starts[j].pc = "kill"
    /\ tmux' = Killed(starts[j].rule)
    /\ Step(j, "listen")
    /\ UNCHANGED <<store, window>>

\* waitToListen: the port is free at some look, or is not at the last one.
WaitToListen(j) ==
    /\ starts[j].pc = "listen"
    /\ IF PortTaken(starts[j].rule) THEN Fail(j) ELSE Step(j, "create")
    /\ UNCHANGED <<store, tmux, window>>

\* A mistake: the rule's id noted as what is running, not the invocation.
NewSessionByRule(j) ==
    /\ starts[j].pc = "create"
    /\ LET r == starts[j].rule IN
           IF tmux[r] = Nil
           THEN tmux' = [tmux EXCEPT ![r] = [ssh |-> "connecting", args |-> r]] /\ Step(j, "grace")
           ELSE Fail(j) /\ UNCHANGED tmux
    /\ UNCHANGED <<store, window>>

\* new-session refuses a name that is taken, by a live pane or a dead one.
NewSession(j) ==
    /\ starts[j].pc = "create"
    /\ LET r == starts[j].rule IN
           IF tmux[r] = Nil
           THEN /\ tmux' = [tmux EXCEPT ![r] = [ssh |-> "connecting", args |-> starts[j].route]]
                /\ Step(j, "grace")
           ELSE Fail(j) /\ UNCHANGED tmux
    /\ UNCHANGED <<store, window>>

\* forwardGrace over: a session that is there and dead is a failure.
Look(j) ==
    /\ starts[j].pc = "grace"
    /\ LET s == tmux[starts[j].rule] IN
           IF s # Nil /\ ~Running(s) THEN Fail(j) ELSE Step(j, "done")
    /\ UNCHANGED <<store, tmux, window>>

StartForward(j) == Kill(j) \/ WaitToListen(j) \/ NewSession(j) \/ Look(j)

\* The ssh in the pane: ExitOnForwardFailure ends it when the port is taken.
Connects(r) ==
    /\ tmux[r] # Nil /\ tmux[r].ssh = "connecting"
    /\ tmux' = [tmux EXCEPT ![r].ssh = IF PortTaken(r) THEN "dead" ELSE "carrying"]
    /\ UNCHANGED <<store, starts, window>>

Dies(r) ==
    /\ Running(tmux[r])
    /\ tmux' = [tmux EXCEPT ![r].ssh = "dead"]
    /\ UNCHANGED <<store, starts, window>>

-----------------------------------------------------------------------------
(* A window.                                                               *)

Read(w) ==
    /\ list' = [list EXCEPT ![w] = rules']
    /\ seen' = [seen EXCEPT ![w] = host']
    /\ fwd'  = [fwd EXCEPT ![w] = IF \E r \in Rule : rules'[r] # Nil THEN tmux'
                                  ELSE [r \in Rule |-> Nil]]

\* A mistake: a start taken to have its rule still.
DoneUnchecked(w, j) ==
    /\ view[w] # "closed" /\ dialog[w].what # "stopped"
    /\ starts[j].pc = "done" /\ starts[j].window = w
    /\ fwd' = Refreshed(w, tmux)
    /\ starts' = [starts EXCEPT ![j] = Idle]
    /\ UNCHANGED <<store, tmux, list, seen, view, dialog, ticks>>

\* handleForwardDone: a start whose rule went meanwhile is stopped again.
Done(w, j) ==
    /\ view[w] # "closed" /\ dialog[w].what # "stopped"
    /\ starts[j].pc = "done" /\ starts[j].window = w
    /\ tmux' = IF ~starts[j].failed /\ list[w][starts[j].rule] = Nil
               THEN Killed(starts[j].rule) ELSE tmux
    /\ fwd' = Refreshed(w, tmux')
    /\ starts' = [starts EXCEPT ![j] = Idle]
    /\ UNCHANGED <<store, list, seen, view, dialog, ticks>>

OpenForwards(w) ==
    /\ view[w] = "browse" /\ seen[w] /\ ticks[w] < MaxTicks
    /\ view' = [view EXCEPT ![w] = "forwards"]
    /\ fwd' = Refreshed(w, tmux)
    /\ ticks' = [ticks EXCEPT ![w] = @ + 1]
    /\ UNCHANGED <<store, tmux, starts, list, seen, dialog>>

CloseForwards(w) ==
    /\ view[w] = "forwards"
    /\ view' = [view EXCEPT ![w] = "browse"]
    /\ UNCHANGED <<store, tmux, starts, list, seen, fwd, dialog, ticks>>

\* A mistake: the timer never set again.
TickOnce(w) ==
    /\ ticks[w] > 0 /\ dialog[w].what # "stopped"
    /\ fwd' = IF view[w] = "forwards" THEN Refreshed(w, tmux) ELSE fwd
    /\ ticks' = [ticks EXCEPT ![w] = @ - 1]
    /\ UNCHANGED <<store, tmux, starts, list, seen, view, dialog>>

\* A mistake: the timer set again, and nothing asked.
TickUnasked(w) ==
    /\ ticks[w] > 0 /\ dialog[w].what # "stopped"
    /\ ticks' = IF view[w] = "forwards" THEN ticks ELSE [ticks EXCEPT ![w] = @ - 1]
    /\ UNCHANGED <<store, tmux, starts, list, seen, fwd, view, dialog>>

\* handleForwardTick: the timer is set again only from the list itself.
Tick(w) ==
    /\ ticks[w] > 0 /\ dialog[w].what # "stopped"
    /\ IF view[w] = "forwards"
       THEN fwd' = Refreshed(w, tmux) /\ UNCHANGED ticks
       ELSE ticks' = [ticks EXCEPT ![w] = @ - 1] /\ UNCHANGED fwd
    /\ UNCHANGED <<store, tmux, starts, list, seen, view, dialog>>

\* r: the store and the tunnels are read again.  A host that is gone closes
\* the list.
Reload(w) ==
    /\ view[w] \in {"browse", "forwards"}
    /\ UNCHANGED <<store, tmux>>
    /\ Read(w)
    /\ view' = [view EXCEPT ![w] = IF host THEN @ ELSE "browse"]
    /\ UNCHANGED <<starts, dialog, ticks>>

Begin(w, r, j) ==
    /\ starts[j] = Idle
    /\ LET other(k) == starts[k].pc # "idle" /\ starts[k].rule = r
           new == [pc |-> "kill", window |-> w, rule |-> r, route |-> list[w][r],
                   failed |-> FALSE, crossed |-> \E k \in Start : other(k)]
       IN  starts' = [k \in Start |-> IF k = j THEN new
                                      ELSE [starts[k] EXCEPT !.crossed = @ \/ other(k)]]

\* toggleForward: a tunnel running on what its rule says is stopped; anything
\* else is started.
ToggleForward(w, r) ==
    /\ view[w] = "forwards" /\ list[w][r] # Nil
    /\ IF Running(fwd[w][r]) /\ fwd[w][r].args = list[w][r]
       THEN /\ tmux' = Killed(r)
            /\ fwd' = Refreshed(w, tmux')
            /\ UNCHANGED starts
       ELSE /\ \E j \in Start : Begin(w, r, j)
            /\ UNCHANGED <<tmux, fwd>>
    /\ UNCHANGED <<store, list, seen, view, dialog, ticks>>

Ask(w, what, r, back) ==
    /\ Dialogs
    /\ view' = [view EXCEPT ![w] = "dialog"]
    /\ dialog' = [dialog EXCEPT ![w] = [what |-> what, rule |-> r, back |-> back]]
    /\ UNCHANGED <<store, tmux, starts, list, seen, fwd, ticks>>

AskDeleteForward(w, r) ==
    view[w] = "forwards" /\ list[w][r] # Nil /\ Ask(w, "rule", r, "forwards")
AskDeleteHost(w) == view[w] = "browse" /\ seen[w] /\ Ask(w, "host", Nil, "browse")
EditForward(w, r) ==
    /\ view[w] = "forwards"
    /\ list[w][r] # Nil \/ r \notin minted
    /\ Ask(w, "form", r, "forwards")

Cancel(w) ==
    /\ dialog[w].what \in {"rule", "host", "form"}
    /\ view' = [view EXCEPT ![w] = dialog[w].back]
    /\ dialog' = [dialog EXCEPT ![w] = Quiet]
    /\ UNCHANGED <<store, tmux, starts, list, seen, fwd, ticks>>

\* A mistake: a host's tunnels left to look after themselves.
StopRuleOnly(w) ==
    /\ dialog[w].what \in {"rule", "host"}
    /\ tmux' = [r \in Rule |-> IF r = dialog[w].rule THEN Nil ELSE tmux[r]]
    /\ dialog' = [dialog EXCEPT ![w].what = "stopped"]
    /\ UNCHANGED <<store, starts, list, seen, fwd, view, ticks>>

\* A yes stops the tunnels first: the rule's, or all the host had when the
\* list was last read.
StopFirst(w) ==
    /\ dialog[w].what \in {"rule", "host"}
    /\ tmux' = [r \in Rule |->
                  IF r = dialog[w].rule \/ (dialog[w].what = "host" /\ list[w][r] # Nil)
                  THEN Nil ELSE tmux[r]]
    /\ dialog' = [dialog EXCEPT ![w].what = "stopped"]
    /\ UNCHANGED <<store, starts, list, seen, fwd, view, ticks>>

\* Then the record goes, a host's with all its rules, and the list is read.
ThenDelete(w) ==
    /\ dialog[w].what = "stopped"
    /\ LET whole == dialog[w].rule = Nil IN
           /\ host' = (host /\ ~whole)
           /\ rules' = [r \in Rule |-> IF whole \/ r = dialog[w].rule THEN Nil ELSE rules[r]]
    /\ UNCHANGED <<minted, tmux, starts, ticks>>
    /\ Read(w)
    /\ view' = [view EXCEPT ![w] = dialog[w].back]
    /\ dialog' = [dialog EXCEPT ![w] = Quiet]

\* saveForwardForm: refused, with the form left open, when the host is gone.  A
\* new rule is given an id of its own.
SaveForward(w, route) ==
    /\ dialog[w].what = "form" /\ host
    /\ list[w][dialog[w].rule] # Nil \/ dialog[w].rule \notin minted
    /\ rules' = [rules EXCEPT ![dialog[w].rule] = route]
    /\ minted' = minted \cup {dialog[w].rule}
    /\ UNCHANGED <<host, tmux, starts, ticks>>
    /\ Read(w)
    /\ view' = [view EXCEPT ![w] = "forwards"]
    /\ dialog' = [dialog EXCEPT ![w] = Quiet]

\* The window ends; its starts end where they are, and the tunnels stay up.
Quit(w) ==
    /\ Quits /\ view[w] \in {"browse", "forwards"}
    /\ view' = [view EXCEPT ![w] = "closed"]
    /\ ticks' = [ticks EXCEPT ![w] = 0]
    /\ starts' = [j \in Start |-> IF starts[j].window = w THEN Idle ELSE starts[j]]
    /\ UNCHANGED <<store, tmux, list, seen, fwd, dialog>>

Init ==
    /\ rules \in [Rule -> Routes \cup {Nil}]
    /\ \A r \in Rule : rules[r] # Nil <=> r \in Stored
    /\ host = TRUE /\ minted = Stored
    /\ tmux = [r \in Rule |-> Nil]
    /\ starts = [j \in Start |-> Idle]
    /\ list = [w \in Window |-> rules]
    /\ seen = [w \in Window |-> TRUE]
    /\ fwd = [w \in Window |-> tmux]
    /\ view = [w \in Window |-> "browse"]
    /\ dialog = [w \in Window |-> Quiet]
    /\ ticks = [w \in Window |-> 0]

Next ==
    \/ \E j \in Start : StartForward(j)
    \/ \E r \in Rule : Connects(r) \/ Dies(r)
    \/ \E w \in Window :
           \/ OpenForwards(w) \/ CloseForwards(w) \/ Tick(w) \/ Reload(w)
           \/ \E j \in Start : Done(w, j)
           \/ \E r \in Rule : \/ ToggleForward(w, r)
                              \/ AskDeleteForward(w, r) \/ EditForward(w, r)
           \/ AskDeleteHost(w) \/ Cancel(w) \/ StopFirst(w) \/ ThenDelete(w)
           \/ \E route \in Routes : SaveForward(w, route)
           \/ Quit(w)

\* A timer fires, a start goes on and a message is handled; nothing is owed by
\* the user, or by ssh.
Fairness ==
    /\ \A j \in Start : WF_vars(StartForward(j))
    /\ \A w \in Window : /\ WF_vars(Tick(w))
                         /\ WF_vars(ThenDelete(w))
                         /\ \A j \in Start : WF_vars(Done(w, j))

Spec == Init /\ [][Next]_vars /\ Fairness

-----------------------------------------------------------------------------
(* Properties.                                                             *)

\* Every variable holds what the code could have in it.
TypeOK ==
    /\ rules \in [Rule -> Routes \cup {Nil}]
    /\ host \in BOOLEAN /\ minted \subseteq Rule
    /\ tmux \in [Rule -> Session \cup {Nil}]
    /\ starts \in [Start -> [pc : {"idle", "kill", "listen", "create", "grace", "done"},
                             window : Window \cup {Nil}, rule : Rule \cup {Nil},
                             route : Routes \cup {Nil}, failed : BOOLEAN,
                             crossed : BOOLEAN]]
    /\ list \in [Window -> [Rule -> Routes \cup {Nil}]]
    /\ seen \in [Window -> BOOLEAN]
    /\ fwd \in [Window -> [Rule -> Session \cup {Nil}]]
    /\ view \in [Window -> {"browse", "forwards", "dialog", "closed"}]
    /\ dialog \in [Window -> [what : {"none", "rule", "host", "form", "stopped"},
                              rule : Rule \cup {Nil}, back : {"browse", "forwards"}]]
    /\ ticks \in [Window -> 0..MaxTicks]

\* A tunnel that runs has a rule, or a start under way that will see to it: one
\* with neither is "a tunnel holding a port, with nothing in the interface able
\* to see or stop it".  A window that quits leaves its starts where they are.
NoOrphanTunnel ==
    (\A w \in Window : view[w] # "closed") =>
        \A r \in Rule : Running(tmux[r]) /\ rules[r] = Nil => Busy(r)

\* A host's rules go with it "and their tunnels": none is left running when the
\* host has gone, unless a start is still to be answered.
HostTakesItsTunnels == host /\ ~host' => \A r \in Rule : Running(tmux[r]) => Busy(r)
DeletingAHostEndsItsTunnels == [][HostTakesItsTunnels]_vars

\* A start is not refused by what an earlier one left: its session, dead or
\* alive, was killed before the name and the port were asked for, and only
\* another start of the same rule under way beside it can make one since.
NotRefusedByItself ==
    \A j \in Start :
        starts[j].pc \in {"listen", "create"} /\ ~starts[j].crossed => tmux[starts[j].rule] = Nil

\* "A tunnel can drop while you are looking at it": a list that is opened has a
\* timer that asks tmux again, and keeps it until something is opened over it.
ListIsRefreshed ==
    [][\A w \in Window :
          view'[w] = "forwards" /\ (view[w] = "browse" \/ (view[w] = "forwards" /\ ticks[w] > 0))
             => ticks'[w] > 0]_vars

\* A tunnel that has died is shown as failed by a list that stays open, with its timer running.
FailureIsShown ==
    \A w \in Window, r \in Rule :
        (view[w] = "forwards" /\ ticks[w] > 0 /\ list[w][r] # Nil /\ tmux[r] # Nil /\ ~Running(tmux[r]))
            ~> (view[w] # "forwards" \/ Running(tmux[r]) \/ tmux[r] = Nil
                  \/ ~Running(fwd[w][r]))

\* What is said of the list and not kept: its timer runs while it is open.
TimerOutlivesADialog == \A w \in Window : view[w] = "forwards" => ticks[w] > 0


\* No tunnel is left that nothing will see to, by deleting its rule or its host.
NoTunnelIsLeft == [][HostTakesItsTunnels /\ NoOrphanTunnel']_vars

\* A tunnel's death is seen: the list goes on asking, and shows it.
DeathIsSeen == ListIsRefreshed /\ FailureIsShown
=============================================================================
