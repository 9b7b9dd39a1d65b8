----------------------------- MODULE TunnelProofs -----------------------------
(***************************************************************************)
(* What Tunnel promises of a start, for any number of windows, rules and   *)
(* starts.                                                                 *)
(*                                                                         *)
(* A start kills its rule's session and makes one two steps later.  That   *)
(* there is none in between depends on no other start of the rule being at *)
(* work, which is a fact about pairs: two of one rule have both been       *)
(* marked, by the one that began second.                                   *)
(***************************************************************************)
EXTENDS Tunnel, TLAPS

Starts == [pc : {"idle", "kill", "listen", "create", "grace", "done"},
           window : Window \cup {Nil}, rule : Rule \cup {Nil},
           route : Routes \cup {Nil}, failed : BOOLEAN, crossed : BOOLEAN]

Kinds ==
    /\ rules \in [Rule -> Routes \cup {Nil}] /\ list \in [Window -> [Rule -> Routes \cup {Nil}]]
    /\ tmux = [r \in Rule |-> tmux[r]]
    /\ starts \in [Start -> Starts]
    /\ \A j \in Start : starts[j].pc # "idle" => starts[j].rule \in Rule

Marked ==
    \A j, k \in Start :
        j # k /\ starts[j].pc # "idle" /\ starts[k].pc # "idle" /\ starts[j].rule = starts[k].rule
            => starts[j].crossed

Held == Kinds /\ Marked /\ NotRefusedByItself

-----------------------------------------------------------------------------
(* One start goes on, and the others stay as they were.                    *)

LEMMA StepOf ==
    ASSUME Kinds, NEW j \in Start, NEW pc \in {"listen", "create", "grace", "done"},
           Step(j, pc) \/ (Fail(j) /\ pc = "done")
    PROVE  /\ starts' \in [Start -> Starts]
           /\ \A k \in Start \ {j} : starts'[k] = starts[k]
           /\ starts'[j].pc = pc /\ starts'[j].rule = starts[j].rule /\ starts'[j].crossed = starts[j].crossed
           /\ Step(j, pc) => starts'[j].failed = starts[j].failed
<1>1. starts[j] \in Starts
  BY DEF Kinds
<1>2. CASE Step(j, pc)
  <2> DEFINE new == [starts[j] EXCEPT !.pc = pc]
  <2>1. new \in Starts /\ new.pc = pc /\ new.rule = starts[j].rule /\ new.crossed = starts[j].crossed
        /\ new.failed = starts[j].failed
    BY <1>1 DEF Starts
  <2>2. starts' = [starts EXCEPT ![j] = new]
    BY <1>2 DEF Step
  <2> HIDE DEF new
  <2> QED BY <2>1, <2>2 DEF Kinds
<1>3. CASE Fail(j) /\ ~ Step(j, pc) /\ pc = "done"
  <2> DEFINE new == [starts[j] EXCEPT !.pc = "done", !.failed = TRUE]
  <2>1. new \in Starts /\ new.pc = pc /\ new.rule = starts[j].rule /\ new.crossed = starts[j].crossed
    BY <1>1, <1>3 DEF Starts
  <2>2. starts' = [starts EXCEPT ![j] = new]
    BY <1>1, <1>3 DEF Fail, Kinds, Starts
  <2> HIDE DEF new
  <2> QED BY <1>3, <2>1, <2>2 DEF Kinds
<1> QED BY <1>2, <1>3

LEMMA MarkedStays ==
    ASSUME Kinds, Marked, NEW j \in Start, starts[j].pc # "idle",
           \A k \in Start \ {j} : starts'[k] = starts[k],
           starts'[j].pc # "idle", starts'[j].rule = starts[j].rule, starts'[j].crossed = starts[j].crossed
    PROVE  Marked' /\ \A k \in Start : starts'[k].pc # "idle" => starts'[k].rule \in Rule
  BY DEF Marked, Kinds

\* A start and its session.
LEMMA StartKeepsHeld ==
    ASSUME Held, NEW j \in Start, StartForward(j)
    PROVE  Held'
<1>1. rules' = rules /\ list' = list /\ starts[j].pc # "idle" /\ starts[j].rule \in Rule
  BY DEF StartForward, Kill, WaitToListen, NewSession, Look, store, window, Held, Kinds
<1>2. CASE Kill(j)
  <2>1. Step(j, "listen") /\ tmux' = [tmux EXCEPT ![starts[j].rule] = Nil]
    BY <1>2 DEF Kill, Killed
  <2>2. \A r \in Rule : tmux'[r] = IF r = starts[j].rule THEN Nil ELSE tmux[r]
    BY <2>1 DEF Held, Kinds
  <2>3. tmux' = [r \in Rule |-> tmux'[r]]
    BY <2>1 DEF Held, Kinds
  <2>4. /\ starts' \in [Start -> Starts]
        /\ \A k \in Start \ {j} : starts'[k] = starts[k]
        /\ starts'[j].pc = "listen" /\ starts'[j].rule = starts[j].rule /\ starts'[j].crossed = starts[j].crossed
    BY <2>1, StepOf DEF Held
  <2>5. Marked' /\ \A k \in Start : starts'[k].pc # "idle" => starts'[k].rule \in Rule
    BY <1>1, <2>4, MarkedStays DEF Held
  <2>6. NotRefusedByItself'
    BY <1>1, <2>2, <2>4 DEF Held, Kinds, NotRefusedByItself
  <2> QED BY <1>1, <2>3, <2>4, <2>5, <2>6 DEF Held, Kinds
<1>3. CASE NewSession(j)
  <2>1. CASE tmux[starts[j].rule] = Nil /\ Step(j, "grace")
             /\ tmux' = [tmux EXCEPT ![starts[j].rule] = [ssh |-> "connecting", args |-> starts[j].route]]
    <3>1. tmux' = [r \in Rule |-> tmux'[r]] /\ \A r \in Rule \ {starts[j].rule} : tmux'[r] = tmux[r]
      BY <2>1 DEF Held, Kinds
    <3>2. /\ starts' \in [Start -> Starts]
          /\ \A k \in Start \ {j} : starts'[k] = starts[k]
          /\ starts'[j].pc = "grace" /\ starts'[j].rule = starts[j].rule /\ starts'[j].crossed = starts[j].crossed
      BY <2>1, StepOf DEF Held
    <3>3. Marked' /\ \A k \in Start : starts'[k].pc # "idle" => starts'[k].rule \in Rule
      BY <1>1, <3>2, MarkedStays DEF Held
    <3>4. ASSUME NEW k \in Start, starts'[k].pc \in {"listen", "create"}, ~ starts'[k].crossed
          PROVE  tmux'[starts'[k].rule] = Nil
      <4>1. k # j /\ starts'[k] = starts[k]
        BY <3>2, <3>4
      <4>2. starts[k].rule \in Rule /\ tmux[starts[k].rule] = Nil
        BY <3>4, <4>1 DEF Held, Kinds, NotRefusedByItself
      <4>3. starts[k].rule # starts[j].rule
        BY <1>1, <3>4, <4>1 DEF Held, Marked
      <4> QED BY <3>1, <4>1, <4>2, <4>3
    <3> QED BY <1>1, <3>1, <3>2, <3>3, <3>4 DEF Held, Kinds, NotRefusedByItself
  <2>2. CASE Fail(j) /\ UNCHANGED tmux
    <3>1. /\ starts' \in [Start -> Starts]
          /\ \A k \in Start \ {j} : starts'[k] = starts[k]
          /\ starts'[j].pc = "done" /\ starts'[j].rule = starts[j].rule /\ starts'[j].crossed = starts[j].crossed
      BY <2>2, StepOf DEF Held
    <3>2. Marked' /\ \A k \in Start : starts'[k].pc # "idle" => starts'[k].rule \in Rule
      BY <1>1, <3>1, MarkedStays DEF Held
    <3> QED BY <1>1, <2>2, <3>1, <3>2 DEF Held, Kinds, NotRefusedByItself
  <2> QED BY <1>3, <2>1, <2>2 DEF NewSession
<1>4. CASE WaitToListen(j) \/ Look(j)
  <2>1. PICK pc \in {"create", "done"} : Step(j, pc) \/ (Fail(j) /\ pc = "done")
    BY <1>4 DEF WaitToListen, Look
  <2>2. tmux' = tmux /\ (pc = "create" => starts[j].pc = "listen")
    BY <1>4, <2>1 DEF WaitToListen, Look, Step, Fail, Held, Kinds, Starts
  <2>3. /\ starts' \in [Start -> Starts]
        /\ \A k \in Start \ {j} : starts'[k] = starts[k]
        /\ starts'[j].pc = pc /\ starts'[j].rule = starts[j].rule /\ starts'[j].crossed = starts[j].crossed
    BY <2>1, StepOf DEF Held
  <2>4. Marked' /\ \A k \in Start : starts'[k].pc # "idle" => starts'[k].rule \in Rule
    BY <1>1, <2>3, MarkedStays DEF Held
  <2> QED BY <1>1, <2>2, <2>3, <2>4 DEF Held, Kinds, NotRefusedByItself
<1> QED BY <1>2, <1>3, <1>4 DEF StartForward

\* A start that begins is new, and marks the others of its rule.
LEMMA BeginIs ==
    ASSUME Kinds, NEW w \in Window, NEW r \in Rule, NEW j \in Start, Begin(w, r, j)
    PROVE  /\ starts[j] = Idle
           /\ starts'[j] \in Starts /\ starts'[j].pc = "kill" /\ starts'[j].rule = r /\ ~ starts'[j].failed
           /\ (\E k \in Start : starts[k].pc # "idle" /\ starts[k].rule = r) => starts'[j].crossed
           /\ \A k \in Start \ {j} :
                  /\ starts'[k] \in Starts /\ starts'[k].pc = starts[k].pc /\ starts'[k].rule = starts[k].rule
                  /\ starts'[k].failed = starts[k].failed
                  /\ starts'[k].crossed = (starts[k].crossed \/ (starts[k].pc # "idle" /\ starts[k].rule = r))
           /\ starts' = [k \in Start |-> starts'[k]]
<1> DEFINE other(k) == starts[k].pc # "idle" /\ starts[k].rule = r
           met == \E k \in Start : other(k)
           new == [pc |-> "kill", window |-> w, rule |-> r, route |-> list[w][r], failed |-> FALSE, crossed |-> met]
<1>1. /\ starts[j] = Idle
      /\ starts' = [k \in Start |-> IF k = j THEN new ELSE [starts[k] EXCEPT !.crossed = @ \/ other(k)]]
  BY DEF Begin
<1>2. new \in Starts
  BY DEF Kinds, Starts
<1>3. ASSUME NEW k \in Start \ {j}
      PROVE  /\ starts'[k] \in Starts /\ starts'[k].pc = starts[k].pc /\ starts'[k].rule = starts[k].rule
             /\ starts'[k].failed = starts[k].failed
             /\ starts'[k].crossed = (starts[k].crossed \/ other(k))
  <2>1. starts[k] \in Starts /\ starts'[k] = [starts[k] EXCEPT !.crossed = starts[k].crossed \/ other(k)]
    BY <1>1 DEF Kinds
  <2> DEFINE b == starts[k].crossed \/ other(k)
  <2>2. b \in BOOLEAN
    OBVIOUS
  <2> HIDE DEF b
  <2> QED BY <2>1, <2>2 DEF Starts, b
<1>4. starts'[j] = new /\ new.pc = "kill" /\ new.rule = r /\ ~ new.failed /\ new.crossed = met
  BY <1>1
<1>5. starts' = [k \in Start |-> starts'[k]]
  BY <1>1
<1> HIDE DEF new
<1> QED BY <1>1, <1>2, <1>3, <1>4, <1>5

LEMMA BeginKeepsHeld ==
    ASSUME Held, NEW w \in Window, NEW r \in Rule, NEW j \in Start, Begin(w, r, j),
           UNCHANGED <<rules, list, tmux>>
    PROVE  Held'
<1> DEFINE other(k) == starts[k].pc # "idle" /\ starts[k].rule = r
<1>0. Kinds
  BY DEF Held
<1>1. starts[j] = Idle /\ starts' = [k \in Start |-> starts'[k]]
  BY <1>0, BeginIs
<1>3. ASSUME NEW k \in Start \ {j}
      PROVE  /\ starts'[k] \in Starts /\ starts'[k].pc = starts[k].pc /\ starts'[k].rule = starts[k].rule
             /\ starts'[k].crossed = (starts[k].crossed \/ other(k))
  BY <1>0, BeginIs
<1>4. /\ starts'[j] \in Starts /\ starts'[j].pc = "kill" /\ starts'[j].rule = r
      /\ (\E k \in Start : other(k)) => starts'[j].crossed
  BY <1>0, BeginIs
<1>5. starts' \in [Start -> Starts]
  BY <1>1, <1>3, <1>4
<1>6. \A k \in Start : starts'[k].pc # "idle" => starts'[k].rule \in Rule
  BY <1>3, <1>4 DEF Held, Kinds
<1>7. Marked'
  <2> SUFFICES ASSUME NEW a \in Start, NEW b \in Start, a # b,
                      starts'[a].pc # "idle", starts'[b].pc # "idle", starts'[a].rule = starts'[b].rule
               PROVE  starts'[a].crossed
    BY DEF Marked
  <2>1. CASE a = j
    <3>1. starts'[a].rule = r
      BY <1>4, <2>1
    <3>2. other(b)
      BY <1>3, <2>1, <3>1
    <3> QED BY <1>4, <2>1, <3>2
  <2>2. CASE a # j /\ b = j
    <3>1. starts'[b].rule = r
      BY <1>4, <2>2
    <3> QED BY <1>3, <2>2, <3>1
  <2>3. CASE a # j /\ b # j
    BY <1>3, <2>3 DEF Held, Marked
  <2> QED BY <2>1, <2>2, <2>3
<1>8. NotRefusedByItself'
  <2> SUFFICES ASSUME NEW k \in Start, starts'[k].pc \in {"listen", "create"}, ~ starts'[k].crossed
               PROVE  tmux'[starts'[k].rule] = Nil
    BY DEF NotRefusedByItself
  <2>1. k # j
    BY <1>4
  <2> QED BY <1>3, <2>1 DEF Held, NotRefusedByItself
<1> QED BY <1>5, <1>6, <1>7, <1>8 DEF Held, Kinds

\* Starts end, or sessions: neither disturbs what is held.
LEMMA EndingsKeepHeld ==
    ASSUME Held, rules' = rules, list' = list,
           \A j \in Start : starts'[j] = starts[j] \/ starts'[j] = Idle,
           starts' = [j \in Start |-> starts'[j]], tmux' = [r \in Rule |-> tmux'[r]],
           \A r \in Rule : tmux[r] = Nil => tmux'[r] = Nil
    PROVE  Held'
<1>1. Idle \in Starts /\ Idle.pc = "idle"
  BY DEF Idle, Starts
<1>2. Kinds'
  BY <1>1 DEF Held, Kinds
<1>3. Marked'
  BY <1>1 DEF Held, Marked
<1>4. NotRefusedByItself'
  BY <1>1 DEF Held, Kinds, NotRefusedByItself
<1> QED BY <1>2, <1>3, <1>4 DEF Held

\* A window reads the store, or writes it.
LEMMA ReadingKeepsHeld ==
    ASSUME Held, NEW w \in Window, UNCHANGED <<starts, tmux>>, rules' \in [Rule -> Routes \cup {Nil}], Read(w)
    PROVE  Held'
<1>1. list' \in [Window -> [Rule -> Routes \cup {Nil}]]
  BY DEF Read, Held, Kinds
<1> QED BY <1>1 DEF Held, Kinds, Marked, NotRefusedByItself

-----------------------------------------------------------------------------
(* The start.                                                              *)

LEMMA HeldAlways == Spec => []Held
<1>1. Init => Held
  <2> SUFFICES ASSUME Init PROVE Held
    OBVIOUS
  <2>1. Idle \in Starts /\ Idle.pc = "idle"
    BY DEF Idle, Starts
  <2>2. tmux = [r \in Rule |-> tmux[r]] /\ \A j \in Start : starts[j] = Idle
    BY DEF Init
  <2>3. rules \in [Rule -> Routes \cup {Nil}] /\ list \in [Window -> [Rule -> Routes \cup {Nil}]]
    BY DEF Init
  <2>4. starts \in [Start -> Starts]
    BY <2>1 DEF Init
  <2> QED BY <2>1, <2>2, <2>3, <2>4 DEF Held, Kinds, Marked, NotRefusedByItself
<1>2. Held /\ [Next]_vars => Held'
  <2> SUFFICES ASSUME Held, [Next]_vars PROVE Held'
    OBVIOUS
  <2>1. ASSUME NEW r \in Rule, Connects(r) \/ Dies(r) PROVE Held'
    <3>1. UNCHANGED <<rules, list, starts>> /\ tmux[r] # Nil
      BY <2>1 DEF Connects, Dies, Running, store, window
    <3>2. tmux' = [x \in Rule |-> tmux'[x]] /\ \A x \in Rule \ {r} : tmux'[x] = tmux[x]
      BY <2>1 DEF Connects, Dies, Held, Kinds
    <3> QED BY <3>1, <3>2, EndingsKeepHeld DEF Held, Kinds
  <2>2. ASSUME NEW w \in Window, NEW j \in Start, Done(w, j) PROVE Held'
    <3>1. UNCHANGED <<rules, list>> /\ starts' = [starts EXCEPT ![j] = Idle]
      BY <2>2 DEF Done, store
    <3>2. tmux' = tmux \/ tmux' = Killed(starts[j].rule)
      BY <2>2 DEF Done
    <3>3. tmux' = [x \in Rule |-> tmux'[x]] /\ \A r \in Rule : tmux[r] = Nil => tmux'[r] = Nil
      BY <3>2 DEF Killed, Held, Kinds
    <3> QED BY <3>1, <3>3, EndingsKeepHeld DEF Held, Kinds
  <2>3. ASSUME NEW w \in Window, NEW r \in Rule, ToggleForward(w, r) PROVE Held'
    <3>1. CASE \E j \in Start : Begin(w, r, j) /\ UNCHANGED tmux
      BY <2>3, <3>1, BeginKeepsHeld DEF ToggleForward, store
    <3>2. CASE tmux' = Killed(r) /\ UNCHANGED starts
      <4>1. tmux' = [x \in Rule |-> tmux'[x]] /\ \A x \in Rule : tmux[x] = Nil => tmux'[x] = Nil
        BY <3>2 DEF Killed, Held, Kinds
      <4> QED BY <2>3, <3>2, <4>1, EndingsKeepHeld DEF ToggleForward, store, Held, Kinds
    <3> QED BY <2>3, <3>1, <3>2 DEF ToggleForward
  <2>4. ASSUME NEW w \in Window, StopFirst(w) PROVE Held'
    <3>1. UNCHANGED <<rules, list, starts>> /\ tmux' = [r \in Rule |-> tmux'[r]]
      BY <2>4 DEF StopFirst, store
    <3>2. \A r \in Rule : tmux[r] = Nil => tmux'[r] = Nil
      BY <2>4 DEF StopFirst
    <3> QED BY <3>1, <3>2, EndingsKeepHeld DEF Held, Kinds
  <2>5. ASSUME NEW w \in Window, Quit(w) PROVE Held'
    <3>1. UNCHANGED <<rules, list, tmux>>
      BY <2>5 DEF Quit, store
    <3>2. /\ starts' = [j \in Start |-> starts'[j]]
          /\ \A j \in Start : starts'[j] = starts[j] \/ starts'[j] = Idle
      BY <2>5 DEF Quit
    <3> QED BY <3>1, <3>2, EndingsKeepHeld DEF Held, Kinds
  <2>6. ASSUME NEW w \in Window, Reload(w) PROVE Held'
    BY <2>6, ReadingKeepsHeld DEF Reload, store, Held, Kinds
  <2>7. ASSUME NEW w \in Window, ThenDelete(w) PROVE Held'
    BY <2>7, ReadingKeepsHeld DEF ThenDelete, Held, Kinds
  <2>8. ASSUME NEW w \in Window, NEW route \in Routes, SaveForward(w, route) PROVE Held'
    BY <2>8, ReadingKeepsHeld DEF SaveForward, Held, Kinds
  <2>9. CASE UNCHANGED <<rules, list, tmux, starts>>
    BY <2>9 DEF Held, Kinds, Marked, NotRefusedByItself
  <2>10. ASSUME NEW w \in Window,
                \/ OpenForwards(w) \/ CloseForwards(w) \/ Tick(w) \/ AskDeleteHost(w) \/ Cancel(w)
                \/ \E r \in Rule : AskDeleteForward(w, r) \/ EditForward(w, r)
         PROVE  Held'
    BY <2>9, <2>10
       DEF OpenForwards, CloseForwards, Tick, AskDeleteHost, Cancel, AskDeleteForward, EditForward, Ask, store
  <2> QED BY StartKeepsHeld, <2>1, <2>2, <2>3, <2>4, <2>5, <2>6, <2>7, <2>8, <2>9, <2>10
          DEF Next, vars, store, window
<1> QED BY <1>1, <1>2, PTL DEF Spec

\* A start is never refused by what an earlier one of its rule left behind,
\* whatever windows, edits, deletions and deaths there are beside it, unless
\* another start of the same rule is at work too (StartForward; forward.go:122).
THEOREM NotRefusedByItselfAlways == Spec => []NotRefusedByItself
<1>1. Held => NotRefusedByItself
  BY DEF Held
<1> QED BY <1>1, HeldAlways, PTL

-----------------------------------------------------------------------------
(* What is left running.                                                   *)

\* A start owns the session it has made until its window has heard of it.
OwnedBy(j, r) == starts[j].rule = r /\ starts[j].pc \in {"grace", "done"} /\ ~ starts[j].failed
Owned(r)      == \E j \in Start : OwnedBy(j, r)
Failures      == \A j \in Start : starts[j].failed => starts[j].pc = "done"

\* A rule is gone, or has had its yes: its tunnel was stopped, and what runs now
\* was made since.
Going(w, r) == rules[r] = Nil \/ (dialog[w].what = "stopped" /\ dialog[w].rule \in {Nil, r})
Watched(w)  == \A r \in Rule : Running(tmux[r]) /\ Going(w, r) => Owned(r)
Asked(w) ==
    /\ list[w] = rules
    /\ dialog[w].what # "none" => view[w] = "dialog"
    /\ dialog[w].what = "rule" => dialog[w].rule \in Rule
    /\ dialog[w].what = "host" => dialog[w].rule = Nil
Shapes ==
    /\ dialog = [w \in Window |-> dialog[w]] /\ view = [w \in Window |-> view[w]]
    /\ dialog \in [Window -> [what : {"none", "rule", "host", "form", "stopped"},
                              rule : Rule \cup {Nil}, back : {"browse", "forwards"}]]
SeenTo == Shapes /\ Failures /\ \A w \in Window : Asked(w) /\ (view[w] # "closed" => Watched(w))

\* A start goes on: what runs when it has, it owns, or it ran before.
LEMMA StartKeepsSeenTo ==
    ASSUME Held, SeenTo, NEW j \in Start, StartForward(j)
    PROVE  SeenTo'
<1>1. UNCHANGED <<rules, list, dialog, view>> /\ starts[j].pc # "idle" /\ starts[j].rule \in Rule
  BY DEF StartForward, Kill, WaitToListen, NewSession, Look, store, window, Held, Kinds
<1>2. ASSUME Failures', \A r \in Rule : Running(tmux[r])' => (Running(tmux[r]) /\ (Owned(r) => Owned(r)')) \/ Owned(r)'
      PROVE  SeenTo'
  BY <1>1, <1>2 DEF SeenTo, Shapes, Asked, Watched, Going
<1>3. ASSUME NEW pc \in {"listen", "create", "grace", "done"}, Step(j, pc) \/ (Fail(j) /\ pc = "done"),
             ~ (starts[j].failed /\ pc # "done")
      PROVE  /\ Failures' /\ starts'[j].rule = starts[j].rule /\ starts'[j].pc = pc
             /\ \A k \in Start \ {j} : starts'[k] = starts[k]
             /\ Step(j, pc) => starts'[j].failed = starts[j].failed
  <2>1. /\ starts'[j].rule = starts[j].rule /\ starts'[j].pc = pc
        /\ \A k \in Start \ {j} : starts'[k] = starts[k]
        /\ Step(j, pc) => starts'[j].failed = starts[j].failed
    BY <1>3, StepOf DEF Held
  <2> QED BY <1>3, <2>1 DEF SeenTo, Failures
<1>4. CASE Kill(j)
  <2>1. tmux' = [tmux EXCEPT ![starts[j].rule] = Nil] /\ Step(j, "listen") /\ starts[j].pc = "kill"
    BY <1>4 DEF Kill, Killed
  <2>2. ~ starts[j].failed
    BY <2>1 DEF SeenTo, Failures
  <2>3. \A r \in Rule : Running(tmux[r])' => Running(tmux[r])
    BY <2>1 DEF Held, Kinds, Running
  <2>4. \A r \in Rule : Owned(r) => Owned(r)'
    BY <1>3, <2>1, <2>2 DEF Owned, OwnedBy
  <2> QED BY <1>2, <1>3, <2>1, <2>2, <2>3, <2>4
<1>5. CASE NewSession(j)
  <2>1. starts[j].pc = "create" /\ ~ starts[j].failed
    BY <1>5 DEF NewSession, SeenTo, Failures
  <2>2. \A k \in Start, r \in Rule : OwnedBy(k, r) => k # j
    BY <2>1 DEF OwnedBy
  <2>3. CASE Step(j, "grace") /\ \E s : tmux' = [tmux EXCEPT ![starts[j].rule] = s]
    <3>1. OwnedBy(j, starts[j].rule)'
      BY <1>3, <2>1, <2>3 DEF OwnedBy
    <3>2. \A r \in Rule \ {starts[j].rule} : tmux'[r] = tmux[r]
      BY <2>3 DEF Held, Kinds
    <3>3. \A r \in Rule : Owned(r) => Owned(r)'
      BY <1>3, <2>1, <2>2, <2>3 DEF Owned, OwnedBy
    <3>4. Owned(starts[j].rule)'
      BY <3>1 DEF Owned
    <3> QED BY <1>1, <1>2, <1>3, <2>1, <2>3, <3>2, <3>3, <3>4
  <2>4. CASE Fail(j) /\ UNCHANGED tmux
    <3>1. \A r \in Rule : Owned(r) => Owned(r)'
      BY <1>3, <2>1, <2>2, <2>4 DEF Owned, OwnedBy
    <3> QED BY <1>2, <1>3, <2>1, <2>4, <3>1
  <2> QED BY <1>5, <2>3, <2>4 DEF NewSession
<1>6. CASE WaitToListen(j)
  <2>1. PICK pc \in {"create", "done"} : Step(j, pc) \/ (Fail(j) /\ pc = "done")
    BY <1>6 DEF WaitToListen
  <2>2. starts[j].pc = "listen" /\ ~ starts[j].failed /\ tmux' = tmux
    BY <1>6 DEF WaitToListen, SeenTo, Failures
  <2>3. \A r \in Rule : Owned(r) => Owned(r)'
    BY <1>3, <2>1, <2>2 DEF Owned, OwnedBy
  <2> QED BY <1>2, <1>3, <2>1, <2>2, <2>3
<1>7. CASE Look(j)
  <2>1. starts[j].pc = "grace" /\ ~ starts[j].failed /\ tmux' = tmux
    BY <1>7 DEF Look, SeenTo, Failures
  <2>2. CASE Step(j, "done")
    <3>1. \A r \in Rule : Owned(r) => Owned(r)'
      BY <1>3, <2>1, <2>2 DEF Owned, OwnedBy
    <3> QED BY <1>2, <1>3, <2>1, <2>2, <3>1
  <2>3. CASE Fail(j) /\ ~ Running(tmux[starts[j].rule])
    <3>1. \A r \in Rule \ {starts[j].rule} : Owned(r) => Owned(r)'
      BY <1>3, <2>1, <2>3 DEF Owned, OwnedBy
    <3> QED BY <1>2, <1>3, <2>1, <2>3, <3>1
  <2> QED BY <1>7, <2>2, <2>3 DEF Look
<1> QED BY <1>4, <1>5, <1>6, <1>7 DEF StartForward

\* A window has one thing before it, and only what stands before it can change.
LEMMA WindowKeepsSeenTo ==
    ASSUME SeenTo, Shapes', UNCHANGED <<rules, starts>>, NEW w \in Window, \A v \in Window : v = w,
           list'[w] = rules,
           \A r \in Rule : Running(tmux[r])' => Running(tmux[r]),
           view'[w] # "closed" => view[w] # "closed",
           \/ dialog'[w] = Quiet
           \/ dialog'[w] = dialog[w] /\ view'[w] = view[w]
           \/ /\ view'[w] = "dialog" /\ dialog'[w].what \in {"rule", "host", "form"}
              /\ dialog'[w].what = "rule" => dialog'[w].rule \in Rule
              /\ dialog'[w].what = "host" => dialog'[w].rule = Nil
    PROVE  SeenTo'
<1>1. Failures'
  BY DEF SeenTo, Failures
<1>2. Asked(w)'
  BY DEF SeenTo, Asked, Quiet
<1>3. ASSUME view'[w] # "closed" PROVE Watched(w)'
  <2>1. \A r \in Rule : Going(w, r)' => Going(w, r)
    BY DEF Going, Quiet
  <2>2. \A r \in Rule : Owned(r)' = Owned(r)
    BY DEF Owned, OwnedBy
  <2> QED BY <1>3, <2>1, <2>2 DEF SeenTo, Watched
<1> QED BY <1>1, <1>2, <1>3 DEF SeenTo

\* A yes stops what the list shows of it; what the list does not show and runs
\* is owned already.
LEMMA StopKeepsSeenTo ==
    ASSUME SeenTo, NEW w \in Window, \A v \in Window : v = w, StopFirst(w)
    PROVE  SeenTo'
<1>1. /\ dialog[w].what \in {"rule", "host"} /\ dialog' = [dialog EXCEPT ![w].what = "stopped"]
      /\ UNCHANGED <<rules, list, starts, view>>
      /\ \A r \in Rule : tmux'[r] = IF r = dialog[w].rule \/ (dialog[w].what = "host" /\ list[w][r] # Nil)
                                    THEN Nil ELSE tmux[r]
  BY DEF StopFirst, store
<1>2. dialog'[w].what = "stopped" /\ dialog'[w].rule = dialog[w].rule /\ dialog'[w].back = dialog[w].back
  BY <1>1 DEF SeenTo, Shapes
<1>3. Shapes'
  BY <1>1 DEF SeenTo, Shapes
<1>4. Failures' /\ \A r \in Rule : Owned(r)' = Owned(r)
  BY <1>1 DEF SeenTo, Failures, Owned, OwnedBy
<1>5. Asked(w)' /\ view[w] = "dialog"
  BY <1>1, <1>2 DEF SeenTo, Asked
<1>6. ASSUME NEW r \in Rule, Running(tmux[r])', Going(w, r)' PROVE Owned(r)
  <2>1. Running(tmux[r]) /\ r # dialog[w].rule /\ ~ (dialog[w].what = "host" /\ rules[r] # Nil)
    BY <1>1, <1>6 DEF Running, SeenTo, Asked
  <2>2. rules[r] = Nil
    <3>1. CASE dialog[w].what = "host"
      BY <2>1, <3>1
    <3>2. CASE dialog[w].what = "rule"
      <4>1. dialog[w].rule \in Rule /\ Nil \notin Rule
        BY <3>2, TunnelAssumption DEF SeenTo, Asked
      <4> QED BY <1>1, <1>2, <1>6, <2>1, <4>1 DEF Going
    <3> QED BY <1>1, <3>1, <3>2
  <2> QED BY <1>5, <2>1, <2>2 DEF SeenTo, Watched, Going
<1>7. Watched(w)'
  BY <1>4, <1>6 DEF Watched
<1> QED BY <1>3, <1>4, <1>5, <1>7 DEF SeenTo

\* A start that is answered gives up its session: with its rule gone, killed.
LEMMA DoneKeepsSeenTo ==
    ASSUME Held, SeenTo, NEW w \in Window, NEW j \in Start, Done(w, j), \A v \in Window : v = w
    PROVE  SeenTo'
<1>1. /\ UNCHANGED <<rules, list, dialog, view>> /\ starts' = [starts EXCEPT ![j] = Idle]
      /\ view[w] # "closed" /\ dialog[w].what # "stopped" /\ starts[j].pc = "done" /\ starts[j].rule \in Rule
      /\ tmux' = IF ~ starts[j].failed /\ list[w][starts[j].rule] = Nil
                 THEN [tmux EXCEPT ![starts[j].rule] = Nil] ELSE tmux
  BY DEF Done, store, Killed, Held, Kinds
<1>2. /\ starts'[j] = Idle /\ Idle.pc = "idle" /\ ~ Idle.failed
      /\ \A k \in Start \ {j} : starts'[k] = starts[k]
  BY <1>1 DEF Held, Kinds, Idle
<1>3. Failures'
  BY <1>2 DEF SeenTo, Failures
<1>4. Shapes' /\ Asked(w)'
  BY <1>1 DEF SeenTo, Shapes, Asked
<1>5. ASSUME NEW r \in Rule, Running(tmux[r])', Going(w, r)' PROVE Owned(r)'
  <2>1. rules[r] = Nil /\ Running(tmux[r])
    BY <1>1, <1>5 DEF Going, Running, Held, Kinds
  <2>2. PICK k \in Start : OwnedBy(k, r)
    BY <1>1, <2>1 DEF SeenTo, Watched, Going, Owned
  <2>3. k # j
    <3>1. ASSUME k = j PROVE FALSE
      <4>1. starts[j].rule = r /\ ~ starts[j].failed /\ list[w][r] = Nil
        BY <2>1, <2>2, <3>1 DEF OwnedBy, SeenTo, Asked
      <4>2. tmux'[r] = Nil
        BY <1>1, <4>1 DEF Held, Kinds
      <4> QED BY <1>5, <4>2 DEF Running
    <3> QED BY <3>1
  <2>4. OwnedBy(k, r)'
    BY <1>2, <2>2, <2>3 DEF OwnedBy
  <2> QED BY <2>4 DEF Owned
<1>6. Watched(w)'
  BY <1>5 DEF Watched
<1> QED BY <1>3, <1>4, <1>6 DEF SeenTo

LEMMA ToggleKeepsSeenTo ==
    ASSUME Held, SeenTo, NEW w \in Window, NEW r \in Rule, ToggleForward(w, r), \A v \in Window : v = w
    PROVE  SeenTo'
<1>1. UNCHANGED <<rules, list, view, dialog>>
  BY DEF ToggleForward, store
<1>2. Shapes' /\ Asked(w)' /\ list'[w] = rules
  BY <1>1 DEF SeenTo, Shapes, Asked
<1>3. ASSUME NEW j \in Start, Begin(w, r, j), UNCHANGED tmux PROVE SeenTo'
  <2>1. /\ starts[j] = Idle /\ starts'[j].pc = "kill" /\ ~ starts'[j].failed
        /\ \A k \in Start \ {j} : /\ starts'[k].pc = starts[k].pc /\ starts'[k].rule = starts[k].rule
                                  /\ starts'[k].failed = starts[k].failed
    BY <1>3, BeginIs DEF Held
  <2>2. Failures'
    BY <2>1 DEF SeenTo, Failures
  <2>3. ASSUME NEW x \in Rule, Owned(x) PROVE Owned(x)'
    BY <2>1, <2>3 DEF Owned, OwnedBy, Idle
  <2>4. view'[w] # "closed" => Watched(w)'
    BY <1>1, <1>3, <2>3 DEF SeenTo, Watched, Going
  <2> QED BY <1>2, <2>2, <2>4 DEF SeenTo
<1>4. CASE tmux' = Killed(r) /\ UNCHANGED starts
  <2>1. \A x \in Rule : Running(tmux[x])' => Running(tmux[x])
    BY <1>4 DEF Killed, Running, Held, Kinds
  <2> QED BY <1>1, <1>2, <1>4, <2>1, WindowKeepsSeenTo
<1> QED BY <1>3, <1>4 DEF ToggleForward

\* A write: what is deleted had its yes, and its tunnel was stopped then.
LEMMA WriteKeepsSeenTo ==
    ASSUME Held, SeenTo, NEW w \in Window, \A v \in Window : v = w,
           ThenDelete(w) \/ \E route \in Routes : SaveForward(w, route)
    PROVE  SeenTo'
<1>1. /\ UNCHANGED <<tmux, starts>> /\ list' = [list EXCEPT ![w] = rules'] /\ dialog' = [dialog EXCEPT ![w] = Quiet]
      /\ \E v \in {dialog[w].back, "forwards"} : view' = [view EXCEPT ![w] = v]
      /\ dialog[w].what # "none"
  BY DEF ThenDelete, SaveForward, Read
<1>2. /\ list'[w] = rules' /\ dialog'[w] = Quiet /\ view[w] = "dialog" /\ view'[w] \in {"browse", "forwards"}
      /\ dialog[w].back \in {"browse", "forwards"}
  BY <1>1 DEF Held, Kinds, SeenTo, Shapes, Asked
<1>3. Shapes'
  BY <1>1 DEF SeenTo, Shapes, Quiet
<1>4. Failures' /\ \A r \in Rule : Owned(r)' = Owned(r)
  BY <1>1 DEF SeenTo, Failures, Owned, OwnedBy
<1>5. Asked(w)'
  BY <1>2 DEF Asked, Quiet
<1>6. ASSUME NEW r \in Rule, Going(w, r)' PROVE Going(w, r)
  <2>1. rules'[r] = Nil
    BY <1>2, <1>6 DEF Going, Quiet
  <2>2. CASE ThenDelete(w)
    BY <2>1, <2>2 DEF ThenDelete, Going
  <2>3. CASE \E route \in Routes : SaveForward(w, route)
    BY <2>1, <2>3, TunnelAssumption DEF SaveForward, Going, Held, Kinds
  <2> QED BY <2>2, <2>3
<1>7. Watched(w)'
  BY <1>1, <1>2, <1>4, <1>6 DEF SeenTo, Watched
<1> QED BY <1>3, <1>4, <1>5, <1>7 DEF SeenTo

LEMMA QuitKeepsSeenTo ==
    ASSUME SeenTo, NEW w \in Window, \A v \in Window : v = w, Quit(w)
    PROVE  SeenTo'
<1>1. /\ UNCHANGED <<rules, list, dialog>> /\ view[w] # "dialog" /\ view' = [view EXCEPT ![w] = "closed"]
      /\ \A j \in Start : starts'[j] \in {starts[j], Idle}
  BY DEF Quit, store
<1>2. Shapes' /\ view'[w] = "closed"
  BY <1>1 DEF SeenTo, Shapes
<1>3. Failures'
  BY <1>1 DEF SeenTo, Failures, Idle
<1>4. Asked(w)'
  BY <1>1 DEF SeenTo, Asked
<1> QED BY <1>2, <1>3, <1>4 DEF SeenTo

LEMMA SeenToStep ==
    ASSUME NEW w, Window = {w}, Held, SeenTo, [Next]_vars
    PROVE  SeenTo'
<1>0. w \in Window /\ \A v \in Window : v = w
  OBVIOUS
<1>1. ASSUME NEW r \in Rule, Connects(r) \/ Dies(r) PROVE SeenTo'
  <2>1. UNCHANGED <<rules, list, starts, dialog, view>>
    BY <1>1 DEF Connects, Dies, store, window
  <2>2. \A x \in Rule : Running(tmux[x])' => Running(tmux[x])
    BY <1>1 DEF Connects, Dies, Running, Held, Kinds
  <2>3. Shapes' /\ list'[w] = rules
    BY <2>1, <1>0 DEF SeenTo, Shapes, Asked
  <2> QED BY <1>0, <2>1, <2>2, <2>3, WindowKeepsSeenTo
<1>2. CASE OpenForwards(w) \/ CloseForwards(w) \/ Tick(w) \/ UNCHANGED vars
  <2>1. /\ UNCHANGED <<rules, list, starts, dialog, tmux>> /\ view' = [v \in Window |-> view'[v]]
        /\ view'[w] = view[w] \/ (view'[w] # "dialog" /\ view[w] # "closed" /\ view[w] # "dialog")
    BY <1>0, <1>2 DEF OpenForwards, CloseForwards, Tick, store, window, vars, SeenTo, Shapes
  <2>2. Shapes' /\ list'[w] = rules
    BY <2>1, <1>0 DEF SeenTo, Shapes, Asked
  <2>3. view'[w] = view[w] \/ dialog[w].what = "none"
    BY <1>0, <2>1 DEF SeenTo, Asked
  <2> QED BY <1>0, <2>1, <2>2, <2>3 DEF SeenTo, Asked, Watched, Going, Failures, Owned, OwnedBy
<1>3. CASE Reload(w)
  <2>1. /\ UNCHANGED <<rules, starts, dialog, tmux>> /\ list' = [list EXCEPT ![w] = rules]
        /\ view' = [v \in Window |-> view'[v]]
        /\ view'[w] # "dialog" /\ view[w] # "closed" /\ view[w] # "dialog"
    BY <1>0, <1>3 DEF Reload, Read, store, SeenTo, Shapes
  <2>2. Shapes' /\ list'[w] = rules
    BY <2>1, <1>0 DEF SeenTo, Shapes, Asked, Held, Kinds
  <2>3. dialog[w].what = "none"
    BY <1>0, <2>1 DEF SeenTo, Asked
  <2> QED BY <1>0, <2>1, <2>2, <2>3 DEF SeenTo, Asked, Watched, Going, Failures, Owned, OwnedBy
<1>4. ASSUME NEW what \in {"rule", "host", "form"}, NEW r \in Rule \cup {Nil}, NEW back \in {"browse", "forwards"},
             Ask(w, what, r, back), view[w] # "closed", what = "rule" => r \in Rule, what = "host" => r = Nil
      PROVE  SeenTo'
  <2>1. /\ UNCHANGED <<rules, list, starts, tmux>> /\ view' = [view EXCEPT ![w] = "dialog"]
        /\ dialog' = [dialog EXCEPT ![w] = [what |-> what, rule |-> r, back |-> back]]
    BY <1>4 DEF Ask, store
  <2>2. Shapes' /\ list'[w] = rules
    BY <2>1, <1>0 DEF SeenTo, Shapes, Asked
  <2>3. view'[w] = "dialog" /\ dialog'[w] = [what |-> what, rule |-> r, back |-> back]
    BY <1>0, <2>1 DEF SeenTo, Shapes
  <2> QED BY <1>0, <1>4, <2>1, <2>2, <2>3, WindowKeepsSeenTo
<1>5. ASSUME NEW r \in Rule, AskDeleteForward(w, r) \/ EditForward(w, r) PROVE SeenTo'
  BY <1>4, <1>5 DEF AskDeleteForward, EditForward
<1>6. CASE AskDeleteHost(w)
  BY <1>4, <1>6 DEF AskDeleteHost
<1>7. CASE Cancel(w)
  <2>1. /\ UNCHANGED <<rules, list, starts, tmux>> /\ view' = [view EXCEPT ![w] = dialog[w].back]
        /\ dialog' = [dialog EXCEPT ![w] = Quiet] /\ dialog[w].what # "none"
    BY <1>7 DEF Cancel, store
  <2>2. Shapes' /\ list'[w] = rules /\ view[w] = "dialog"
    BY <2>1, <1>0 DEF SeenTo, Shapes, Asked, Quiet
  <2>3. dialog'[w] = Quiet
    BY <1>0, <2>1 DEF SeenTo, Shapes
  <2> QED BY <1>0, <2>1, <2>2, <2>3, WindowKeepsSeenTo
<1>8. ASSUME NEW j \in Start, Done(w, j) PROVE SeenTo'
  BY <1>0, <1>8, DoneKeepsSeenTo
<1>9. ASSUME NEW r \in Rule, ToggleForward(w, r) PROVE SeenTo'
  BY <1>0, <1>9, ToggleKeepsSeenTo
<1> QED BY <1>0, <1>1, <1>2, <1>3, <1>5, <1>6, <1>7, <1>8, <1>9,
           StartKeepsSeenTo, StopKeepsSeenTo, WriteKeepsSeenTo, QuitKeepsSeenTo
        DEF Next

\* With one window open, no tunnel is left running that nothing will see to: not
\* by deleting its rule or its host, whatever starts are under way meanwhile.
\* (A second window starts a rule the first one's list does not have yet.)
THEOREM OneWindowLeavesNoTunnel ==
    ASSUME NEW w, Window = {w}
    PROVE  Spec => NoTunnelIsLeft
<1>1. Init => SeenTo
  <2> SUFFICES ASSUME Init PROVE SeenTo
    OBVIOUS
  <2>1. /\ \A j \in Start : starts[j] = Idle
        /\ \A v \in Window : list[v] = rules /\ dialog[v] = Quiet
        /\ \A r \in Rule : tmux[r] = Nil
    BY DEF Init
  <2>2. Shapes
    BY DEF Init, Shapes, Quiet
  <2> QED BY <2>1, <2>2 DEF SeenTo, Failures, Asked, Watched, Running, Idle, Quiet
<1>2. Spec => [](Held /\ SeenTo)
  BY <1>1, SeenToStep, HeldAlways, PTL DEF Spec
<1>3. SeenTo => NoOrphanTunnel
  BY DEF SeenTo, Watched, Going, NoOrphanTunnel, Owned, OwnedBy, Busy
<1>4. ASSUME SeenTo, [Next]_vars PROVE HostTakesItsTunnels
  <2> SUFFICES ASSUME host, ~ host', NEW r \in Rule, Running(tmux[r]) PROVE Busy(r)
    BY DEF HostTakesItsTunnels
  <2>1. ThenDelete(w)
    BY <1>4 DEF Next, StartForward, Kill, WaitToListen, NewSession, Look, Connects, Dies, OpenForwards,
                CloseForwards, Tick, Reload, Done, ToggleForward, AskDeleteForward, EditForward, AskDeleteHost,
                Ask, Cancel, StopFirst, SaveForward, Quit, store, vars
  <2>2. dialog[w].what = "stopped" /\ dialog[w].rule = Nil
    BY <2>1 DEF ThenDelete
  <2>3. view[w] = "dialog"
    BY <1>4, <2>2 DEF SeenTo, Asked
  <2> QED BY <1>4, <2>2, <2>3 DEF SeenTo, Watched, Going, Owned, OwnedBy, Busy
<1> QED BY <1>2, <1>3, <1>4, PTL DEF Spec, NoTunnelIsLeft
=============================================================================
