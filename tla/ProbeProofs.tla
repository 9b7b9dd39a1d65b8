------------------------------ MODULE ProbeProofs ------------------------------
(***************************************************************************)
(* What holds of the probe for any number of hosts, jump hosts, workers    *)
(* and sweeps: the marks are true, the slots are kept to, and every step   *)
(* is one that Sweep allows.                                               *)
(***************************************************************************)
EXTENDS Probe, FiniteSetTheorems, TLAPS

Event == [key : Host \cup {Nil}, state : State, done : BOOLEAN]

Kinds ==
    /\ worker \in [Sweeps -> [Host -> Worker]]
    /\ probeCh \in Seq(Event) /\ \A i \in 1..Len(probeCh) : ~ probeCh[i].done => probeCh[i].key \in Host
    /\ counts \in [State -> Nat] /\ probes \in [Host -> State] /\ probing \in BOOLEAN
    /\ begun \in 0..MaxSweeps /\ target \in [Sweeps -> SUBSET Host]
    /\ port \in [Host -> {"open", "closed", "dropped"}]

\* The slots of a worker are those its place asks for, taken and freed in order.
Placed(h, r) ==
    /\ r.pc = "queue" => r.holds = {} \/ (jumpKey(h) # Nil /\ r.holds = {"hop"})
    /\ r.pc \in {"check", "asking", "report"} =>
          r.holds = IF jumpKey(h) = Nil THEN {"slot"} ELSE {"hop", "slot"}
    /\ r.pc = "free" => r.holds # {}
    /\ r.pc \in {"none", "gone"} => r.holds = {}
    /\ "hop" \in r.holds => jumpKey(h) # Nil

AllPlaced == \A s \in Sweeps, h \in Host : Placed(h, worker[s][h])

\* What is said of a host is so of its port.
IsSo(h, v) == (v = "down" => port[h] # "open") /\ (v = "up" => port[h] = "open")

\* What a worker has heard of its host, and what it makes of it.
Truthful(h, r) ==
    /\ r.pc = "report" => IsSo(h, r.verdict)
    /\ "spoke" \in r.said => port[h] = "open"
    /\ "refused" \in r.said => port[h] # "open"

AllTruthful == \A s \in Sweeps, h \in Host : Truthful(h, worker[s][h])

Unsaid == {"queue", "check", "asking", "report"}

-----------------------------------------------------------------------------
(* What a step does to a worker.                                           *)

Turn(s, h, r) == worker' = [worker EXCEPT ![s][h] = r]

LEMMA Turned ==
    ASSUME Kinds, NEW s \in Sweeps, NEW h \in Host, NEW r, Turn(s, h, r)
    PROVE  /\ worker'[s][h] = r
           /\ \A t \in Sweeps, g \in Host : t # s \/ g # h => worker'[t][g] = worker[t][g]
           /\ r \in Worker => worker' \in [Sweeps -> [Host -> Worker]]
  BY DEF Kinds, Turn

LEMMA TurnOfTakeSlot ==
    ASSUME Kinds, AllPlaced, NEW s \in Sweeps, NEW h \in Host, TakeSlot(s, h)
    PROVE  LET r == worker[s][h] IN
           \E x \in {"hop", "slot"} : LET q == [r EXCEPT !.holds = r.holds \cup {x},
                                                         !.pc = IF x = "slot" THEN "check" ELSE "queue"] IN
               /\ r.pc = "queue" /\ x \notin r.holds /\ IsFree(s, h, x)
               /\ Turn(s, h, q) /\ q \in Worker /\ Placed(h, q)
<1> DEFINE r == worker[s][h]
<1>1. r \in Worker /\ r.pc = "queue" /\ Placed(h, r)
  BY DEF Kinds, AllPlaced, TakeSlot, Pc
<1>x. ASSUME NEW x, NEW pc, Slots(h)[Cardinality(r.holds) + 1] = x,
             pc = IF Cardinality(r.holds) + 1 = Len(Slots(h)) THEN "check" ELSE "queue"
      PROVE  Turn(s, h, [r EXCEPT !.holds = r.holds \cup {x}, !.pc = pc]) /\ IsFree(s, h, x)
  BY <1>x DEF TakeSlot, Turn
<1>2. CASE r.holds = {} /\ jumpKey(h) = Nil
  <2>1. Cardinality(r.holds) = 0
    BY <1>2, FS_EmptySet
  <2>2. Len(Slots(h)) = 1 /\ Slots(h)[1] = "slot"
    BY <1>2 DEF Slots
  <2>3. Turn(s, h, [r EXCEPT !.holds = r.holds \cup {"slot"}, !.pc = "check"]) /\ IsFree(s, h, "slot")
    <3>1. Slots(h)[Cardinality(r.holds) + 1] = "slot"
      BY <2>1, <2>2
    <3>2. "check" = IF Cardinality(r.holds) + 1 = Len(Slots(h)) THEN "check" ELSE "queue"
      BY <2>1, <2>2
    <3> QED BY <1>x, <3>1, <3>2
  <2>4. [r EXCEPT !.holds = r.holds \cup {"slot"}, !.pc = "check"] \in Worker
    BY <1>1 DEF Worker
  <2>5. Placed(h, [r EXCEPT !.holds = r.holds \cup {"slot"}, !.pc = "check"])
    BY <1>1, <1>2 DEF Placed, Worker
  <2> QED BY <1>1, <1>2, <2>3, <2>4, <2>5
<1>3. CASE r.holds = {} /\ jumpKey(h) # Nil
  <2>1. Cardinality(r.holds) = 0
    BY <1>3, FS_EmptySet
  <2>2. Len(Slots(h)) = 2 /\ Slots(h)[1] = "hop"
    BY <1>3 DEF Slots
  <2>3. Turn(s, h, [r EXCEPT !.holds = r.holds \cup {"hop"}, !.pc = "queue"]) /\ IsFree(s, h, "hop")
    <3>1. Slots(h)[Cardinality(r.holds) + 1] = "hop"
      BY <2>1, <2>2
    <3>2. "queue" = IF Cardinality(r.holds) + 1 = Len(Slots(h)) THEN "check" ELSE "queue"
      BY <2>1, <2>2
    <3> QED BY <1>x, <3>1, <3>2
  <2>4. [r EXCEPT !.holds = r.holds \cup {"hop"}, !.pc = "queue"] \in Worker
    BY <1>1 DEF Worker
  <2>5. Placed(h, [r EXCEPT !.holds = r.holds \cup {"hop"}, !.pc = "queue"])
    BY <1>1, <1>3 DEF Placed, Worker
  <2> QED BY <1>1, <1>3, <2>3, <2>4, <2>5
<1>4. CASE r.holds = {"hop"} /\ jumpKey(h) # Nil
  <2>1. Cardinality(r.holds) = 1
    BY <1>4, FS_Singleton
  <2>2. Len(Slots(h)) = 2 /\ Slots(h)[2] = "slot"
    BY <1>4 DEF Slots
  <2>3. Turn(s, h, [r EXCEPT !.holds = r.holds \cup {"slot"}, !.pc = "check"]) /\ IsFree(s, h, "slot")
    <3>1. Slots(h)[Cardinality(r.holds) + 1] = "slot"
      BY <2>1, <2>2
    <3>2. "check" = IF Cardinality(r.holds) + 1 = Len(Slots(h)) THEN "check" ELSE "queue"
      BY <2>1, <2>2
    <3> QED BY <1>x, <3>1, <3>2
  <2>4. [r EXCEPT !.holds = r.holds \cup {"slot"}, !.pc = "check"] \in Worker
    BY <1>1 DEF Worker
  <2>5. Placed(h, [r EXCEPT !.holds = r.holds \cup {"slot"}, !.pc = "check"])
    BY <1>1, <1>4 DEF Placed, Worker
  <2> QED BY <1>1, <1>4, <2>3, <2>4, <2>5
<1> QED BY <1>1, <1>2, <1>3, <1>4 DEF Placed

\* A worker that is at work goes on to q, which is a worker in its place and holds no more than it did.
Moves(s, h, q) ==
    /\ Turn(s, h, q) /\ q \in Worker /\ Placed(h, q) /\ Truthful(h, q)
    /\ worker[s][h].pc \notin {"none", "gone"} /\ q.holds \subseteq worker[s][h].holds

LEMMA CheckMoves ==
    ASSUME Kinds, AllPlaced, AllTruthful, NEW s \in Sweeps, NEW h \in Host, Check(s, h)
    PROVE  \E q : Moves(s, h, q) /\ worker[s][h].pc \in Unsaid /\ q.pc \in Unsaid
<1> DEFINE r == worker[s][h]
<1>1. r \in Worker /\ r.pc = "check" /\ Placed(h, r) /\ Truthful(h, r)
  BY DEF Kinds, AllPlaced, AllTruthful, Check, Pc
<1>2. ASSUME NEW v \in State, Decide(s, h, v), IsSo(h, v)
      PROVE  \E q : Moves(s, h, q) /\ r.pc \in Unsaid /\ q.pc \in Unsaid
  <2> DEFINE q == [r EXCEPT !.pc = "report", !.verdict = v]
  <2>1. q \in Worker /\ q.pc = "report" /\ q.verdict = v /\ q.holds = r.holds /\ q.said = r.said
    BY <1>1 DEF Worker
  <2>2. Turn(s, h, q)
    BY <1>2 DEF Decide, Turn
  <2>3. Placed(h, q) /\ Truthful(h, q)
    BY <1>1, <1>2, <2>1 DEF Placed, Truthful
  <2> HIDE DEF q
  <2> QED BY <1>1, <2>1, <2>2, <2>3 DEF Moves, Unsaid
<1>3. CASE worker' = [worker EXCEPT ![s][h] = [@ EXCEPT !.pc = "asking"]]
  <2> DEFINE q == [r EXCEPT !.pc = "asking"]
  <2>1. q \in Worker /\ q.pc = "asking" /\ q.holds = r.holds /\ q.said = r.said
    BY <1>1 DEF Worker
  <2>2. Turn(s, h, q)
    BY <1>3 DEF Turn
  <2>3. Placed(h, q) /\ Truthful(h, q)
    BY <1>1, <2>1 DEF Placed, Truthful
  <2> HIDE DEF q
  <2> QED BY <1>1, <2>1, <2>2, <2>3 DEF Moves, Unsaid
<1>4. \A v \in DialOutcomes(s, h) : v \in State /\ IsSo(h, v)
  BY DEF DialOutcomes, State, IsSo
<1>5. \A v \in {"unknown", "skipped", "notchecked"} : v \in State /\ IsSo(h, v)
  BY DEF State, IsSo
<1> QED BY <1>2, <1>3, <1>4, <1>5 DEF Check

LEMMA AskingMoves ==
    ASSUME Kinds, AllPlaced, AllTruthful, NEW s \in Sweeps, NEW h \in Host,
           Greeted(s, h) \/ TurnedDown(s, h) \/ GivesUp(s, h)
    PROVE  \E q : Moves(s, h, q) /\ worker[s][h].pc \in Unsaid /\ q.pc \in Unsaid
<1> DEFINE r == worker[s][h]
<1> PICK told \in {{"spoke"}, {"refused", "done"}, {"done"}} :
         /\ Asking(s, h, told)
         /\ "spoke" \in told => port[h] = "open"
         /\ "refused" \in told => port[h] = "closed"
  BY DEF Greeted, TurnedDown, GivesUp
<1> DEFINE q == [r EXCEPT !.said = r.said \cup told]
<1>1. r \in Worker /\ r.pc = "asking" /\ Placed(h, r) /\ Truthful(h, r)
  BY DEF Kinds, AllPlaced, AllTruthful, Asking, Pc
<1>2. told \subseteq Signal
  BY DEF Signal
<1>3. q \in Worker /\ q.pc = "asking" /\ q.holds = r.holds /\ q.said = r.said \cup told
  BY <1>1, <1>2 DEF Worker
<1>4. Turn(s, h, q)
  BY DEF Asking, Turn
<1>5. Placed(h, q) /\ Truthful(h, q)
  BY <1>1, <1>3 DEF Placed, Truthful
<1> HIDE DEF q
<1> QED BY <1>1, <1>3, <1>4, <1>5 DEF Moves, Unsaid

LEMMA JudgeMoves ==
    ASSUME Kinds, AllPlaced, AllTruthful, NEW s \in Sweeps, NEW h \in Host, Judge(s, h)
    PROVE  \E q : Moves(s, h, q) /\ worker[s][h].pc \in Unsaid /\ q.pc \in Unsaid
<1> DEFINE r == worker[s][h]
<1>1. r \in Worker /\ r.pc = "asking" /\ Placed(h, r) /\ Truthful(h, r)
  BY DEF Kinds, AllPlaced, AllTruthful, Judge, Pc
<1>2. PICK v \in State : Decide(s, h, v) /\ IsSo(h, v)
  <2>1. CASE "spoke" \in r.said /\ Decide(s, h, "up")
    <3>1. "up" \in State /\ IsSo(h, "up")
      BY <1>1, <2>1 DEF Truthful, IsSo, State
    <3> QED BY <2>1, <3>1
  <2>2. CASE "done" \in r.said /\ Decide(s, h, Verdict(s, r.said))
    <3>1. Verdict(s, r.said) \in State /\ IsSo(h, Verdict(s, r.said))
      BY <1>1 DEF Truthful, Verdict, IsSo, State
    <3> QED BY <2>2, <3>1
  <2> QED BY <2>1, <2>2 DEF Judge
<1> DEFINE q == [r EXCEPT !.pc = "report", !.verdict = v]
<1>3. q \in Worker /\ q.pc = "report" /\ q.verdict = v /\ q.holds = r.holds /\ q.said = r.said
  BY <1>1 DEF Worker
<1>4. Turn(s, h, q)
  BY <1>2 DEF Decide, Turn
<1>5. Placed(h, q) /\ Truthful(h, q)
  BY <1>1, <1>2, <1>3 DEF Placed, Truthful
<1> HIDE DEF q
<1> QED BY <1>1, <1>3, <1>4, <1>5 DEF Moves, Unsaid

LEMMA ReportMoves ==
    ASSUME Kinds, AllPlaced, AllTruthful, NEW s \in Sweeps, NEW h \in Host, Report(s, h)
    PROVE  \E q : Moves(s, h, q) /\ q.pc = "free"
<1> DEFINE r == worker[s][h]
           q == [r EXCEPT !.pc = "free"]
<1>1. r \in Worker /\ r.pc = "report" /\ Placed(h, r) /\ Truthful(h, r)
  BY DEF Kinds, AllPlaced, AllTruthful, Report, Pc
<1>2. q \in Worker /\ q.pc = "free" /\ q.holds = r.holds /\ q.said = r.said
  BY <1>1 DEF Worker
<1>3. Turn(s, h, q)
  BY DEF Report, Turn
<1>4. Placed(h, q) /\ Truthful(h, q)
  BY <1>1, <1>2 DEF Placed, Truthful
<1> HIDE DEF q
<1> QED BY <1>1, <1>2, <1>3, <1>4 DEF Moves

LEMMA FreeMoves ==
    ASSUME Kinds, AllPlaced, AllTruthful, NEW s \in Sweeps, NEW h \in Host, Free(s, h)
    PROVE  \E q : Moves(s, h, q) /\ worker[s][h].pc = "free" /\ q.pc \in {"free", "gone"}
<1> DEFINE r == worker[s][h]
           left == r.holds \ (IF "slot" \in r.holds THEN {"slot"} ELSE {"hop"})
           q == IF left = {} THEN [NoWorker EXCEPT !.pc = "gone"] ELSE [r EXCEPT !.holds = left]
<1>1. r \in Worker /\ r.pc = "free" /\ Placed(h, r) /\ Truthful(h, r)
  BY DEF Kinds, AllPlaced, AllTruthful, Free, Pc
<1>2. Turn(s, h, q)
  BY DEF Free, Turn
<1>3. CASE left = {}
  <2>1. q \in Worker /\ q.pc = "gone" /\ q.holds = {} /\ q.said = {}
    BY <1>3 DEF NoWorker, Worker, State
  <2>2. Placed(h, q) /\ Truthful(h, q)
    BY <2>1 DEF Placed, Truthful
  <2> HIDE DEF q
  <2> QED BY <1>1, <1>2, <2>1, <2>2 DEF Moves
<1>4. CASE left # {}
  <2>1. q \in Worker /\ q.pc = "free" /\ q.holds = left /\ q.said = r.said
    BY <1>1, <1>4 DEF Worker
  <2>2. Placed(h, q) /\ Truthful(h, q)
    BY <1>1, <1>4, <2>1 DEF Placed, Truthful
  <2> HIDE DEF q
  <2> QED BY <1>1, <1>2, <2>1, <2>2 DEF Moves
<1> QED BY <1>3, <1>4

\* Every step, the workers' own gathered.
LEMMA Steps ==
    ASSUME Kinds, AllPlaced, AllTruthful, [Next]_vars
    PROVE  \/ \E s \in Sweeps, h \in Host : \E q :
                 /\ Moves(s, h, q) /\ UNCHANGED <<port, ended, cancelled>>
                 /\ \/ worker[s][h].pc \in Unsaid /\ q.pc \in Unsaid /\ UNCHANGED <<probeCh, window>>
                    \/ worker[s][h].pc = "free" /\ q.pc \in {"free", "gone"} /\ UNCHANGED <<probeCh, window>>
                    \/ Report(s, h) /\ q.pc = "free"
           \/ \E s \in Sweeps, h \in Host : TakeSlot(s, h)
           \/ \E s \in Sweeps : Ends(s)
           \/ startProbe
           \/ handleProbeEvent
           \/ UNCHANGED <<port, worker, ended, probeCh, window>>
<1>1. ASSUME NEW s \in Sweeps, NEW h \in Host,
             Check(s, h) \/ Judge(s, h) \/ Greeted(s, h) \/ TurnedDown(s, h) \/ GivesUp(s, h)
      PROVE  \E q : /\ Moves(s, h, q) /\ UNCHANGED <<port, ended, cancelled>>
                    /\ worker[s][h].pc \in Unsaid /\ q.pc \in Unsaid /\ UNCHANGED <<probeCh, window>>
  <2>1. UNCHANGED <<port, ended, cancelled>> /\ UNCHANGED <<probeCh, window>>
    BY <1>1 DEF Check, Judge, Greeted, TurnedDown, GivesUp, Asking
  <2> QED BY <1>1, <2>1, CheckMoves, JudgeMoves, AskingMoves
<1>2. ASSUME NEW s \in Sweeps, NEW h \in Host, Free(s, h)
      PROVE  \E q : /\ Moves(s, h, q) /\ UNCHANGED <<port, ended, cancelled>>
                    /\ worker[s][h].pc = "free" /\ q.pc \in {"free", "gone"} /\ UNCHANGED <<probeCh, window>>
  <2>1. UNCHANGED <<port, ended, cancelled>> /\ UNCHANGED <<probeCh, window>>
    BY <1>2 DEF Free
  <2> QED BY <1>2, <2>1, FreeMoves
<1>3. ASSUME NEW s \in Sweeps, NEW h \in Host, Report(s, h)
      PROVE  \E q : Moves(s, h, q) /\ UNCHANGED <<port, ended, cancelled>> /\ q.pc = "free"
  <2>1. UNCHANGED <<port, ended, cancelled>>
    BY <1>3 DEF Report
  <2> QED BY <1>3, <2>1, ReportMoves
<1>4. ASSUME NEW s \in Sweeps, Abandon(s) PROVE UNCHANGED <<port, worker, ended, probeCh, window>>
  BY <1>4 DEF Abandon
<1>5. CASE UNCHANGED vars
  BY <1>5 DEF vars, sweep
<1> QED BY <1>1, <1>2, <1>3, <1>4, <1>5 DEF Next, Step

LEMMA NewWorker ==
    /\ NoWorker \in Worker /\ NoWorker.pc = "none" /\ NoWorker.holds = {} /\ NoWorker.said = {}
    /\ [NoWorker EXCEPT !.pc = "queue"] \in Worker /\ [NoWorker EXCEPT !.pc = "queue"].pc = "queue"
    /\ [NoWorker EXCEPT !.pc = "queue"].holds = {} /\ [NoWorker EXCEPT !.pc = "queue"].said = {}
  BY DEF NoWorker, Worker, State

\* A sweep begun: a worker for each of its hosts, in the queue.
BegunWith(hosts) ==
    /\ begun' = begun + 1 /\ begun + 1 \in Sweeps /\ ~ probing /\ probing' = TRUE
    /\ target' = [target EXCEPT ![begun + 1] = hosts]
    /\ worker' \in [Sweeps -> [Host -> Worker]]
    /\ \A h \in Host : worker'[begun + 1][h] = IF h \in hosts THEN [NoWorker EXCEPT !.pc = "queue"] ELSE NoWorker
    /\ \A s \in Sweeps : s # begun + 1 => worker'[s] = worker[s]
    /\ counts' = [v \in State |-> 0] /\ UNCHANGED <<port, ended, probeCh, probes>>

LEMMA Begun ==
    ASSUME Kinds, startProbe
    PROVE  \E hosts \in (SUBSET Host) \cap Groups : BegunWith(hosts)
<1>1. begun + 1 \in Sweeps
  BY ProbeAssumption DEF startProbe, Kinds, Sweeps
<1> PICK hosts \in Groups :
         /\ target' = [target EXCEPT ![begun + 1] = hosts]
         /\ worker' = [worker EXCEPT ![begun + 1] = [h \in Host |->
                           IF h \in hosts THEN [NoWorker EXCEPT !.pc = "queue"] ELSE NoWorker]]
  BY DEF startProbe
<1> DEFINE anew == [h \in Host |-> IF h \in hosts THEN [NoWorker EXCEPT !.pc = "queue"] ELSE NoWorker]
<1>2. anew \in [Host -> Worker]
  BY NewWorker
<1>3. /\ worker' \in [Sweeps -> [Host -> Worker]]
      /\ worker'[begun + 1] = anew
      /\ \A s \in Sweeps : s # begun + 1 => worker'[s] = worker[s]
  <2> HIDE DEF anew
  <2>1. worker' = [worker EXCEPT ![begun + 1] = anew]
    BY DEF anew
  <2> QED BY <1>1, <1>2, <2>1 DEF Kinds
<1>4. hosts \in (SUBSET Host) \cap Groups
  BY ProbeAssumption
<1>5. ~ probing /\ probing' = TRUE /\ begun' = begun + 1 /\ counts' = [v \in State |-> 0]
  BY DEF startProbe, FreeToSweep, Tally
<1>6. UNCHANGED <<port, ended, probeCh, probes>>
  BY DEF startProbe
<1>7. BegunWith(hosts)
  BY <1>1, <1>3, <1>5, <1>6 DEF BegunWith
<1> QED BY <1>4, <1>7

\* What is on the channel after an event is sent, and after one is taken.
LEMMA Sent ==
    ASSUME Kinds, NEW ev \in Event, Send(ev), ~ ev.done => ev.key \in Host
    PROVE  /\ probeCh' \in Seq(Event) /\ Len(probeCh') = Len(probeCh) + 1 /\ Len(probeCh) \in Nat
           /\ \A i \in 1..Len(probeCh) : probeCh'[i] = probeCh[i]
           /\ probeCh'[Len(probeCh) + 1] = ev
           /\ \A i \in 1..Len(probeCh') : ~ probeCh'[i].done => probeCh'[i].key \in Host
<1>1. probeCh \in Seq(Event) /\ probeCh' = Append(probeCh, ev)
  BY DEF Kinds, Send
<1>2. /\ probeCh' \in Seq(Event) /\ Len(probeCh') = Len(probeCh) + 1 /\ Len(probeCh) \in Nat
      /\ \A i \in 1..Len(probeCh) : probeCh'[i] = probeCh[i]
      /\ probeCh'[Len(probeCh) + 1] = ev
  BY <1>1
<1>3. ASSUME NEW i \in 1..Len(probeCh'), ~ probeCh'[i].done PROVE probeCh'[i].key \in Host
  <2>1. i \in 1..Len(probeCh) \/ i = Len(probeCh) + 1
    BY <1>2
  <2> QED BY <1>2, <1>3, <2>1 DEF Kinds
<1> QED BY <1>2, <1>3

LEMMA Taken ==
    ASSUME Kinds, probeCh # <<>>, probeCh' = Tail(probeCh)
    PROVE  /\ probeCh' \in Seq(Event) /\ Len(probeCh') = Len(probeCh) - 1 /\ Len(probeCh) \in Nat \ {0}
           /\ Head(probeCh) = probeCh[1] /\ probeCh[1] \in Event
           /\ \A i \in 1..Len(probeCh') : i + 1 \in 1..Len(probeCh) /\ probeCh'[i] = probeCh[i + 1]
           /\ \A i \in 1..Len(probeCh') : ~ probeCh'[i].done => probeCh'[i].key \in Host
<1>1. probeCh \in Seq(Event)
  BY DEF Kinds
<1>2. /\ probeCh' \in Seq(Event) /\ Len(probeCh') = Len(probeCh) - 1 /\ Len(probeCh) \in Nat \ {0}
      /\ Head(probeCh) = probeCh[1] /\ probeCh[1] \in Event
  BY <1>1
<1>3. \A i \in 1..Len(probeCh') : i + 1 \in 1..Len(probeCh) /\ probeCh'[i] = probeCh[i + 1]
  BY <1>1, <1>2
<1>4. ASSUME NEW i \in 1..Len(probeCh'), ~ probeCh'[i].done PROVE probeCh'[i].key \in Host
  BY <1>3, <1>4 DEF Kinds
<1> QED BY <1>2, <1>3, <1>4

-----------------------------------------------------------------------------
(* The marks.                                                              *)

ChannelTrue == \A i \in 1..Len(probeCh) : ~ probeCh[i].done => IsSo(probeCh[i].key, probeCh[i].state)

\* A mark is true because the event that made it was, and that because the worker that sent it had
\* heard the port say so: the truth is carried, from the port to the screen.
Sound ==
    /\ Kinds /\ AllPlaced /\ AllTruthful /\ ChannelTrue
    /\ \A h \in Host : IsSo(h, probes[h])

LEMMA SoundInit == Init => Sound
<1> SUFFICES ASSUME Init PROVE Sound
  OBVIOUS
<1>1. port \in [Host -> {"open", "closed", "dropped"}]
  BY DEF Init
<1>2. Kinds
  <2>1. worker \in [Sweeps -> [Host -> Worker]]
    BY NewWorker DEF Init
  <2>2. probeCh = <<>> /\ probeCh \in Seq(Event) /\ Len(probeCh) = 0
    BY DEF Init
  <2>3. counts \in [State -> Nat] /\ probes \in [Host -> State] /\ probing \in BOOLEAN
    BY DEF Init, State
  <2>4. begun \in 0..MaxSweeps /\ target \in [Sweeps -> SUBSET Host]
    BY ProbeAssumption DEF Init
  <2> QED BY <1>1, <2>1, <2>2, <2>3, <2>4 DEF Kinds
<1>3. AllPlaced /\ AllTruthful
  BY NewWorker DEF Init, AllPlaced, AllTruthful, Placed, Truthful
<1>4. ChannelTrue /\ \A h \in Host : IsSo(h, probes[h])
  BY DEF Init, ChannelTrue, IsSo
<1> QED BY <1>2, <1>3, <1>4 DEF Sound

\* A turn of one worker leaves all of them in their places and truthful.
LEMMA TurnKeeps ==
    ASSUME Kinds, AllPlaced, AllTruthful, NEW s \in Sweeps, NEW h \in Host, NEW q \in Worker,
           Turn(s, h, q), Placed(h, q), Truthful(h, q), UNCHANGED port
    PROVE  AllPlaced' /\ AllTruthful' /\ worker' \in [Sweeps -> [Host -> Worker]]
<1>1. /\ worker'[s][h] = q
      /\ \A t \in Sweeps, g \in Host : t # s \/ g # h => worker'[t][g] = worker[t][g]
      /\ worker' \in [Sweeps -> [Host -> Worker]]
  BY Turned
<1>2. \A g \in Host : \A r : Truthful(g, r)' <=> Truthful(g, r)
  BY DEF Truthful, IsSo
<1>3. \A g \in Host : \A r : Placed(g, r)' <=> Placed(g, r)
  BY DEF Placed
<1>4. ASSUME NEW t \in Sweeps, NEW g \in Host PROVE Placed(g, worker'[t][g]) /\ Truthful(g, worker'[t][g])
  BY <1>1 DEF AllPlaced, AllTruthful
<1> QED BY <1>1, <1>4 DEF AllPlaced, AllTruthful, Placed, Truthful, IsSo

LEMMA SoundNext == Sound /\ [Next]_vars => Sound'
<1> SUFFICES ASSUME Sound, [Next]_vars PROVE Sound'
  OBVIOUS
<1>s. Kinds /\ AllPlaced /\ AllTruthful /\ ChannelTrue /\ \A h \in Host : IsSo(h, probes[h])
  BY DEF Sound
<1>a. ASSUME UNCHANGED <<port, probeCh, probes>>
      PROVE  ChannelTrue' /\ \A h \in Host : IsSo(h, probes[h])'
  BY <1>s, <1>a DEF ChannelTrue, IsSo
<1>b. ASSUME UNCHANGED window PROVE UNCHANGED <<probing, counts, probes, readers, begun, target>>
  BY <1>b DEF window
<1>1. ASSUME NEW s \in Sweeps, NEW h \in Host, NEW q, Moves(s, h, q), UNCHANGED <<port, ended, cancelled>>,
             UNCHANGED <<probeCh, window>>
      PROVE  Sound'
  <2>1. AllPlaced' /\ AllTruthful' /\ worker' \in [Sweeps -> [Host -> Worker]]
    BY <1>1, <1>s, TurnKeeps DEF Moves
  <2>2. UNCHANGED <<port, probeCh, probing, counts, probes, readers, begun, target>>
    BY <1>1, <1>b
  <2>3. Kinds'
    BY <2>1, <2>2, <1>s DEF Kinds
  <2> QED BY <2>1, <2>2, <2>3, <1>a DEF Sound
<1>2. ASSUME NEW s \in Sweeps, NEW h \in Host, NEW q, Moves(s, h, q), Report(s, h)
      PROVE  Sound'
  <2> DEFINE ev == [key |-> h, state |-> worker[s][h].verdict, done |-> FALSE]
  <2>1. UNCHANGED <<port, probing, counts, probes, readers, begun, target>>
    BY <1>2, <1>b DEF Report
  <2>2. AllPlaced' /\ AllTruthful' /\ worker' \in [Sweeps -> [Host -> Worker]]
    BY <1>2, <1>s, <2>1, TurnKeeps DEF Moves
  <2>3. Send(ev) /\ ev \in Event /\ ~ ev.done /\ ev.key = h /\ IsSo(h, ev.state)
    BY <1>2, <1>s DEF Report, Kinds, Worker, Event, Pc, AllTruthful, Truthful
  <2> HIDE DEF ev
  <2>4. /\ probeCh' \in Seq(Event) /\ Len(probeCh') = Len(probeCh) + 1 /\ Len(probeCh) \in Nat
        /\ \A i \in 1..Len(probeCh) : probeCh'[i] = probeCh[i]
        /\ probeCh'[Len(probeCh) + 1] = ev
        /\ \A i \in 1..Len(probeCh') : ~ probeCh'[i].done => probeCh'[i].key \in Host
    BY <1>s, <2>3, Sent
  <2>5. Kinds'
    BY <2>1, <2>2, <2>4, <1>s DEF Kinds
  <2>6. ASSUME NEW i \in 1..Len(probeCh'), ~ probeCh'[i].done
        PROVE  IsSo(probeCh'[i].key, probeCh'[i].state)
    <3>1. i \in 1..Len(probeCh) \/ i = Len(probeCh) + 1
      BY <2>4
    <3> QED BY <2>3, <2>4, <2>6, <3>1, <1>s DEF ChannelTrue
  <2>7. ChannelTrue' /\ \A g \in Host : IsSo(g, probes[g])'
    BY <2>1, <2>6, <1>s DEF ChannelTrue, IsSo
  <2> QED BY <2>2, <2>5, <2>7 DEF Sound
<1>3. ASSUME NEW s \in Sweeps, NEW h \in Host, TakeSlot(s, h) PROVE Sound'
  <2> DEFINE r == worker[s][h]
  <2>1. UNCHANGED <<port, probeCh, probing, counts, probes, readers, begun, target>>
    BY <1>3, <1>b DEF TakeSlot
  <2>2. r \in Worker /\ Truthful(h, r)
    BY <1>s DEF Kinds, AllTruthful
  <2>3. PICK x \in {"hop", "slot"} : LET q == [r EXCEPT !.holds = r.holds \cup {x},
                                                   !.pc = IF x = "slot" THEN "check" ELSE "queue"] IN
            r.pc = "queue" /\ Turn(s, h, q) /\ q \in Worker /\ Placed(h, q)
    BY <1>3, <1>s, TurnOfTakeSlot
  <2> DEFINE q == [r EXCEPT !.holds = r.holds \cup {x}, !.pc = IF x = "slot" THEN "check" ELSE "queue"]
  <2>4. Truthful(h, q)
    BY <2>2 DEF Truthful, Worker
  <2>5. AllPlaced' /\ AllTruthful' /\ worker' \in [Sweeps -> [Host -> Worker]]
    <3> HIDE DEF q
    <3> QED BY <1>s, <2>1, <2>3, <2>4, TurnKeeps DEF q
  <2>6. Kinds'
    BY <2>1, <2>5, <1>s DEF Kinds
  <2> QED BY <2>1, <2>5, <2>6, <1>a DEF Sound
<1>4. ASSUME NEW s \in Sweeps, Ends(s) PROVE Sound'
  <2> DEFINE ev == [key |-> Nil, state |-> "unknown", done |-> TRUE]
  <2>1. UNCHANGED <<port, worker, probing, counts, probes, readers, begun, target>>
    BY <1>4, <1>b DEF Ends
  <2>2. Send(ev) /\ ev \in Event /\ ev.done
    BY <1>4 DEF Ends, Event, State
  <2> HIDE DEF ev
  <2>3. /\ probeCh' \in Seq(Event) /\ Len(probeCh') = Len(probeCh) + 1 /\ Len(probeCh) \in Nat
        /\ \A i \in 1..Len(probeCh) : probeCh'[i] = probeCh[i]
        /\ probeCh'[Len(probeCh) + 1] = ev
        /\ \A i \in 1..Len(probeCh') : ~ probeCh'[i].done => probeCh'[i].key \in Host
    BY <1>s, <2>2, Sent
  <2>4. Kinds' /\ AllPlaced' /\ AllTruthful'
    BY <2>1, <2>3, <1>s DEF Kinds, AllPlaced, AllTruthful, Placed, Truthful, IsSo
  <2>5. ASSUME NEW i \in 1..Len(probeCh'), ~ probeCh'[i].done
        PROVE  IsSo(probeCh'[i].key, probeCh'[i].state)
    <3>1. i \in 1..Len(probeCh) \/ i = Len(probeCh) + 1
      BY <2>3
    <3> QED BY <2>2, <2>3, <2>5, <3>1, <1>s DEF ChannelTrue
  <2>6. ChannelTrue' /\ \A g \in Host : IsSo(g, probes[g])'
    BY <2>1, <2>5, <1>s DEF ChannelTrue, IsSo
  <2> QED BY <2>4, <2>6 DEF Sound
<1>5. CASE startProbe
  <2>1. PICK hosts \in (SUBSET Host) \cap Groups : BegunWith(hosts)
    BY <1>5, <1>s, Begun
  <2>2. UNCHANGED <<port, probeCh, probes>>
    BY <2>1 DEF BegunWith
  <2>3. ASSUME NEW t \in Sweeps, NEW g \in Host
        PROVE  Placed(g, worker'[t][g]) /\ Truthful(g, worker'[t][g])
    <3>1. CASE t # begun + 1
      BY <3>1, <2>1, <1>s DEF BegunWith, AllPlaced, AllTruthful
    <3>2. CASE t = begun + 1
      BY <3>2, <2>1, NewWorker DEF BegunWith, Placed, Truthful
    <3> QED BY <3>1, <3>2
  <2>4. AllPlaced' /\ AllTruthful'
    BY <2>2, <2>3 DEF AllPlaced, AllTruthful, Placed, Truthful, IsSo
  <2>5. Kinds'
    <3>1. worker' \in [Sweeps -> [Host -> Worker]] /\ probing' \in BOOLEAN /\ counts' \in [State -> Nat]
      BY <2>1 DEF BegunWith
    <3>2. begun' \in 0..MaxSweeps /\ target' \in [Sweeps -> SUBSET Host]
      BY <2>1, <1>s, ProbeAssumption DEF BegunWith, Sweeps, Kinds
    <3> QED BY <3>1, <3>2, <2>2, <1>s DEF Kinds
  <2> QED BY <2>2, <2>4, <2>5, <1>a DEF Sound
<1>6. CASE handleProbeEvent
  <2> DEFINE ev == probeCh[1]
  <2>1. /\ probeCh' \in Seq(Event) /\ Len(probeCh') = Len(probeCh) - 1 /\ Len(probeCh) \in Nat \ {0}
        /\ Head(probeCh) = ev /\ ev \in Event
        /\ \A i \in 1..Len(probeCh') : i + 1 \in 1..Len(probeCh) /\ probeCh'[i] = probeCh[i + 1]
        /\ \A i \in 1..Len(probeCh') : ~ probeCh'[i].done => probeCh'[i].key \in Host
    BY <1>6, <1>s, Taken DEF handleProbeEvent
  <2>2. UNCHANGED <<port, worker, begun, target>>
    BY <1>6 DEF handleProbeEvent, sweep
  <2>3. ChannelTrue'
    BY <2>1, <2>2, <1>s DEF ChannelTrue, IsSo
  <2>4. AllPlaced' /\ AllTruthful'
    BY <2>2, <1>s DEF AllPlaced, AllTruthful, Placed, Truthful, IsSo
  <2>5. IF ev.done
        THEN probing' = FALSE /\ UNCHANGED <<counts, probes>>
        ELSE /\ probes' = [probes EXCEPT ![ev.key] = ev.state]
             /\ counts' = [counts EXCEPT ![ev.state] = @ + 1]
             /\ UNCHANGED probing
    BY <1>6, <2>1 DEF handleProbeEvent
  <2>6. ev.state \in State /\ ev.done \in BOOLEAN /\ (~ ev.done => ev.key \in Host /\ IsSo(ev.key, ev.state))
    BY <2>1, <1>s DEF Event, ChannelTrue, Kinds
  <2> HIDE DEF ev
  <2>7. counts' \in [State -> Nat] /\ probes' \in [Host -> State] /\ probing' \in BOOLEAN
    <3>1. counts \in [State -> Nat] /\ probes \in [Host -> State] /\ probing \in BOOLEAN
      BY <1>s DEF Kinds
    <3>2. CASE ev.done
      BY <2>5, <3>1, <3>2
    <3>3. CASE ~ ev.done
      <4>1. counts[ev.state] + 1 \in Nat
        BY <2>6, <3>1
      <4>2. counts' \in [State -> Nat]
        BY <2>5, <3>1, <3>3, <4>1
      <4>3. probes' \in [Host -> State]
        BY <2>5, <2>6, <3>1, <3>3
      <4>4. probing' = probing
        BY <2>5, <3>3
      <4> QED BY <3>1, <4>2, <4>3, <4>4
    <3> QED BY <3>2, <3>3
  <2>8. Kinds'
    BY <2>1, <2>2, <2>7, <1>s DEF Kinds
  <2>9. \A h \in Host : IsSo(h, probes[h])'
    BY <2>2, <2>5, <2>6, <1>s DEF IsSo, Kinds
  <2> QED BY <2>3, <2>4, <2>8, <2>9 DEF Sound
<1>7. CASE UNCHANGED <<port, worker, ended, probeCh, window>>
  <2>1. UNCHANGED <<port, worker, probeCh, probing, counts, probes, readers, begun, target>>
    BY <1>7, <1>b
  <2>2. Kinds' /\ AllPlaced' /\ AllTruthful'
    BY <2>1, <1>s DEF Kinds, AllPlaced, AllTruthful, Placed, Truthful, IsSo
  <2> QED BY <2>1, <2>2, <1>a DEF Sound
<1> QED BY <1>s, <1>1, <1>2, <1>3, <1>4, <1>5, <1>6, <1>7, Steps

\* A host whose port answers is never marked down and one marked up answers, however many hosts
\* are asked of however many jump hosts, and whatever is refused, cancelled or timed out.
THEOREM MarksAreTrueAlways == Spec => []MarksAreTrue
<1>1. Sound => MarksAreTrue
  BY DEF Sound, MarksAreTrue, IsSo
<1> QED BY <1>1, SoundInit, SoundNext, PTL DEF Spec

-----------------------------------------------------------------------------
(* One sweep at a time.                                                    *)

Idle == {"none", "gone"}

\* Only the last sweep has anybody at work.  It is over when its last event, the only one that says
\* so, is at the end of the channel, and off the screen when that one has been read.
OneSweep ==
    /\ ended \subseteq 1..begun /\ 1..(begun - 1) \subseteq ended
    /\ \A s \in Sweeps, h \in Host : s > begun \/ s \in ended => worker[s][h].pc \in Idle
    /\ \A i \in 1..Len(probeCh) : probeCh[i].done => i = Len(probeCh) /\ begun \in ended
    /\ ~ probing => probeCh = <<>> /\ (begun > 0 => begun \in ended)
    /\ probing => begun > 0 /\ (begun \in ended => Len(probeCh) > 0 /\ probeCh[Len(probeCh)].done)

LEMMA AtWork ==
    ASSUME Kinds, OneSweep, NEW s \in Sweeps, NEW h \in Host, worker[s][h].pc \notin Idle
    PROVE  s = begun /\ begun \notin ended /\ probing
<1>1. s <= begun /\ s \notin ended
  BY ProbeAssumption DEF OneSweep, Sweeps, Kinds
<1>2. s = begun
  BY <1>1, ProbeAssumption DEF OneSweep, Sweeps, Kinds
<1> QED BY <1>1, <1>2, ProbeAssumption DEF OneSweep, Sweeps

\* A turn of a worker that is at work leaves the sweeps as they are.
LEMMA TurnInSweep ==
    ASSUME Kinds, OneSweep, NEW s \in Sweeps, NEW h \in Host, NEW q \in Worker, Turn(s, h, q),
           worker[s][h].pc \notin Idle, UNCHANGED <<ended, probeCh, probing, begun>>
    PROVE  OneSweep'
<1>1. \A t \in Sweeps, g \in Host : t # s \/ g # h => worker'[t][g] = worker[t][g]
  BY Turned
<1>2. s = begun /\ begun \notin ended /\ probing
  BY AtWork
<1>3. ASSUME NEW t \in Sweeps, NEW g \in Host, t > begun \/ t \in ended PROVE worker'[t][g].pc \in Idle
  BY <1>1, <1>2, <1>3, ProbeAssumption DEF OneSweep, Sweeps
<1> QED BY <1>3 DEF OneSweep

LEMMA OneSweepInit == Init => OneSweep
<1> SUFFICES ASSUME Init PROVE OneSweep
  OBVIOUS
<1>1. ended = {} /\ begun = 0 /\ probeCh = <<>> /\ Len(probeCh) = 0 /\ probing = FALSE
  BY DEF Init
<1>2. \A s \in Sweeps, h \in Host : worker[s][h].pc \in Idle
  BY NewWorker DEF Init, Idle
<1> QED BY <1>1, <1>2 DEF OneSweep

LEMMA OneSweepNext == Sound /\ OneSweep /\ [Next]_vars => OneSweep'
<1> SUFFICES ASSUME Sound, OneSweep, [Next]_vars PROVE OneSweep'
  OBVIOUS
<1>s. Kinds /\ AllPlaced /\ AllTruthful
  BY DEF Sound
<1>b. ASSUME UNCHANGED window PROVE UNCHANGED <<probing, begun>>
  BY <1>b DEF window
<1>1. ASSUME NEW s \in Sweeps, NEW h \in Host, NEW q, Moves(s, h, q), UNCHANGED <<port, ended, cancelled>>,
             UNCHANGED <<probeCh, window>>
      PROVE  OneSweep'
  BY <1>1, <1>b, <1>s, TurnInSweep DEF Moves, Idle
<1>2. ASSUME NEW s \in Sweeps, NEW h \in Host, NEW q, Moves(s, h, q), Report(s, h)
      PROVE  OneSweep'
  <2> DEFINE ev == [key |-> h, state |-> worker[s][h].verdict, done |-> FALSE]
  <2>1. UNCHANGED <<ended, probing, begun>>
    BY <1>2, <1>b DEF Report
  <2>2. s = begun /\ begun \notin ended /\ probing
    BY <1>2, <1>s, AtWork DEF Moves, Idle
  <2>3. Send(ev) /\ ev \in Event /\ ~ ev.done /\ ev.key \in Host
    BY <1>2, <1>s DEF Report, Kinds, Worker, Event
  <2> HIDE DEF ev
  <2>4. /\ Len(probeCh') = Len(probeCh) + 1 /\ Len(probeCh) \in Nat
        /\ \A i \in 1..Len(probeCh) : probeCh'[i] = probeCh[i]
        /\ probeCh'[Len(probeCh) + 1] = ev
    BY <1>s, <2>3, Sent
  <2>5. \A t \in Sweeps, g \in Host : t # s \/ g # h => worker'[t][g] = worker[t][g]
    BY <1>2, <1>s, Turned DEF Moves
  <2>6. ASSUME NEW t \in Sweeps, NEW g \in Host, t > begun \/ t \in ended PROVE worker'[t][g].pc \in Idle
    BY <2>2, <2>5, <2>6, ProbeAssumption DEF OneSweep, Sweeps
  <2>7. ASSUME NEW i \in 1..Len(probeCh') PROVE ~ probeCh'[i].done
    <3>1. i \in 1..Len(probeCh) \/ i = Len(probeCh) + 1
      BY <2>4
    <3> QED BY <2>2, <2>3, <2>4, <3>1 DEF OneSweep
  <2> QED BY <2>1, <2>2, <2>6, <2>7 DEF OneSweep
<1>3. ASSUME NEW s \in Sweeps, NEW h \in Host, TakeSlot(s, h) PROVE OneSweep'
  <2>1. UNCHANGED <<ended, probeCh, probing, begun>> /\ worker[s][h].pc \notin Idle
    BY <1>3, <1>b DEF TakeSlot, Pc, Idle
  <2> DEFINE r == worker[s][h]
  <2>3. PICK x \in {"hop", "slot"} : LET q == [r EXCEPT !.holds = r.holds \cup {x},
                                                   !.pc = IF x = "slot" THEN "check" ELSE "queue"] IN
            Turn(s, h, q) /\ q \in Worker
    BY <1>3, <1>s, TurnOfTakeSlot
  <2> QED BY <1>s, <2>1, <2>3, TurnInSweep
<1>4. ASSUME NEW s \in Sweeps, Ends(s) PROVE OneSweep'
  <2> DEFINE ev == [key |-> Nil, state |-> "unknown", done |-> TRUE]
  <2>1. UNCHANGED <<worker, probing, begun>> /\ ended' = ended \cup {s} /\ s <= begun /\ s \notin ended
    BY <1>4, <1>b DEF Ends
  <2>2. Send(ev) /\ ev \in Event /\ ev.done
    BY <1>4 DEF Ends, Event, State
  <2> HIDE DEF ev
  <2>3. /\ Len(probeCh') = Len(probeCh) + 1 /\ Len(probeCh) \in Nat
        /\ \A i \in 1..Len(probeCh) : probeCh'[i] = probeCh[i]
        /\ probeCh'[Len(probeCh) + 1] = ev
    BY <1>s, <2>2, Sent
  <2>4. s = begun /\ begun \in Nat \ {0} /\ probing
    BY <2>1, <1>s, ProbeAssumption DEF OneSweep, Sweeps, Kinds
  <2>5. \A h \in Host : worker[s][h].pc \in Idle
    BY <1>4 DEF Ends, At, Pc, Idle
  <2>6. ASSUME NEW i \in 1..Len(probeCh'), probeCh'[i].done PROVE i = Len(probeCh')
    <3>1. i \in 1..Len(probeCh) \/ i = Len(probeCh) + 1
      BY <2>3
    <3> QED BY <2>1, <2>3, <2>4, <2>6, <3>1 DEF OneSweep
  <2>7. ended' \subseteq 1..begun /\ 1..(begun - 1) \subseteq ended'
    BY <2>1, <2>4 DEF OneSweep
  <2>8. \A t \in Sweeps, h \in Host : t > begun \/ t \in ended' => worker[t][h].pc \in Idle
    BY <2>1, <2>5 DEF OneSweep
  <2> QED BY <2>1, <2>2, <2>3, <2>4, <2>6, <2>7, <2>8 DEF OneSweep
<1>5. CASE startProbe
  <2>1. PICK hosts \in (SUBSET Host) \cap Groups : BegunWith(hosts)
    BY <1>5, <1>s, Begun
  <2>2. begun' = begun + 1 /\ probing' = TRUE /\ ~ probing /\ UNCHANGED <<ended, probeCh>> /\ begun \in Nat
    BY <2>1, <1>s, ProbeAssumption DEF BegunWith, Kinds
  <2>3. probeCh = <<>> /\ (begun > 0 => begun \in ended) /\ begun' \notin ended
    BY <2>2 DEF OneSweep
  <2>4. ended' \subseteq 1..begun' /\ 1..(begun' - 1) \subseteq ended'
    BY <2>2, <2>3 DEF OneSweep
  <2>5. ASSUME NEW t \in Sweeps, NEW h \in Host, t > begun' \/ t \in ended' PROVE worker'[t][h].pc \in Idle
    <3>1. t # begun + 1 /\ (t > begun \/ t \in ended)
      BY <2>2, <2>3, <2>5, ProbeAssumption DEF Sweeps
    <3> QED BY <3>1, <2>1 DEF BegunWith, OneSweep
  <2>6. Len(probeCh') = 0
    BY <2>2, <2>3
  <2> QED BY <2>2, <2>3, <2>4, <2>5, <2>6 DEF OneSweep
<1>6. CASE handleProbeEvent
  <2> DEFINE ev == probeCh[1]
  <2>1. /\ probeCh' \in Seq(Event) /\ Len(probeCh') = Len(probeCh) - 1 /\ Len(probeCh) \in Nat \ {0}
        /\ Head(probeCh) = ev
        /\ \A i \in 1..Len(probeCh') : i + 1 \in 1..Len(probeCh) /\ probeCh'[i] = probeCh[i + 1]
    BY <1>6, <1>s, Taken DEF handleProbeEvent
  <2>2. UNCHANGED <<worker, ended, begun>>
    BY <1>6 DEF handleProbeEvent, sweep
  <2>3. probing /\ probing' = IF ev.done THEN FALSE ELSE probing
    <3>1. probeCh # <<>> /\ probing' = IF ev.done THEN FALSE ELSE probing
      BY <1>6, <2>1 DEF handleProbeEvent
    <3> QED BY <3>1 DEF OneSweep
  <2>4. ASSUME NEW i \in 1..Len(probeCh'), probeCh'[i].done
        PROVE  i = Len(probeCh') /\ begun \in ended
    BY <2>1, <2>4 DEF OneSweep
  <2>5. CASE ev.done
    <3>1. Len(probeCh) = 1 /\ begun \in ended
      BY <2>1, <2>5 DEF OneSweep
    <3>2. probeCh' = <<>>
      BY <2>1, <3>1
    <3> QED BY <2>2, <2>3, <2>4, <2>5, <3>1, <3>2 DEF OneSweep
  <2>6. CASE ~ ev.done
    <3>1. begun \in ended => Len(probeCh) > 1 /\ probeCh[Len(probeCh)].done
      BY <2>1, <2>3, <2>6 DEF OneSweep
    <3>2. begun \in ended => Len(probeCh') > 0 /\ probeCh'[Len(probeCh')].done
      BY <2>1, <3>1
    <3> QED BY <2>2, <2>3, <2>4, <2>6, <3>2 DEF OneSweep
  <2> QED BY <2>5, <2>6
<1>7. CASE UNCHANGED <<port, worker, ended, probeCh, window>>
  <2>1. UNCHANGED <<worker, ended, probeCh, probing, begun>>
    BY <1>7, <1>b
  <2> QED BY <2>1 DEF OneSweep
<1> QED BY <1>s, <1>1, <1>2, <1>3, <1>4, <1>5, <1>6, <1>7, Steps

-----------------------------------------------------------------------------
(* The slots.                                                              *)

\* The hosts with a slot of the jump host of h.
Hop(s, h) == {g \in Holding(s, "hop") : jumpKey(g) = jumpKey(h)}

HopsKept == \A s \in Sweeps, h \in Host : Cardinality(Hop(s, h)) <= JumpWorkers

LEMMA HopsAreFinite ==
    ASSUME NEW s, NEW h
    PROVE  IsFiniteSet(Hop(s, h)) /\ Cardinality(Hop(s, h)) \in Nat
<1>1. Hop(s, h) \subseteq Host
  BY DEF Hop, Holding
<1> QED BY <1>1, ProbeAssumption, FS_Subset, FS_CardinalityType

LEMMA HopsKeptInit == Init => HopsKept
<1> SUFFICES ASSUME Init, NEW s \in Sweeps, NEW h \in Host PROVE Cardinality(Hop(s, h)) <= JumpWorkers
  BY DEF HopsKept
<1>1. Hop(s, h) = {}
  BY NewWorker DEF Init, Hop, Holding
<1> QED BY <1>1, FS_EmptySet, ProbeAssumption

\* Where no host is given a slot, no jump host has more of them than before.
LEMMA FewerHops ==
    ASSUME HopsKept,
           \A s \in Sweeps, g \in Host : worker'[s][g].holds \subseteq worker[s][g].holds
    PROVE  HopsKept'
<1> SUFFICES ASSUME NEW s \in Sweeps, NEW h \in Host PROVE Cardinality(Hop(s, h)') <= JumpWorkers
  BY DEF HopsKept
<1>1. Hop(s, h)' \subseteq Hop(s, h)
  BY DEF Hop, Holding, jumpKey
<1>2. IsFiniteSet(Hop(s, h)) /\ Cardinality(Hop(s, h)) \in Nat /\ Cardinality(Hop(s, h)) <= JumpWorkers
  BY HopsAreFinite DEF HopsKept
<1>3. Cardinality(Hop(s, h)') <= Cardinality(Hop(s, h)) /\ Cardinality(Hop(s, h)') \in Nat
  BY <1>1, <1>2, FS_Subset, FS_CardinalityType
<1> QED BY <1>2, <1>3, ProbeAssumption

LEMMA HopTaken ==
    ASSUME Kinds, HopsKept, NEW s \in Sweeps, NEW h \in Host, NEW q, Turn(s, h, q),
           q.holds = worker[s][h].holds \cup {"hop"}, IsFree(s, h, "hop")
    PROVE  HopsKept'
<1> SUFFICES ASSUME NEW t \in Sweeps, NEW k \in Host PROVE Cardinality(Hop(t, k)') <= JumpWorkers
  BY DEF HopsKept
<1>1. /\ worker'[s][h] = q
      /\ \A u \in Sweeps, g \in Host : u # s \/ g # h => worker'[u][g] = worker[u][g]
  BY Turned
<1>2. IsFiniteSet(Hop(t, k)) /\ Cardinality(Hop(t, k)) \in Nat /\ Cardinality(Hop(t, k)) <= JumpWorkers
  BY HopsAreFinite DEF HopsKept
<1>3. CASE t # s \/ jumpKey(k) # jumpKey(h)
  <2>1. Hop(t, k)' \subseteq Hop(t, k)
    BY <1>1, <1>3 DEF Hop, Holding, jumpKey
  <2>2. Cardinality(Hop(t, k)') <= Cardinality(Hop(t, k)) /\ Cardinality(Hop(t, k)') \in Nat
    BY <2>1, <1>2, FS_Subset, FS_CardinalityType
  <2> QED BY <1>2, <2>2, ProbeAssumption
<1>4. CASE t = s /\ jumpKey(k) = jumpKey(h)
  <2>1. Hop(t, k)' \subseteq Hop(t, k) \cup {h}
    BY <1>1, <1>4 DEF Hop, Holding, jumpKey
  <2>2. Cardinality(Hop(t, k)) < JumpWorkers
    BY <1>4 DEF IsFree, Hop
  <2>3. IsFiniteSet(Hop(t, k) \cup {h}) /\ Cardinality(Hop(t, k) \cup {h}) <= Cardinality(Hop(t, k)) + 1
    BY <1>2, FS_AddElement
  <2>4. Cardinality(Hop(t, k) \cup {h}) \in Nat
    BY <2>3, FS_CardinalityType
  <2>5. Cardinality(Hop(t, k)') <= Cardinality(Hop(t, k) \cup {h}) /\ Cardinality(Hop(t, k)') \in Nat
    BY <2>1, <2>3, FS_Subset, FS_CardinalityType
  <2> QED BY <1>2, <2>2, <2>3, <2>4, <2>5, ProbeAssumption
<1> QED BY <1>3, <1>4

LEMMA HopsKeptNext == Sound /\ HopsKept /\ [Next]_vars => HopsKept'
<1> SUFFICES ASSUME Sound, HopsKept, [Next]_vars PROVE HopsKept'
  OBVIOUS
<1>s. Kinds /\ AllPlaced /\ AllTruthful
  BY DEF Sound
<1>1. ASSUME NEW s \in Sweeps, NEW h \in Host, NEW q, Moves(s, h, q) PROVE HopsKept'
  <2>1. \A t \in Sweeps, g \in Host : worker'[t][g].holds \subseteq worker[t][g].holds
    BY <1>1, <1>s, Turned DEF Moves
  <2> QED BY <2>1, FewerHops
<1>2. ASSUME NEW s \in Sweeps, NEW h \in Host, TakeSlot(s, h) PROVE HopsKept'
  <2> DEFINE r == worker[s][h]
  <2>1. r \in Worker
    BY <1>s DEF Kinds
  <2>2. PICK x \in {"hop", "slot"} : LET q == [r EXCEPT !.holds = r.holds \cup {x},
                                                   !.pc = IF x = "slot" THEN "check" ELSE "queue"] IN
            IsFree(s, h, x) /\ Turn(s, h, q) /\ q \in Worker
    BY <1>2, <1>s, TurnOfTakeSlot
  <2> DEFINE q == [r EXCEPT !.holds = r.holds \cup {x}, !.pc = IF x = "slot" THEN "check" ELSE "queue"]
  <2>3. q.holds = r.holds \cup {x}
    BY <2>1 DEF Worker
  <2>4. Turn(s, h, q) /\ IsFree(s, h, x)
    BY <2>2
  <2> HIDE DEF q
  <2>5. CASE x = "hop"
    BY <2>3, <2>4, <2>5, <1>s, HopTaken
  <2>6. CASE x = "slot"
    \* The hops are as they were: what is taken is a slot of the sweep.
    <3> SUFFICES ASSUME NEW t \in Sweeps, NEW k \in Host PROVE Hop(t, k)' = Hop(t, k)
      BY DEF HopsKept
    <3>1. \A u \in Sweeps, g \in Host : "hop" \in worker'[u][g].holds <=> "hop" \in worker[u][g].holds
      BY <2>3, <2>4, <2>6, <1>s, Turned
    <3> QED BY <3>1 DEF Hop, Holding, jumpKey
  <2> QED BY <2>5, <2>6
<1>3. CASE startProbe
  <2>1. PICK hosts \in (SUBSET Host) \cap Groups : BegunWith(hosts)
    BY <1>3, <1>s, Begun
  <2>2. \A t \in Sweeps, g \in Host : worker'[t][g].holds \subseteq worker[t][g].holds
    BY <2>1, NewWorker DEF BegunWith
  <2> QED BY <2>2, FewerHops
<1>4. CASE UNCHANGED worker
  BY <1>4, FewerHops
<1> QED BY <1>s, <1>1, <1>2, <1>3, <1>4, Steps DEF Ends, handleProbeEvent, sweep

\* However many hosts are behind a machine, and however differently they record it, no more than
\* JumpWorkers of them are asked of it at once, and no slot of a sweep is kept by a host that queues.
THEOREM SlotsAreSpentAlways == Spec => []SlotsAreSpent
<1>1. Sound => WorkersAreAtWork
  <2> SUFFICES ASSUME Sound, NEW s \in Sweeps, NEW h \in Holding(s, "slot")
               PROVE  Pc(s, h) \in {"check", "asking", "report", "free"}
    BY DEF WorkersAreAtWork
  <2>1. h \in Host /\ worker[s][h] \in Worker /\ Placed(h, worker[s][h]) /\ "slot" \in worker[s][h].holds
    BY DEF Sound, Kinds, AllPlaced, Holding
  <2>2. worker[s][h].pc \in {"none", "queue", "check", "asking", "report", "free", "gone"}
    BY <2>1 DEF Worker
  <2>3. worker[s][h].pc \notin {"none", "queue", "gone"}
    BY <2>1 DEF Placed
  <2> QED BY <2>2, <2>3 DEF Pc
<1>2. Sound /\ OneSweep /\ HopsKept => HopsAreNotFlooded
  <2> SUFFICES ASSUME Sound, OneSweep, HopsKept, NEW m
               PROVE  Cardinality({sh \in Sweeps \X Host : /\ Pc(sh[1], sh[2]) = "asking" /\ Jump[sh[2]] # Nil
                                                           /\ Machine[Jump[sh[2]]] = m}) <= JumpWorkers
    BY DEF HopsAreNotFlooded
  <2> DEFINE asked == {sh \in Sweeps \X Host : /\ Pc(sh[1], sh[2]) = "asking" /\ Jump[sh[2]] # Nil
                                               /\ Machine[Jump[sh[2]]] = m}
  <2>1. CASE asked = {}
    <3>1. Cardinality(asked) = 0
      <4> HIDE DEF asked
      <4> QED BY <2>1, FS_EmptySet
    <3> QED BY <3>1, ProbeAssumption
  <2>2. CASE asked # {}
    <3> PICK one \in asked : TRUE
      BY <2>2
    <3> DEFINE k == one[2]
               f == [sh \in asked |-> sh[2]]
    <3>1. \A sh \in asked : sh[1] = begun /\ sh[1] \in Sweeps /\ sh[2] \in Host /\ sh = <<sh[1], sh[2]>>
      BY AtWork DEF Sound, Pc, Idle
    <3>2. \A sh \in asked : sh[2] \in Hop(begun, k)
      <4>1. \A sh \in asked : jumpKey(sh[2]) = m /\ m # Nil
        BY <3>1, ProbeAssumption DEF jumpKey
      <4>2. \A sh \in asked : "hop" \in worker[sh[1]][sh[2]].holds
        BY <3>1, <4>1 DEF Sound, AllPlaced, Placed, Pc
      <4> QED BY <3>1, <4>1, <4>2 DEF Hop, Holding
    <3>3. f \in Injection(asked, Hop(begun, k))
      <4>1. f \in [asked -> Hop(begun, k)]
        BY <3>2
      <4>2. \A a, b \in asked : f[a] = f[b] => a = b
        BY <3>1
      <4> QED BY <4>1, <4>2 DEF Injection, IsInjective
    <3>4. IsFiniteSet(asked) /\ Cardinality(asked) <= Cardinality(Hop(begun, k))
      <4> HIDE DEF f, asked
      <4> QED BY <3>3, HopsAreFinite, FS_Injection
    <3>5. Cardinality(Hop(begun, k)) <= JumpWorkers
      BY <3>1 DEF HopsKept
    <3> QED BY <3>4, <3>5, HopsAreFinite, FS_CardinalityType, ProbeAssumption
  <2> QED BY <2>1, <2>2
<1>3. Sound /\ OneSweep /\ HopsKept => SlotsAreSpent
  BY <1>1, <1>2 DEF SlotsAreSpent
<1> QED BY <1>3, SoundInit, SoundNext, OneSweepInit, OneSweepNext, HopsKeptInit, HopsKeptNext, PTL DEF Spec

-----------------------------------------------------------------------------
(* The sweep that the interface promises.                                  *)

\* A host on the channel has been reported, once, by a worker of the sweep on screen.
SaidOnce ==
    /\ \A i \in 1..Len(probeCh) : ~ probeCh[i].done =>
           begun > 0 /\ worker[begun][probeCh[i].key].pc \in {"free", "gone"}
    /\ \A i, j \in 1..Len(probeCh) :
           ~ probeCh[i].done /\ ~ probeCh[j].done /\ probeCh[i].key = probeCh[j].key => i = j

Words == {probeCh[i].key : i \in {j \in 1..Len(probeCh) : ~ probeCh[j].done}}

\* The hosts of the sweep on screen that have not been reported.
Busy == At(begun, Unsaid)

LEMMA UnheardIs ==
    /\ Unheard = IF begun = 0 THEN {} ELSE Busy \cup Words
    /\ Unheard' = IF begun' = 0 THEN {} ELSE Busy' \cup Words'
  BY DEF Unheard, Busy, Unsaid, Words

\* What a step does to the sweep on screen.
Mapped == Abstract!Next \/ UNCHANGED <<probing, Unheard, counts, probes>>

\* A turn of a worker that has its word still to say, or has said it, is not seen.
LEMMA TurnUnseen ==
    ASSUME Kinds, OneSweep, SaidOnce, NEW s \in Sweeps, NEW h \in Host, NEW q, Turn(s, h, q),
           \/ worker[s][h].pc \in Unsaid /\ q.pc \in Unsaid
           \/ worker[s][h].pc = "free" /\ q.pc \in {"free", "gone"},
           UNCHANGED <<probeCh, probing, counts, probes, begun>>
    PROVE  SaidOnce' /\ Mapped
<1>1. /\ worker'[s][h] = q
      /\ \A t \in Sweeps, g \in Host : t # s \/ g # h => worker'[t][g] = worker[t][g]
  BY Turned
<1>2. s = begun
  BY AtWork DEF Idle, Unsaid
<1>3. Busy' = Busy
  BY <1>1, <1>2 DEF Busy, At, Pc, Unsaid
<1>4. Words' = Words
  BY DEF Words
<1>5. UNCHANGED Unheard
  BY <1>3, <1>4, UnheardIs
<1>6. ASSUME NEW i \in 1..Len(probeCh), ~ probeCh[i].done
      PROVE  begun > 0 /\ worker'[begun][probeCh[i].key].pc \in {"free", "gone"}
  BY <1>1, <1>2, <1>6 DEF SaidOnce, Kinds, Unsaid
<1>7. SaidOnce'
  BY <1>6 DEF SaidOnce
<1> QED BY <1>5, <1>7 DEF Mapped

LEMMA SaidOnceInit == Init => SaidOnce /\ Abstract!Init
<1> SUFFICES ASSUME Init PROVE SaidOnce /\ Abstract!Init
  OBVIOUS
<1>1. probeCh = <<>> /\ Len(probeCh) = 0 /\ begun = 0 /\ probing = FALSE
      /\ counts = [v \in State |-> 0] /\ probes = [h \in Host |-> "unknown"]
  BY DEF Init
<1>2. Unheard = {}
  BY <1>1 DEF Unheard
<1> QED BY <1>1, <1>2 DEF SaidOnce, Abstract!Init, Abstract!NoTally

LEMMA SweepNext ==
    Sound /\ OneSweep /\ SaidOnce /\ [Next]_vars => SaidOnce' /\ Mapped
<1> SUFFICES ASSUME Sound, OneSweep, SaidOnce, [Next]_vars PROVE SaidOnce' /\ Mapped
  OBVIOUS
<1>s. Kinds /\ AllPlaced /\ AllTruthful
  BY DEF Sound
<1>b. ASSUME UNCHANGED window PROVE UNCHANGED <<probing, counts, probes, begun>>
  BY <1>b DEF window
<1>1. ASSUME NEW s \in Sweeps, NEW h \in Host, NEW q, Moves(s, h, q), UNCHANGED <<probeCh, window>>,
             \/ worker[s][h].pc \in Unsaid /\ q.pc \in Unsaid
             \/ worker[s][h].pc = "free" /\ q.pc \in {"free", "gone"}
      PROVE  SaidOnce' /\ Mapped
  <2>1. Turn(s, h, q) /\ UNCHANGED <<probeCh, probing, counts, probes, begun>>
    BY <1>1, <1>b DEF Moves
  <2> QED BY <2>1, <1>1, <1>s, TurnUnseen
<1>2. ASSUME NEW s \in Sweeps, NEW h \in Host, NEW q, Moves(s, h, q), Report(s, h), q.pc = "free"
      PROVE  SaidOnce' /\ Mapped
  <2> DEFINE ev == [key |-> h, state |-> worker[s][h].verdict, done |-> FALSE]
  <2>1. UNCHANGED <<probing, counts, probes, begun>>
    BY <1>2, <1>b DEF Report
  <2>2. s = begun /\ worker[s][h].pc = "report" /\ begun > 0
    BY <1>2, <1>s, AtWork, ProbeAssumption DEF Report, Pc, Idle, Sweeps
  <2>3. Send(ev) /\ ev \in Event /\ ~ ev.done /\ ev.key = h
    BY <1>2, <1>s DEF Report, Kinds, Worker, Event
  <2> HIDE DEF ev
  <2>4. /\ Len(probeCh') = Len(probeCh) + 1 /\ Len(probeCh) \in Nat
        /\ \A i \in 1..Len(probeCh) : probeCh'[i] = probeCh[i]
        /\ probeCh'[Len(probeCh) + 1] = ev
    BY <1>s, <2>3, Sent
  <2>5. /\ worker'[s][h] = q
        /\ \A t \in Sweeps, g \in Host : t # s \/ g # h => worker'[t][g] = worker[t][g]
    BY <1>2, <1>s, Turned DEF Moves
  <2>6. \A i \in 1..Len(probeCh') : i \in 1..Len(probeCh) \/ i = Len(probeCh) + 1
    BY <2>4
  <2>7. ASSUME NEW i \in 1..Len(probeCh), ~ probeCh[i].done
        PROVE  probeCh[i].key \in Host /\ probeCh[i].key # h
    BY <2>2, <2>7, <1>s DEF SaidOnce, Kinds
  <2>8. ASSUME NEW i \in 1..Len(probeCh'), ~ probeCh'[i].done
        PROVE  worker'[begun][probeCh'[i].key].pc \in {"free", "gone"}
    <3>1. CASE i \in 1..Len(probeCh)
      BY <3>1, <2>2, <2>4, <2>5, <2>7, <2>8 DEF SaidOnce
    <3>2. CASE i = Len(probeCh) + 1
      BY <3>2, <1>2, <2>2, <2>3, <2>4, <2>5
    <3> QED BY <3>1, <3>2, <2>6
  <2>9. ASSUME NEW i \in 1..Len(probeCh'), NEW j \in 1..Len(probeCh'), ~ probeCh'[i].done, ~ probeCh'[j].done,
               probeCh'[i].key = probeCh'[j].key
        PROVE  i = j
    BY <2>3, <2>4, <2>6, <2>7, <2>9 DEF SaidOnce
  <2>10. SaidOnce'
    BY <2>1, <2>2, <2>8, <2>9 DEF SaidOnce
  <2>11. Busy' = Busy \ {h} /\ h \in Busy
    BY <1>2, <2>1, <2>2, <2>5 DEF Busy, At, Pc, Unsaid
  <2>12. Words' = Words \cup {h}
    <3>1. Words' \subseteq Words \cup {h}
      BY <2>3, <2>4, <2>6 DEF Words
    <3>2. Words \subseteq Words'
      BY <2>4 DEF Words
    <3>3. h \in Words'
      <4>1. Len(probeCh) + 1 \in 1..Len(probeCh')
        BY <2>4
      <4> QED BY <4>1, <2>3, <2>4 DEF Words
    <3> QED BY <3>1, <3>2, <3>3
  <2>13. UNCHANGED Unheard
    BY <2>1, <2>11, <2>12, UnheardIs
  <2> QED BY <2>1, <2>10, <2>13 DEF Mapped
<1>3. ASSUME NEW s \in Sweeps, NEW h \in Host, TakeSlot(s, h) PROVE SaidOnce' /\ Mapped
  <2>1. UNCHANGED <<probeCh, probing, counts, probes, begun>>
    BY <1>3, <1>b DEF TakeSlot
  <2> DEFINE r == worker[s][h]
  <2>2. r \in Worker
    BY <1>s DEF Kinds
  <2>3. PICK x \in {"hop", "slot"} : LET q == [r EXCEPT !.holds = r.holds \cup {x},
                                                   !.pc = IF x = "slot" THEN "check" ELSE "queue"] IN
            Turn(s, h, q) /\ r.pc = "queue"
    BY <1>3, <1>s, TurnOfTakeSlot
  <2> DEFINE q == [r EXCEPT !.holds = r.holds \cup {x}, !.pc = IF x = "slot" THEN "check" ELSE "queue"]
  <2>4. q.pc \in Unsaid /\ r.pc \in Unsaid /\ Turn(s, h, q)
    BY <2>2, <2>3 DEF Worker, Unsaid
  <2> HIDE DEF q
  <2> QED BY <1>s, <2>1, <2>4, TurnUnseen
<1>4. ASSUME NEW s \in Sweeps, Ends(s) PROVE SaidOnce' /\ Mapped
  <2> DEFINE ev == [key |-> Nil, state |-> "unknown", done |-> TRUE]
  <2>1. UNCHANGED <<worker, probing, counts, probes, begun>>
    BY <1>4, <1>b DEF Ends
  <2>2. Send(ev) /\ ev \in Event /\ ev.done
    BY <1>4 DEF Ends, Event, State
  <2> HIDE DEF ev
  <2>3. /\ Len(probeCh') = Len(probeCh) + 1 /\ Len(probeCh) \in Nat
        /\ \A i \in 1..Len(probeCh) : probeCh'[i] = probeCh[i]
        /\ probeCh'[Len(probeCh) + 1] = ev
    BY <1>s, <2>2, Sent
  <2>4. \A i \in 1..Len(probeCh') : ~ probeCh'[i].done => i \in 1..Len(probeCh)
    BY <2>2, <2>3
  <2>5. SaidOnce'
    BY <2>1, <2>3, <2>4 DEF SaidOnce
  <2>6. Words' = Words
    BY <2>3, <2>4 DEF Words
  <2>7. Busy' = Busy
    BY <2>1 DEF Busy, At, Pc
  <2> QED BY <2>1, <2>5, <2>6, <2>7, UnheardIs DEF Mapped
<1>5. CASE startProbe
  <2>1. PICK hosts \in (SUBSET Host) \cap Groups : BegunWith(hosts)
    BY <1>5, <1>s, Begun
  <2>2. /\ ~ probing /\ probing' = TRUE /\ begun' = begun + 1 /\ begun \in Nat
        /\ counts' = [v \in State |-> 0] /\ UNCHANGED <<probeCh, probes>>
    BY <2>1, <1>s, ProbeAssumption DEF BegunWith, Kinds
  <2>3. probeCh = <<>> /\ Len(probeCh) = 0 /\ Len(probeCh') = 0
    BY <2>2 DEF OneSweep
  <2>4. SaidOnce'
    BY <2>3 DEF SaidOnce
  <2>5. Words' = {}
    BY <2>3 DEF Words
  <2>6. Busy' = hosts
    BY <2>1, <2>2, NewWorker DEF BegunWith, Busy, At, Pc, Unsaid
  <2>7. Unheard' = hosts
    BY <2>2, <2>5, <2>6, UnheardIs
  <2>8. Abstract!Begin(hosts)
    BY <2>2, <2>7 DEF Abstract!Begin, Abstract!NoTally
  <2> QED BY <2>1, <2>4, <2>8 DEF Mapped, Abstract!Next
<1>6. CASE handleProbeEvent
  <2> DEFINE ev == probeCh[1]
  <2>1. /\ probeCh' \in Seq(Event) /\ Len(probeCh') = Len(probeCh) - 1 /\ Len(probeCh) \in Nat \ {0}
        /\ Head(probeCh) = ev /\ ev \in Event
        /\ \A i \in 1..Len(probeCh') : i + 1 \in 1..Len(probeCh) /\ probeCh'[i] = probeCh[i + 1]
    BY <1>6, <1>s, Taken DEF handleProbeEvent
  <2>2. UNCHANGED <<worker, begun>>
    BY <1>6 DEF handleProbeEvent, sweep
  <2>3. /\ probing
        /\ IF ev.done
           THEN probing' = FALSE /\ UNCHANGED <<counts, probes>>
           ELSE /\ probes' = [probes EXCEPT ![ev.key] = ev.state]
                /\ counts' = [counts EXCEPT ![ev.state] = @ + 1]
                /\ UNCHANGED probing
    BY <1>6, <2>1 DEF handleProbeEvent, OneSweep
  <2>4. SaidOnce'
    <3>1. ASSUME NEW i \in 1..Len(probeCh'), ~ probeCh'[i].done
          PROVE  begun > 0 /\ worker[begun][probeCh'[i].key].pc \in {"free", "gone"}
      BY <2>1, <3>1 DEF SaidOnce
    <3>2. ASSUME NEW i \in 1..Len(probeCh'), NEW j \in 1..Len(probeCh'), ~ probeCh'[i].done,
                 ~ probeCh'[j].done, probeCh'[i].key = probeCh'[j].key
          PROVE  i = j
      <4>1. i + 1 = j + 1
        BY <2>1, <3>2 DEF SaidOnce
      <4> QED BY <4>1
    <3> QED BY <2>2, <3>1, <3>2 DEF SaidOnce
  <2>5. Busy' = Busy
    BY <2>2 DEF Busy, At, Pc
  <2>6. CASE ev.done
    <3>1. Len(probeCh) = 1 /\ begun \in ended /\ begun > 0
      BY <2>1, <2>3, <2>6 DEF OneSweep
    <3>2. Words = {} /\ Words' = {}
      BY <2>1, <2>6, <3>1 DEF Words
    <3>3. Busy = {}
      <4>1. begun \in Sweeps
        BY <3>1, <1>s, ProbeAssumption DEF Kinds, Sweeps
      <4>2. \A h \in Host : worker[begun][h].pc \in Idle
        BY <3>1, <4>1 DEF OneSweep
      <4> QED BY <4>2 DEF Busy, At, Pc, Unsaid, Idle
    <3>4. Unheard = {} /\ Unheard' = {}
      BY <2>2, <2>5, <3>2, <3>3, UnheardIs
    <3>5. Abstract!End
      BY <2>3, <2>6, <3>4 DEF Abstract!End
    <3> QED BY <2>4, <3>5 DEF Mapped, Abstract!Next
  <2>7. CASE ~ ev.done
    <3>1. ev.key \in Host /\ ev.state \in State /\ 1 \in 1..Len(probeCh)
      BY <2>1, <2>7, <1>s DEF Kinds, Event
    <3>2. begun > 0 /\ ev.key \notin Busy
      BY <2>7, <3>1 DEF SaidOnce, Busy, At, Pc, Unsaid
    <3>3. ev.key \in Words
      BY <2>7, <3>1 DEF Words
    <3>4. Words' \subseteq Words \ {ev.key}
      <4> SUFFICES ASSUME NEW i \in 1..Len(probeCh'), ~ probeCh'[i].done
                   PROVE  probeCh'[i].key \in Words \ {ev.key}
        BY DEF Words
      <4>1. probeCh'[i].key \in Words
        BY <2>1 DEF Words
      <4>2. i + 1 # 1 /\ probeCh'[i].key = probeCh[i + 1].key
        BY <2>1
      <4> QED BY <2>1, <2>7, <3>1, <4>1, <4>2 DEF SaidOnce
    <3>5. Words \ {ev.key} \subseteq Words'
      <4> SUFFICES ASSUME NEW i \in 1..Len(probeCh), ~ probeCh[i].done, probeCh[i].key # ev.key
                   PROVE  probeCh[i].key \in Words'
        BY DEF Words
      <4>1. i - 1 \in 1..Len(probeCh') /\ probeCh'[i - 1] = probeCh[i]
        BY <2>1
      <4> QED BY <4>1 DEF Words
    <3>6. ev.key \in Unheard /\ Unheard' = Unheard \ {ev.key}
      BY <2>2, <2>5, <3>2, <3>3, <3>4, <3>5, UnheardIs
    <3>7. Abstract!Tell(ev.key, ev.state)
      <4> HIDE DEF ev
      <4> QED BY <2>3, <2>7, <3>6 DEF Abstract!Tell
    <3> QED BY <2>4, <3>1, <3>7 DEF Mapped, Abstract!Next, Abstract!Word
  <2> QED BY <2>6, <2>7
<1>7. CASE UNCHANGED <<port, worker, ended, probeCh, window>>
  <2>1. UNCHANGED <<worker, probeCh, probing, counts, probes, begun>>
    BY <1>7, <1>b
  <2>2. SaidOnce' /\ UNCHANGED Unheard
    BY <2>1 DEF SaidOnce, Unheard, Busy, At, Pc
  <2> QED BY <2>1, <2>2 DEF Mapped
<1> QED BY <1>s, <1>1, <1>2, <1>3, <1>4, <1>5, <1>6, <1>7, Steps

\* The safety of IsASweep: every step of the probe is a step of Sweep or none, so each host of a
\* sweep is heard of once, in one tally, and the sweep ends after the last.
THEOREM SweepSteps == Spec => Abstract!Init /\ [][Abstract!Next]_(Abstract!vars)
<1>1. Init => Abstract!Init
  BY SaidOnceInit
<1>2. Sound /\ OneSweep /\ SaidOnce /\ [Next]_vars => [Abstract!Next]_(Abstract!vars)
  BY SweepNext DEF Mapped, Abstract!vars
<1> QED BY <1>1, <1>2, SoundInit, SoundNext, OneSweepInit, OneSweepNext, SaidOnceInit, SweepNext, PTL DEF Spec
=============================================================================
