-------------------------------- MODULE Probe --------------------------------
(***************************************************************************)
(* The reachability probe: internal/probe/probe.go checks every host of a  *)
(* group on a goroutine of its own, and internal/ui/probe.go shows each    *)
(* answer as it arrives.  A host behind a jump host is asked of the jump   *)
(* host, by an ssh that may be answered, refused, turned away or timed     *)
(* out.  Sweep is what the interface promises of it all.                   *)
(***************************************************************************)
EXTENDS Naturals, Sequences, FiniteSets

CONSTANTS
    Host,         \* the hosts
    Groups,       \* the sets of hosts a list may show
    Dialled,      \* the hosts omassh dials itself
    Addressed,    \* the hosts with an address
    Jump,         \* Jump[h]: the jump host of h as it is recorded, or Nil
    Machine,      \* Machine[j]: the address and port of the jump host j
    JumpWorkers,  \* probes one machine carries at once
    Fewest, Most, \* the least and the most workers of a sweep
    Room,         \* the room in probeCh
    Abandons,     \* the sweep's context may be cancelled
    Ports,        \* Ports[h]: what may stand behind the port of h
    MaxSweeps,    \* BOUND on the sweeps begun
    Nil

ASSUME ProbeAssumption ==
    /\ IsFiniteSet(Host) /\ Groups \subseteq SUBSET Host /\ Addressed \subseteq Host /\ Dialled \subseteq Host
    /\ JumpWorkers \in Nat \ {0} /\ Fewest \in Nat \ {0} /\ Most \in Nat \ {0} /\ Room \in Nat \ {0}
    /\ MaxSweeps \in Nat /\ Abandons \in BOOLEAN /\ Ports \in [Host -> SUBSET {"open", "closed", "dropped"}]
    /\ \A h \in Host : Jump[h] # Nil => Machine[Jump[h]] # Nil
    /\ \A h \in Dialled : Jump[h] = Nil

VARIABLES
    port,       \* what is behind each host's port, from where it is asked
    worker,     \* worker[s][h]: the goroutine of host h in sweep s
    ended,      \* the sweeps whose CheckAll has returned and been told
    cancelled,  \* the sweeps whose context was cancelled
    probeCh,    \* m.probeCh
    probing,    \* m.probing
    counts,     \* m.probeCounts
    probes,     \* m.probes
    readers,    \* waitProbe commands running
    begun,      \* sweeps begun
    target      \* the hosts of each sweep

sweep  == <<worker, ended, cancelled>>
window == <<probing, counts, probes, readers, begun, target>>
vars   == <<port, sweep, probeCh, window>>

State == {"unknown", "up", "down", "skipped", "notchecked"}
\* The signals of the ssh that asks a jump host: its output, its end, and "open failed" on its stderr.
Signal == {"spoke", "done", "refused"}
Worker == [pc : {"none", "queue", "check", "asking", "report", "free", "gone"}, holds : SUBSET {"hop", "slot"},
           said : SUBSET Signal, verdict : State]
NoWorker == [pc |-> "none", holds |-> {}, said |-> {}, verdict |-> "unknown"]
Sweeps == 1..MaxSweeps

\* A mistake: the cap kept per recorded host, not per machine.
JumpKeyById(h) == Jump[h]
jumpKey(h) == IF Jump[h] = Nil THEN Nil ELSE Machine[Jump[h]]

Least(a, b) == IF a < b THEN a ELSE b
Workers(n) == Least(IF n \div 4 > Fewest THEN n \div 4 ELSE Fewest, Most)

Pc(s, h)      == worker[s][h].pc
At(s, pcs)    == {h \in Host : Pc(s, h) \in pcs}
Holding(s, x) == {h \in Host : x \in worker[s][h].holds}

Decide(s, h, v) == worker' = [worker EXCEPT ![s][h] = [@ EXCEPT !.pc = "report", !.verdict = v]]

-----------------------------------------------------------------------------
(* CheckAll: one goroutine for each host.                                  *)

\* A mistake: the worker's slot taken before the jump host's.
WorkerFirst(h) == IF jumpKey(h) = Nil THEN <<"slot">> ELSE <<"slot", "hop">>
\* The slots a host needs, in the order it takes them.
Slots(h) == IF jumpKey(h) = Nil THEN <<"slot">> ELSE <<"hop", "slot">>

IsFree(s, h, x) ==
    IF x = "slot" THEN Cardinality(Holding(s, "slot")) < Workers(Cardinality(target[s]))
    ELSE Cardinality({g \in Holding(s, "hop") : jumpKey(g) = jumpKey(h)}) < JumpWorkers

TakeSlot(s, h) ==
    LET holds == worker[s][h].holds
        held  == Cardinality(holds) IN
        /\ Pc(s, h) = "queue"
        /\ IsFree(s, h, Slots(h)[held + 1])
        /\ worker' = [worker EXCEPT ![s][h] =
               [@ EXCEPT !.holds = holds \cup {Slots(h)[held + 1]},
                         !.pc = IF held + 1 = Len(Slots(h)) THEN "check" ELSE "queue"]]
        /\ UNCHANGED <<port, ended, cancelled, probeCh, window>>

\* A mistake: an interrupted dial taken for a host that is not there.
DialFailedIsDown(s, h) ==
    (IF port[h] = "open" THEN {"up"} ELSE {"down"}) \cup (IF s \in cancelled THEN {"down"} ELSE {})
\* What a dial comes to: the timeout is a failure like any other, a cancelled one is no answer.
DialOutcomes(s, h) ==
    (IF port[h] = "open" THEN {"up"} ELSE {"down"}) \cup (IF s \in cancelled THEN {"notchecked"} ELSE {})

\* Check: nothing to ask about, a dial from here, or a question for the jump host.
Check(s, h) ==
    /\ Pc(s, h) = "check"
    /\ \/ h \notin Addressed /\ Decide(s, h, "unknown")
       \/ h \in Addressed \cap Dialled /\ \E v \in DialOutcomes(s, h) : Decide(s, h, v)
       \/ h \in Addressed \ Dialled /\ jumpKey(h) = Nil /\ Decide(s, h, "skipped")
       \/ h \in Addressed \ Dialled /\ jumpKey(h) # Nil
          /\ IF s \in cancelled THEN Decide(s, h, "notchecked") ELSE worker' = [worker EXCEPT ![s][h] = [@ EXCEPT !.pc = "asking"]]
    /\ UNCHANGED <<port, ended, cancelled, probeCh, window>>

\* The ssh to the jump host is greeted by the port behind it, hears that it is refused, or just
\* ends: the jump host would not carry it, the deadline passed, or the sweep was cancelled.
Asking(s, h, told) ==
    /\ Pc(s, h) = "asking" /\ "done" \notin worker[s][h].said
    /\ worker' = [worker EXCEPT ![s][h] = [@ EXCEPT !.said = worker[s][h].said \cup told]]
    /\ UNCHANGED <<port, ended, cancelled, probeCh, window>>
Greeted(s, h)   == port[h] = "open" /\ Asking(s, h, {"spoke"})
TurnedDown(s, h) == port[h] = "closed" /\ Asking(s, h, {"refused", "done"})
GivesUp(s, h)   == Asking(s, h, {"done"})

\* A mistake: an ssh that failed taken for a host that is not there.
VerdictOfStatus(s, said) == IF s \in cancelled THEN "notchecked" ELSE "down"
\* What the end of that ssh says of the host.
Verdict(s, said) ==
    IF s \in cancelled THEN "notchecked" ELSE IF "refused" \in said THEN "down" ELSE "skipped"

\* checkThroughJump's select, which takes either channel when both are ready.
Judge(s, h) ==
    LET said == worker[s][h].said IN
        /\ Pc(s, h) = "asking"
        /\ \/ "spoke" \in said /\ Decide(s, h, "up")
           \/ "done" \in said /\ Decide(s, h, Verdict(s, said))
        /\ UNCHANGED <<port, ended, cancelled, probeCh, window>>

Send(ev) == Len(probeCh) < Room /\ probeCh' = Append(probeCh, ev)

Report(s, h) ==
    /\ Pc(s, h) = "report"
    /\ Send([key |-> h, state |-> worker[s][h].verdict, done |-> FALSE])
    /\ worker' = [worker EXCEPT ![s][h] = [@ EXCEPT !.pc = "free"]]
    /\ UNCHANGED <<port, ended, cancelled, window>>

\* The deferred releases, the sweep's slot before the jump host's.
Free(s, h) ==
    LET left == worker[s][h].holds \ (IF "slot" \in worker[s][h].holds THEN {"slot"} ELSE {"hop"}) IN
        /\ Pc(s, h) = "free"
        /\ worker' = [worker EXCEPT ![s][h] = IF left = {} THEN [NoWorker EXCEPT !.pc = "gone"]
                                               ELSE [@ EXCEPT !.holds = left]]
        /\ UNCHANGED <<port, ended, cancelled, probeCh, window>>

\* The goroutine of startProbe: CheckAll has returned, and the window is told.
Ends(s) ==
    /\ s <= begun /\ s \notin ended /\ At(s, {"none", "gone"}) = Host
    /\ Send([key |-> Nil, state |-> "unknown", done |-> TRUE])
    /\ ended' = ended \cup {s}
    /\ UNCHANGED <<port, worker, cancelled, window>>

\* Whoever gave CheckAll its context cancels it.
Abandon(s) ==
    /\ Abandons /\ s <= begun /\ s \notin ended \cup cancelled
    /\ cancelled' = cancelled \cup {s}
    /\ UNCHANGED <<port, worker, ended, probeCh, window>>

-----------------------------------------------------------------------------
(* The window.                                                             *)

\* A mistake: a second sweep started over the first.
FreeAnyway == TRUE
\* One sweep at a time.
FreeToSweep == ~probing

\* A mistake: the counts of the sweep before kept.
TallyKept == counts
\* Counted per sweep: m.probes keeps every result ever seen.
Tally == [v \in State |-> 0]

startProbe ==
    /\ begun < MaxSweeps /\ FreeToSweep
    /\ \E hosts \in Groups \ {{}} :
           /\ target' = [target EXCEPT ![begun + 1] = hosts]
           /\ worker' = [worker EXCEPT ![begun + 1] = [h \in Host |->
                             IF h \in hosts THEN [NoWorker EXCEPT !.pc = "queue"] ELSE NoWorker]]
    /\ begun' = begun + 1 /\ probing' = TRUE /\ readers' = readers + 1
    /\ counts' = Tally
    /\ UNCHANGED <<port, ended, cancelled, probeCh, probes>>

\* A mistake: the answer of one host ends the reading.
RearmsUntilAnswered(ev) == FALSE
\* Whether the channel is read again after an event.
Rearms(ev) == ~ev.done

\* waitProbe's event, and handleProbeEvent with it.
handleProbeEvent ==
    /\ readers > 0 /\ probeCh # <<>>
    /\ LET ev == Head(probeCh) IN
           /\ IF ev.done
              THEN probing' = FALSE /\ UNCHANGED <<counts, probes>>
              ELSE /\ probes' = [probes EXCEPT ![ev.key] = ev.state]
                   /\ counts' = [counts EXCEPT ![ev.state] = @ + 1]
                   /\ UNCHANGED probing
           /\ readers' = IF Rearms(ev) THEN readers ELSE readers - 1
    /\ probeCh' = Tail(probeCh)
    /\ UNCHANGED <<port, sweep, begun, target>>

Step(s, h) == TakeSlot(s, h) \/ Check(s, h) \/ Judge(s, h) \/ Report(s, h) \/ Free(s, h)

Init ==
    /\ port \in {p \in [Host -> {"open", "closed", "dropped"}] : \A h \in Host : p[h] \in Ports[h]}
    /\ worker = [s \in Sweeps |-> [h \in Host |-> NoWorker]]
    /\ ended = {} /\ cancelled = {} /\ probeCh = <<>>
    /\ probing = FALSE /\ counts = [v \in State |-> 0] /\ probes = [h \in Host |-> "unknown"]
    /\ readers = 0 /\ begun = 0 /\ target = [s \in Sweeps |-> {}]

Next ==
    \/ startProbe \/ handleProbeEvent
    \/ \E s \in Sweeps :
           \/ Ends(s) \/ Abandon(s)
           \/ \E h \in Host : Step(s, h) \/ Greeted(s, h) \/ TurnedDown(s, h) \/ GivesUp(s, h)

\* Some goroutine runs while one can, every ssh ends by its deadline and bubbletea runs its commands;
\* keys are the user's.  Each goroutine takes finitely many steps, so no fairness between them is needed.
Fairness ==
    /\ WF_vars(handleProbeEvent)
    /\ WF_vars(\E s \in Sweeps : Ends(s) \/ \E h \in Host : Step(s, h) \/ GivesUp(s, h))

Spec == Init /\ [][Next]_vars /\ Fairness

-----------------------------------------------------------------------------
(* What must hold.                                                         *)

TypeOK ==
    /\ \A h \in Host : port[h] \in Ports[h]
    /\ worker \in [Sweeps -> [Host -> Worker]]
    /\ ended \subseteq Sweeps /\ cancelled \subseteq Sweeps
    /\ Len(probeCh) <= Room
    /\ probing \in BOOLEAN /\ counts \in [State -> Nat] /\ probes \in [Host -> State]
    /\ readers \in {0, 1} /\ begun \in 0..MaxSweeps /\ target \in [Sweeps -> SUBSET Host]

\* probe.go:92-99: a missing answer is never read as a bad one.  A host whose port is answering is
\* never marked down, and one marked up is answering, whatever is cancelled, refused or timed out.
MarksAreTrue ==
    \A h \in Host : /\ probes[h] = "down" => port[h] # "open"
                    /\ probes[h] = "up" => port[h] = "open"

\* probe.go:196-205: no machine has more than JumpWorkers connections to it, over all sweeps, and
\* however the hosts behind it record it.
HopsAreNotFlooded ==
    \A m \in {Machine[Jump[h]] : h \in {g \in Host : Jump[g] # Nil}} :
        Cardinality({sh \in Sweeps \X Host :
            /\ Pc(sh[1], sh[2]) = "asking" /\ Jump[sh[2]] # Nil /\ Machine[Jump[sh[2]]] = m}) <= JumpWorkers

\* probe.go:279-281: nobody queueing for a jump host keeps a worker from the hosts omassh dials
\* itself: whoever has a worker is at work with it.
WorkersAreAtWork ==
    \A s \in Sweeps : \A h \in Holding(s, "slot") : Pc(s, h) \in {"check", "asking", "report", "free"}

\* Every sweep comes to its end on screen, whatever its jump hosts do.
EverySweepEnds == probing ~> ~probing

\* The hosts of the sweep on screen that the window has not heard of.
Unheard ==
    IF begun = 0 THEN {}
    ELSE At(begun, {"queue", "check", "asking", "report"})
         \cup {probeCh[i].key : i \in {j \in 1..Len(probeCh) : ~probeCh[j].done}}

Abstract == INSTANCE Sweep WITH sweeping <- probing, left <- Unheard, tally <- counts, marks <- probes
\* Every host of a sweep is heard of exactly once, in one tally, and the sweep ends after the last.
IsASweep == Abstract!Spec


\* The slots of a jump host and of the sweep are kept to and not wasted.
SlotsAreSpent == HopsAreNotFlooded /\ WorkersAreAtWork
==============================================================================
