------------------------------ MODULE SnippetRun ------------------------------
(***************************************************************************)
(* Running a snippet on a set of hosts: RunAll and Run of                  *)
(* internal/sshx/run.go, and the screen that shows a run, ui/run.go.       *)
(*                                                                         *)
(* One goroutine per host takes one of Workers slots, says it has begun,   *)
(* runs ssh and says how it ended.  All runs share one channel; events     *)
(* carry the token of their run, and a run that was closed may still be    *)
(* sending when the next one starts.                                       *)
(***************************************************************************)
EXTENDS Naturals, Sequences, FiniteSets

CONSTANTS
    Run,        \* tokens of the runs opened, 1..n in the order they are opened
    Host,
    Held,       \* hosts where something keeps the pipe open after ssh is killed
    Workers,    \* Workers, 4 in the code
    ChanCap,    \* room in runCh, 64 in the code
    Nil

ASSUME SnippetRunAssumption ==
    /\ Run \subseteq Nat \ {0} /\ \A k \in Run : 1..k \subseteq Run
    /\ Held \subseteq Host
    /\ Workers \in Nat \ {0} /\ ChanCap \in Nat \ {0}
    /\ Nil \notin Host \cup [token : Run, how : {"ok", "failed", "stopped"}]

VARIABLES
    work,       \* the goroutine of each host of each run
    sweep,      \* the goroutine RunAll runs on: "none", "going", "ended"
    off,        \* runs whose context has been cancelled
    channel,    \* m.runCh
    readers,    \* waitRun commands waiting on the channel
    taken,      \* events a waitRun has in hand, on their way to Update
    current,    \* m.running.token, 0 when there is no run on screen
    opened,     \* m.runToken: the last token given out
    hosts,      \* r.hosts of the run on screen, {} until it is started
    begun,      \* r.begun
    results,    \* r.results: how each host ended, Nil until it has
    stopping,   \* r.stopping
    started     \* ssh sessions there have been, run by run (history)

goroutines == <<work, sweep, off, started>>
post       == <<channel, readers, taken>>
screen     == <<current, opened, hosts, begun, results, stopping>>
vars       == <<goroutines, post, screen>>

Endings == {"ok", "failed", "stopped"}
Event(k, h, what) == [token |-> k, host |-> h, what |-> what]

\* The deferred release comes after the result has been sent.
Holding(k) == {h \in Host : work[k][h] \in {"begins", "starts", "runs", "killed"} \cup Endings}
Ssh(k)     == {h \in Host : work[k][h] \in {"runs", "killed"}}

NoneYet == [h \in Host |-> Nil]
Send(e) == Len(channel) < ChanCap /\ channel' = Append(channel, e)
Turn(k, h, s) == work' = [work EXCEPT ![k][h] = s]

-----------------------------------------------------------------------------
(* RunAll: one goroutine per host.                                         *)

\* A mistake: a slot taken whether or not there is one.
TakeAnySlot(k, h) ==
    /\ work[k][h] = "queued"
    /\ Turn(k, h, "begins")
    /\ UNCHANGED <<sweep, off, started, post, screen>>

\* sem <- struct{}{}
TakeSlot(k, h) ==
    /\ work[k][h] = "queued"
    /\ Cardinality(Holding(k)) < Workers
    /\ Turn(k, h, "begins")
    /\ UNCHANGED <<sweep, off, started, post, screen>>

Began(k, h) ==
    /\ work[k][h] = "begins"
    /\ Send(Event(k, h, "began"))
    /\ Turn(k, h, "starts")
    /\ UNCHANGED <<sweep, off, started, readers, taken, screen>>

\* A mistake: the context not looked at before the child is started.
StartsAnyway(k, h) ==
    /\ work[k][h] = "starts"
    /\ Turn(k, h, "runs")
    /\ started' = started \cup {<<k, h, k \in off>>}
    /\ UNCHANGED <<sweep, off, post, screen>>

\* cmd.Run: nothing is started under a context that is over already.
Starts(k, h) ==
    /\ work[k][h] = "starts"
    /\ IF k \in off
       THEN Turn(k, h, "stopped") /\ UNCHANGED started
       ELSE Turn(k, h, "runs") /\ started' = started \cup {<<k, h, k \in off>>}
    /\ UNCHANGED <<sweep, off, post, screen>>

\* The script ends, or its ssh does.  Cancelled since, it counts as stopped
\* unless it ended well.
Ends(k, h) ==
    /\ work[k][h] = "runs"
    /\ \/ Turn(k, h, "ok")
       \/ Turn(k, h, IF k \in off THEN "stopped" ELSE "failed")
    /\ UNCHANGED <<sweep, off, started, post, screen>>

\* CommandContext kills it; Wait returns once nothing holds the pipe.
Killed(k, h) ==
    /\ work[k][h] = "runs" /\ k \in off
    /\ Turn(k, h, "killed")
    /\ UNCHANGED <<sweep, off, started, post, screen>>

Reaped(k, h) ==
    /\ work[k][h] = "killed" /\ h \notin Held
    /\ Turn(k, h, "stopped")
    /\ UNCHANGED <<sweep, off, started, post, screen>>

\* A mistake: a host that was stopped not given a word.
ReportsEnded(k, h) ==
    /\ work[k][h] \in Endings
    /\ IF work[k][h] = "stopped" THEN UNCHANGED channel ELSE Send(Event(k, h, work[k][h]))
    /\ Turn(k, h, "done")
    /\ UNCHANGED <<sweep, off, started, readers, taken, screen>>

\* on.Done, and the slot is given back: every host gets a word.
Reports(k, h) ==
    /\ work[k][h] \in Endings
    /\ Send(Event(k, h, work[k][h]))
    /\ Turn(k, h, "done")
    /\ UNCHANGED <<sweep, off, started, readers, taken, screen>>

\* wg.Wait, the end of the run, and the deferred cancel.
SweepEnds(k) ==
    /\ sweep[k] = "going"
    /\ \A h \in Host : work[k][h] \in {"none", "done"}
    /\ Send(Event(k, Nil, "done"))
    /\ sweep' = [sweep EXCEPT ![k] = "ended"]
    /\ off' = off \cup {k}
    /\ UNCHANGED <<work, started, readers, taken, screen>>

Worker(k, h) ==
    TakeSlot(k, h) \/ Began(k, h) \/ Starts(k, h) \/ Killed(k, h) \/ Reaped(k, h) \/ Reports(k, h)

-----------------------------------------------------------------------------
(* The screen.                                                             *)

OpenSnippetRun ==
    /\ current = 0 /\ opened + 1 \in Run
    /\ opened' = opened + 1 /\ current' = opened + 1
    /\ hosts' = {} /\ begun' = {} /\ results' = NoneYet /\ stopping' = FALSE
    /\ UNCHANGED <<goroutines, post>>

\* y, or enter, on one of the choices: any set of hosts but none.
StartSnippetRun(hs) ==
    /\ current # 0 /\ hosts = {} /\ hs # {}
    /\ hosts' = hs /\ begun' = {} /\ results' = NoneYet
    /\ work' = [work EXCEPT ![current] = [h \in Host |-> IF h \in hs THEN "queued" ELSE "none"]]
    /\ sweep' = [sweep EXCEPT ![current] = "going"]
    /\ readers' = readers + 1
    /\ UNCHANGED <<off, started, channel, taken, current, opened, stopping>>

Finished == \A h \in hosts : results[h] # Nil

CloseSnippetRun ==
    /\ current' = 0
    /\ off' = off \cup {current}
    /\ UNCHANGED <<work, sweep, started, post, opened, hosts, begun, results, stopping>>

\* esc: leaves before anything has started, once all are in, and at the second
\* press; the first press stops the run and keeps the screen.
Esc ==
    /\ current # 0
    /\ IF hosts = {} \/ Finished \/ stopping
       THEN CloseSnippetRun
       ELSE /\ stopping' = TRUE
            /\ off' = off \cup {current}
            /\ UNCHANGED <<work, sweep, started, post, current, opened, hosts, begun, results>>

WaitRun ==
    /\ readers > 0 /\ channel # <<>>
    /\ taken' = taken \cup {Head(channel)}
    /\ channel' = Tail(channel)
    /\ readers' = readers - 1
    /\ UNCHANGED <<goroutines, screen>>

\* A mistake: events believed whichever run they came from.
IsCurrentAnyway(e) == current # 0
IsCurrent(e) == current # 0 /\ current = e.token

\* A mistake: no more reading after an event of a run that was closed.
RearmsForItsOwn(e) == IsCurrent(e) /\ e.what # "done"

\* handleSnippetEvent reads on, unless it was the end of the run on screen.
Rearms(e) == ~(IsCurrent(e) /\ e.what = "done")

\* A mistake: a reader armed for a host that begins on top of the one that every
\* event arms.
ReadersTwice(e) ==
    readers + (IF Rearms(e) THEN 1 ELSE 0) + (IF e.what = "began" THEN 1 ELSE 0)
Readers(e) == readers + (IF Rearms(e) THEN 1 ELSE 0)

HandleSnippetEvent(e) ==
    /\ e \in taken
    /\ taken' = taken \ {e}
    /\ readers' = Readers(e)
    /\ begun' = IF IsCurrent(e) /\ e.what = "began" THEN begun \cup {e.host} ELSE begun
    /\ results' = IF IsCurrent(e) /\ e.what \in Endings
                  THEN [results EXCEPT ![e.host] = [token |-> e.token, how |-> e.what]]
                  ELSE results
    /\ UNCHANGED <<goroutines, channel, current, opened, hosts, stopping>>

Init ==
    /\ work = [k \in Run |-> [h \in Host |-> "none"]]
    /\ sweep = [k \in Run |-> "none"]
    /\ off = {} /\ started = {}
    /\ channel = <<>> /\ readers = 0 /\ taken = {}
    /\ current = 0 /\ opened = 0 /\ hosts = {} /\ begun = {}
    /\ results = NoneYet /\ stopping = FALSE

Next ==
    \/ \E k \in Run, h \in Host : Worker(k, h) \/ Ends(k, h)
    \/ \E k \in Run : SweepEnds(k)
    \/ OpenSnippetRun
    \/ \E hs \in SUBSET Host : StartSnippetRun(hs)
    \/ Esc
    \/ WaitRun
    \/ \E e \in taken : HandleSnippetEvent(e)

\* Goroutines go on and the window reads; no script owes an end, and nobody a
\* key press.  Every run ends and Run is finite, so that what is fair to all of
\* them together is fair to each.
Goes ==
    \/ \E k \in Run : SweepEnds(k) \/ \E h \in Host : Worker(k, h)
    \/ WaitRun
    \/ \E e \in taken : HandleSnippetEvent(e)

Fairness == WF_vars(Goes)

Spec == Init /\ [][Next]_vars /\ Fairness

-----------------------------------------------------------------------------
(* Properties.                                                             *)

\* Every variable holds what the code could have in it.
TypeOK ==
    /\ work \in [Run -> [Host -> {"none", "queued", "begins", "starts", "runs", "killed",
                                  "done"} \cup Endings]]
    /\ sweep \in [Run -> {"none", "going", "ended"}]
    /\ off \subseteq Run /\ started \subseteq Run \X Host \X BOOLEAN
    /\ Len(channel) <= ChanCap
    /\ readers \in Nat /\ readers + Cardinality(taken) <= Cardinality(Run)
    /\ current \in 0..opened /\ opened \in Run \cup {0}
    /\ hosts \subseteq Host /\ begun \subseteq Host /\ stopping \in BOOLEAN
    /\ results \in [Host -> [token : Run, how : Endings] \cup {Nil}]

\* No more than Workers hosts of a run have an ssh open at once.
WithinTheLimit == \A k \in Run : Cardinality(Ssh(k)) <= Workers

\* "Hosts past the limit are shown as queued rather than running, because they
\* are": the table of a window's first run, which one reader hears, never shows
\* more than Workers as running.
ShownWithinTheLimit ==
    opened <= 1 => Cardinality({h \in begun : results[h] = Nil}) <= Workers

\* A run that was stopped or closed opens no further ssh, on hosts still queued
\* or already given a slot.
NothingStartsAfterAStop == \A s \in started : ~s[3]

\* The stray results of a run that was closed are harmless: what the table
\* shows of a host is the result of the run on screen.
ResultsAreThisRuns ==
    \A h \in Host : current # 0 /\ results[h] # Nil => results[h].token = current

\* "every host gets a word": when the end of a run has been heard, on a screen
\* with one reader, every host of it has a result.
EveryHostGetsAWord ==
    \A k \in Run :
        sweep[k] = "ended" /\ current = k /\ channel = <<>> /\ taken = {} => Finished

\* "Reading has to go on or the run that is current would stop being heard": as
\* long as a host of the run on screen has no result, somebody reads the channel.
SomebodyReads == current # 0 /\ ~Finished => readers > 0 \/ taken # {}

\* Stopping keeps what had already come back: a result is never taken back or
\* written over while its run is on screen.
ResultsAreKept ==
    [][\A h \in Host : current # 0 /\ current' = current /\ results[h] # Nil
           => results'[h] = results[h]]_vars

\* A run that was stopped comes to an end on screen, every host accounted for,
\* unless it is left first or something on a host keeps the pipe of its ssh open.
StoppedRunComesBack ==
    \A k \in Run : (current = k /\ hosts # {} /\ stopping)
        ~> (current # k \/ Finished \/ \E h \in Held : work[k][h] = "killed")


\* What the table shows is so: of this run, within the limit, and for good.
TableIsTrue == [](ResultsAreThisRuns /\ ShownWithinTheLimit) /\ ResultsAreKept

\* No host is left without a word: somebody reads as long as one is to come, and
\* the end of a run is heard after the last.
EveryHostIsHeard == SomebodyReads /\ EveryHostGetsAWord
=============================================================================
