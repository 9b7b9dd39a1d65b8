--------------------------- MODULE SnippetRunProofs --------------------------
(***************************************************************************)
(* What holds of snippet runs for any number of runs, hosts and slots.     *)
(***************************************************************************)
EXTENDS SnippetRun, FiniteSetTheorems, TLAPS

States == {"none", "queued", "begins", "starts", "runs", "killed", "done"} \cup Endings

\* Every step, with the goroutines' own spelt out.
LEMMA Steps ==
    ASSUME [Next]_vars
    PROVE  \/ \E k \in Run, h \in Host :
                 \/ TakeSlot(k, h) \/ Began(k, h) \/ Starts(k, h) \/ Killed(k, h)
                 \/ Reaped(k, h) \/ Reports(k, h) \/ Ends(k, h)
           \/ \E k \in Run : SweepEnds(k)
           \/ OpenSnippetRun
           \/ \E hs \in SUBSET Host : StartSnippetRun(hs)
           \/ Esc
           \/ WaitRun
           \/ \E e \in taken : HandleSnippetEvent(e)
           \/ UNCHANGED vars
BY DEF Next, Worker

\* What a goroutine of a run does is one turn of one host, or nothing to any.
Turns ==
    \/ \E k \in Run, h \in Host, s \in States :
          /\ work' = [work EXCEPT ![k][h] = s]
          /\ h \in Holding(k) \/ (work[k][h] = "queued" /\ Cardinality(Holding(k)) < Workers)
    \/ \E hs \in SUBSET Host :
          work' = [work EXCEPT ![current] = [h \in Host |-> IF h \in hs THEN "queued" ELSE "none"]]
    \/ UNCHANGED work

LEMMA WorkTurns ==
    ASSUME work \in [Run -> [Host -> States]], [Next]_vars
    PROVE  Turns
<1>a. ASSUME NEW k \in Run, NEW h \in Host, NEW s \in States, Turn(k, h, s),
             \/ work[k][h] \in {"begins", "starts", "runs", "killed"} \cup Endings
             \/ work[k][h] = "queued" /\ Cardinality(Holding(k)) < Workers
      PROVE  Turns
  BY <1>a DEF Turns, Turn, Holding
<1>b. {"begins", "starts", "runs", "killed", "done"} \cup Endings \subseteq States
  BY DEF States
<1> USE DEF Endings
<1>1. ASSUME NEW k \in Run, NEW h \in Host, TakeSlot(k, h) PROVE Turns
  BY <1>1, <1>a, <1>b DEF TakeSlot
<1>2. ASSUME NEW k \in Run, NEW h \in Host, Began(k, h) PROVE Turns
  BY <1>2, <1>a, <1>b DEF Began
<1>3. ASSUME NEW k \in Run, NEW h \in Host, Starts(k, h) PROVE Turns
  BY <1>3, <1>a, <1>b DEF Starts
<1>4. ASSUME NEW k \in Run, NEW h \in Host, Killed(k, h) PROVE Turns
  BY <1>4, <1>a, <1>b DEF Killed
<1>5. ASSUME NEW k \in Run, NEW h \in Host, Reaped(k, h) PROVE Turns
  BY <1>5, <1>a, <1>b DEF Reaped
<1>6. ASSUME NEW k \in Run, NEW h \in Host, Reports(k, h) PROVE Turns
  BY <1>6, <1>a, <1>b DEF Reports
<1>7. ASSUME NEW k \in Run, NEW h \in Host, Ends(k, h) PROVE Turns
  BY <1>7, <1>a, <1>b DEF Ends
<1>8. ASSUME NEW hs \in SUBSET Host, StartSnippetRun(hs) PROVE Turns
  BY <1>8 DEF StartSnippetRun, Turns
<1> QED BY Steps, <1>1, <1>2, <1>3, <1>4, <1>5, <1>6, <1>7, <1>8
        DEF SweepEnds, OpenSnippetRun, Esc, CloseSnippetRun, WaitRun, HandleSnippetEvent,
            goroutines, vars, Turns

-----------------------------------------------------------------------------
(* The slots.                                                              *)

\* A slot is held from before the ssh is started until after its result is sent,
\* which is why counting the slots counts the sessions.
SlotsKept ==
    /\ work \in [Run -> [Host -> States]]
    /\ \A k \in Run : Cardinality(Holding(k)) <= Workers

LEMMA SlotsAlways ==
    ASSUME IsFiniteSet(Host)
    PROVE  Spec => []SlotsKept
<1>1. Init => SlotsKept
  <2> SUFFICES ASSUME Init PROVE SlotsKept
    OBVIOUS
  <2>1. \A k \in Run : Holding(k) = {}
    BY DEF Init, Holding, Endings
  <2>2. work \in [Run -> [Host -> States]]
    BY DEF Init, States
  <2> QED BY <2>1, <2>2, FS_EmptySet, SnippetRunAssumption DEF SlotsKept
<1>2. SlotsKept /\ [Next]_vars => SlotsKept'
  <2> SUFFICES ASSUME SlotsKept, [Next]_vars PROVE SlotsKept'
    OBVIOUS
  <2>1. work \in [Run -> [Host -> States]] /\ Turns
    BY WorkTurns DEF SlotsKept
  <2>2. work' \in [Run -> [Host -> States]]
    BY <2>1 DEF Turns, States
  <2>3. ASSUME NEW k \in Run PROVE Cardinality(Holding(k)') <= Workers
    <3>1. IsFiniteSet(Holding(k)) /\ Cardinality(Holding(k)) \in Nat
          /\ Cardinality(Holding(k)) <= Workers
      <4>1. Holding(k) \subseteq Host
        BY DEF Holding
      <4> QED BY <4>1, FS_Subset, FS_CardinalityType DEF SlotsKept
    <3>2. ASSUME Holding(k)' \subseteq Holding(k) PROVE Cardinality(Holding(k)') <= Workers
      BY <3>1, <3>2, FS_Subset, FS_CardinalityType, SnippetRunAssumption
    <3>3. ASSUME NEW l \in Run, NEW h \in Host, NEW s \in States,
                 work' = [work EXCEPT ![l][h] = s],
                 \/ h \in Holding(l)
                 \/ work[l][h] = "queued" /\ Cardinality(Holding(l)) < Workers
          PROVE  Cardinality(Holding(k)') <= Workers
      <4>1. CASE l # k \/ h \in Holding(k)
        <5>1. Holding(k)' \subseteq Holding(k)
          BY <4>1, <3>3, <2>1 DEF Holding
        <5> QED BY <5>1, <3>2
      <4>2. CASE l = k /\ h \notin Holding(k)
        <5>1. Holding(k)' \subseteq Holding(k) \cup {h}
          BY <4>2, <3>3, <2>1 DEF Holding
        <5>2. IsFiniteSet(Holding(k) \cup {h})
              /\ Cardinality(Holding(k) \cup {h}) = Cardinality(Holding(k)) + 1
          BY <4>2, <3>1, FS_AddElement
        <5>3. Cardinality(Holding(k)) < Workers
          BY <4>2, <3>3
        <5>4. Cardinality(Holding(k)') <= Cardinality(Holding(k) \cup {h})
              /\ Cardinality(Holding(k)') \in Nat
          BY <5>1, <5>2, FS_Subset, FS_CardinalityType
        <5> QED BY <5>2, <5>3, <5>4, <3>1, SnippetRunAssumption
      <4> QED BY <4>1, <4>2
    <3>4. ASSUME NEW hs \in SUBSET Host,
                 work' = [work EXCEPT ![current] = [h \in Host |-> IF h \in hs THEN "queued" ELSE "none"]]
          PROVE  Cardinality(Holding(k)') <= Workers
      <4>1. Holding(k)' \subseteq Holding(k)
        BY <3>4, <2>1 DEF Holding, Endings
      <4> QED BY <4>1, <3>2
    <3>5. ASSUME UNCHANGED work PROVE Cardinality(Holding(k)') <= Workers
      <4>1. Holding(k)' \subseteq Holding(k)
        BY <3>5 DEF Holding
      <4> QED BY <4>1, <3>2
    <3> QED BY <2>1, <3>3, <3>4, <3>5 DEF Turns
  <2> QED BY <2>2, <2>3 DEF SlotsKept
<1> QED BY <1>1, <1>2, PTL DEF Spec

\* However many hosts a run has, and however many of them are stopped while they
\* queue, no more than Workers have an ssh open at once.
THEOREM LimitAlways ==
    ASSUME IsFiniteSet(Host)
    PROVE  Spec => []WithinTheLimit
<1>1. SlotsKept => WithinTheLimit
  <2> SUFFICES ASSUME SlotsKept, NEW k \in Run PROVE Cardinality(Ssh(k)) <= Workers
    BY DEF WithinTheLimit
  <2>1. Holding(k) \subseteq Host /\ Ssh(k) \subseteq Holding(k)
    BY DEF Holding, Ssh
  <2>2. IsFiniteSet(Holding(k)) /\ IsFiniteSet(Ssh(k))
        /\ Cardinality(Ssh(k)) <= Cardinality(Holding(k))
    BY <2>1, FS_Subset
  <2>3. Cardinality(Ssh(k)) \in Nat /\ Cardinality(Holding(k)) \in Nat
    BY <2>2, FS_CardinalityType
  <2> QED BY <2>2, <2>3, SnippetRunAssumption DEF SlotsKept
<1> QED BY <1>1, SlotsAlways, PTL

\* Whatever is still queued or already has a slot, nothing is started in a run
\* once it has been stopped, closed or has ended.
THEOREM AStopIsAStop == Spec => []NothingStartsAfterAStop
<1>1. Init => NothingStartsAfterAStop
  BY DEF Init, NothingStartsAfterAStop
<1>2. NothingStartsAfterAStop /\ [Next]_vars => NothingStartsAfterAStop'
  <2> SUFFICES ASSUME NothingStartsAfterAStop, [Next]_vars PROVE NothingStartsAfterAStop'
    OBVIOUS
  <2>1. ASSUME NEW k \in Run, NEW h \in Host, Starts(k, h) PROVE NothingStartsAfterAStop'
    <3>1. CASE k \in off
      BY <2>1, <3>1 DEF Starts, NothingStartsAfterAStop
    <3>2. CASE k \notin off
      <4>1. started' = started \cup {<<k, h, k \in off>>}
        BY <2>1, <3>2 DEF Starts
      <4>2. ASSUME NEW s \in started', s = <<k, h, k \in off>> PROVE ~ s[3]
        <5>1. (k \in off) = FALSE
          BY <3>2
        <5>2. s = <<k, h, FALSE>>
          BY <4>2, <5>1, Zenon
        <5> QED BY <5>2
      <4> QED BY <4>1, <4>2 DEF NothingStartsAfterAStop
    <3> QED BY <3>1, <3>2
  <2>2. CASE UNCHANGED started
    BY <2>2 DEF NothingStartsAfterAStop
  <2> QED BY <2>1, <2>2, Steps
          DEF TakeSlot, Began, Killed, Reaped, Reports, Ends, SweepEnds, OpenSnippetRun,
              StartSnippetRun, Esc, CloseSnippetRun, WaitRun, HandleSnippetEvent, goroutines, vars
<1> QED BY <1>1, <1>2, PTL DEF Spec

-----------------------------------------------------------------------------
(* The table and its readers: what is inductive.                           *)

Word == [token : Run, host : Host \cup {Nil}, what : {"began", "done"} \cup Endings]
Typed ==
    /\ work \in [Run -> [Host -> States]]
    /\ sweep \in [Run -> {"none", "going", "ended"}]
    /\ channel \in Seq(Word) /\ taken \subseteq Word /\ readers \in Nat
    /\ opened \in Nat /\ current \in {0, opened} /\ (current # 0 => current \in Run)
    /\ hosts \subseteq Host /\ begun \subseteq Host
    /\ results \in [Host -> [token : Run, how : Endings] \cup {Nil}]

\* What each run has got to: not opened, not started, going, ended.
Under ==
    /\ \A k \in Run : /\ k > opened => sweep[k] = "none"
                      /\ sweep[k] = "none" => \A h \in Host : work[k][h] = "none"
                      /\ sweep[k] = "ended" => \A h \in Host : work[k][h] \in {"none", "done"}
    /\ current # 0 => /\ hosts = {} <=> sweep[current] = "none"
                      /\ \A h \in Host : h \in hosts <=> work[current][h] # "none"
                      /\ \A h \in Host : results[h] # Nil => work[current][h] = "done"
                      /\ \A h \in Host : results[h] # Nil => results[h].token = current

\* What is on its way to the screen has happened, and has not been shown.
Sent == {channel[i] : i \in DOMAIN channel}
Heard ==
    \A e \in Sent \cup taken :
        /\ sweep[e.token] # "none"
        /\ e.what = "done" => sweep[e.token] = "ended"
        /\ e.what # "done" => e.host \in Host
        /\ e.what \in Endings => /\ work[e.token][e.host] = "done"
                                 /\ e.token = current => results[e.host] = Nil

\* The end of a run comes after everything else it sends; and a host ends once.
Last ==
    /\ \A i, j \in DOMAIN channel : i < j /\ channel[i].token = channel[j].token => channel[i].what # "done"
    /\ \A m \in taken, n \in Sent : m.what = "done" => m.token # n.token
Ending(e, f) == e.what \in Endings /\ f.what \in Endings /\ e.token = f.token /\ e.host = f.host
Once ==
    /\ \A i, j \in DOMAIN channel : Ending(channel[i], channel[j]) => i = j
    /\ \A e, f \in taken : Ending(e, f) => e = f
    /\ \A e \in taken, f \in Sent : ~ Ending(e, f)

\* A host that is done is on the table, or its word is on its way there.
Accounted ==
    current # 0 => \A h \in hosts : results[h] = Nil /\ work[current][h] = "done" =>
        \E e \in Sent \cup taken : e.token = current /\ e.host = h /\ e.what \in Endings

Table == Typed /\ Under /\ Heard /\ Last /\ Once /\ Accounted

\* In a window's first run, one reader.
First ==
    opened <= 1 =>
        /\ readers <= 1 /\ (readers = 1 => taken = {}) /\ \A e, f \in taken : e = f
        /\ hosts = {} => readers = 0 /\ taken = {}
        /\ opened = 0 => hosts = {}

\* What the table will show as running once the first j words in the channel have been heard.
Coming(j) == taken \cup {channel[i] : i \in 1..j}
Shown(j)  == {h \in Host : /\ results[h] = Nil
                           /\ h \in begun \/ \E e \in Coming(j) : e.host = h /\ e.what = "began"
                           /\ ~ \E e \in Coming(j) : e.host = h /\ e.what \in Endings}
ShownLast == Shown(Len(channel))
ShownNow  == {h \in begun : results[h] = Nil}
Few ==
    opened <= 1 =>
        /\ Cardinality(ShownNow) <= Workers
        /\ current # 0 => /\ \A j \in 0..Len(channel) : Cardinality(Shown(j)) <= Workers
                          /\ ShownLast \subseteq Holding(current)

-----------------------------------------------------------------------------
(* Steps.                                                                  *)

Set(k, h, s) ==
    /\ work' \in [Run -> [Host -> States]] /\ work'[k][h] = s
    /\ \A l \in Run, g \in Host : l # k \/ g # h => work'[l][g] = work[l][g]
Beside == UNCHANGED <<sweep, readers, taken, screen>>

\* A goroutine does something of its own, or says something, with a slot or with one to be had.
Busy == {"queued", "begins", "starts", "runs", "killed"}
Works(k, h) ==
    /\ \E s \in {"begins", "runs", "killed"} \cup Endings : Set(k, h, s)
    /\ work[k][h] \in Busy /\ channel' = channel /\ Beside
Says(k, h) ==
    /\ Beside
    /\ \/ work[k][h] = "begins" /\ Set(k, h, "starts") /\ channel' = Append(channel, Event(k, h, "began"))
       \/ work[k][h] \in Endings /\ Set(k, h, "done") /\ channel' = Append(channel, Event(k, h, work[k][h]))

LEMMA SetIs ==
    ASSUME work \in [Run -> [Host -> States]], NEW k \in Run, NEW h \in Host, NEW s \in States, Turn(k, h, s)
    PROVE  Set(k, h, s)
BY DEF Turn, Set

LEMMA Doing ==
    ASSUME work \in [Run -> [Host -> States]], NEW k \in Run, NEW h \in Host,
           \/ TakeSlot(k, h) \/ Began(k, h) \/ Starts(k, h) \/ Killed(k, h)
           \/ Reaped(k, h) \/ Reports(k, h) \/ Ends(k, h)
    PROVE  Works(k, h) \/ Says(k, h)
<1>1. {"begins", "starts", "runs", "killed", "done", "ok", "failed", "stopped"} \subseteq States
  BY DEF States, Endings
<1>2. ASSUME NEW s \in {"begins", "runs", "killed", "ok", "failed", "stopped"}, Turn(k, h, s),
             work[k][h] \in Busy, channel' = channel, Beside
      PROVE  Works(k, h)
  BY <1>1, <1>2, SetIs DEF Works, Endings
<1>3. CASE TakeSlot(k, h) \/ Killed(k, h) \/ Reaped(k, h)
  BY <1>2, <1>3 DEF TakeSlot, Killed, Reaped, Busy, Beside, post
<1>4. CASE Starts(k, h)
  BY <1>2, <1>4 DEF Starts, Busy, Beside, post
<1>5. CASE Ends(k, h)
  BY <1>2, <1>5 DEF Ends, Busy, Beside, post
<1>6. CASE Began(k, h)
  BY <1>1, <1>6, SetIs DEF Began, Send, Says, Beside
<1>7. CASE Reports(k, h)
  BY <1>1, <1>7, SetIs DEF Reports, Send, Says, Beside
<1> QED BY <1>3, <1>4, <1>5, <1>6, <1>7

LEMMA Words ==
    ASSUME Typed
    PROVE  Sent \subseteq Word /\ taken \subseteq Word
           /\ \A e \in Word : e.token \in Run /\ e.host \in Host \cup {Nil} /\ e.what \in {"began", "done"} \cup Endings
<1>1. channel \in Seq(Word) /\ taken \subseteq Word
  BY DEF Typed
<1>2. Sent \subseteq Word
  BY <1>1 DEF Sent
<1> QED BY <1>1, <1>2 DEF Word

LEMMA Appends ==
    ASSUME Typed, NEW e, channel' = Append(channel, e)
    PROVE  /\ Sent' = Sent \cup {e} /\ Len(channel) \in Nat /\ Len(channel)' = Len(channel) + 1
           /\ DOMAIN channel = 1..Len(channel) /\ DOMAIN channel' = 1..(Len(channel) + 1)
           /\ channel'[Len(channel) + 1] = e /\ \A i \in DOMAIN channel : channel'[i] = channel[i]
<1>1. channel \in Seq(Word)
  BY DEF Typed
<1>2. /\ Len(channel) \in Nat /\ DOMAIN channel = 1..Len(channel) /\ Len(channel)' = Len(channel) + 1
      /\ DOMAIN channel' = 1..(Len(channel) + 1)
      /\ channel'[Len(channel) + 1] = e /\ \A i \in DOMAIN channel : channel'[i] = channel[i]
  BY <1>1
<1>3. Sent' \subseteq Sent \cup {e}
  BY <1>2 DEF Sent
<1>4. Sent \cup {e} \subseteq Sent'
  BY <1>2 DEF Sent
<1> QED BY <1>2, <1>3, <1>4

LEMMA Takings ==
    ASSUME Typed, WaitRun
    PROVE  /\ Len(channel) \in Nat \ {0} /\ Len(channel)' = Len(channel) - 1
           /\ DOMAIN channel = 1..Len(channel) /\ DOMAIN channel' = 1..(Len(channel) - 1)
           /\ \A i \in DOMAIN channel' : i + 1 \in DOMAIN channel /\ channel'[i] = channel[i + 1] /\ 1 < i + 1
           /\ 1 \in DOMAIN channel /\ taken' = taken \cup {channel[1]} /\ channel[1] \in Sent
           /\ Sent' \subseteq Sent /\ Sent \subseteq Sent' \cup {channel[1]}
<1>1. channel \in Seq(Word) /\ channel # <<>> /\ channel' = Tail(channel) /\ taken' = taken \cup {Head(channel)}
  BY DEF Typed, WaitRun
<1>2. /\ Len(channel) \in Nat \ {0} /\ Len(channel)' = Len(channel) - 1
      /\ DOMAIN channel = 1..Len(channel) /\ DOMAIN channel' = 1..(Len(channel) - 1)
      /\ \A i \in DOMAIN channel' : i + 1 \in DOMAIN channel /\ channel'[i] = channel[i + 1] /\ 1 < i + 1
      /\ 1 \in DOMAIN channel /\ Head(channel) = channel[1]
  BY <1>1
<1>3. Sent' \subseteq Sent /\ channel[1] \in Sent
  BY <1>2 DEF Sent
<1>4. Sent \subseteq Sent' \cup {channel[1]}
  <2>1. \A i \in DOMAIN channel : i = 1 \/ (i - 1 \in DOMAIN channel' /\ channel'[i - 1] = channel[i])
    BY <1>2
  <2> QED BY <2>1 DEF Sent
<1> QED BY <1>1, <1>2, <1>3, <1>4

\* The rest of the window's steps: nothing in the channel moves.
Opens  == OpenSnippetRun
Begins == \E hs \in SUBSET Host : StartSnippetRun(hs)
Leaves == UNCHANGED <<work, sweep, post, opened, hosts, begun, results>> /\ current' \in {0, current}

LEMMA Moves ==
    ASSUME Typed, [Next]_vars
    PROVE  \/ \E k \in Run, h \in Host : Works(k, h) \/ Says(k, h)
           \/ \E k \in Run : SweepEnds(k)
           \/ Opens \/ Begins \/ Leaves \/ WaitRun
           \/ \E e \in taken : HandleSnippetEvent(e)
<1>1. Esc \/ UNCHANGED vars => Leaves
  BY DEF Esc, CloseSnippetRun, Leaves, vars, goroutines, post, screen
<1>2. work \in [Run -> [Host -> States]]
  BY DEF Typed
<1> QED BY <1>1, <1>2, Steps, Doing DEF Opens, Begins

LEMMA NilIsNoResult == \A k \in Run, s \in Endings : [token |-> k, how |-> s] # Nil
BY SnippetRunAssumption DEF Endings

LEMMA TypedInit == Init => Typed
<1> SUFFICES ASSUME Init PROVE Typed
  OBVIOUS
<1>1. work \in [Run -> [Host -> States]] /\ sweep \in [Run -> {"none", "going", "ended"}]
  BY DEF Init, States
<1>2. channel \in Seq(Word) /\ taken \subseteq Word
  BY DEF Init
<1> QED BY <1>1, <1>2 DEF Init, NoneYet, Typed

LEMMA TypedStep ==
    ASSUME Typed, Heard, [Next]_vars
    PROVE  Typed'
<1>0. /\ work \in [Run -> [Host -> States]] /\ sweep \in [Run -> {"none", "going", "ended"}]
      /\ channel \in Seq(Word) /\ taken \subseteq Word /\ readers \in Nat /\ opened \in Nat
  BY DEF Typed
<1>1. ASSUME NEW k \in Run, NEW h \in Host, Works(k, h) \/ Says(k, h) PROVE Typed'
  <2>1. work' \in [Run -> [Host -> States]]
    BY <1>1 DEF Works, Says, Set
  <2>2. Event(k, h, "began") \in Word /\ (work[k][h] \in Endings => Event(k, h, work[k][h]) \in Word)
    BY DEF Event, Word
  <2>3. channel' \in Seq(Word)
    <3>1. Works(k, h) => channel' = channel
      BY DEF Works
    <3>2. Says(k, h) => \/ channel' = Append(channel, Event(k, h, "began"))
                        \/ work[k][h] \in Endings /\ channel' = Append(channel, Event(k, h, work[k][h]))
      BY Zenon DEF Says
    <3>3. \A e \in Word : Append(channel, e) \in Seq(Word)
      BY <1>0
    <3> QED BY <1>0, <1>1, <2>2, <3>1, <3>2, <3>3, Zenon
  <2> QED BY <1>1, <2>1, <2>3 DEF Works, Says, Beside, screen, Typed
<1>2. ASSUME NEW k \in Run, SweepEnds(k) PROVE Typed'
  <2>1. Event(k, Nil, "done") \in Word
    BY DEF Event, Word
  <2>2. channel' \in Seq(Word) /\ sweep' \in [Run -> {"none", "going", "ended"}]
    BY <1>0, <1>2, <2>1 DEF SweepEnds, Send
  <2> QED BY <1>2, <2>2 DEF SweepEnds, screen, Typed
<1>3. ASSUME OpenSnippetRun PROVE Typed'
  BY <1>3 DEF OpenSnippetRun, goroutines, post, NoneYet, Typed
<1>4. ASSUME NEW hs \in SUBSET Host, StartSnippetRun(hs) PROVE Typed'
  <2>1. work' \in [Run -> [Host -> States]] /\ sweep' \in [Run -> {"none", "going", "ended"}]
    BY <1>0, <1>4 DEF StartSnippetRun, States
  <2> QED BY <1>4, <2>1 DEF StartSnippetRun, NoneYet, Typed
<1>5. ASSUME Leaves PROVE Typed'
  BY <1>5 DEF Leaves, post, Typed
<1>6. ASSUME WaitRun PROVE Typed'
  <2>1. channel' \in Seq(Word) /\ taken' \subseteq Word /\ readers' \in Nat
    BY <1>0, <1>6 DEF WaitRun
  <2> QED BY <1>6, <2>1 DEF WaitRun, goroutines, screen, Typed
<1>7. ASSUME NEW e \in taken, HandleSnippetEvent(e) PROVE Typed'
  <2>1. e.token \in Run /\ (e.what # "done" => e.host \in Host)
    BY Words DEF Heard
  <2>2. readers' \in Nat /\ taken' \subseteq Word
    BY <1>0, <1>7 DEF HandleSnippetEvent, Readers
  <2>3. begun' \subseteq Host
    BY <1>7, <2>1 DEF HandleSnippetEvent, Typed
  <2>4. results' \in [Host -> [token : Run, how : Endings] \cup {Nil}]
    BY <1>7, <2>1 DEF HandleSnippetEvent, Typed, Endings
  <2> QED BY <1>7, <2>2, <2>3, <2>4 DEF HandleSnippetEvent, goroutines, Typed
<1> QED BY <1>1, <1>2, <1>3, <1>4, <1>5, <1>6, <1>7, Moves DEF Opens, Begins

LEMMA UnderStep ==
    ASSUME Typed, Under, Heard, [Next]_vars
    PROVE  Under'
<1>0. /\ work \in [Run -> [Host -> States]] /\ sweep \in [Run -> {"none", "going", "ended"}]
      /\ results \in [Host -> [token : Run, how : Endings] \cup {Nil}]
      /\ opened \in Nat /\ current \in {0, opened} /\ (current # 0 => current \in Run)
  BY DEF Typed
<1>1. ASSUME NEW k \in Run, NEW h \in Host, Works(k, h) \/ Says(k, h) PROVE Under'
  <2>1. work[k][h] \in Busy \cup Endings /\ work'[k][h] # "none"
    BY <1>1 DEF Works, Says, Set, Busy, Endings
  <2>2. \A l \in Run, g \in Host : l # k \/ g # h => work'[l][g] = work[l][g]
    BY <1>1 DEF Works, Says, Set
  <2>3. work[k][h] \notin {"none", "done"}
    BY <2>1 DEF Busy, Endings
  <2>4. sweep[k] = "going"
    BY <1>0, <2>3 DEF Under
  <2>5. UNCHANGED <<sweep, current, opened, hosts, results>>
    BY <1>1 DEF Works, Says, Beside, screen
  <2> QED BY <1>0, <2>1, <2>2, <2>3, <2>4, <2>5 DEF Under
<1>2. ASSUME NEW k \in Run, SweepEnds(k) PROVE Under'
  <2>1. sweep' = [sweep EXCEPT ![k] = "ended"] /\ sweep[k] = "going"
        /\ \A h \in Host : work[k][h] \in {"none", "done"}
    BY <1>2 DEF SweepEnds
  <2>2. UNCHANGED <<work, current, opened, hosts, results>>
    BY <1>2 DEF SweepEnds, screen
  <2> QED BY <1>0, <2>1, <2>2 DEF Under
<1>3. ASSUME OpenSnippetRun PROVE Under'
  <2>1. sweep[opened + 1] = "none" /\ opened + 1 \in Run
    BY <1>0, <1>3 DEF OpenSnippetRun, Under
  <2>2. /\ current' = opened + 1 /\ opened' = opened + 1 /\ hosts' = {} /\ UNCHANGED <<work, sweep>>
        /\ \A h \in Host : results'[h] = Nil
    BY <1>3 DEF OpenSnippetRun, goroutines, NoneYet
  <2>3. \A h \in Host : work[opened + 1][h] = "none"
    BY <2>1 DEF Under
  <2>4. \A k \in Run : k > opened + 1 => k > opened
    BY <1>0, SnippetRunAssumption
  <2> QED BY <2>1, <2>2, <2>3, <2>4 DEF Under
<1>4. ASSUME NEW hs \in SUBSET Host, StartSnippetRun(hs) PROVE Under'
  <2>1. current \in Run /\ current = opened
    BY <1>0, <1>4 DEF StartSnippetRun
  <2>2. work' = [work EXCEPT ![current] = [h \in Host |-> IF h \in hs THEN "queued" ELSE "none"]]
        /\ sweep' = [sweep EXCEPT ![current] = "going"] /\ results' = NoneYet /\ hosts' = hs /\ hs # {}
        /\ UNCHANGED <<current, opened>>
    BY <1>4 DEF StartSnippetRun
  <2>3. \A h \in Host : work'[current][h] = IF h \in hs THEN "queued" ELSE "none"
    BY <1>0, <2>1, <2>2
  <2>4. \A l \in Run \ {current} : work'[l] = work[l] /\ sweep'[l] = sweep[l]
    BY <1>0, <2>2
  <2>5. sweep'[current] = "going"
    BY <1>0, <2>1, <2>2
  <2>6. \A l \in Run : /\ l > opened => sweep'[l] = "none"
                       /\ sweep'[l] = "none" => \A h \in Host : work'[l][h] = "none"
                       /\ sweep'[l] = "ended" => \A h \in Host : work'[l][h] \in {"none", "done"}
    BY <1>0, <2>1, <2>4, <2>5 DEF Under
  <2>7. hs # {} /\ hosts' = hs /\ \A h \in Host : results'[h] = Nil
    BY <2>2 DEF NoneYet
  <2> QED BY <2>2, <2>3, <2>5, <2>6, <2>7 DEF Under
<1>5. ASSUME Leaves PROVE Under'
  BY <1>5 DEF Leaves, Under
<1>6. ASSUME WaitRun PROVE Under'
  BY <1>6 DEF WaitRun, goroutines, screen, Under
<1>7. ASSUME NEW e \in taken, HandleSnippetEvent(e) PROVE Under'
  <2>1. \A h \in Host : results'[h] # results[h] =>
            /\ h = e.host /\ current = e.token /\ e.what \in Endings
            /\ results'[h].token = e.token
    BY <1>0, <1>7 DEF HandleSnippetEvent, IsCurrent
  <2>2. e.what \in Endings => work[e.token][e.host] = "done"
    BY DEF Heard
  <2>3. UNCHANGED <<work, sweep, current, opened, hosts>>
    BY <1>7 DEF HandleSnippetEvent, goroutines
  <2> QED BY <2>1, <2>2, <2>3 DEF Under
<1> QED BY <1>1, <1>2, <1>3, <1>4, <1>5, <1>6, <1>7, Moves DEF Opens, Begins

\* What has been said so far of a run is of no help to the next one.
LEMMA HeardStep ==
    ASSUME Typed, Under, Heard, Once, [Next]_vars
    PROVE  Heard'
<1>0. /\ work \in [Run -> [Host -> States]] /\ sweep \in [Run -> {"none", "going", "ended"}]
      /\ results \in [Host -> [token : Run, how : Endings] \cup {Nil}]
      /\ opened \in Nat /\ current \in {0, opened} /\ (current # 0 => current \in Run)
  BY DEF Typed
<1>00. /\ Sent \subseteq Word /\ taken \subseteq Word
       /\ \A e \in Word : e.token \in Run /\ e.host \in Host \cup {Nil} /\ e.what \in {"began", "done"} \cup Endings
  BY Words
<1>1. ASSUME NEW k \in Run, NEW h \in Host, Works(k, h) \/ Says(k, h) PROVE Heard'
  <2>1. work[k][h] \in Busy \cup Endings
    BY <1>1 DEF Works, Says, Busy
  <2>2. \A l \in Run, g \in Host : l # k \/ g # h => work'[l][g] = work[l][g]
    BY <1>1 DEF Works, Says, Set
  <2>3. work[k][h] \notin {"none", "done"}
    BY <2>1 DEF Busy, Endings
  <2>4. sweep[k] = "going"
    BY <1>0, <2>3 DEF Under
  <2>5. UNCHANGED <<sweep, current, results, taken>>
    BY <1>1 DEF Works, Says, Beside, screen
  <2>6. ASSUME NEW e \in Sent \cup taken
        PROVE  /\ sweep'[e.token] # "none"
               /\ e.what = "done" => sweep'[e.token] = "ended"
               /\ e.what # "done" => e.host \in Host
               /\ e.what \in Endings => /\ work'[e.token][e.host] = "done"
                                        /\ e.token = current' => results'[e.host] = Nil
    <3>1. e.token \in Run
      BY <1>00
    <3>2. e.what \in Endings => e.what # "done" /\ work[e.token][e.host] = "done" /\ e.host \in Host
      BY DEF Heard, Endings
    <3>3. e.what \in Endings => work'[e.token][e.host] = "done"
      BY <2>2, <2>3, <3>1, <3>2
    <3> QED BY <2>5, <3>3 DEF Heard
  <2>7. ASSUME Says(k, h), NEW e, channel' = Append(channel, e),
               \/ e = Event(k, h, "began")
               \/ e = Event(k, h, work[k][h]) /\ work[k][h] \in Endings /\ work'[k][h] = "done"
        PROVE  Heard'
    <3>1. /\ sweep'[e.token] # "none" /\ e.what # "done" /\ e.host \in Host /\ e.token = k /\ e.host = h
          /\ e.what \in Endings => work'[k][h] = "done"
      BY <2>4, <2>5, <2>7 DEF Event, Endings
    <3>2. e.token = current' => results'[e.host] = Nil
      <4>1. k # 0
        BY SnippetRunAssumption
      <4> QED BY <1>0, <2>3, <2>5, <3>1, <4>1 DEF Under
    <3>3. Sent' = Sent \cup {e} /\ taken' = taken
      BY <2>5, <2>7, Appends
    <3> QED BY <2>6, <3>1, <3>2, <3>3 DEF Heard
  <2>8. CASE Works(k, h)
    <3>1. Sent' = Sent /\ taken' = taken
      BY <2>5, <2>8 DEF Works, Sent
    <3> QED BY <2>6, <3>1 DEF Heard
  <2>9. CASE Says(k, h)
    <3>1. \/ channel' = Append(channel, Event(k, h, "began"))
          \/ /\ channel' = Append(channel, Event(k, h, work[k][h]))
             /\ work[k][h] \in Endings /\ work'[k][h] = "done"
      BY <2>9, Zenon DEF Says, Set
    <3> QED BY <2>7, <2>9, <3>1
  <2> QED BY <1>1, <2>8, <2>9
<1>2. ASSUME NEW k \in Run, SweepEnds(k) PROVE Heard'
  <2>1. Sent' = Sent \cup {Event(k, Nil, "done")}
    BY <1>2, Appends DEF SweepEnds, Send
  <2>2. Event(k, Nil, "done").token = k /\ Event(k, Nil, "done").what = "done" /\ "done" \notin Endings
    BY DEF Event, Endings
  <2>3. sweep' = [sweep EXCEPT ![k] = "ended"] /\ UNCHANGED <<work, current, results, taken>>
    BY <1>2 DEF SweepEnds, screen
  <2> QED BY <1>0, <1>00, <2>1, <2>2, <2>3 DEF Heard
<1>3. ASSUME OpenSnippetRun PROVE Heard'
  <2>1. Sent' = Sent /\ UNCHANGED <<work, sweep, taken>> /\ \A h \in Host : results'[h] = Nil
    BY <1>3 DEF OpenSnippetRun, goroutines, post, NoneYet, Sent
  <2>2. \A e \in Sent \cup taken : e.what \in Endings => e.host \in Host
    BY DEF Heard, Endings
  <2> QED BY <2>1, <2>2 DEF Heard
<1>4. ASSUME NEW hs \in SUBSET Host, StartSnippetRun(hs) PROVE Heard'
  <2>1. current \in Run /\ sweep[current] = "none"
    BY <1>0, <1>4 DEF StartSnippetRun, Under
  <2>2. \A e \in Sent \cup taken : e.token \in Run /\ e.token # current
    BY <1>00, <2>1 DEF Heard
  <2>3. \A l \in Run \ {current} : work'[l] = work[l] /\ sweep'[l] = sweep[l]
    BY <1>0, <1>4 DEF StartSnippetRun
  <2>4. Sent' = Sent /\ UNCHANGED <<taken, current>>
    BY <1>4 DEF StartSnippetRun, Sent
  <2> QED BY <2>2, <2>3, <2>4 DEF Heard
<1>5. ASSUME Leaves PROVE Heard'
  <2>1. \A e \in Sent \cup taken : e.token # 0
    BY <1>00, SnippetRunAssumption
  <2>2. Sent' = Sent /\ UNCHANGED <<work, sweep, taken, results>> /\ current' \in {0, current}
    BY <1>5 DEF Leaves, post, Sent
  <2> QED BY <2>1, <2>2 DEF Heard
<1>6. ASSUME WaitRun PROVE Heard'
  <2>1. Sent' \cup taken' \subseteq Sent \cup taken
    BY <1>6, Takings
  <2>2. UNCHANGED <<work, sweep, current, results>>
    BY <1>6 DEF WaitRun, goroutines, screen
  <2> QED BY <2>1, <2>2 DEF Heard
<1>7. ASSUME NEW e \in taken, HandleSnippetEvent(e) PROVE Heard'
  <2>1. Sent' = Sent /\ taken' = taken \ {e} /\ UNCHANGED <<work, sweep, current>>
    BY <1>7 DEF HandleSnippetEvent, goroutines, Sent
  <2>2. \A h \in Host : results'[h] # results[h] => h = e.host /\ current = e.token /\ e.what \in Endings
    BY <1>0, <1>7 DEF HandleSnippetEvent, IsCurrent
  <2>3. \A f \in Sent \cup (taken \ {e}) : ~ Ending(e, f)
    BY DEF Once
  <2>4. \A f \in Sent \cup taken : f.what \in Endings => f.host \in Host
    BY DEF Heard, Endings
  <2> QED BY <2>1, <2>2, <2>3, <2>4 DEF Heard, Ending
<1> QED BY <1>1, <1>2, <1>3, <1>4, <1>5, <1>6, <1>7, Moves DEF Opens, Begins

\* Whoever speaks for a run does so while it is going.
LEMMA Speaks ==
    ASSUME Typed, Under, Heard, NEW k \in Run
    PROVE  /\ SweepEnds(k) => sweep[k] = "going"
           /\ \A h \in Host : Works(k, h) \/ Says(k, h) =>
                  sweep[k] = "going" /\ work[k][h] \notin {"none", "done"}
           /\ sweep[k] = "going" => \A e \in Sent \cup taken : e.token = k => e.what # "done"
<1>0. sweep \in [Run -> {"none", "going", "ended"}]
  BY DEF Typed
<1>1. SweepEnds(k) => sweep[k] = "going"
  BY DEF SweepEnds
<1>2. ASSUME NEW h \in Host, Works(k, h) \/ Says(k, h)
      PROVE  sweep[k] = "going" /\ work[k][h] \notin {"none", "done"}
  <2>1. work[k][h] \notin {"none", "done"}
    BY <1>2 DEF Works, Says, Busy, Endings
  <2> QED BY <1>0, <2>1 DEF Under
<1>3. sweep[k] = "going" => \A e \in Sent \cup taken : e.token = k => e.what # "done"
  BY DEF Heard
<1> QED BY <1>1, <1>2, <1>3

\* How the channel changes: not, by one more at the end, or by the first one less.
Utters(e) ==
    /\ channel' = Append(channel, e) /\ taken' = taken /\ UNCHANGED <<current, hosts, results, begun, opened, readers>>
    /\ \E k \in Run :
          \/ SweepEnds(k) /\ e = Event(k, Nil, "done") /\ UNCHANGED work
          \/ \E h \in Host : /\ Says(k, h)
                             /\ \/ work[k][h] = "begins" /\ Set(k, h, "starts") /\ e = Event(k, h, "began")
                                \/ work[k][h] \in Endings /\ Set(k, h, "done") /\ e = Event(k, h, work[k][h])
Silent == channel' = channel /\ taken' = taken

LEMMA Utterances ==
    ASSUME Typed, NEW k \in Run
    PROVE  /\ \A h \in Host : Says(k, h) => \E e : Utters(e)
           /\ SweepEnds(k) => \E e : Utters(e)
<1>1. ASSUME NEW h \in Host, Says(k, h) PROVE \E e : Utters(e)
  <2>1. UNCHANGED <<current, hosts, results, begun, opened, readers>> /\ taken' = taken
    BY <1>1 DEF Says, Beside, screen
  <2>2. CASE work[k][h] = "begins" /\ Set(k, h, "starts") /\ channel' = Append(channel, Event(k, h, "began"))
    <3>1. Utters(Event(k, h, "began"))
      BY <1>1, <2>1, <2>2, Zenon DEF Utters
    <3> QED BY <3>1
  <2>3. CASE work[k][h] \in Endings /\ Set(k, h, "done") /\ channel' = Append(channel, Event(k, h, work[k][h]))
    <3>1. Utters(Event(k, h, work[k][h]))
      BY <1>1, <2>1, <2>3, Zenon DEF Utters
    <3> QED BY <3>1
  <2> QED BY <1>1, <2>2, <2>3, Zenon DEF Says
<1>2. ASSUME SweepEnds(k) PROVE Utters(Event(k, Nil, "done"))
  BY <1>2 DEF SweepEnds, Send, Utters, screen
<1> QED BY <1>1, <1>2

LEMMA Channels ==
    ASSUME Typed, [Next]_vars
    PROVE  Silent \/ (\E e : Utters(e)) \/ WaitRun \/ \E e \in taken : HandleSnippetEvent(e)
<1>1. ASSUME NEW k \in Run, NEW h \in Host, Works(k, h) PROVE Silent
  BY <1>1 DEF Works, Beside, Silent
<1>2. Opens \/ Begins \/ Leaves => Silent
  BY DEF Opens, Begins, Leaves, OpenSnippetRun, StartSnippetRun, post, Silent
<1>3. (\E k \in Run : SweepEnds(k) \/ \E h \in Host : Says(k, h)) => \E e : Utters(e)
  BY Utterances
<1> QED BY <1>1, <1>2, <1>3, Moves

LEMMA LastStep ==
    ASSUME Typed, Under, Heard, Last, [Next]_vars
    PROVE  Last'
<1>1. CASE Silent
  BY <1>1 DEF Silent, Last, Sent
<1>2. ASSUME NEW e, Utters(e) PROVE Last'
  <2>1. \A f \in Sent \cup taken : f.token = e.token => f.what # "done"
    <3>1. PICK k \in Run : e.token = k /\ sweep[k] = "going"
      <4>1. PICK k \in Run : \/ SweepEnds(k) /\ e = Event(k, Nil, "done")
                             \/ \E h \in Host : Says(k, h) /\ e.token = k
        BY <1>2 DEF Utters, Event
      <4> QED BY <4>1, Speaks DEF Event
    <3> QED BY <3>1, Speaks
  <2>2. \A i \in DOMAIN channel : channel[i] \in Sent
    BY DEF Sent
  <2>3. Sent' = Sent \cup {e} /\ taken' = taken
    BY <1>2, Appends DEF Utters
  <2>4. /\ Len(channel) \in Nat /\ DOMAIN channel = 1..Len(channel) /\ DOMAIN channel' = 1..(Len(channel) + 1)
        /\ channel'[Len(channel) + 1] = e /\ \A i \in DOMAIN channel : channel'[i] = channel[i]
    BY <1>2, Appends DEF Utters
  <2>5. \A i, j \in DOMAIN channel' : i < j /\ channel'[i].token = channel'[j].token => channel'[i].what # "done"
    <3>1. ASSUME NEW i \in DOMAIN channel', NEW j \in DOMAIN channel', i < j,
                 channel'[i].token = channel'[j].token
          PROVE  channel'[i].what # "done"
      <4>1. i \in DOMAIN channel /\ (j \in DOMAIN channel \/ j = Len(channel) + 1)
        BY <2>4, <3>1
      <4> QED BY <2>1, <2>2, <2>4, <3>1, <4>1 DEF Last
    <3> QED BY <3>1
  <2> QED BY <2>1, <2>3, <2>5 DEF Last
<1>3. ASSUME WaitRun PROVE Last'
  <2>1. \A i, j \in DOMAIN channel' : i < j /\ channel'[i].token = channel'[j].token => channel'[i].what # "done"
    <3>1. ASSUME NEW i \in DOMAIN channel', NEW j \in DOMAIN channel', i < j,
                 channel'[i].token = channel'[j].token
          PROVE  channel'[i].what # "done"
      <4>1. i + 1 \in DOMAIN channel /\ j + 1 \in DOMAIN channel /\ i + 1 < j + 1
        BY <1>3, <3>1, Takings
      <4> QED BY <1>3, <3>1, <4>1, Takings DEF Last
    <3> QED BY <3>1
  <2>2. \A n \in Sent' : channel[1].what = "done" => channel[1].token # n.token
    <3>1. \A i \in DOMAIN channel' : channel[1].what = "done" => channel[1].token # channel'[i].token
      BY <1>3, Takings DEF Last
    <3> QED BY <3>1 DEF Sent
  <2>3. taken' = taken \cup {channel[1]} /\ Sent' \subseteq Sent
    BY <1>3, Takings
  <2> QED BY <2>1, <2>2, <2>3 DEF Last
<1>4. ASSUME NEW e \in taken, HandleSnippetEvent(e) PROVE Last'
  BY <1>4 DEF HandleSnippetEvent, Last, Sent
<1> QED BY <1>1, <1>2, <1>3, <1>4, Channels

LEMMA OnceStep ==
    ASSUME Typed, Under, Heard, Once, [Next]_vars
    PROVE  Once'
<1>1. CASE Silent
  BY <1>1 DEF Silent, Once, Sent
<1>2. ASSUME NEW e, Utters(e) PROVE Once'
  <2>1. \A f \in Sent \cup taken : ~ Ending(e, f) /\ ~ Ending(f, e)
    <3>1. ASSUME e.what \in Endings
          PROVE  \E k \in Run, h \in Host : e.token = k /\ e.host = h /\ work[k][h] \in Endings
      <4>1. "done" \notin Endings /\ "began" \notin Endings
        BY DEF Endings
      <4> QED BY <1>2, <3>1, <4>1 DEF Utters, Event
    <3>2. "done" \notin Endings
      BY DEF Endings
    <3> QED BY <3>1, <3>2 DEF Ending, Heard
  <2>2. \A i \in DOMAIN channel : channel[i] \in Sent
    BY DEF Sent
  <2>3. Sent' = Sent \cup {e} /\ taken' = taken
    BY <1>2, Appends DEF Utters
  <2>4. /\ Len(channel) \in Nat /\ DOMAIN channel = 1..Len(channel) /\ DOMAIN channel' = 1..(Len(channel) + 1)
        /\ channel'[Len(channel) + 1] = e /\ \A i \in DOMAIN channel : channel'[i] = channel[i]
    BY <1>2, Appends DEF Utters
  <2>5. \A i, j \in DOMAIN channel' : Ending(channel'[i], channel'[j]) => i = j
    BY <2>1, <2>2, <2>4 DEF Once
  <2> QED BY <2>1, <2>3, <2>5 DEF Once
<1>3. ASSUME WaitRun PROVE Once'
  <2>1. \A i, j \in DOMAIN channel' : Ending(channel'[i], channel'[j]) => i = j
    <3>1. ASSUME NEW i \in DOMAIN channel', NEW j \in DOMAIN channel', Ending(channel'[i], channel'[j])
          PROVE  i = j
      <4>1. i + 1 = j + 1
        BY <1>3, <3>1, Takings DEF Once
      <4> QED BY <1>3, <3>1, <4>1, Takings
    <3> QED BY <3>1
  <2>2. \A n \in Sent' : ~ Ending(channel[1], n)
    <3>1. \A i \in DOMAIN channel' : ~ Ending(channel[1], channel'[i])
      <4>1. ASSUME NEW i \in DOMAIN channel', Ending(channel[1], channel'[i]) PROVE FALSE
        <5>1. 1 = i + 1 /\ 1 < i + 1 /\ i \in Nat
          BY <1>3, <4>1, Takings DEF Once
        <5> QED BY <5>1
      <4> QED BY <4>1
    <3> QED BY <3>1 DEF Sent
  <2>3. taken' = taken \cup {channel[1]} /\ Sent' \subseteq Sent /\ channel[1] \in Sent
    BY <1>3, Takings
  <2>4. \A f \in taken : ~ Ending(f, channel[1]) /\ ~ Ending(channel[1], f)
    BY <2>3 DEF Once, Ending
  <2> QED BY <2>1, <2>2, <2>3, <2>4 DEF Once
<1>4. ASSUME NEW e \in taken, HandleSnippetEvent(e) PROVE Once'
  BY <1>4 DEF HandleSnippetEvent, Once, Sent
<1> QED BY <1>1, <1>2, <1>3, <1>4, Channels

LEMMA AccountedStep ==
    ASSUME Typed, Under, Heard, Accounted, [Next]_vars
    PROVE  Accounted'
<1>0. /\ work \in [Run -> [Host -> States]] /\ hosts \subseteq Host
      /\ results \in [Host -> [token : Run, how : Endings] \cup {Nil}]
      /\ current \in {0, opened} /\ (current # 0 => current \in Run)
  BY DEF Typed
<1>1. ASSUME NEW k \in Run, NEW h \in Host, Works(k, h) PROVE Accounted'
  <2>1. work'[k][h] # "done" /\ \A l \in Run, g \in Host : l # k \/ g # h => work'[l][g] = work[l][g]
    BY <1>1 DEF Works, Set, Endings
  <2>2. Sent' = Sent /\ UNCHANGED <<taken, current, hosts, results>>
    BY <1>1 DEF Works, Beside, screen, Sent
  <2> QED BY <1>0, <2>1, <2>2 DEF Accounted
<1>2. ASSUME NEW k \in Run, NEW h \in Host, Says(k, h) PROVE Accounted'
  <2>1. \A l \in Run, g \in Host : l # k \/ g # h => work'[l][g] = work[l][g]
    BY <1>2 DEF Says, Set
  <2>2. UNCHANGED <<taken, current, hosts, results>>
    BY <1>2 DEF Says, Beside, screen
  <2>3. Sent \subseteq Sent'
    BY <1>2, Appends DEF Says
  <2>4. work'[k][h] = "done" => Event(k, h, work[k][h]) \in Sent' /\ work[k][h] \in Endings
    BY <1>2, Appends DEF Says, Set
  <2>5. ASSUME work'[k][h] = "done"
        PROVE  \E e \in Sent' \cup taken' : e.token = k /\ e.host = h /\ e.what \in Endings
    BY <2>4, <2>5 DEF Event
  <2> QED BY <1>0, <2>1, <2>2, <2>3, <2>5 DEF Accounted
<1>3. ASSUME NEW k \in Run, SweepEnds(k) PROVE Accounted'
  <2>1. Sent \subseteq Sent' /\ UNCHANGED <<work, taken, current, hosts, results>>
    BY <1>3, Appends DEF SweepEnds, Send, screen
  <2> QED BY <2>1 DEF Accounted
<1>4. ASSUME OpenSnippetRun PROVE Accounted'
  BY <1>4 DEF OpenSnippetRun, Accounted
<1>5. ASSUME NEW hs \in SUBSET Host, StartSnippetRun(hs) PROVE Accounted'
  <2>1. /\ \A h \in Host : work'[current][h] \in {"queued", "none"}
        /\ current' = current /\ hosts' \subseteq Host
    BY <1>0, <1>5 DEF StartSnippetRun
  <2> QED BY <2>1 DEF Accounted
<1>6. ASSUME Leaves PROVE Accounted'
  BY <1>6 DEF Leaves, post, Accounted, Sent
<1>7. ASSUME WaitRun PROVE Accounted'
  <2>1. Sent \cup taken \subseteq Sent' \cup taken'
    BY <1>7, Takings
  <2>2. UNCHANGED <<work, current, hosts, results>>
    BY <1>7 DEF WaitRun, goroutines, screen
  <2> QED BY <2>1, <2>2 DEF Accounted
<1>8. ASSUME NEW e \in taken, HandleSnippetEvent(e) PROVE Accounted'
  <2>1. Sent' = Sent /\ taken' = taken \ {e} /\ UNCHANGED <<work, current, hosts>>
    BY <1>8 DEF HandleSnippetEvent, goroutines, Sent
  <2>2. \A h \in Host : /\ results[h] # Nil => results'[h] # Nil
                        /\ current = e.token /\ h = e.host /\ e.what \in Endings /\ current # 0 => results'[h] # Nil
    <3>1. e.token \in Run
      BY Words
    <3> QED BY <1>0, <1>8, <3>1, NilIsNoResult DEF HandleSnippetEvent, IsCurrent
  <2> QED BY <1>0, <2>1, <2>2 DEF Accounted
<1> QED BY <1>1, <1>2, <1>3, <1>4, <1>5, <1>6, <1>7, <1>8, Moves DEF Opens, Begins

LEMMA TableInit == Init => Table
<1>1. Init => Under /\ Heard /\ Last /\ Once /\ Accounted
  BY DEF Init, Under, Heard, Last, Once, Accounted, Sent, NoneYet
<1> QED BY <1>1, TypedInit DEF Table

LEMMA TableStep == Table /\ [Next]_vars => Table'
BY TypedStep, UnderStep, HeardStep, LastStep, OnceStep, AccountedStep DEF Table

LEMMA TableAlways == Spec => []Table
BY TableInit, TableStep, PTL DEF Spec

\* Once the end of a run has been taken out of the channel, what is still to be
\* shown of its hosts is in hand.
LEMMA InHand ==
    ASSUME Table, current # 0, sweep[current] = "ended", NEW h \in hosts, results[h] = Nil
    PROVE  \E e \in Sent \cup taken : e.token = current /\ e.host = h /\ e.what \in Endings
<1>1. current \in Run /\ h \in Host
  BY DEF Table, Typed
<1>2. work[current][h] = "done"
  <2>1. work[current][h] # "none" /\ work[current][h] \in {"none", "done"}
    BY <1>1 DEF Table, Under
  <2> QED BY <2>1
<1> QED BY <1>1, <1>2 DEF Table, Accounted

\* As long as a host of the run on screen has no result somebody reads, and once
\* a run has ended and all of it has been heard, every host of it has one.
THEOREM NoHostIsLeftWaiting == Spec => []EveryHostIsHeard
<1>1. Init => SomebodyReads
  BY DEF Init, SomebodyReads
<1>2. ASSUME Table, SomebodyReads, [Next]_vars PROVE SomebodyReads'
  <2>0. Typed /\ readers \in Nat
    BY <1>2 DEF Table, Typed
  <2>1. ASSUME NEW k \in Run, NEW h \in Host, Works(k, h) \/ Says(k, h) PROVE SomebodyReads'
    <3>1. Beside
      BY <2>1 DEF Works, Says
    <3> QED BY <1>2, <3>1 DEF Beside, screen, SomebodyReads, Finished
  <2>2. ASSUME NEW k \in Run, SweepEnds(k) PROVE SomebodyReads'
    BY <1>2, <2>2 DEF SweepEnds, screen, SomebodyReads, Finished
  <2>3. CASE Opens
    BY <2>3 DEF Opens, OpenSnippetRun, SomebodyReads, Finished
  <2>4. CASE Begins
    BY <2>0, <2>4 DEF Begins, StartSnippetRun, SomebodyReads
  <2>5. CASE Leaves
    BY <1>2, <2>5 DEF Leaves, post, SomebodyReads, Finished
  <2>6. CASE WaitRun
    BY <2>6 DEF WaitRun, SomebodyReads
  <2>7. ASSUME NEW e \in taken, HandleSnippetEvent(e) PROVE SomebodyReads'
    <3>1. CASE Rearms(e)
      BY <2>0, <2>7, <3>1 DEF HandleSnippetEvent, Readers, SomebodyReads
    <3>2. CASE ~ Rearms(e)
      <4>1. current # 0 /\ e.token = current /\ e.what = "done"
        BY <3>2 DEF Rearms, IsCurrent
      <4>2. UNCHANGED <<current, hosts, results>> /\ taken' = taken \ {e}
        BY <2>7, <4>1 DEF HandleSnippetEvent, Endings
      <4>3. sweep[current] = "ended"
        BY <1>2, <4>1 DEF Table, Heard
      <4>4. ASSUME NEW h \in hosts, results[h] = Nil PROVE taken' # {}
        <5>1. PICK f \in Sent \cup taken : f.token = current /\ f.host = h /\ f.what \in Endings
          BY <1>2, <4>1, <4>3, <4>4, InHand
        <5>2. f \notin Sent
          BY <1>2, <4>1, <5>1 DEF Table, Last
        <5>3. f # e
          BY <4>1, <5>1 DEF Endings
        <5> QED BY <4>2, <5>1, <5>2, <5>3
      <4> QED BY <4>2, <4>4 DEF SomebodyReads, Finished
    <3> QED BY <3>1, <3>2
  <2> QED BY <1>2, <2>0, <2>1, <2>2, <2>3, <2>4, <2>5, <2>6, <2>7, Moves
<1>3. ASSUME Table PROVE EveryHostGetsAWord
  <2> SUFFICES ASSUME NEW k \in Run, sweep[k] = "ended", current = k, channel = <<>>, taken = {},
                      NEW h \in hosts, results[h] = Nil
               PROVE  FALSE
    BY DEF EveryHostGetsAWord, Finished
  <2>1. current # 0
    BY SnippetRunAssumption
  <2>2. Sent \cup taken = {}
    BY DEF Sent
  <2> QED BY <1>3, <2>1, <2>2, InHand
<1> QED BY <1>1, <1>2, <1>3, TableAlways, PTL DEF Spec, EveryHostIsHeard

\* In a window's first run whatever is on its way is of that run.
LEMMA OneRun ==
    ASSUME Typed, Under, Heard, opened <= 1
    PROVE  /\ \A k \in Run : sweep[k] # "none" => opened = 1 /\ k = opened
           /\ \A e \in Sent \cup taken : opened = 1 /\ e.token = opened /\ sweep[opened] # "none"
           /\ current # 0 => current = opened /\ current \in Run
<1>1. opened \in Nat /\ (current # 0 => current = opened /\ current \in Run)
  BY DEF Typed
<1>2. ASSUME NEW k \in Run, sweep[k] # "none" PROVE opened = 1 /\ k = opened
  <2>1. k \in Nat \ {0} /\ ~ k > opened
    BY <1>2, SnippetRunAssumption DEF Under
  <2> QED BY <1>1, <2>1
<1>3. ASSUME NEW e \in Sent \cup taken PROVE opened = 1 /\ e.token = opened /\ sweep[opened] # "none"
  <2>1. e.token \in Run /\ sweep[e.token] # "none"
    BY Words DEF Heard
  <2> QED BY <1>2, <2>1
<1> QED BY <1>1, <1>2, <1>3

LEMMA FirstStep ==
    ASSUME Typed, Under, Heard, First, [Next]_vars
    PROVE  First'
<1>0. opened \in Nat /\ readers \in Nat /\ current \in {0, opened}
  BY DEF Typed
<1>1. ASSUME NEW k \in Run, NEW h \in Host, Works(k, h) \/ Says(k, h) PROVE First'
  <2>1. Beside
    BY <1>1 DEF Works, Says
  <2> QED BY <2>1 DEF Beside, screen, First
<1>2. ASSUME NEW k \in Run, SweepEnds(k) PROVE First'
  BY <1>2 DEF SweepEnds, screen, First
<1>3. CASE Opens
  <2>1. opened' = opened + 1 /\ hosts' = {} /\ readers' = readers /\ taken' = taken
    BY <1>3 DEF Opens, OpenSnippetRun, post
  <2> QED BY <1>0, <2>1 DEF First
<1>4. CASE Begins
  <2>1. hosts = {} /\ hosts' # {} /\ readers' = readers + 1 /\ UNCHANGED <<opened, taken>> /\ opened # 0
    BY <1>0, <1>4 DEF Begins, StartSnippetRun
  <2> QED BY <1>0, <2>1 DEF First
<1>5. CASE Leaves
  BY <1>5 DEF Leaves, post, First
<1>6. CASE WaitRun
  <2>1. readers > 0 /\ readers' = readers - 1 /\ taken' = taken \cup {Head(channel)} /\ UNCHANGED <<hosts, opened>>
    BY <1>6 DEF WaitRun, screen
  <2>2. ASSUME opened <= 1 PROVE readers' = 0 /\ taken' = {Head(channel)} /\ hosts # {}
    BY <1>0, <2>1, <2>2 DEF First
  <2> QED BY <2>1, <2>2 DEF First
<1>7. ASSUME NEW e \in taken, HandleSnippetEvent(e) PROVE First'
  <2>1. taken' = taken \ {e} /\ readers' \in {readers, readers + 1} /\ UNCHANGED <<hosts, opened>>
    BY <1>0, <1>7 DEF HandleSnippetEvent, Readers
  <2>2. ASSUME opened <= 1 PROVE taken = {e} /\ readers = 0 /\ hosts # {}
    BY <1>0, <2>2 DEF First
  <2> QED BY <2>1, <2>2 DEF First
<1> QED BY <1>1, <1>2, <1>3, <1>4, <1>5, <1>6, <1>7, Moves

\* The whole channel is the first of its words, as many as there are.
LEMMA LastIs == \A n : /\ n = Len(channel) => Shown(n) = ShownLast
                       /\ n = Len(channel)' => Shown(n)' = ShownLast'
BY DEF ShownLast, Shown, Coming

\* A table that shows no more than before, or only hosts that hold a slot, is a
\* table within the limit.
LEMMA FewIf ==
    ASSUME IsFiniteSet(Host), Typed, Typed', SlotsKept', Few, opened' <= 1 => opened <= 1,
           opened' <= 1 => \/ ShownNow' = {} \/ ShownNow' \subseteq ShownNow
                           \/ current # 0 /\ ShownNow' \subseteq Shown(0),
           opened' <= 1 /\ current' # 0 =>
               /\ \A j \in 0..Len(channel') :
                      \/ Shown(j)' \subseteq Holding(opened)'
                      \/ current # 0 /\ \E i \in 0..Len(channel) : Shown(j)' \subseteq Shown(i)
               /\ ShownLast' \subseteq Holding(opened)'
    PROVE  Few'
<1>1. /\ Holding(opened)' \subseteq Host /\ ShownNow' \subseteq Host /\ ShownNow \subseteq Host
      /\ \A i \in Nat : Shown(i) \subseteq Host /\ Shown(i)' \subseteq Host
      /\ Len(channel) \in Nat
  BY DEF Holding, ShownNow, Shown, Typed
<1>2. \A S, T : S \subseteq T /\ T \subseteq Host /\ Cardinality(T) <= Workers => Cardinality(S) <= Workers
  <2> SUFFICES ASSUME NEW S, NEW T, S \subseteq T, T \subseteq Host, Cardinality(T) <= Workers
               PROVE  Cardinality(S) <= Workers
    OBVIOUS
  <2>1. IsFiniteSet(T) /\ IsFiniteSet(S) /\ Cardinality(S) <= Cardinality(T)
    BY FS_Subset
  <2>2. Cardinality(T) \in Nat /\ Cardinality(S) \in Nat
    BY <2>1, FS_CardinalityType
  <2> QED BY <2>1, <2>2, SnippetRunAssumption
<1> SUFFICES ASSUME opened' <= 1
             PROVE  /\ Cardinality(ShownNow)' <= Workers
                    /\ current' # 0 => /\ \A j \in 0..Len(channel') : Cardinality(Shown(j)') <= Workers
                                       /\ ShownLast' \subseteq Holding(current)'
  BY DEF Few
<1>3. Cardinality(ShownNow') <= Workers
  <2>1. Cardinality({}) <= Workers
    BY FS_EmptySet, SnippetRunAssumption
  <2>2. current # 0 => Shown(0) \subseteq Host /\ Cardinality(Shown(0)) <= Workers
    BY <1>1 DEF Few
  <2>3. Cardinality(ShownNow) <= Workers
    BY DEF Few
  <2> QED BY <1>1, <1>2, <2>1, <2>2, <2>3
<1>4. ASSUME current' # 0, NEW j \in 0..Len(channel') PROVE Cardinality(Shown(j)') <= Workers
  <2>1. ASSUME Shown(j)' \subseteq Holding(opened)' PROVE Cardinality(Shown(j)') <= Workers
    <3>1. opened' \in Run
      BY <1>4 DEF Typed
    <3>2. Cardinality(Holding(opened)') <= Workers
      BY <3>1 DEF SlotsKept
    <3> QED BY <1>1, <1>2, <2>1, <3>2
  <2>2. ASSUME NEW i \in 0..Len(channel), Shown(j)' \subseteq Shown(i), current # 0
        PROVE  Cardinality(Shown(j)') <= Workers
    <3>1. Cardinality(Shown(i)) <= Workers
      BY <2>2 DEF Few
    <3> QED BY <1>1, <1>2, <2>2, <3>1
  <2> QED BY <1>4, <2>1, <2>2
<1>5. current' # 0 => ShownLast' \subseteq Holding(current)'
  BY DEF Typed
<1> QED BY <1>3, <1>4, <1>5

\* A host that goes on, or begins, holds a slot; the others hold what they held.
LEMMA HoldOn ==
    ASSUME Typed, NEW k \in Run, NEW h \in Host, NEW s \in {"begins", "starts", "runs", "killed"} \cup Endings,
           Set(k, h, s)
    PROVE  h \in Holding(k)' /\ \A l \in Run : Holding(l) \subseteq Holding(l)'
<1>1. h \in Holding(k)'
  BY DEF Set, Holding
<1>2. ASSUME NEW l \in Run, NEW g \in Holding(l) PROVE g \in Holding(l)'
  <2>1. CASE l = k /\ g = h
    BY <1>1, <2>1
  <2>2. CASE l # k \/ g # h
    <3>1. g \in Host /\ work'[l][g] = work[l][g]
      BY <1>2, <2>2 DEF Set, Holding
    <3> QED BY <1>2, <3>1 DEF Holding
  <2> QED BY <2>1, <2>2
<1> QED BY <1>1, <1>2

\* What is said last is heard last.
LEMMA ShownBefore ==
    ASSUME NEW j \in Nat, \A i \in 1..j : channel'[i] = channel[i], UNCHANGED <<taken, begun, results>>
    PROVE  Shown(j)' = Shown(j) /\ ShownNow' = ShownNow
<1>1. Coming(j)' = Coming(j)
  BY DEF Coming
<1> QED BY <1>1 DEF Shown, ShownNow

\* With one more in the channel, the table shows at most one more host, the one that begins.
LEMMA ShownAfter ==
    ASSUME Typed, NEW e, channel' = Append(channel, e), UNCHANGED <<taken, begun, results>>
    PROVE  \A h \in ShownLast' : /\ h \in ShownLast \/ (h = e.host /\ e.what = "began")
                                 /\ ~ (h = e.host /\ e.what \in Endings)
<1>1. PICK n : n = Len(channel)
  OBVIOUS
<1>2. /\ n \in Nat /\ Len(channel)' = n + 1 /\ channel'[n + 1] = e
      /\ \A i \in 1..n : channel'[i] = channel[i]
  BY <1>1, Appends
<1>3. Coming(n + 1)' = Coming(n) \cup {e}
  <2>1. \A i \in 1..(n + 1) : i \in 1..n \/ i = n + 1
    BY <1>2
  <2>2. {channel'[i] : i \in 1..(n + 1)} = {channel[i] : i \in 1..n} \cup {e}
    BY <1>2, <2>1
  <2> QED BY <2>2 DEF Coming
<1>4. ShownLast' = Shown(n + 1)' /\ ShownLast = Shown(n)
  BY <1>1, <1>2, LastIs
<1> QED BY <1>3, <1>4 DEF Shown

\* Taking the first word out of the channel changes nothing of what will be shown.
LEMMA ShownTaking ==
    ASSUME Typed, WaitRun, NEW j \in 0..Len(channel')
    PROVE  Shown(j)' = Shown(j + 1) /\ j + 1 \in 0..Len(channel)
<1>1. /\ Len(channel) \in Nat \ {0} /\ Len(channel)' = Len(channel) - 1
      /\ \A i \in 1..Len(channel') : channel'[i] = channel[i + 1]
      /\ taken' = taken \cup {channel[1]}
  BY Takings
<1>2. j \in Nat /\ j <= Len(channel) - 1
  BY <1>1
<1>3. {channel[1]} \cup {channel'[i] : i \in 1..j} = {channel[i] : i \in 1..(j + 1)}
  <2>1. \A i \in 1..j : i \in 1..Len(channel') /\ i + 1 \in 1..(j + 1) /\ channel'[i] = channel[i + 1]
    BY <1>1, <1>2
  <2>2. \A i \in 1..(j + 1) : i = 1 \/ (i - 1 \in 1..j /\ channel'[i - 1] = channel[i])
    <3> SUFFICES ASSUME NEW i \in 1..(j + 1), i # 1 PROVE i - 1 \in 1..j /\ channel'[i - 1] = channel[i]
      OBVIOUS
    <3>1. i - 1 \in 1..j /\ (i - 1) + 1 = i
      BY <1>2
    <3> QED BY <2>1, <3>1
  <2>3. 1 \in 1..(j + 1)
    BY <1>2
  <2>4. {channel'[i] : i \in 1..j} \subseteq {channel[i] : i \in 1..(j + 1)}
    <3> SUFFICES ASSUME NEW i \in 1..j PROVE \E l \in 1..(j + 1) : channel'[i] = channel[l]
      OBVIOUS
    <3> QED BY <2>1
  <2>5. {channel[i] : i \in 1..(j + 1)} \subseteq {channel[1]} \cup {channel'[i] : i \in 1..j}
    <3> SUFFICES ASSUME NEW i \in 1..(j + 1), i # 1 PROVE \E l \in 1..j : channel'[l] = channel[i]
      OBVIOUS
    <3> QED BY <2>2
  <2> QED BY <2>3, <2>4, <2>5
<1>4. Coming(j)' = Coming(j + 1)
  BY <1>1, <1>3 DEF Coming
<1>5. UNCHANGED <<begun, results>>
  BY DEF WaitRun, screen
<1> QED BY <1>1, <1>2, <1>4, <1>5 DEF Shown

\* An event of the run on screen goes from what is coming to what is there.
LEMMA ShownHandling ==
    ASSUME Typed, NEW e \in taken, HandleSnippetEvent(e), current # 0 => e.token = current, NEW j \in Nat
    PROVE  current # 0 => Shown(j)' \subseteq Shown(j)
<1> SUFFICES ASSUME current # 0, NEW h \in Shown(j)' PROVE h \in Shown(j)
  OBVIOUS
<1>1. IsCurrent(e) /\ e.token \in Run
  BY Words DEF IsCurrent
<1>2. /\ taken' = taken \ {e} /\ channel' = channel
      /\ begun' = IF e.what = "began" THEN begun \cup {e.host} ELSE begun
      /\ results' = IF e.what \in Endings
                    THEN [results EXCEPT ![e.host] = [token |-> e.token, how |-> e.what]]
                    ELSE results
  BY <1>1 DEF HandleSnippetEvent
<1>3. Coming(j) = Coming(j)' \cup {e} \/ Coming(j) \subseteq Coming(j)' \cup {e}
  BY <1>2 DEF Coming
<1>3a. Coming(j)' \subseteq Coming(j) /\ e \in Coming(j)
  BY <1>2 DEF Coming
<1>4. /\ h \in Host /\ results'[h] = Nil
      /\ h \in begun' \/ \E f \in Coming(j)' : f.host = h /\ f.what = "began"
      /\ ~ \E f \in Coming(j)' : f.host = h /\ f.what \in Endings
  BY DEF Shown
<1>5. results[h] = Nil /\ ~ (e.host = h /\ e.what \in Endings)
  <2>1. results \in [Host -> [token : Run, how : Endings] \cup {Nil}]
    BY DEF Typed
  <2> QED BY <1>1, <1>2, <1>4, <2>1, NilIsNoResult
<1>6. h \in begun \/ \E f \in Coming(j) : f.host = h /\ f.what = "began"
  <2>1. CASE h \in begun' /\ e.what = "began"
    BY <1>2, <1>3a, <2>1
  <2>2. CASE ~ (h \in begun' /\ e.what = "began")
    BY <1>2, <1>3a, <1>4, <2>2
  <2> QED BY <2>1, <2>2
<1> QED BY <1>3, <1>4, <1>5, <1>6 DEF Shown

LEMMA FewStep ==
    ASSUME IsFiniteSet(Host), Table, Typed', SlotsKept', First, Few, [Next]_vars
    PROVE  Few'
<1>0. Typed /\ Under /\ Heard /\ Len(channel) \in Nat /\ opened \in Nat
  BY DEF Table, Typed
<1>a. opened <= 1 /\ current # 0 => opened \in Run /\ ShownLast \subseteq Holding(opened)
                                    /\ current = opened
  BY <1>0 DEF Few, Typed
<1>1. ASSUME NEW k \in Run, NEW h \in Host, Works(k, h) PROVE Few'
  <2>1. PICK s \in {"begins", "runs", "killed"} \cup Endings : Set(k, h, s)
    BY <1>1 DEF Works
  <2>2. \A l \in Run : Holding(l) \subseteq Holding(l)'
    BY <1>0, <2>1, HoldOn
  <2>3. UNCHANGED <<channel, taken, begun, results, current, opened>>
    BY <1>1 DEF Works, Beside, screen
  <2>4. \A j \in Nat : Shown(j)' = Shown(j) /\ ShownNow' = ShownNow
    BY <2>3, ShownBefore
  <2>5. \A j \in 0..Len(channel') : j \in 0..Len(channel) /\ j \in Nat
    BY <1>0, <2>3
  <2>6. ShownLast' = ShownLast
    BY <2>3 DEF ShownLast, Shown, Coming
  <2> QED BY <1>0, <1>a, <2>2, <2>3, <2>4, <2>5, <2>6, FewIf
<1>2. ASSUME NEW e, Utters(e) PROVE Few'
  <2>1. channel' = Append(channel, e) /\ UNCHANGED <<taken, begun, results, current, opened>>
    BY <1>2 DEF Utters
  <2>2. Len(channel') = Len(channel) + 1 /\ \A i \in 1..Len(channel) : channel'[i] = channel[i]
    BY <1>0, <2>1, Appends
  <2>3. \A j \in 0..Len(channel) : j \in Nat /\ Shown(j)' = Shown(j) /\ ShownNow' = ShownNow
    BY <1>0, <2>1, <2>2, ShownBefore
  <2>4. ASSUME opened <= 1, current # 0 PROVE ShownLast' \subseteq Holding(opened)'
    <3>1. ASSUME NEW k \in Run, SweepEnds(k), e = Event(k, Nil, "done"), UNCHANGED work
          PROVE  ShownLast' \subseteq Holding(opened)'
      <4>1. ShownLast' \subseteq ShownLast
        BY <1>0, <2>1, <3>1, ShownAfter DEF Event
      <4>2. Holding(opened)' = Holding(opened)
        BY <2>1, <3>1 DEF Holding
      <4> QED BY <1>a, <2>4, <4>1, <4>2
    <3>2. ASSUME NEW k \in Run, NEW h \in Host, Says(k, h), work[k][h] = "begins", Set(k, h, "starts"),
                 e = Event(k, h, "began")
          PROVE  ShownLast' \subseteq Holding(opened)'
      <4>1. ShownLast' \subseteq ShownLast \cup {h}
        BY <1>0, <2>1, <3>2, ShownAfter DEF Event
      <4>2. h \in Holding(k)' /\ \A l \in Run : Holding(l) \subseteq Holding(l)'
        BY <1>0, <3>2, HoldOn
      <4>3. k = opened
        BY <1>0, <2>4, <3>2, Speaks, OneRun
      <4> QED BY <1>a, <2>1, <2>4, <4>1, <4>2, <4>3
    <3>3. ASSUME NEW k \in Run, NEW h \in Host, Says(k, h), work[k][h] \in Endings, Set(k, h, "done"),
                 e = Event(k, h, work[k][h])
          PROVE  ShownLast' \subseteq Holding(opened)'
      <4>1. ShownLast' \subseteq ShownLast \ {h}
        BY <1>0, <2>1, <3>3, ShownAfter DEF Event, Endings
      <4>2. Holding(opened) \ {h} \subseteq Holding(opened)'
        <5> SUFFICES ASSUME NEW g \in Holding(opened), g # h PROVE g \in Holding(opened)'
          OBVIOUS
        <5>1. g \in Host /\ opened \in Run /\ opened' = opened
          BY <1>a, <2>1, <2>4 DEF Holding
        <5>2. work'[opened][g] = work[opened][g]
          BY <3>3, <5>1 DEF Set
        <5> QED BY <5>1, <5>2 DEF Holding
      <4> QED BY <1>a, <2>4, <4>1, <4>2
    <3> QED BY <1>2, <3>1, <3>2, <3>3 DEF Utters
  <2>5. \A j \in 0..Len(channel') : j \in 0..Len(channel) \/ j = Len(channel)'
    BY <1>0, <2>2
  <2>6. \A j : j = Len(channel)' => Shown(j)' = ShownLast'
    BY LastIs
  <2> QED BY <1>0, <1>a, <2>1, <2>2, <2>3, <2>4, <2>5, <2>6, FewIf

<1>3. CASE Opens
  <2>1. opened' = opened + 1 /\ begun' = {} /\ UNCHANGED <<channel, taken>>
    BY <1>3 DEF Opens, OpenSnippetRun, post
  <2>2. ShownNow' = {}
    BY <2>1 DEF ShownNow
  <2>3. ASSUME opened' <= 1 PROVE Sent = {} /\ taken = {}
    <3>1. opened <= 1 /\ opened # 1
      BY <1>0, <2>1, <2>3
    <3> QED BY <1>0, <3>1, OneRun
  <2>4. ASSUME opened' <= 1, NEW j \in 0..Len(channel') PROVE Shown(j)' = {}
    <3>1. Coming(j)' = {}
      BY <1>0, <2>1, <2>3, <2>4 DEF Coming, Sent, Typed
    <3> QED BY <2>1, <3>1 DEF Shown
  <2>5. opened' <= 1 => ShownLast' = {}
    <3>1. PICK n \in 0..Len(channel') : n = Len(channel)'
      BY <1>0, <2>1
    <3> QED BY <2>4, <3>1, LastIs
  <2> QED BY <1>0, <2>1, <2>2, <2>4, <2>5, FewIf
<1>4. CASE Begins
  <2>1. current # 0 /\ hosts = {} /\ begun' = {} /\ UNCHANGED <<channel, taken, current, opened>>
    BY <1>4 DEF Begins, StartSnippetRun
  <2>2. ShownNow' = {}
    BY <2>1 DEF ShownNow
  <2>3. ASSUME opened <= 1 PROVE Sent = {} /\ taken = {}
    <3>1. sweep[opened] = "none"
      BY <1>0, <1>a, <2>1, <2>3 DEF Under
    <3> QED BY <1>0, <2>3, <3>1, OneRun
  <2>4. ASSUME opened <= 1, NEW j \in 0..Len(channel') PROVE Shown(j)' = {}
    <3>1. Coming(j)' = {}
      BY <1>0, <2>1, <2>3, <2>4 DEF Coming, Sent, Typed
    <3> QED BY <2>1, <3>1 DEF Shown
  <2>5. opened <= 1 => ShownLast' = {}
    <3>1. PICK n \in 0..Len(channel') : n = Len(channel)'
      BY <1>0, <2>1
    <3> QED BY <2>4, <3>1, LastIs
  <2> QED BY <1>0, <2>1, <2>2, <2>4, <2>5, FewIf
<1>5. CASE Leaves
  <2>1. UNCHANGED <<work, channel, taken, begun, results, opened>> /\ (current' # 0 => current # 0)
    BY <1>5 DEF Leaves, post
  <2>2. Holding(opened)' = Holding(opened) /\ ShownNow' = ShownNow
    BY <2>1 DEF Holding, ShownNow
  <2>3. \A j \in 0..Len(channel') : j \in 0..Len(channel) /\ Shown(j)' = Shown(j)
    BY <2>1 DEF Shown, Coming
  <2>4. ShownLast' = ShownLast
    BY <2>1 DEF ShownLast, Shown, Coming
  <2> QED BY <1>0, <1>a, <2>1, <2>2, <2>3, <2>4, FewIf
<1>6. CASE WaitRun
  <2>1. UNCHANGED <<work, begun, results, opened, current>> /\ Len(channel)' = Len(channel) - 1 /\ Len(channel) > 0
    BY <1>0, <1>6, Takings DEF WaitRun, goroutines, screen
  <2>2. Holding(opened)' = Holding(opened) /\ ShownNow' = ShownNow
    BY <2>1 DEF Holding, ShownNow
  <2>3. \A j \in 0..Len(channel') : j + 1 \in 0..Len(channel) /\ Shown(j)' = Shown(j + 1)
    BY <1>0, <1>6, ShownTaking
  <2>4. ShownLast' = ShownLast
    <3>1. PICK n \in 0..Len(channel') : n = Len(channel)' /\ n + 1 = Len(channel)
      BY <1>0, <2>1
    <3> QED BY <2>3, <3>1, LastIs
  <2> QED BY <1>0, <1>a, <2>1, <2>2, <2>3, <2>4, FewIf
<1>7. ASSUME NEW e \in taken, HandleSnippetEvent(e) PROVE Few'
  <2>1. UNCHANGED <<work, channel, opened, current>> /\ taken' = taken \ {e}
    BY <1>7 DEF HandleSnippetEvent, goroutines
  <2>2. opened <= 1 /\ current # 0 => e.token = current /\ taken' = {}
    BY <1>0, <2>1, OneRun DEF First
  <2>3. ASSUME opened <= 1, current # 0, NEW j \in Nat PROVE Shown(j)' \subseteq Shown(j)
    BY <1>0, <1>7, <2>2, <2>3, ShownHandling
  <2>4. Holding(opened)' = Holding(opened)
    BY <2>1 DEF Holding
  <2>5. \A j \in 0..Len(channel') : j \in 0..Len(channel) /\ j \in Nat
    BY <1>0, <2>1
  <2>6. ASSUME opened <= 1, current # 0 PROVE ShownLast' \subseteq ShownLast
    <3>1. PICK n \in Nat : n = Len(channel)
      BY <1>0
    <3> QED BY <2>1, <2>3, <2>6, <3>1, LastIs
  <2>7. ASSUME opened <= 1 PROVE ShownNow' \subseteq ShownNow \/ (current # 0 /\ ShownNow' \subseteq Shown(0))
    <3>1. CASE current = 0
      BY <1>7, <3>1 DEF HandleSnippetEvent, IsCurrent, ShownNow
    <3>2. CASE current # 0
      <4>1. Coming(0)' = {}
        BY <2>2, <2>7, <3>2 DEF Coming
      <4>2. ShownNow' \subseteq Shown(0)'
        BY <1>0, <4>1 DEF ShownNow, Shown, Typed
      <4> QED BY <2>3, <2>7, <3>2, <4>2
    <3> QED BY <3>1, <3>2
  <2> QED BY <1>0, <1>a, <2>1, <2>3, <2>4, <2>5, <2>6, <2>7, FewIf
<1>8. ASSUME NEW k \in Run, NEW h \in Host, Says(k, h) PROVE Few'
  BY <1>0, <1>2, <1>8, Utterances
<1>9. ASSUME NEW k \in Run, SweepEnds(k) PROVE Few'
  BY <1>0, <1>2, <1>9, Utterances
<1> QED BY <1>0, <1>1, <1>3, <1>4, <1>5, <1>6, <1>7, <1>8, <1>9, Moves

\* What the table shows is so: every result in it is of the run on screen, in a
\* window's first run no more hosts are shown as running than there are slots,
\* and a result stays what it is for as long as its run is on screen.
THEOREM TheTableIsSo ==
    ASSUME IsFiniteSet(Host)
    PROVE  Spec => TableIsTrue
<1>1. Init => First /\ Few
  <2> SUFFICES ASSUME Init PROVE First /\ Few
    OBVIOUS
  <2>1. First
    BY DEF Init, First
  <2>2. ShownNow = {} /\ current = 0
    BY DEF Init, ShownNow
  <2> QED BY <2>1, <2>2, FS_EmptySet, SnippetRunAssumption DEF Few
<1>2. ASSUME Table, Table', SlotsKept', First, Few, [Next]_vars PROVE First' /\ Few'
  <2>1. Typed /\ Under /\ Heard /\ Typed'
    BY <1>2 DEF Table
  <2> QED BY <1>2, <2>1, FirstStep, FewStep
<1>3. ASSUME Table, Few PROVE ResultsAreThisRuns /\ ShownWithinTheLimit
  BY <1>3 DEF Table, Under, Few, ShownNow, ResultsAreThisRuns, ShownWithinTheLimit
<1>4. ASSUME Table, [Next]_vars
      PROVE  [\A h \in Host : current # 0 /\ current' = current /\ results[h] # Nil
                  => results'[h] = results[h]]_vars
  <2> SUFFICES ASSUME NEW h \in Host, current # 0, current' = current, results[h] # Nil
               PROVE  results'[h] = results[h]
    OBVIOUS
  <2>1. Typed /\ Under /\ Heard /\ opened \in Nat /\ current = opened
    BY <1>4 DEF Table, Typed
  <2>2. ASSUME NEW k \in Run, NEW g \in Host, Works(k, g) \/ Says(k, g) PROVE results' = results
    BY <2>2 DEF Works, Says, Beside, screen
  <2>3. ASSUME NEW k \in Run, SweepEnds(k) PROVE results' = results
    BY <2>3 DEF SweepEnds, screen
  <2>4. ~ Opens
    BY <2>1 DEF Opens, OpenSnippetRun
  <2>5. ~ Begins
    <3>1. ASSUME Begins PROVE FALSE
      <4>1. hosts = {} /\ current \in Run
        BY <2>1, <3>1 DEF Begins, StartSnippetRun, Typed
      <4>2. work[current][h] = "none" /\ work[current][h] = "done"
        BY <2>1, <4>1 DEF Under
      <4> QED BY <4>2
    <3> QED BY <3>1
  <2>6. Leaves \/ WaitRun => results' = results
    BY DEF Leaves, WaitRun, screen
  <2>7. ASSUME NEW e \in taken, HandleSnippetEvent(e) PROVE results'[h] = results[h]
    <3>1. IsCurrent(e) /\ e.what \in Endings => e.host \in Host /\ e.host # h
      BY <2>1 DEF IsCurrent, Heard, Endings
    <3> QED BY <2>1, <2>7, <3>1 DEF HandleSnippetEvent, Typed
  <2> QED BY <1>4, <2>1, <2>2, <2>3, <2>4, <2>5, <2>6, <2>7, Moves
<1>5. Spec => [](First /\ Few)
  BY <1>1, <1>2, TableAlways, SlotsAlways, PTL DEF Spec
<1>6. Spec => [](ResultsAreThisRuns /\ ShownWithinTheLimit)
  BY <1>3, <1>5, TableAlways, PTL
<1>7. Spec => ResultsAreKept
  BY <1>4, TableAlways, PTL DEF Spec, ResultsAreKept
<1> QED BY <1>6, <1>7, PTL DEF TableIsTrue
=============================================================================
