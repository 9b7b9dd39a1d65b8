---------------------------- MODULE TransferProofs ----------------------------
(***************************************************************************)
(* What Transfer promises of the files and of the stop button, for any     *)
(* number of copies, files, chunks and sessions.                           *)
(***************************************************************************)
EXTENDS Transfer, FiniteSetTheorems, TLAPS

\* The user is taken not to send two copies to one path at once.
CopiesApart == Overlap \in {"never", "apart"}

\* Where a destination has to be removed before it is replaced, there is nothing to lose.
NothingRemoved == Posix \/ Remote \cap There = {}

-----------------------------------------------------------------------------
(* What is inductive.                                                      *)

Places  == {"idle", "mkdir", "next", "write", "rename", "clean", "report", "sent", "over"}
Copying == [pc : Places, i : Nat \ {0}, at : 0..Chunks, inode : Inode \cup {Nil},
            via : Session \cup {Nil}, off : BOOLEAN, asked : BOOLEAN,
            result : Outcomes, files : Nat, skipped : Nat]
Message == [copy : Copy, finished : BOOLEAN, at : Nat \X Nat]

Typed ==
    /\ copies \in [Copy -> Copying]
    /\ dest \in [File -> Inode \cup {Nil, Old}]
    /\ part \in [File -> Inode \cup {Nil}]
    /\ blob \in [Inode -> [1..Chunks -> Copy \cup {Nil}]]
    /\ sessions \in [Session -> {"none", "connecting", "open", "dead", "closed"}]
    /\ sess \in Session \cup {Nil} /\ asking \in Copy \cup {Nil}
    /\ cancel \in Copy \cup {Nil} /\ wished \subseteq Copy /\ met \subseteq Copy
    /\ mode \in {"browse", "sftp", "confirm", "quit"}
    /\ channel \in Seq(Message) /\ taken \subseteq Message /\ readers \in Nat
    /\ mode \in {"sftp", "confirm"} => sess # Nil
    /\ mode = "confirm" => asking # Nil /\ copies[asking].pc = "idle"
    /\ sess # Nil => sessions[sess] \notin {"none", "connecting"}

\* A copy at work on an entry has one, and was started on a session that had connected; what is
\* on its way to the window is from copies that were started.
AtWork(c) == copies[c].pc \in {"write", "rename", "clean"}
Sent == {channel[k] : k \in DOMAIN channel}
Placed ==
    /\ \A c \in Copy :
        /\ AtWork(c) => copies[c].i \in DOMAIN Tree[c]
        /\ copies[c].pc # "idle" => /\ copies[c].via \in Session
                                    /\ sessions[copies[c].via] \notin {"none", "connecting"}
        /\ copies[c].pc = "idle" => copies[c].i = 1 /\ copies[c].files = 0
    /\ \A m \in Sent \cup taken : copies[m.copy].pc # "idle"

\* No two copies that are under way have a path in common.
Disjoint(c, d) == \A k \in DOMAIN Tree[c], l \in DOMAIN Tree[d] : Tree[c][k] # Tree[d][l]
Separate ==
    /\ \A c, d \in Copy : c # d /\ InFlight(c) /\ InFlight(d) => Disjoint(c, d)
    /\ mode = "confirm" => \A d \in Copy : InFlight(d) => Disjoint(asking, d)

\* An inode is at one path, under one of its names; and one that its copy has still to make
\* is at none.
Ahead(c, k) == k > copies[c].i \/ (k = copies[c].i /\ copies[c].pc \in {"idle", "mkdir", "next"})
OneName ==
    /\ \A f \in File : /\ part[f] # Nil => part[f][2] = f /\ part[f] # dest[f]
                       /\ dest[f] \in Inode => dest[f][2] = f
    /\ \A c \in Copy : \A k \in DOMAIN Tree[c] :
           Ahead(c, k) => <<c, Tree[c][k]>> \notin {dest[Tree[c][k]], part[Tree[c][k]]}

\* What is in the part file is what its copy has written so far.
Has(c) == IF copies[c].pc = "write" THEN copies[c].at ELSE Chunks
OwnPart ==
    \A c \in Copy : copies[c].pc \in {"write", "rename"} =>
        /\ copies[c].inode # Nil /\ part[Now(c)] = copies[c].inode
        /\ \A k \in 1..Has(c) : blob[copies[c].inode][k] = c

\* A copy's files are at entries it has passed.
Passed ==
    \A c \in Copy : \A f \in Landed(c) : \E k \in DOMAIN Tree[c] : k < copies[c].i /\ Tree[c][k] = f

\* A single file that did not have to ask still finds nothing in its way.
NothingThere ==
    \A c \in Copy :
        InFlight(c) /\ Into[c] = Nil /\ ~ copies[c].asked /\ copies[c].i = 1 => dest[Tree[c][1]] = Nil

Files == Typed /\ Placed /\ Separate /\ OneName /\ OwnPart

\* The end of a copy is said once.
Said ==
    /\ \A m \in Sent \cup taken : m.finished => copies[m.copy].pc = "sent" /\ m.at = <<0, 0>>
    /\ \A k, l \in DOMAIN channel : channel[k].finished /\ channel[l].finished
                                    /\ channel[k].copy = channel[l].copy => k = l
    /\ \A m \in taken, n \in Sent : m.finished /\ n.finished => m.copy # n.copy

\* Of a copy that ran alone, the button is its own until somebody presses it.
Alone ==
    /\ \A c, d \in Copy : c \notin met /\ InFlight(c) /\ InFlight(d) => c = d
    /\ \A c \in Copy \ met : InFlight(c) /\ c \notin wished => cancel = c
    /\ \A c \in Copy \ met : copies[c].off => c \in wished \/ copies[c].pc = "over"
    /\ cancel # Nil => InFlight(cancel)
    /\ \A c \in Copy : copies[c].pc = "idle" => ~ copies[c].off /\ copies[c].result = "going" /\ c \notin wished

\* One reader, and so the words of a copy arrive in the order they were sent.
OneReader ==
    /\ readers <= 1 /\ (readers = 1 => taken = {}) /\ \A t, u \in taken : t = u
    /\ \A s \in Session : sessions[s] \in {"none", "connecting"} => readers = 0 /\ taken = {}
InOrder ==
    /\ \A m \in Sent \cup taken : copies[m.copy].pc \notin {"idle", "over"}
    /\ \A k, l \in DOMAIN channel : k < l /\ channel[k].copy = channel[l].copy => ~ channel[k].finished
    /\ \A m \in taken, n \in Sent : m.finished => m.copy # n.copy

-----------------------------------------------------------------------------
(* Steps, and types.                                                       *)

LEMMA Steps ==
    ASSUME [Next]_vars
    PROVE  \/ \E c \in Copy : \/ Mkdir(c) \/ NoMore(c) \/ ToldBetween(c) \/ Skip(c) \/ OpenFails(c)
                              \/ Create(c) \/ Write(c) \/ WriteFails(c)
                              \/ Replace(c) \/ RemoveFirst(c) \/ Rename(c) \/ ReplaceFails(c)
                              \/ Clean(c) \/ Report(c) \/ CopySelected(c)
           \/ \E yes \in BOOLEAN : Answer(yes)
           \/ Esc \/ PressQ \/ Quit
           \/ \E s \in Session : OpenSFTP(s) \/ SFTPConnected(s) \/ SFTPRefused(s) \/ Drop(s)
           \/ WaitTransfer
           \/ \E t \in taken : Update(t)
           \/ UNCHANGED vars
BY DEF Next, Keys, Goroutine

\* What a step of a goroutine does to its copy, and that it does nothing to the others.
Turn(c, pc, i, at, inode, result, files, skipped) ==
    /\ copies' \in [Copy -> Copying]
    /\ \A d \in Copy \ {c} : copies'[d] = copies[d]
    /\ copies'[c].pc = pc /\ copies'[c].i = i /\ copies'[c].at = at /\ copies'[c].inode = inode
    /\ copies'[c].result = result /\ copies'[c].files = files /\ copies'[c].skipped = skipped
    /\ copies'[c].via = copies[c].via /\ copies'[c].off = copies[c].off
    /\ copies'[c].asked = copies[c].asked
Stays(c, pc, result) ==
    Turn(c, pc, copies[c].i, copies[c].at, copies[c].inode, result, copies[c].files, copies[c].skipped)

LEMMA TurnIs ==
    ASSUME copies \in [Copy -> Copying], NEW c \in Copy, NEW r \in Copying,
           copies' = [copies EXCEPT ![c] = r],
           r.via = copies[c].via, r.off = copies[c].off, r.asked = copies[c].asked
    PROVE  Turn(c, r.pc, r.i, r.at, r.inode, r.result, r.files, r.skipped)
BY DEF Turn

LEMMA AtStays ==
    ASSUME copies \in [Copy -> Copying], NEW c \in Copy, NEW pc \in Places, copies' = At(c, pc)
    PROVE  Stays(c, pc, copies[c].result)
<1> DEFINE r == [copies[c] EXCEPT !.pc = pc]
<1>1. r \in Copying /\ r.via = copies[c].via /\ r.off = copies[c].off /\ r.asked = copies[c].asked
      /\ r.pc = pc /\ r.i = copies[c].i /\ r.at = copies[c].at /\ r.inode = copies[c].inode
      /\ r.result = copies[c].result /\ r.files = copies[c].files /\ r.skipped = copies[c].skipped
  BY DEF Copying
<1>2. copies' = [copies EXCEPT ![c] = r]
  BY DEF At
<1> HIDE DEF r
<1>3. Turn(c, r.pc, r.i, r.at, r.inode, r.result, r.files, r.skipped)
  BY <1>1, <1>2, TurnIs
<1> QED BY <1>1, <1>3 DEF Stays

LEMMA EndedStays ==
    ASSUME copies \in [Copy -> Copying], NEW c \in Copy, NEW pc \in Places, NEW why \in Outcomes,
           copies' = EndedBy(c, why, pc)
    PROVE  Stays(c, pc, why)
<1> DEFINE r == [copies[c] EXCEPT !.pc = pc, !.result = why]
<1>1. r \in Copying /\ r.via = copies[c].via /\ r.off = copies[c].off /\ r.asked = copies[c].asked
      /\ r.pc = pc /\ r.i = copies[c].i /\ r.at = copies[c].at /\ r.inode = copies[c].inode
      /\ r.result = why /\ r.files = copies[c].files /\ r.skipped = copies[c].skipped
  BY DEF Copying
<1>2. copies' = [copies EXCEPT ![c] = r]
  BY DEF EndedBy, Outcome, Copying
<1> HIDE DEF r
<1>3. Turn(c, r.pc, r.i, r.at, r.inode, r.result, r.files, r.skipped)
  BY <1>1, <1>2, TurnIs
<1> QED BY <1>1, <1>3 DEF Stays

LEMMA SkipTurns ==
    ASSUME copies \in [Copy -> Copying], NEW c \in Copy, Skip(c)
    PROVE  Turn(c, "next", copies[c].i + 1, copies[c].at, copies[c].inode, copies[c].result,
                copies[c].files, copies[c].skipped + 1)
<1> DEFINE r == [copies[c] EXCEPT !.i = @ + 1, !.skipped = @ + 1]
<1>0. copies[c] \in Copying
  OBVIOUS
<1>a. r \in Copying
  BY <1>0 DEF Copying, Skip, Takes
<1>1. r \in Copying /\ r.via = copies[c].via /\ r.off = copies[c].off /\ r.asked = copies[c].asked
      /\ r.pc = "next" /\ r.i = copies[c].i + 1 /\ r.at = copies[c].at /\ r.inode = copies[c].inode
      /\ r.result = copies[c].result /\ r.files = copies[c].files /\ r.skipped = copies[c].skipped + 1
  BY <1>0, <1>a DEF Copying, Skip, Takes
<1>2. copies' = [copies EXCEPT ![c] = r]
  BY DEF Skip, Copying
<1> HIDE DEF r
<1>3. Turn(c, r.pc, r.i, r.at, r.inode, r.result, r.files, r.skipped)
  BY <1>1, <1>2, TurnIs
<1> QED BY <1>1, <1>3

LEMMA WritingTurns ==
    ASSUME copies \in [Copy -> Copying], NEW c \in Copy, NEW inode \in Inode, copies' = Writing(c, inode)
    PROVE  Turn(c, "write", copies[c].i, 0, inode, copies[c].result, copies[c].files, copies[c].skipped)
<1> DEFINE r == [copies[c] EXCEPT !.pc = "write", !.at = 0, !.inode = inode]
<1>0. copies[c] \in Copying
  OBVIOUS
<1>a. r \in Copying
  <2>1. Chunks \in Nat
    BY TransferAssumption
  <2>2. 0 \in 0..Chunks /\ "write" \in Places
    BY <2>1 DEF Places
  <2> QED BY <1>0, <2>2 DEF Copying
<1>1. r \in Copying /\ r.via = copies[c].via /\ r.off = copies[c].off /\ r.asked = copies[c].asked
      /\ r.pc = "write" /\ r.i = copies[c].i /\ r.at = 0 /\ r.inode = inode
      /\ r.result = copies[c].result /\ r.files = copies[c].files /\ r.skipped = copies[c].skipped
  BY <1>0, <1>a DEF Copying
<1>2. copies' = [copies EXCEPT ![c] = r]
  BY DEF Writing, Copying
<1> HIDE DEF r
<1>3. Turn(c, r.pc, r.i, r.at, r.inode, r.result, r.files, r.skipped)
  BY <1>1, <1>2, TurnIs
<1> QED BY <1>1, <1>3

LEMMA WriteTurns ==
    ASSUME copies \in [Copy -> Copying], NEW c \in Copy, Write(c)
    PROVE  Turn(c, "write", copies[c].i, copies[c].at + 1, copies[c].inode, copies[c].result,
                copies[c].files, copies[c].skipped)
<1> DEFINE r == [copies[c] EXCEPT !.at = @ + 1]
<1>0. copies[c] \in Copying
  OBVIOUS
<1>a. r \in Copying
  <2>1. Chunks \in Nat /\ copies[c].at \in 0..Chunks /\ copies[c].at < Chunks
    BY <1>0, TransferAssumption DEF Copying, Write, Sending
  <2>2. copies[c].at + 1 \in 0..Chunks
    BY <2>1
  <2> QED BY <1>0, <2>2 DEF Copying
<1>1. r \in Copying /\ r.via = copies[c].via /\ r.off = copies[c].off /\ r.asked = copies[c].asked
      /\ r.pc = "write" /\ r.i = copies[c].i /\ r.at = copies[c].at + 1 /\ r.inode = copies[c].inode
      /\ r.result = copies[c].result /\ r.files = copies[c].files /\ r.skipped = copies[c].skipped
  BY <1>0, <1>a DEF Copying, Write, Sending
<1>2. copies' = [copies EXCEPT ![c] = r]
  BY DEF Write
<1> HIDE DEF r
<1>3. Turn(c, r.pc, r.i, r.at, r.inode, r.result, r.files, r.skipped)
  BY <1>1, <1>2, TurnIs
<1> QED BY <1>1, <1>3

LEMMA ArrivedTurns ==
    ASSUME copies \in [Copy -> Copying], NEW c \in Copy, copies' = Arrived(c)
    PROVE  Turn(c, "next", copies[c].i + 1, copies[c].at, copies[c].inode, copies[c].result,
                copies[c].files + 1, copies[c].skipped)
<1> DEFINE r == [copies[c] EXCEPT !.pc = "next", !.i = @ + 1, !.files = @ + 1]
<1>0. copies[c] \in Copying
  OBVIOUS
<1>a. r \in Copying
  <2>1. "next" \in Places /\ copies[c].i + 1 \in Nat \ {0} /\ copies[c].files + 1 \in Nat
    BY <1>0 DEF Copying, Places
  <2> QED BY <1>0, <2>1 DEF Copying
<1>1. r \in Copying /\ r.via = copies[c].via /\ r.off = copies[c].off /\ r.asked = copies[c].asked
      /\ r.pc = "next" /\ r.i = copies[c].i + 1 /\ r.at = copies[c].at /\ r.inode = copies[c].inode
      /\ r.result = copies[c].result /\ r.files = copies[c].files + 1 /\ r.skipped = copies[c].skipped
  BY <1>0, <1>a DEF Copying
<1>2. copies' = [copies EXCEPT ![c] = r]
  BY DEF Arrived, Copying
<1> HIDE DEF r
<1>3. Turn(c, r.pc, r.i, r.at, r.inode, r.result, r.files, r.skipped)
  BY <1>1, <1>2, TurnIs
<1> QED BY <1>1, <1>3

\* What the window does to a record: everything but these fields stays.
Same(d) ==
    /\ copies'[d].i = copies[d].i /\ copies'[d].at = copies[d].at /\ copies'[d].inode = copies[d].inode
    /\ copies'[d].result = copies[d].result /\ copies'[d].files = copies[d].files
    /\ copies'[d].skipped = copies[d].skipped
Told ==
    /\ copies' \in [Copy -> Copying]
    /\ \A d \in Copy : /\ Same(d) /\ copies'[d].via = copies[d].via /\ copies'[d].asked = copies[d].asked
                       /\ copies'[d].off <=> copies[d].off \/ d = cancel

LEMMA StartIs ==
    ASSUME Typed, NEW c \in Copy, NEW asked \in BOOLEAN, Start(c, asked)
    PROVE  /\ copies' \in [Copy -> Copying]
           /\ \A d \in Copy \ {c} : copies'[d] = copies[d]
           /\ Same(c) /\ copies'[c].off = copies[c].off /\ copies'[c].via = sess /\ copies'[c].asked = asked
           /\ copies'[c].pc = IF Into[c] = Nil THEN "next" ELSE "mkdir"
<1> DEFINE pc == IF Into[c] = Nil THEN "next" ELSE "mkdir"
           r == [copies[c] EXCEPT !.pc = pc, !.via = sess, !.asked = asked]
<1>1. copies[c] \in Copying /\ sess \in Session \cup {Nil} /\ pc \in Places
  BY DEF Typed, Places
<1>2. copies' = [copies EXCEPT ![c] = r]
  BY <1>1 DEF Start, Typed, Copying
<1> HIDE DEF pc
<1>3. r \in Copying
  BY <1>1 DEF Copying
<1>4. /\ r.i = copies[c].i /\ r.at = copies[c].at /\ r.inode = copies[c].inode /\ r.result = copies[c].result
      /\ r.files = copies[c].files /\ r.skipped = copies[c].skipped /\ r.off = copies[c].off
      /\ r.via = sess /\ r.asked = asked /\ r.pc = pc
  BY <1>1 DEF Copying
<1> HIDE DEF r
<1> QED BY <1>2, <1>3, <1>4 DEF Same, Typed, pc

LEMMA CancelledIs ==
    ASSUME Typed
    PROVE  /\ Cancelled \in [Copy -> Copying]
           /\ \A d \in Copy : /\ Cancelled[d].pc = copies[d].pc /\ Cancelled[d].i = copies[d].i
                              /\ Cancelled[d].at = copies[d].at /\ Cancelled[d].inode = copies[d].inode
                              /\ Cancelled[d].result = copies[d].result /\ Cancelled[d].files = copies[d].files
                              /\ Cancelled[d].skipped = copies[d].skipped /\ Cancelled[d].via = copies[d].via
                              /\ Cancelled[d].asked = copies[d].asked
                              /\ Cancelled[d].off <=> copies[d].off \/ d = cancel
<1>1. CASE cancel = Nil
  BY <1>1, TransferAssumption DEF Cancelled, Typed
<1>2. CASE cancel # Nil
  <2> DEFINE r == [copies[cancel] EXCEPT !.off = TRUE]
  <2>1. cancel \in Copy /\ copies[cancel] \in Copying
    BY <1>2 DEF Typed
  <2>2. Cancelled = [copies EXCEPT ![cancel] = r]
    BY <1>2 DEF Cancelled
  <2>3. r \in Copying /\ r.off
    BY <2>1 DEF Copying
  <2>4. /\ r.pc = copies[cancel].pc /\ r.i = copies[cancel].i /\ r.at = copies[cancel].at
        /\ r.inode = copies[cancel].inode /\ r.result = copies[cancel].result
        /\ r.files = copies[cancel].files /\ r.skipped = copies[cancel].skipped
        /\ r.via = copies[cancel].via /\ r.asked = copies[cancel].asked
    BY <2>1 DEF Copying
  <2> HIDE DEF r
  <2>5. Cancelled \in [Copy -> Copying] /\ Cancelled[cancel] = r
        /\ \A d \in Copy \ {cancel} : Cancelled[d] = copies[d]
    BY <2>1, <2>2, <2>3 DEF Typed
  <2> QED BY <2>3, <2>4, <2>5 DEF Typed
<1> QED BY <1>1, <1>2

LEMMA StopIs ==
    ASSUME Typed, Stop
    PROVE  Told /\ \A d \in Copy : copies'[d].pc = copies[d].pc
BY CancelledIs DEF Stop, Told, Same

LEMMA DoneIs ==
    ASSUME Typed, NEW c \in Copy, Done(c)
    PROVE  Told /\ copies'[c].pc = "over" /\ \A d \in Copy \ {c} : copies'[d].pc = copies[d].pc
<1> DEFINE f == Cancelled
           r == [f[c] EXCEPT !.pc = "over"]
<1>1. f \in [Copy -> Copying] /\ copies' = [f EXCEPT ![c] = r]
  BY CancelledIs DEF Done
<1>2. r \in Copying /\ r.pc = "over"
  BY <1>1 DEF Copying, Places
<1>3. /\ r.i = f[c].i /\ r.at = f[c].at /\ r.inode = f[c].inode /\ r.result = f[c].result
      /\ r.files = f[c].files /\ r.skipped = f[c].skipped
      /\ r.via = f[c].via /\ r.asked = f[c].asked /\ r.off = f[c].off
  BY <1>1 DEF Copying
<1> HIDE DEF r
<1>4. copies' \in [Copy -> Copying] /\ copies'[c] = r /\ \A d \in Copy \ {c} : copies'[d] = f[d]
  BY <1>1, <1>2
<1> QED BY <1>2, <1>3, <1>4, CancelledIs DEF Told, Same

LEMMA TypedInit == Init => Typed
<1> SUFFICES ASSUME Init PROVE Typed
  OBVIOUS
<1>1. Chunks \in Nat
  BY TransferAssumption
<1>2. copies \in [Copy -> Copying]
  BY <1>1 DEF Init, Copying, Places, Outcomes
<1>3. blob \in [Inode -> [1..Chunks -> Copy \cup {Nil}]]
  BY DEF Init, Empty
<1>4. channel \in Seq(Message)
  BY DEF Init
<1> QED BY <1>2, <1>3, <1>4 DEF Init, Typed

\* A goroutine has its own copy, the disk and the channel, and nothing of the window.
LEMMA TypedTurn ==
    ASSUME Typed, NEW c \in Copy, copies[c].pc # "idle",
           copies' \in [Copy -> Copying], \A d \in Copy \ {c} : copies'[d] = copies[d],
           dest' \in [File -> Inode \cup {Nil, Old}], part' \in [File -> Inode \cup {Nil}],
           blob' \in [Inode -> [1..Chunks -> Copy \cup {Nil}]],
           channel' \in Seq(Message), UNCHANGED <<ui, cancel, past, readers, taken>>
    PROVE  Typed'
BY DEF Typed, ui, past

LEMMA Messages ==
    ASSUME Typed, NEW c \in Copy, copies[c].at \in Nat
    PROVE  Progress(c) \in Message /\ Finished(c) \in Message
<1>1. copies[c].i \in Nat /\ copies[c].at + 1 \in Nat
  BY DEF Typed, Copying
<1> QED BY <1>1 DEF Progress, Finished, Message

LEMMA TypedGoroutine ==
    ASSUME Typed, Placed, NEW c \in Copy,
           \/ Mkdir(c) \/ NoMore(c) \/ ToldBetween(c) \/ Skip(c) \/ OpenFails(c)
           \/ Create(c) \/ Write(c) \/ WriteFails(c) \/ Replace(c) \/ RemoveFirst(c)
           \/ Rename(c) \/ ReplaceFails(c) \/ Clean(c) \/ Report(c)
    PROVE  Typed'
<1>0. /\ copies \in [Copy -> Copying] /\ copies[c] \in Copying
      /\ dest \in [File -> Inode \cup {Nil, Old}] /\ part \in [File -> Inode \cup {Nil}]
      /\ blob \in [Inode -> [1..Chunks -> Copy \cup {Nil}]] /\ channel \in Seq(Message)
  BY DEF Typed
<1>1. Nil \notin Inode /\ Chunks \in Nat /\ \A d \in Copy : Tree[d] \in Seq(File)
  BY TransferAssumption DEF Inode
<1>2. \A k \in Nat \ {0} : k <= Len(Tree[c]) => k \in DOMAIN Tree[c] /\ Tree[c][k] \in File
  BY <1>1
<1>3. copies[c].pc \in {"write", "rename", "clean", "next"} /\ copies[c].i <= Len(Tree[c]) => Now(c) \in File
  BY <1>0, <1>2 DEF Now, Copying
<1>4. AtWork(c) => Now(c) \in File
  BY <1>1 DEF Placed, Now
<1>5. {"next", "report", "clean", "rename", "sent"} \subseteq Places
      /\ {"worked", "stopped", "broken"} \subseteq Outcomes
  BY DEF Places, Outcomes
<1>6. ASSUME copies' = EndedBy(c, "worked", "report") \/ copies' = EndedBy(c, "stopped", "report")
             \/ copies' = EndedBy(c, "broken", "report")
             \/ copies' = EndedBy(c, "stopped", "clean") \/ copies' = EndedBy(c, "broken", "clean")
             \/ copies' = At(c, "next") \/ copies' = At(c, "rename") \/ copies' = At(c, "report")
             \/ copies' = At(c, "sent")
      PROVE  copies' \in [Copy -> Copying] /\ \A d \in Copy \ {c} : copies'[d] = copies[d]
  <2>1. \A pc \in Places, why \in Outcomes :
            copies' = EndedBy(c, why, pc) \/ copies' = At(c, pc) =>
                copies' \in [Copy -> Copying] /\ \A d \in Copy \ {c} : copies'[d] = copies[d]
    BY <1>0, EndedStays, AtStays DEF Stays, Turn
  <2> QED BY <1>5, <1>6, <2>1
<1>7. CASE Mkdir(c)
  BY <1>0, <1>6, <1>7, TypedTurn DEF Mkdir, ui, post, past
<1>8. CASE NoMore(c) \/ ToldBetween(c) \/ OpenFails(c) \/ WriteFails(c) \/ ReplaceFails(c)
  BY <1>0, <1>6, <1>8, TypedTurn
  DEF NoMore, ToldBetween, OpenFails, WriteFails, ReplaceFails, Written, Sending, Takes, disk, ui, post, past
<1>9. CASE Skip(c)
  <2>1. copies' \in [Copy -> Copying] /\ \A d \in Copy \ {c} : copies'[d] = copies[d]
    BY <1>0, <1>9, SkipTurns DEF Turn
  <2> QED BY <1>0, <1>9, <2>1, TypedTurn DEF Skip, Takes, disk, ui, post, past
<1>10. CASE Create(c)
  <2>1. Now(c) \in File
    BY <1>3, <1>10 DEF Create, Opens, Takes
  <2>2. PICK i \in Inode : part' = [part EXCEPT ![Now(c)] = i] /\ blob' = [blob EXCEPT ![i] = Empty]
                           /\ copies' = Writing(c, i)
    <3>1. <<c, Now(c)>> \in Inode /\ (part[Now(c)] # Nil => part[Now(c)] \in Inode)
      BY <2>1, <1>0 DEF Inode
    <3> QED BY <1>10, <3>1 DEF Create
  <2>3. copies' \in [Copy -> Copying] /\ \A d \in Copy \ {c} : copies'[d] = copies[d]
    BY <1>0, <2>2, WritingTurns DEF Turn
  <2>4. part' \in [File -> Inode \cup {Nil}] /\ blob' \in [Inode -> [1..Chunks -> Copy \cup {Nil}]]
    BY <1>0, <2>1, <2>2 DEF Empty
  <2> QED BY <1>0, <1>10, <2>3, <2>4, TypedTurn DEF Create, Opens, Takes, ui, post, past
<1>11. CASE Write(c)
  <2>1. copies' \in [Copy -> Copying] /\ \A d \in Copy \ {c} : copies'[d] = copies[d]
    BY <1>0, <1>11, WriteTurns DEF Turn
  <2>2. channel' \in Seq(Message)
    <3>1. copies[c].at \in Nat
      BY <1>0, <1>1 DEF Copying
    <3>2. Progress(c) \in Message
      BY <3>1, Messages
    <3>3. channel' = channel \/ channel' = Append(channel, Progress(c))
      BY <1>11, Zenon DEF Write
    <3> QED BY <1>0, <3>2, <3>3
  <2>3. blob' \in [Inode -> [1..Chunks -> Copy \cup {Nil}]]
    BY <1>0, <1>11 DEF Write
  <2> QED BY <1>0, <1>11, <2>1, <2>2, <2>3, TypedTurn DEF Write, Sending, ui, past
<1>12. CASE Replace(c) \/ Rename(c)
  <2>1. copies' \in [Copy -> Copying] /\ \A d \in Copy \ {c} : copies'[d] = copies[d]
    BY <1>0, <1>12, ArrivedTurns DEF Replace, Rename, MovePart, Turn
  <2>2. Now(c) \in File
    BY <1>4, <1>12 DEF Replace, Rename, Written, AtWork
  <2>3. dest' \in [File -> Inode \cup {Nil, Old}] /\ part' \in [File -> Inode \cup {Nil}]
    BY <1>0, <1>12, <2>2 DEF Replace, Rename, MovePart
  <2> QED BY <1>0, <1>12, <2>1, <2>3, TypedTurn DEF Replace, Rename, MovePart, Written, ui, post, past
<1>13. CASE RemoveFirst(c)
  <2>1. dest' \in [File -> Inode \cup {Nil, Old}]
    BY <1>0, <1>13 DEF RemoveFirst
  <2> QED BY <1>0, <1>6, <1>13, <2>1, TypedTurn DEF RemoveFirst, Written, ui, post, past
<1>14. CASE Clean(c)
  <2>1. part' \in [File -> Inode \cup {Nil}]
    BY <1>0, <1>14 DEF Clean
  <2> QED BY <1>0, <1>6, <1>14, <2>1, TypedTurn DEF Clean, ui, post, past
<1>15. CASE Report(c)
  <2>1. channel' \in Seq(Message)
    <3>1. copies[c].at \in Nat
      BY <1>0, <1>1 DEF Copying
    <3>2. Finished(c) \in Message
      BY <3>1, Messages
    <3> QED BY <1>0, <1>15, <3>2 DEF Report
  <2> QED BY <1>0, <1>6, <1>15, <2>1, TypedTurn DEF Report, disk, ui, past
<1> QED BY <1>7, <1>8, <1>9, <1>10, <1>11, <1>12, <1>13, <1>14, <1>15

LEMMA TypedStep ==
    ASSUME Typed, Placed, [Next]_vars
    PROVE  Typed'
<1>0. /\ copies \in [Copy -> Copying] /\ channel \in Seq(Message) /\ taken \subseteq Message
      /\ readers \in Nat
      /\ sessions \in [Session -> {"none", "connecting", "open", "dead", "closed"}]
  BY DEF Typed
<1>00. Nil \notin Copy /\ Nil \notin Session
  BY TransferAssumption
<1> USE DEF ui, disk, post, past
<1>1. ASSUME NEW c \in Copy, NEW asked \in BOOLEAN, Start(c, asked), mode' # "confirm",
             UNCHANGED <<disk, sessions, sess, post, wished>>,
             mode' \in {"browse", "sftp", "confirm", "quit"}, mode \in {"sftp", "confirm"},
             asking' \in Copy \cup {Nil}
      PROVE  Typed'
  <2>1. copies' \in [Copy -> Copying]
    BY <1>1, StartIs
  <2>2. met' \subseteq Copy /\ cancel' \in Copy
    BY <1>1 DEF Start, Together, Begin, Typed
  <2> QED BY <1>1, <2>1, <2>2 DEF Typed
<1>2. ASSUME NEW c \in Copy, CopySelected(c) PROVE Typed'
  <2>1. CASE Taken(c)
    BY <1>00, <1>2, <2>1 DEF CopySelected, Typed
  <2>2. CASE ~ Taken(c)
    BY <1>1, <1>2, <2>2 DEF CopySelected, Typed
  <2> QED BY <2>1, <2>2
<1>3. ASSUME NEW yes \in BOOLEAN, Answer(yes) PROVE Typed'
  <2>1. CASE yes
    BY <1>1, <1>3, <2>1 DEF Answer, Typed
  <2>2. CASE ~ yes
    BY <1>3, <2>2 DEF Answer, Typed
  <2> QED BY <2>1, <2>2
<1>4. ASSUME Stop, UNCHANGED <<disk, post>>, asking' = asking,
             \/ UNCHANGED <<sessions, sess, mode>>
             \/ sessions' = Closed /\ sess' = Nil /\ mode' = "browse"
      PROVE  Typed'
  <2>1. copies' \in [Copy -> Copying] /\ \A d \in Copy : copies'[d].pc = copies[d].pc
    BY <1>4, StopIs DEF Told
  <2>2. wished' \subseteq Copy /\ cancel' = Nil /\ met' = met
    BY <1>4 DEF Stop, Typed
  <2>3. sessions' \in [Session -> {"none", "connecting", "open", "dead", "closed"}]
    BY <1>0, <1>4 DEF Closed
  <2> QED BY <1>4, <2>1, <2>2, <2>3 DEF Typed
<1>5. ASSUME Esc \/ PressQ PROVE Typed'
  BY <1>4, <1>5, Zenon DEF Esc, PressQ, Leave
<1>6. ASSUME Quit PROVE Typed'
  <2>1. sessions' \in [Session -> {"none", "connecting", "open", "dead", "closed"}]
        /\ (sess # Nil => sessions'[sess] = "closed")
    BY <1>0, <1>6 DEF Quit, Closed, Typed
  <2> QED BY <1>6, <2>1 DEF Quit, Typed
<1>7. ASSUME NEW s \in Session, OpenSFTP(s) \/ SFTPConnected(s) \/ SFTPRefused(s) \/ Drop(s)
      PROVE  Typed'
  BY <1>7, <1>0, <1>00 DEF OpenSFTP, SFTPConnected, SFTPRefused, Drop, Typed
<1>8. ASSUME WaitTransfer PROVE Typed'
  <2>1. Head(channel) \in Message /\ channel' \in Seq(Message) /\ readers' \in Nat
    BY <1>8, <1>0 DEF WaitTransfer
  <2> QED BY <1>8, <2>1 DEF WaitTransfer, Typed
<1>9. ASSUME NEW t \in taken, Update(t) PROVE Typed'
  <2>1. taken' \subseteq Message /\ readers' \in Nat /\ t.copy \in Copy
    BY <1>9, <1>0 DEF Update, Handled, Message
  <2>2. CASE t.finished
    <3>1. Done(t.copy)
      BY <1>9, <2>2 DEF Update, Handled
    <3>2. copies' \in [Copy -> Copying] /\ \A d \in Copy : copies'[d].pc \in {copies[d].pc, "over"}
      BY <2>1, <3>1, DoneIs DEF Told
    <3>3. \A d \in Copy \ {t.copy} : copies'[d].pc = copies[d].pc
      BY <2>1, <3>1, DoneIs DEF Told
    <3>4. copies[t.copy].pc # "idle"
      BY <1>9 DEF Placed
    <3> QED BY <1>9, <2>1, <3>1, <3>2, <3>3, <3>4 DEF Update, Handled, Done, Typed
  <2>3. CASE ~ t.finished
    BY <1>9, <2>1, <2>3 DEF Update, Handled, Typed
  <2> QED BY <2>2, <2>3
<1>10. ASSUME UNCHANGED vars PROVE Typed'
  BY <1>10 DEF vars, Typed
<1> QED BY <1>2, <1>3, <1>5, <1>6, <1>7, <1>8, <1>9, <1>10, Steps, TypedGoroutine

-----------------------------------------------------------------------------
(* Where a copy goes from where it is.                                     *)

\* A step of a copy that moves on from its entry to another state, and counts nothing.
Rests(c) ==
    \E pc \in Places, why \in Outcomes :
        /\ Stays(c, pc, why)
        /\ \/ copies[c].pc = "mkdir" /\ pc \in {"next", "report"}
           \/ copies[c].pc = "next" /\ pc = "report"
           \/ copies[c].pc = "write" /\ pc = "rename" /\ copies[c].at = Chunks
           \/ copies[c].pc \in {"write", "rename"} /\ pc = "clean"
           \/ copies[c].pc = "clean" /\ pc = "report"
           \/ copies[c].pc = "report" /\ pc = "sent"
        /\ why = "stopped" => copies[c].off \/ copies[c].result = "stopped"

LEMMA Resting ==
    ASSUME copies \in [Copy -> Copying], NEW c \in Copy,
           \/ Mkdir(c) \/ NoMore(c) \/ ToldBetween(c) \/ OpenFails(c) \/ WriteFails(c)
           \/ ReplaceFails(c) \/ RemoveFirst(c) \/ Clean(c) \/ Report(c)
    PROVE  Rests(c)
<1>0. copies[c].result \in Outcomes
  BY DEF Copying
<1>1. ASSUME NEW pc \in Places, copies' = At(c, pc),
             \/ copies[c].pc = "mkdir" /\ pc = "next"
             \/ copies[c].pc = "write" /\ pc = "rename" /\ copies[c].at = Chunks
             \/ copies[c].pc = "clean" /\ pc = "report"
             \/ copies[c].pc = "report" /\ pc = "sent"
      PROVE  Rests(c)
  <2>1. Stays(c, pc, copies[c].result)
    BY <1>1, AtStays
  <2> QED BY <1>0, <1>1, <2>1 DEF Rests
<1>2. ASSUME NEW pc \in Places, NEW why \in Outcomes, copies' = EndedBy(c, why, pc),
             \/ copies[c].pc \in {"mkdir", "next"} /\ pc = "report"
             \/ copies[c].pc \in {"write", "rename"} /\ pc = "clean",
             why = "stopped" => copies[c].off
      PROVE  Rests(c)
  <2>1. Stays(c, pc, why)
    BY <1>2, EndedStays
  <2> QED BY <1>2, <2>1 DEF Rests
<1>3. {"next", "report", "clean", "rename", "sent"} \subseteq Places
      /\ {"worked", "stopped", "broken"} \subseteq Outcomes
  BY DEF Places, Outcomes
<1>4. CASE Mkdir(c)
  BY <1>1, <1>2, <1>3, <1>4 DEF Mkdir
<1>5. CASE NoMore(c) \/ ToldBetween(c) \/ OpenFails(c)
  BY <1>2, <1>3, <1>5 DEF NoMore, ToldBetween, OpenFails, Takes
<1>6. CASE WriteFails(c) \/ ReplaceFails(c)
  BY <1>2, <1>3, <1>6 DEF WriteFails, ReplaceFails, Written
<1>7. CASE RemoveFirst(c)
  BY <1>1, <1>3, <1>7 DEF RemoveFirst, Written
<1>8. CASE Clean(c)
  BY <1>1, <1>3, <1>8 DEF Clean
<1>9. CASE Report(c)
  BY <1>1, <1>3, <1>9 DEF Report
<1> QED BY <1>4, <1>5, <1>6, <1>7, <1>8, <1>9

\* The other steps of a copy: over a link, into a part file, on in it, and out of it.
Opened(c)  == \E inode \in Inode : Turn(c, "write", copies[c].i, 0, inode, copies[c].result,
                                        copies[c].files, copies[c].skipped)
                                   /\ copies[c].pc = "next" /\ copies[c].i \in DOMAIN Tree[c]
Wrote(c)   == Turn(c, "write", copies[c].i, copies[c].at + 1, copies[c].inode, copies[c].result,
                   copies[c].files, copies[c].skipped) /\ copies[c].pc = "write"
Passes(c)  == \E n \in {0, 1}, m \in {0, 1} :
                  Turn(c, "next", copies[c].i + 1, copies[c].at, copies[c].inode, copies[c].result,
                       copies[c].files + n, copies[c].skipped + m)
                  /\ copies[c].pc \in {"next", "write", "rename"}

LEMMA Moving ==
    ASSUME Typed, NEW c \in Copy
    PROVE  /\ Skip(c) => Passes(c)
           /\ Create(c) => Opened(c)
           /\ Write(c) => Wrote(c)
           /\ Replace(c) \/ Rename(c) => Passes(c)
<1>0. copies \in [Copy -> Copying] /\ copies[c] \in Copying /\ part \in [File -> Inode \cup {Nil}]
      /\ copies[c].files \in Nat /\ copies[c].skipped \in Nat
  BY DEF Typed, Copying
<1>1. ASSUME Skip(c) PROVE Passes(c)
  <2>1. Turn(c, "next", copies[c].i + 1, copies[c].at, copies[c].inode, copies[c].result,
             copies[c].files + 0, copies[c].skipped + 1)
    BY <1>0, <1>1, SkipTurns
  <2> QED BY <1>1, <2>1 DEF Passes, Skip, Takes
<1>2. ASSUME Create(c) PROVE Opened(c)
  <2>1. copies[c].i \in DOMAIN Tree[c] /\ Now(c) \in File /\ copies[c].pc = "next"
    <3>1. copies[c].i \in Nat \ {0} /\ copies[c].i <= Len(Tree[c]) /\ Tree[c] \in Seq(File)
      BY <1>0, <1>2, TransferAssumption DEF Create, Opens, Takes, Copying
    <3> QED BY <1>2, <3>1 DEF Now, Create, Opens, Takes
  <2>2. PICK i \in Inode : copies' = Writing(c, i)
    BY <1>0, <1>2, <2>1 DEF Create, Inode
  <2>3. Turn(c, "write", copies[c].i, 0, i, copies[c].result, copies[c].files, copies[c].skipped)
    BY <1>0, <2>2, WritingTurns
  <2> QED BY <2>1, <2>3 DEF Opened
<1>3. ASSUME Write(c) PROVE Wrote(c)
  BY <1>0, <1>3, WriteTurns DEF Wrote, Write, Sending
<1>4. ASSUME Replace(c) \/ Rename(c) PROVE Passes(c)
  <2>1. Turn(c, "next", copies[c].i + 1, copies[c].at, copies[c].inode, copies[c].result,
             copies[c].files + 1, copies[c].skipped + 0)
    BY <1>0, <1>4, ArrivedTurns DEF Replace, Rename, MovePart
  <2> QED BY <1>4, <2>1 DEF Passes, Replace, Rename, Written
<1> QED BY <1>1, <1>2, <1>3, <1>4

LEMMA Moves ==
    ASSUME Typed, NEW c \in Copy,
           \/ Mkdir(c) \/ NoMore(c) \/ ToldBetween(c) \/ Skip(c) \/ OpenFails(c)
           \/ Create(c) \/ Write(c) \/ WriteFails(c) \/ Replace(c) \/ RemoveFirst(c)
           \/ Rename(c) \/ ReplaceFails(c) \/ Clean(c) \/ Report(c)
    PROVE  Rests(c) \/ Opened(c) \/ Wrote(c) \/ Passes(c)
BY Moving, Resting DEF Typed

\* What the window does to the copies: starts one, tells one, ends one, or nothing.
Begins(c) ==
    /\ copies' \in [Copy -> Copying] /\ \A d \in Copy \ {c} : copies'[d] = copies[d]
    /\ copies[c].pc = "idle" /\ copies'[c].pc \in {"next", "mkdir"}
    /\ Same(c) /\ copies'[c].off = copies[c].off /\ copies'[c].via = sess /\ sess # Nil
    /\ cancel' = c /\ Together(c) /\ UNCHANGED wished
Stops == Stop /\ Told /\ \A d \in Copy : copies'[d].pc = copies[d].pc
Overs(c) == Told /\ copies'[c].pc = "over" /\ (\A d \in Copy \ {c} : copies'[d].pc = copies[d].pc)
            /\ cancel' = Nil /\ UNCHANGED <<wished, met>>
            /\ \E t \in taken : t.copy = c /\ t.finished /\ taken' = taken \ {t}

LEMMA WindowMoves ==
    ASSUME Typed, Placed,
           \/ \E c \in Copy : CopySelected(c)
           \/ \E yes \in BOOLEAN : Answer(yes)
           \/ Esc \/ PressQ \/ Quit
           \/ \E s \in Session : OpenSFTP(s) \/ SFTPConnected(s) \/ SFTPRefused(s) \/ Drop(s)
           \/ WaitTransfer
           \/ \E t \in taken : Update(t)
           \/ UNCHANGED vars
    PROVE  /\ UNCHANGED disk
           /\ \/ \E c \in Copy : Begins(c) /\ UNCHANGED <<sessions, sess, post>> /\ mode' = "sftp"
              \/ Stops /\ UNCHANGED post
              \/ \E c \in Copy : Overs(c) /\ UNCHANGED <<ui, channel>>
              \/ UNCHANGED <<copies, cancel, past>>
<1>0. Nil \notin Copy
  BY TransferAssumption
<1> USE DEF ui, post, past
<1>1. ASSUME NEW c \in Copy, CopySelected(c), ~ Taken(c)
      PROVE  Begins(c) /\ UNCHANGED <<sessions, sess, post>> /\ mode' = "sftp"
  <2>1. Start(c, FALSE)
    BY <1>1 DEF CopySelected
  <2> QED BY <1>1, <2>1, StartIs DEF CopySelected, Begins, Start, Begin, Typed
<1>2. ASSUME Answer(TRUE)
      PROVE  Begins(asking) /\ UNCHANGED <<sessions, sess, post>> /\ mode' = "sftp" /\ asking \in Copy
  <2>1. asking \in Copy /\ Start(asking, TRUE) /\ copies[asking].pc = "idle"
    BY <1>2 DEF Answer, Typed
  <2> QED BY <1>2, <2>1, StartIs DEF Answer, Begins, Start, Begin, Typed
<1>3. ASSUME NEW t \in taken, Update(t), t.finished
      PROVE  t.copy \in Copy /\ Overs(t.copy) /\ UNCHANGED <<ui, channel>>
  <2>1. t.copy \in Copy /\ Done(t.copy)
    BY <1>3 DEF Update, Handled, Typed, Message
  <2>2. Told /\ copies'[t.copy].pc = "over" /\ \A d \in Copy \ {t.copy} : copies'[d].pc = copies[d].pc
    BY <2>1, DoneIs
  <2> QED BY <1>3, <2>1, <2>2 DEF Overs, Update, Handled, Done
<1>4. ASSUME NEW t \in taken, Update(t), ~ t.finished PROVE UNCHANGED <<copies, cancel, past, disk>>
  BY <1>4 DEF Update, Handled
<1>5. ASSUME Esc \/ PressQ PROVE Stops /\ UNCHANGED post /\ UNCHANGED disk
  <2>1. Stop /\ UNCHANGED <<post, disk>>
    BY <1>5, Zenon DEF Esc, PressQ, Leave
  <2> QED BY <2>1, StopIs DEF Stops
<1>6. CASE \E c \in Copy : CopySelected(c)
  BY <1>1, <1>6 DEF CopySelected
<1>7. CASE \E yes \in BOOLEAN : Answer(yes)
  <2>1. CASE Answer(TRUE)
    BY <1>2, <2>1 DEF Answer
  <2>2. CASE Answer(FALSE)
    BY <2>2 DEF Answer
  <2> QED BY <1>7, <2>1, <2>2
<1>8. CASE \E t \in taken : Update(t)
  BY <1>3, <1>4, <1>8 DEF Update, Handled
<1>9. CASE Quit \/ (\E s \in Session : OpenSFTP(s) \/ SFTPConnected(s) \/ SFTPRefused(s) \/ Drop(s))
          \/ WaitTransfer
  BY <1>9 DEF Quit, OpenSFTP, SFTPConnected, SFTPRefused, Drop, WaitTransfer
<1>10. CASE UNCHANGED vars
  BY <1>10 DEF vars
<1> QED BY <1>5, <1>6, <1>7, <1>8, <1>9, <1>10

LEMMA SentOf ==
    ASSUME Typed, NEW m
    PROVE  /\ channel' = Append(channel, m) => Sent' = Sent \cup {m}
           /\ channel # <<>> /\ channel' = Tail(channel) => Sent' \subseteq Sent /\ Head(channel) \in Sent
           /\ channel' = channel => Sent' = Sent
<1>0. channel \in Seq(Message)
  BY DEF Typed
<1>1. ASSUME channel' = Append(channel, m) PROVE Sent' = Sent \cup {m}
  <2>1. DOMAIN channel = 1..Len(channel) /\ DOMAIN channel' = 1..(Len(channel) + 1)
        /\ channel'[Len(channel) + 1] = m /\ \A k \in 1..Len(channel) : channel'[k] = channel[k]
        /\ Len(channel) \in Nat
    BY <1>0, <1>1
  <2>2. Sent' \subseteq Sent \cup {m}
    BY <2>1 DEF Sent
  <2>3. m \in Sent'
    BY <2>1 DEF Sent
  <2>4. Sent \subseteq Sent'
    BY <2>1 DEF Sent
  <2> QED BY <2>2, <2>3, <2>4
<1>2. ASSUME channel # <<>>, channel' = Tail(channel)
      PROVE  Sent' \subseteq Sent /\ Head(channel) \in Sent
  <2>1. Len(channel) \in Nat /\ Len(channel) > 0 /\ DOMAIN channel = 1..Len(channel)
        /\ Head(channel) = channel[1]
        /\ DOMAIN channel' = 1..(Len(channel) - 1)
        /\ \A k \in 1..(Len(channel) - 1) : channel'[k] = channel[k + 1]
    BY <1>0, <1>2
  <2>2. 1 \in DOMAIN channel /\ channel[1] \in Sent
    <3>1. 1 \in DOMAIN channel
      BY <2>1
    <3> QED BY <3>1 DEF Sent
  <2>3. \A k \in DOMAIN channel' : k + 1 \in DOMAIN channel /\ channel'[k] = channel[k + 1]
    BY <2>1
  <2>4. Sent' \subseteq Sent
    BY <2>3 DEF Sent
  <2> QED BY <2>1, <2>2, <2>4
<1>3. channel' = channel => Sent' = Sent
  BY DEF Sent
<1> QED BY <1>1, <1>2, <1>3

\* What a step of a goroutine leaves alone, and what it may send.
Beside == UNCHANGED <<ui, cancel, past, readers, taken>>
Sends(c) == \/ channel' = channel
            \/ channel' = Append(channel, Progress(c)) /\ copies[c].pc = "write"
            \/ channel' = Append(channel, Finished(c)) /\ copies[c].pc = "report" /\ copies'[c].pc = "sent"

LEMMA GoroutineMoves ==
    ASSUME Typed, NEW c \in Copy,
           \/ Mkdir(c) \/ NoMore(c) \/ ToldBetween(c) \/ Skip(c) \/ OpenFails(c)
           \/ Create(c) \/ Write(c) \/ WriteFails(c) \/ Replace(c) \/ RemoveFirst(c)
           \/ Rename(c) \/ ReplaceFails(c) \/ Clean(c) \/ Report(c)
    PROVE  /\ Rests(c) \/ Opened(c) \/ Wrote(c) \/ Passes(c)
           /\ Beside /\ Sends(c)
<1>1. Rests(c) \/ Opened(c) \/ Wrote(c) \/ Passes(c)
  BY Moves
<1>2. ASSUME Report(c) PROVE copies'[c].pc = "sent"
  BY <1>2, AtStays DEF Report, Typed, Stays, Turn, Places
<1>3. Beside
  BY DEF Mkdir, NoMore, ToldBetween, Skip, OpenFails, Create, Write, WriteFails, Replace, RemoveFirst,
         Rename, ReplaceFails, Clean, Report, MovePart, disk, post, past, Beside
<1>4. ASSUME ~ Write(c), ~ Report(c) PROVE UNCHANGED channel
  BY <1>4 DEF Mkdir, NoMore, ToldBetween, Skip, OpenFails, Create, WriteFails, Replace, RemoveFirst,
         Rename, ReplaceFails, Clean, MovePart, disk, post, past
<1>5. Write(c) => Sends(c)
  BY Zenon DEF Write, Sending, Sends
<1>6. Report(c) => Sends(c)
  BY <1>2, Zenon DEF Report, Sends
<1> QED BY <1>1, <1>3, <1>4, <1>5, <1>6 DEF Sends

\* A session that has connected is never waited for again, and one that is not up stays so.
LEMMA SessionsGoOn ==
    ASSUME Typed, [Next]_vars, NEW s \in Session, sessions[s] \notin {"none", "connecting"}
    PROVE  /\ sessions'[s] \notin {"none", "connecting"}
           /\ sessions[s] # "open" => sessions'[s] # "open"
<1>0. sessions \in [Session -> {"none", "connecting", "open", "dead", "closed"}] /\ sess \in Session \cup {Nil}
  BY DEF Typed
<1>1. sessions' \in {sessions, Closed}
      \/ \E t \in Session : OpenSFTP(t) \/ SFTPConnected(t) \/ SFTPRefused(t) \/ Drop(t)
  <2> USE DEF disk, ui, post, past, vars
  <2>1. ASSUME NEW c \in Copy,
               \/ Mkdir(c) \/ NoMore(c) \/ ToldBetween(c) \/ Skip(c) \/ OpenFails(c)
               \/ Create(c) \/ Write(c) \/ WriteFails(c) \/ Replace(c) \/ RemoveFirst(c)
               \/ Rename(c) \/ ReplaceFails(c) \/ Clean(c) \/ Report(c)
        PROVE  sessions' = sessions
    BY <2>1, GoroutineMoves DEF Beside
  <2>2. ASSUME Esc \/ PressQ \/ Quit PROVE sessions' \in {sessions, Closed}
    BY <2>2, Zenon DEF Esc, PressQ, Quit, Leave
  <2> QED BY <2>1, <2>2, Steps DEF CopySelected, Answer, WaitTransfer, Update, Handled
<1>2. CASE sessions' \in {sessions, Closed}
  BY <1>0, <1>2 DEF Closed
<1>3. ASSUME NEW t \in Session, OpenSFTP(t) \/ SFTPConnected(t) \/ SFTPRefused(t) \/ Drop(t)
      PROVE  /\ sessions'[s] \notin {"none", "connecting"}
             /\ sessions[s] # "open" => sessions'[s] # "open"
  BY <1>0, <1>3 DEF OpenSFTP, SFTPConnected, SFTPRefused, Drop
<1> QED BY <1>1, <1>2, <1>3

LEMMA PlacedStep ==
    ASSUME Typed, Placed, [Next]_vars
    PROVE  Placed'
<1>0. copies \in [Copy -> Copying] /\ taken \subseteq Message /\ Sent \subseteq Message
  BY DEF Typed, Sent
<1>00. \A c \in Copy : copies[c].i \in Nat \ {0} /\ copies[c].at \in Nat
  BY <1>0, TransferAssumption DEF Copying
<1>1. ASSUME NEW c \in Copy, Rests(c) \/ Opened(c) \/ Wrote(c) \/ Passes(c), Beside, Sends(c)
      PROVE  Placed'
  <2>1. \A d \in Copy \ {c} : copies'[d] = copies[d]
    BY <1>1 DEF Rests, Stays, Opened, Wrote, Passes, Turn
  <2>2. copies[c].pc # "idle" /\ copies'[c].pc # "idle" /\ copies'[c].via = copies[c].via
    BY <1>1 DEF Rests, Stays, Opened, Wrote, Passes, Turn
  <2>3. copies'[c].pc \in {"write", "rename", "clean"} => copies'[c].i \in DOMAIN Tree[c]
    BY <1>1 DEF Rests, Stays, Opened, Wrote, Passes, Turn, Placed, AtWork
  <2>4. Sent' \subseteq Sent \cup {Progress(c), Finished(c)} /\ taken' = taken
    BY <1>1, SentOf DEF Sends, Beside
  <2>5. Progress(c).copy = c /\ Finished(c).copy = c
    BY DEF Progress, Finished
  <2>6. \A m \in Sent' \cup taken' : copies'[m.copy].pc # "idle"
    <3>1. \A m \in Sent \cup taken : m.copy \in Copy
      BY <1>0 DEF Message
    <3> QED BY <2>1, <2>2, <2>4, <2>5, <3>1 DEF Placed
  <2>7. sessions' = sessions
    BY <1>1 DEF Beside, ui
  <2> QED BY <2>1, <2>2, <2>3, <2>6, <2>7 DEF Placed, AtWork
<1>2. ASSUME UNCHANGED disk, NEW c \in Copy, Begins(c), UNCHANGED <<sessions, sess, post>> PROVE Placed'
  <2>1. sess \in Session /\ sessions[sess] \notin {"none", "connecting"}
    BY <1>2 DEF Begins, Typed
  <2>2. taken' = taken /\ Sent' = Sent
    BY <1>2, SentOf DEF post
  <2>3. \A m \in Sent \cup taken : m.copy \in Copy
    BY <1>0 DEF Message
  <2>4. \A d \in Copy \ {c} : copies'[d] = copies[d]
    BY <1>2 DEF Begins
  <2>5. copies'[c].pc \in {"next", "mkdir"} /\ copies'[c].via = sess
    BY <1>2 DEF Begins
  <2>6. \A m \in Sent' \cup taken' : copies'[m.copy].pc # "idle"
    BY <2>2, <2>3, <2>4, <2>5 DEF Placed
  <2>7. sessions' = sessions
    BY <1>2
  <2> QED BY <2>1, <2>4, <2>5, <2>6, <2>7 DEF Placed, AtWork
<1>3. \A s \in Session : sessions[s] \notin {"none", "connecting"} => sessions'[s] \notin {"none", "connecting"}
  BY SessionsGoOn
<1>4. ASSUME Told, \A d \in Copy : copies'[d].pc \in {copies[d].pc, "over"}, \A d \in Copy : copies[d].pc = "idle" => copies'[d].pc = "idle",
             taken' \subseteq taken, Sent' = Sent
      PROVE  Placed'
  BY <1>0, <1>3, <1>4 DEF Told, Same, Placed, AtWork, Message
<1>5. ASSUME Stops, UNCHANGED post PROVE Placed'
  BY <1>4, <1>5, SentOf DEF Stops, post
<1>6. ASSUME NEW c \in Copy, Overs(c), UNCHANGED <<ui, channel>> PROVE Placed'
  <2>1. copies[c].pc # "idle" /\ taken' \subseteq taken /\ Sent' = Sent
    BY <1>6, SentOf DEF Overs, Placed
  <2> QED BY <1>4, <1>6, <2>1 DEF Overs
<1>7. ASSUME UNCHANGED copies, Sent' \cup taken' \subseteq Sent \cup taken PROVE Placed'
  BY <1>3, <1>7 DEF Placed, AtWork
<1>8. ASSUME UNCHANGED copies,
             \/ \E c \in Copy : CopySelected(c)
             \/ \E yes \in BOOLEAN : Answer(yes)
             \/ Esc \/ PressQ \/ Quit
             \/ \E s \in Session : OpenSFTP(s) \/ SFTPConnected(s) \/ SFTPRefused(s) \/ Drop(s)
             \/ WaitTransfer
             \/ \E t \in taken : Update(t)
             \/ UNCHANGED vars
      PROVE  Sent' \cup taken' \subseteq Sent \cup taken
  <2>1. CASE WaitTransfer
    BY <2>1, SentOf DEF WaitTransfer
  <2>2. CASE Esc \/ PressQ
    <3>1. UNCHANGED post
      BY <2>2, Zenon DEF Esc, PressQ, Leave
    <3> QED BY <3>1, SentOf DEF post
  <2> QED BY <1>8, <2>1, <2>2, SentOf
          DEF CopySelected, Answer, Quit, OpenSFTP, SFTPConnected, SFTPRefused, Drop, Update, Handled,
              post, vars
<1> QED BY <1>1, <1>2, <1>5, <1>6, <1>7, <1>8, Steps, GoroutineMoves, WindowMoves

-----------------------------------------------------------------------------
(* Copies that are under way together keep apart.                          *)

LEMMA SeparateInit == Init => Separate
BY DEF Init, Separate, InFlight

LEMMA SeparateStep ==
    ASSUME CopiesApart, Typed, Placed, Separate, [Next]_vars
    PROVE  Separate'
<1>0. copies \in [Copy -> Copying] /\ Nil \notin Copy
  BY TransferAssumption DEF Typed
<1> USE DEF ui, disk, post, past
<1>1. ASSUME \A d \in Copy : InFlight(d)' => InFlight(d), mode' = "confirm" => UNCHANGED <<mode, asking>>
      PROVE  Separate'
  BY <1>1 DEF Separate, Disjoint
<1>2. ASSUME NEW c \in Copy, Begins(c), mode' # "confirm", \A d \in Copy : InFlight(d) => Disjoint(c, d)
      PROVE  Separate'
  <2>1. \A d \in Copy \ {c} : InFlight(d)' <=> InFlight(d)
    BY <1>2 DEF Begins, InFlight
  <2>2. \A d \in Copy : Disjoint(c, d) <=> Disjoint(d, c)
    BY DEF Disjoint
  <2> QED BY <1>2, <2>1, <2>2 DEF Separate, Disjoint
<1>3. ASSUME NEW c \in Copy, Rests(c) \/ Opened(c) \/ Wrote(c) \/ Passes(c), Beside
      PROVE  Separate'
  <2>1. \A d \in Copy : InFlight(d)' => InFlight(d)
    BY <1>3 DEF Rests, Stays, Opened, Wrote, Passes, Turn, InFlight
  <2> QED BY <1>1, <1>3, <2>1 DEF Beside
<1>4. ASSUME NEW c \in Copy, CopySelected(c) PROVE Separate'
  <2>1. \A d \in Copy : InFlight(d) => Disjoint(c, d)
    BY <1>4 DEF CopySelected, Allowed, CopiesApart, Disjoint
  <2>2. CASE Taken(c)
    BY <1>4, <2>1, <2>2 DEF CopySelected, Separate, InFlight, Disjoint
  <2>3. CASE ~ Taken(c)
    <3>1. Start(c, FALSE) /\ mode' = "sftp" /\ copies[c].pc = "idle" /\ UNCHANGED wished
      BY <1>4, <2>3 DEF CopySelected
    <3>2. Begins(c)
      BY <1>4, <3>1, StartIs DEF Start, Begin, Begins, Typed, CopySelected
    <3> QED BY <1>2, <2>1, <3>1, <3>2
  <2> QED BY <2>2, <2>3
<1>5. ASSUME NEW yes \in BOOLEAN, Answer(yes) PROVE Separate'
  <2>1. CASE yes
    <3>1. asking \in Copy /\ Start(asking, TRUE) /\ copies[asking].pc = "idle" /\ mode' = "sftp"
      BY <1>5, <2>1 DEF Answer, Typed
    <3>2. Begins(asking)
      BY <1>5, <3>1, StartIs DEF Answer, Start, Begin, Begins, Typed
    <3>3. \A d \in Copy : InFlight(d) => Disjoint(asking, d)
      BY <1>5 DEF Answer, Separate
    <3> QED BY <1>2, <3>1, <3>2, <3>3
  <2>2. CASE ~ yes
    BY <1>1, <1>5, <2>2 DEF Answer, InFlight
  <2> QED BY <2>1, <2>2
<1>6. ASSUME Esc \/ PressQ PROVE Separate'
  <2>1. Stop /\ (mode' = "browse" \/ UNCHANGED ui)
    BY <1>6, Zenon DEF Esc, PressQ, Leave
  <2>2. \A d \in Copy : copies'[d].pc = copies[d].pc
    BY <2>1, StopIs
  <2> QED BY <1>1, <2>1, <2>2 DEF InFlight
<1>7. ASSUME NEW t \in taken, Update(t) PROVE Separate'
  <2>1. t.copy \in Copy /\ UNCHANGED ui
    BY <1>7 DEF Typed, Message, Update, Handled
  <2>2. \A d \in Copy : InFlight(d)' => InFlight(d)
    <3>1. CASE t.finished
      <4>1. Done(t.copy)
        BY <1>7, <3>1 DEF Update, Handled
      <4> QED BY <2>1, <4>1, DoneIs DEF InFlight
    <3>2. CASE ~ t.finished
      BY <1>7, <3>2 DEF Update, Handled, InFlight
    <3> QED BY <3>1, <3>2
  <2> QED BY <1>1, <2>1, <2>2
<1>8. CASE Quit \/ (\E s \in Session : OpenSFTP(s) \/ SFTPConnected(s) \/ SFTPRefused(s) \/ Drop(s))
           \/ WaitTransfer \/ UNCHANGED vars
  BY <1>1, <1>8 DEF Quit, OpenSFTP, SFTPConnected, SFTPRefused, Drop, WaitTransfer, vars, InFlight
<1> QED BY <1>3, <1>4, <1>5, <1>6, <1>7, <1>8, Steps, GoroutineMoves

-----------------------------------------------------------------------------
(* The disk.                                                               *)

\* What a step can do to the destinations: nothing, put one whole file there, or take one away.
Quiet ==
    /\ dest' = dest /\ \A f \in File : dest[f] \in Inode => blob'[dest[f]] = blob[dest[f]]
    /\ \A d \in Copy : copies'[d].i >= copies[d].i /\ copies'[d].files = copies[d].files
Moved(c) ==
    /\ AtWork(c) /\ copies'[c].i = copies[c].i + 1 /\ copies'[c].files = copies[c].files + 1
    /\ copies'[c].asked = copies[c].asked
    /\ \A d \in Copy \ {c} : copies'[d] = copies[d]
    /\ blob' = blob
    /\ \E n \in Inode : dest' = [dest EXCEPT ![Now(c)] = n] /\ blob[n] = [k \in 1..Chunks |-> c]
Removed(c) ==
    /\ AtWork(c) /\ copies'[c].i = copies[c].i /\ copies'[c].files = copies[c].files
    /\ copies'[c].asked = copies[c].asked
    /\ \A d \in Copy \ {c} : copies'[d] = copies[d]
    /\ blob' = blob /\ Now(c) \in Remote /\ ~ Posix
    /\ dest' = [dest EXCEPT ![Now(c)] = Nil]

\* A copy that moves on without an entry of its own coming near the disk.
GoesOn(d) ==
    /\ copies'[d].i >= copies[d].i /\ copies'[d].files = copies[d].files
    /\ \A k \in DOMAIN Tree[d] : Ahead(d, k)' => Ahead(d, k)
    /\ copies'[d].pc \in {"write", "rename"} =>
           /\ copies[d].pc \in {"write", "rename"} /\ copies'[d].i = copies[d].i
           /\ copies'[d].inode = copies[d].inode /\ Has(d)' = Has(d)

Entries == \A c \in Copy : /\ Tree[c] \in Seq(File)
                           /\ \A k, l \in DOMAIN Tree[c] : Tree[c][k] = Tree[c][l] => k = l
                           /\ \A k \in DOMAIN Tree[c] : k \in Nat \ {0} /\ Tree[c][k] \in File

LEMMA EntriesHold == Entries /\ Chunks \in Nat /\ Nil \notin Inode /\ Old \notin Inode /\ Nil \notin Copy
<1>1. \A c \in Copy : Tree[c] \in Seq(File)
  BY TransferAssumption
<1>2. \A c \in Copy : \A k \in DOMAIN Tree[c] : k \in Nat \ {0} /\ Tree[c][k] \in File
  BY <1>1
<1>3. \A c \in Copy : \A k, l \in DOMAIN Tree[c] : Tree[c][k] = Tree[c][l] => k = l
  BY TransferAssumption
<1>4. Chunks \in Nat /\ Nil \notin Inode /\ Old \notin Inode /\ Nil \notin Copy
  BY TransferAssumption DEF Inode
<1> QED BY <1>1, <1>2, <1>3, <1>4 DEF Entries

LEMMA Numbers ==
    ASSUME Typed, NEW d \in Copy
    PROVE  copies[d].i \in Nat \ {0} /\ copies[d].at \in Nat /\ copies[d].files \in Nat
BY EntriesHold DEF Typed, Copying

LEMMA GoingOn ==
    ASSUME Typed, NEW c \in Copy, copies[c].i \in Nat, Rests(c) \/ (Passes(c) /\ Skip(c))
    PROVE  \A d \in Copy : GoesOn(d)
<1>0. copies \in [Copy -> Copying] /\ \A d \in Copy : copies[d].i \in Nat /\ copies[d].at \in Nat
                                                    /\ \A k \in DOMAIN Tree[d] : k \in Nat
  BY EntriesHold DEF Typed, Copying, Entries
<1>1. ASSUME NEW d \in Copy, copies'[d] = copies[d] PROVE GoesOn(d)
  BY <1>0, <1>1 DEF GoesOn, Ahead, Has
<1>2. ASSUME Rests(c) PROVE GoesOn(c) /\ \A d \in Copy \ {c} : copies'[d] = copies[d]
  BY <1>0, <1>2 DEF Rests, Stays, Turn, GoesOn, Ahead, Has
<1>3. ASSUME Skip(c) PROVE GoesOn(c) /\ \A d \in Copy \ {c} : copies'[d] = copies[d]
  <2>1. Turn(c, "next", copies[c].i + 1, copies[c].at, copies[c].inode, copies[c].result,
             copies[c].files, copies[c].skipped + 1)
    BY <1>0, <1>3, SkipTurns
  <2> QED BY <1>0, <2>1 DEF GoesOn, Turn, Ahead
<1> QED BY <1>1, <1>2, <1>3

\* Nobody's file is touched where no entry is worked on.
LEMMA NothingTouched ==
    ASSUME OneName, OwnPart, \A d \in Copy : GoesOn(d), dest' = dest, part' = part, blob' = blob
    PROVE  OneName' /\ OwnPart' /\ Quiet
<1>1. OneName'
  BY DEF OneName, GoesOn
<1>2. OwnPart'
  BY DEF OwnPart, GoesOn, Now, Has
<1>3. Quiet
  BY DEF Quiet, GoesOn
<1> QED BY <1>1, <1>2, <1>3

\* Two copies that are at work are at different paths, and so are their inodes.
LEMMA Elsewhere ==
    ASSUME Typed, Placed, Separate, OneName, NEW c \in Copy, InFlight(c), copies[c].i \in DOMAIN Tree[c],
           NEW d \in Copy, c # d, copies[d].pc \in {"write", "rename"}
    PROVE  Now(c) \in File /\ Now(d) \in File /\ Now(d) # Now(c)
<1>1. copies[d].i \in DOMAIN Tree[d] /\ InFlight(d)
  BY DEF Placed, AtWork, InFlight
<1> QED BY <1>1, EntriesHold DEF Separate, Disjoint, Now, Entries

LEMMA Creates ==
    ASSUME Typed, Placed, Separate, OneName, OwnPart, NEW c \in Copy, Create(c)
    PROVE  OneName' /\ OwnPart' /\ Quiet
<1> DEFINE f == Now(c)
<1>0. /\ copies \in [Copy -> Copying] /\ part \in [File -> Inode \cup {Nil}]
      /\ dest \in [File -> Inode \cup {Nil, Old}]
      /\ blob \in [Inode -> [1..Chunks -> Copy \cup {Nil}]]
  BY DEF Typed
<1>1. copies[c].i \in DOMAIN Tree[c] /\ f \in File /\ copies[c].pc = "next"
  <2>1. copies[c].i \in Nat \ {0} /\ copies[c].i <= Len(Tree[c]) /\ copies[c].pc = "next"
    BY <1>0 DEF Create, Opens, Takes, Copying
  <2>2. Tree[c] \in Seq(File)
    BY EntriesHold DEF Entries
  <2> QED BY <2>1, <2>2 DEF Now
<1>2. PICK n \in Inode : /\ n = IF part[f] = Nil THEN <<c, f>> ELSE part[f]
                         /\ part' = [part EXCEPT ![f] = n] /\ blob' = [blob EXCEPT ![n] = Empty]
                         /\ copies' = Writing(c, n)
  <2>1. <<c, f>> \in Inode /\ (part[f] # Nil => part[f] \in Inode)
    BY <1>0, <1>1 DEF Inode
  <2> QED BY <2>1 DEF Create
<1>3. n[2] = f
  BY <1>1, <1>2 DEF OneName
<1>4. \A g \in File : dest[g] # n
  <2>1. ASSUME NEW g \in File, dest[g] = n PROVE FALSE
    <3>1. g = f
      BY <1>3, <2>1 DEF OneName
    <3>2. Ahead(c, copies[c].i)
      BY <1>1 DEF Ahead
    <3>3. dest[f] # <<c, f>>
      BY <1>1, <3>2 DEF OneName, Now
    <3> QED BY <1>1, <1>2, <2>1, <3>1, <3>3 DEF OneName
  <2> QED BY <2>1
<1>5. Turn(c, "write", copies[c].i, 0, n, copies[c].result, copies[c].files, copies[c].skipped)
  BY <1>0, <1>2, WritingTurns
<1>6. dest' = dest
  BY DEF Create
<1> HIDE DEF f
<1>7. OneName'
  <2>1. \A g \in File : part'[g] # Nil => part'[g][2] = g /\ part'[g] # dest'[g]
    BY <1>0, <1>1, <1>2, <1>3, <1>4, <1>6 DEF OneName
  <2>2. ASSUME NEW d \in Copy, NEW k \in DOMAIN Tree[d], Ahead(d, k)'
        PROVE  Ahead(d, k) /\ (d = c => Tree[d][k] # f)
    <3>1. CASE d = c
      <4>1. k > copies[c].i
        BY <1>5, <2>2, <3>1 DEF Ahead, Turn
      <4> QED BY <1>1, <3>1, <4>1, EntriesHold, <1>0 DEF Ahead, Entries, f, Now, Copying
    <3>2. CASE d # c
      BY <1>5, <2>2, <3>2 DEF Ahead, Turn
    <3> QED BY <3>1, <3>2
  <2>3. ASSUME NEW d \in Copy, NEW k \in DOMAIN Tree[d], Ahead(d, k)'
        PROVE  <<d, Tree[d][k]>> \notin {dest'[Tree[d][k]], part'[Tree[d][k]]}
    <3>1. <<d, Tree[d][k]>> \notin {dest[Tree[d][k]], part[Tree[d][k]]} /\ Tree[d][k] \in File
      BY <2>2, <2>3, EntriesHold DEF OneName, Entries
    <3>2. CASE Tree[d][k] = f
      BY <1>0, <1>2, <1>6, <2>2, <2>3, <3>1, <3>2
    <3>3. CASE Tree[d][k] # f
      BY <1>0, <1>2, <1>6, <3>1, <3>3
    <3> QED BY <3>2, <3>3
  <2> QED BY <1>6, <2>1, <2>3 DEF OneName
<1>8. OwnPart'
  <2>1. ASSUME NEW d \in Copy \ {c}, copies'[d].pc \in {"write", "rename"}
        PROVE  /\ copies'[d].inode # Nil /\ part'[Tree[d][copies'[d].i]] = copies'[d].inode
               /\ \A k \in 1..Has(d)' : blob'[copies'[d].inode][k] = d
    <3>1. copies'[d] = copies[d]
      BY <1>5 DEF Turn
    <3>2. Now(d) \in File /\ Now(d) # f
      BY <1>1, <2>1, <3>1, Elsewhere DEF InFlight, f
    <3>3. copies[d].inode # Nil /\ part[Now(d)] = copies[d].inode
          /\ \A k \in 1..Has(d) : blob[copies[d].inode][k] = d
      BY <2>1, <3>1 DEF OwnPart
    <3>4. copies[d].inode # n /\ copies[d].inode \in Inode
      BY <1>0, <1>3, <3>2, <3>3 DEF OneName
    <3>5. Has(d)' = Has(d) /\ Tree[d][copies'[d].i] = Now(d)
      BY <3>1 DEF Has, Now
    <3> QED BY <1>0, <1>1, <1>2, <3>1, <3>2, <3>3, <3>4, <3>5
  <2>2. copies'[c].inode = n /\ part'[Tree[c][copies'[c].i]] = n /\ Has(c)' = 0 /\ n # Nil
    BY <1>0, <1>1, <1>2, <1>5, EntriesHold DEF Turn, Has, f, Now
  <2>3. \A k \in 1..Has(c)' : blob'[copies'[c].inode][k] = c
    BY <2>2
  <2> QED BY <2>1, <2>2, <2>3 DEF OwnPart, Now
<1>9. Quiet
  <2>1. \A d \in Copy : copies'[d].i >= copies[d].i /\ copies'[d].files = copies[d].files
    BY <1>5, Numbers DEF Turn
  <2> QED BY <1>0, <1>2, <1>4, <1>6, <2>1 DEF Quiet
<1> QED BY <1>7, <1>8, <1>9

LEMMA Writes ==
    ASSUME Typed, Placed, Separate, OneName, OwnPart, NEW c \in Copy, Write(c)
    PROVE  OneName' /\ OwnPart' /\ Quiet
<1> DEFINE n == copies[c].inode
           at == copies[c].at
<1>0. /\ copies \in [Copy -> Copying] /\ part \in [File -> Inode \cup {Nil}]
      /\ dest \in [File -> Inode \cup {Nil, Old}]
      /\ blob \in [Inode -> [1..Chunks -> Copy \cup {Nil}]]
      /\ Chunks \in Nat /\ at \in 0..Chunks /\ at < Chunks
  BY EntriesHold DEF Typed, Write, Sending, Copying
<1>1. copies[c].i \in DOMAIN Tree[c] /\ copies[c].pc = "write" /\ InFlight(c)
  BY DEF Write, Sending, Placed, AtWork, InFlight
<1>2. n # Nil /\ part[Now(c)] = n /\ \A k \in 1..at : blob[n][k] = c
  BY <1>1 DEF OwnPart, Has
<1>3. Now(c) \in File
  BY <1>1, EntriesHold DEF Now, Entries
<1>4. n \in Inode /\ n[2] = Now(c)
  BY <1>0, <1>2, <1>3 DEF OneName
<1>5. \A g \in File : dest[g] # n
  BY <1>2, <1>3, <1>4 DEF OneName
<1>6. Turn(c, "write", copies[c].i, at + 1, n, copies[c].result, copies[c].files, copies[c].skipped)
  BY <1>0, WriteTurns
<1>7. dest' = dest /\ part' = part /\ blob' = [blob EXCEPT ![n] = [@ EXCEPT ![at + 1] = c]]
  BY DEF Write
<1>8. /\ blob'[n] = [blob[n] EXCEPT ![at + 1] = c] /\ \A m \in Inode \ {n} : blob'[m] = blob[m]
  BY <1>0, <1>4, <1>7
<1> HIDE DEF n, at
<1>9. OneName'
  <2>1. \A d \in Copy : \A k \in DOMAIN Tree[d] : Ahead(d, k)' => Ahead(d, k)
    BY <1>1, <1>6 DEF Turn, Ahead
  <2> QED BY <1>7, <2>1 DEF OneName
<1>10. OwnPart'
  <2>1. ASSUME NEW d \in Copy \ {c}, copies'[d].pc \in {"write", "rename"}
        PROVE  /\ copies'[d].inode # Nil /\ part'[Tree[d][copies'[d].i]] = copies'[d].inode
               /\ \A k \in 1..Has(d)' : blob'[copies'[d].inode][k] = d
    <3>1. copies'[d] = copies[d]
      BY <1>6 DEF Turn
    <3>2. Now(d) \in File /\ Now(d) # Now(c)
      BY <1>1, <2>1, <3>1, Elsewhere
    <3>3. copies[d].inode # Nil /\ part[Now(d)] = copies[d].inode
          /\ \A k \in 1..Has(d) : blob[copies[d].inode][k] = d
      BY <2>1, <3>1 DEF OwnPart
    <3>4. copies[d].inode # n /\ copies[d].inode \in Inode
      BY <1>0, <1>4, <3>2, <3>3 DEF OneName
    <3>5. Has(d)' = Has(d) /\ Tree[d][copies'[d].i] = Now(d)
      BY <3>1 DEF Has, Now
    <3> QED BY <1>7, <1>8, <3>1, <3>3, <3>4, <3>5
  <2>2. copies'[c].inode = n /\ Tree[c][copies'[c].i] = Now(c) /\ Has(c)' = at + 1
    BY <1>6 DEF Turn, Has, Now
  <2>3. \A k \in 1..(at + 1) : blob'[n][k] = c
    <3>1. blob[n] \in [1..Chunks -> Copy \cup {Nil}]
      BY <1>0, <1>4
    <3>2. \A k \in 1..(at + 1) : k \in 1..Chunks /\ (k = at + 1 \/ k \in 1..at)
      BY <1>0
    <3> QED BY <1>2, <1>8, <3>1, <3>2 DEF n
  <2> QED BY <1>2, <1>7, <2>1, <2>2, <2>3 DEF OwnPart, Now, n
<1>11. Quiet
  <2>1. \A d \in Copy : copies'[d].i >= copies[d].i /\ copies'[d].files = copies[d].files
    BY <1>6, Numbers DEF Turn
  <2> QED BY <1>5, <1>7, <1>8, <2>1 DEF Quiet
<1> QED BY <1>9, <1>10, <1>11

LEMMA MovesPart ==
    ASSUME Typed, Placed, Separate, OneName, OwnPart, NEW c \in Copy, MovePart(c),
           copies[c].pc = "rename" \/ Written(c)
    PROVE  OneName' /\ OwnPart' /\ Moved(c)
<1> DEFINE n == copies[c].inode
           f == Now(c)
<1>0. /\ copies \in [Copy -> Copying] /\ part \in [File -> Inode \cup {Nil}]
      /\ dest \in [File -> Inode \cup {Nil, Old}]
      /\ blob \in [Inode -> [1..Chunks -> Copy \cup {Nil}]]
  BY DEF Typed
<1>1. copies[c].i \in DOMAIN Tree[c] /\ copies[c].pc \in {"write", "rename"} /\ InFlight(c) /\ AtWork(c)
  BY DEF Written, Placed, AtWork, InFlight
<1>2. n # Nil /\ part[f] = n /\ \A k \in 1..Chunks : blob[n][k] = c
  BY <1>1 DEF OwnPart, Has, Written
<1>3. f \in File
  BY <1>1, EntriesHold DEF Now, Entries
<1>4. n \in Inode /\ n[2] = f
  BY <1>0, <1>2, <1>3 DEF OneName
<1>5. blob[n] = [k \in 1..Chunks |-> c]
  <2>1. blob[n] \in [1..Chunks -> Copy \cup {Nil}]
    BY <1>0, <1>4
  <2> QED BY <1>2, <2>1
<1>6. Turn(c, "next", copies[c].i + 1, copies[c].at, copies[c].inode, copies[c].result,
           copies[c].files + 1, copies[c].skipped)
  BY <1>0, ArrivedTurns DEF MovePart
<1>7. dest' = [dest EXCEPT ![f] = n] /\ part' = [part EXCEPT ![f] = Nil] /\ blob' = blob
  BY <1>2 DEF MovePart
<1> HIDE DEF n, f
<1>8. \A g \in File : /\ g = f => dest'[g] = n /\ part'[g] = Nil
                      /\ g # f => dest'[g] = dest[g] /\ part'[g] = part[g]
  BY <1>0, <1>7
<1>9. OneName'
  <2>1. \A g \in File : /\ part'[g] # Nil => part'[g][2] = g /\ part'[g] # dest'[g]
                        /\ dest'[g] \in Inode => dest'[g][2] = g
    BY <1>4, <1>8 DEF OneName
  <2>2. ASSUME NEW d \in Copy, NEW k \in DOMAIN Tree[d], Ahead(d, k)'
        PROVE  Ahead(d, k) /\ (d = c => Tree[d][k] # f)
    <3>1. CASE d = c
      <4>1. k >= copies[c].i + 1 /\ copies[c].i \in Nat /\ k \in Nat
        BY <1>6, <2>2, <3>1, EntriesHold, Numbers DEF Ahead, Turn, Entries
      <4> QED BY <1>1, <3>1, <4>1, EntriesHold DEF Ahead, Entries, f, Now
    <3>2. CASE d # c
      BY <1>6, <2>2, <3>2 DEF Ahead, Turn
    <3> QED BY <3>1, <3>2
  <2>3. ASSUME NEW d \in Copy, NEW k \in DOMAIN Tree[d], Ahead(d, k)'
        PROVE  <<d, Tree[d][k]>> \notin {dest'[Tree[d][k]], part'[Tree[d][k]]}
    <3>1. <<d, Tree[d][k]>> \notin {dest[Tree[d][k]], part[Tree[d][k]]} /\ Tree[d][k] \in File
      BY <2>2, <2>3, EntriesHold DEF OneName, Entries
    <3>2. <<d, Tree[d][k]>> # Nil
      BY <3>1, EntriesHold DEF Inode
    <3> QED BY <1>2, <1>8, <3>1, <3>2 DEF f
  <2> QED BY <2>1, <2>3 DEF OneName
<1>10. OwnPart'
  <2>1. ASSUME NEW d \in Copy, copies'[d].pc \in {"write", "rename"}
        PROVE  /\ copies'[d].inode # Nil /\ part'[Tree[d][copies'[d].i]] = copies'[d].inode
               /\ \A k \in 1..Has(d)' : blob'[copies'[d].inode][k] = d
    <3>1. d # c /\ copies'[d] = copies[d]
      BY <1>6, <2>1 DEF Turn
    <3>2. Now(d) \in File /\ Now(d) # f
      BY <1>1, <2>1, <3>1, Elsewhere DEF f
    <3>3. copies[d].inode # Nil /\ part[Now(d)] = copies[d].inode
          /\ \A k \in 1..Has(d) : blob[copies[d].inode][k] = d
      BY <2>1, <3>1 DEF OwnPart
    <3>4. Has(d)' = Has(d) /\ Tree[d][copies'[d].i] = Now(d)
      BY <3>1 DEF Has, Now
    <3> QED BY <1>7, <1>8, <3>1, <3>2, <3>3, <3>4
  <2> QED BY <2>1 DEF OwnPart, Now
<1>11. Moved(c)
  BY <1>1, <1>4, <1>5, <1>6, <1>7 DEF Moved, Turn, f
<1> QED BY <1>9, <1>10, <1>11

LEMMA RemovesFirst ==
    ASSUME Typed, Placed, Separate, OneName, OwnPart, NEW c \in Copy, RemoveFirst(c)
    PROVE  OneName' /\ OwnPart' /\ Removed(c)
<1>0. copies \in [Copy -> Copying] /\ dest \in [File -> Inode \cup {Nil, Old}]
  BY DEF Typed
<1>1. copies[c].i \in DOMAIN Tree[c] /\ copies[c].pc = "write" /\ AtWork(c)
  BY DEF RemoveFirst, Written, Placed, AtWork
<1>2. Now(c) \in File
  BY <1>1, EntriesHold DEF Now, Entries
<1>3. Stays(c, "rename", copies[c].result)
  BY <1>0, AtStays DEF RemoveFirst, Places
<1>4. \A d \in Copy : GoesOn(d)
  <2>1. Rests(c)
    BY <1>0, Resting
  <2> QED BY <2>1, GoingOn, Numbers
<1>5. dest' = [dest EXCEPT ![Now(c)] = Nil] /\ UNCHANGED <<part, blob>>
  BY DEF RemoveFirst
<1>6. \A g \in File : dest'[g] = IF g = Now(c) THEN Nil ELSE dest[g]
  BY <1>0, <1>5
<1>7. OneName'
  <2>1. \A g \in File : /\ part'[g] # Nil => part'[g][2] = g /\ part'[g] # dest'[g]
                        /\ dest'[g] \in Inode => dest'[g][2] = g
    BY <1>5, <1>6, EntriesHold DEF OneName
  <2>2. ASSUME NEW d \in Copy, NEW k \in DOMAIN Tree[d], Ahead(d, k)'
        PROVE  <<d, Tree[d][k]>> \notin {dest'[Tree[d][k]], part'[Tree[d][k]]}
    <3>1. <<d, Tree[d][k]>> \notin {dest[Tree[d][k]], part[Tree[d][k]]} /\ Tree[d][k] \in File
      BY <1>4, <2>2, EntriesHold DEF OneName, GoesOn, Entries
    <3>2. <<d, Tree[d][k]>> # Nil
      BY <3>1, EntriesHold DEF Inode
    <3> QED BY <1>5, <1>6, <3>1, <3>2
  <2> QED BY <2>1, <2>2 DEF OneName
<1>8. OwnPart'
  BY <1>4, <1>5 DEF OwnPart, GoesOn, Now, Has
<1>9. Removed(c)
  <2>1. part[Now(c)] # Nil
    BY <1>1 DEF OwnPart
  <2> QED BY <1>1, <1>3, <1>5, <2>1 DEF Removed, RemoveFirst, Stays, Turn
<1> QED BY <1>7, <1>8, <1>9

LEMMA Cleans ==
    ASSUME Typed, Placed, Separate, OneName, OwnPart, NEW c \in Copy, Clean(c)
    PROVE  OneName' /\ OwnPart' /\ Quiet
<1>0. copies \in [Copy -> Copying] /\ part \in [File -> Inode \cup {Nil}]
  BY DEF Typed
<1>1. copies[c].i \in DOMAIN Tree[c] /\ copies[c].pc = "clean" /\ InFlight(c)
  BY DEF Clean, Placed, AtWork, InFlight
<1>2. Stays(c, "report", copies[c].result)
  BY <1>0, AtStays DEF Clean, Places
<1>3. \A d \in Copy : GoesOn(d)
  <2>1. Rests(c)
    BY <1>0, Resting
  <2> QED BY <2>1, GoingOn, Numbers
<1>4. UNCHANGED <<dest, blob>> /\ \A g \in File : part'[g] # part[g] => part'[g] = Nil /\ g = Now(c)
  BY <1>0 DEF Clean
<1>5. OneName'
  <2>1. \A g \in File : part'[g] # Nil => part'[g] = part[g]
    BY <1>4
  <2>2. ASSUME NEW d \in Copy, NEW k \in DOMAIN Tree[d], Ahead(d, k)'
        PROVE  <<d, Tree[d][k]>> \notin {dest'[Tree[d][k]], part'[Tree[d][k]]}
    <3>1. <<d, Tree[d][k]>> \notin {dest[Tree[d][k]], part[Tree[d][k]]} /\ Tree[d][k] \in File
      BY <1>3, <2>2, EntriesHold DEF OneName, GoesOn, Entries
    <3>2. <<d, Tree[d][k]>> # Nil
      BY <3>1, EntriesHold DEF Inode
    <3> QED BY <1>4, <3>1, <3>2
  <2> QED BY <1>4, <2>1, <2>2 DEF OneName
<1>6. OwnPart'
  <2>1. ASSUME NEW d \in Copy, copies'[d].pc \in {"write", "rename"}
        PROVE  /\ copies'[d].inode # Nil /\ part'[Tree[d][copies'[d].i]] = copies'[d].inode
               /\ \A k \in 1..Has(d)' : blob'[copies'[d].inode][k] = d
    <3>1. d # c /\ copies'[d] = copies[d]
      BY <1>2, <2>1 DEF Stays, Turn
    <3>2. Now(d) \in File /\ Now(d) # Now(c)
      BY <1>1, <2>1, <3>1, Elsewhere
    <3>3. copies[d].inode # Nil /\ part[Now(d)] = copies[d].inode
          /\ \A k \in 1..Has(d) : blob[copies[d].inode][k] = d
      BY <2>1, <3>1 DEF OwnPart
    <3>4. Has(d)' = Has(d) /\ Tree[d][copies'[d].i] = Now(d)
      BY <3>1 DEF Has, Now
    <3> QED BY <1>4, <3>1, <3>2, <3>3, <3>4
  <2> QED BY <2>1 DEF OwnPart, Now
<1>7. Quiet
  BY <1>3, <1>4 DEF Quiet, GoesOn
<1> QED BY <1>5, <1>6, <1>7

\* Every step of a copy keeps the names and the part files, and is one of the three.
LEMMA DiskMoves ==
    ASSUME Typed, Placed, Separate, OneName, OwnPart, NEW c \in Copy,
           \/ Mkdir(c) \/ NoMore(c) \/ ToldBetween(c) \/ Skip(c) \/ OpenFails(c)
           \/ Create(c) \/ Write(c) \/ WriteFails(c) \/ Replace(c) \/ RemoveFirst(c)
           \/ Rename(c) \/ ReplaceFails(c) \/ Clean(c) \/ Report(c)
    PROVE  OneName' /\ OwnPart' /\ (Quiet \/ Moved(c) \/ Removed(c))
<1>1. CASE Mkdir(c) \/ NoMore(c) \/ ToldBetween(c) \/ Skip(c) \/ OpenFails(c)
           \/ WriteFails(c) \/ ReplaceFails(c) \/ Report(c)
  <2>1. Rests(c) \/ (Passes(c) /\ Skip(c))
    BY <1>1, Resting, Moving DEF Typed
  <2>2. UNCHANGED <<dest, part, blob>>
    BY <1>1 DEF Mkdir, NoMore, ToldBetween, Skip, OpenFails, WriteFails, ReplaceFails, Report, disk
  <2> QED BY <2>1, <2>2, GoingOn, NothingTouched, Numbers
<1>2. CASE Replace(c) \/ Rename(c)
  BY <1>2, MovesPart DEF Replace, Rename
<1> QED BY <1>1, <1>2, Creates, Writes, RemovesFirst, Cleans

\* What the window does never comes near the disk.
LEMMA WindowStill ==
    ASSUME Typed, Placed, OneName, OwnPart,
           \/ \E c \in Copy : CopySelected(c)
           \/ \E yes \in BOOLEAN : Answer(yes)
           \/ Esc \/ PressQ \/ Quit
           \/ \E s \in Session : OpenSFTP(s) \/ SFTPConnected(s) \/ SFTPRefused(s) \/ Drop(s)
           \/ WaitTransfer
           \/ \E t \in taken : Update(t)
           \/ UNCHANGED vars
    PROVE  OneName' /\ OwnPart' /\ Quiet
<1>1. ASSUME NEW d \in Copy, copies'[d].i = copies[d].i, copies'[d].at = copies[d].at,
             copies'[d].inode = copies[d].inode, copies'[d].files = copies[d].files,
             \/ copies'[d].pc = copies[d].pc \/ copies'[d].pc = "over"
             \/ copies[d].pc = "idle" /\ copies'[d].pc \in {"next", "mkdir"}
      PROVE  GoesOn(d)
  BY <1>1, Numbers DEF GoesOn, Ahead, Has
<1>2. ASSUME NEW c \in Copy, Begins(c) PROVE \A d \in Copy : GoesOn(d)
  BY <1>1, <1>2 DEF Begins, Same
<1>3. ASSUME Stops \/ \E c \in Copy : Overs(c) PROVE \A d \in Copy : GoesOn(d)
  BY <1>1, <1>3 DEF Stops, Overs, Told, Same
<1>4. ASSUME UNCHANGED copies PROVE \A d \in Copy : GoesOn(d)
  BY <1>1, <1>4
<1>5. \A d \in Copy : GoesOn(d)
  BY <1>2, <1>3, <1>4, WindowMoves
<1>6. dest' = dest /\ part' = part /\ blob' = blob
  BY WindowMoves DEF disk
<1> QED BY <1>5, <1>6, NothingTouched

LEMMA FilesInit == Init => Files
<1> SUFFICES ASSUME Init PROVE Files
  OBVIOUS
<1>1. Typed /\ Separate
  BY TypedInit, SeparateInit
<1>2. Placed
  BY DEF Init, Placed, AtWork, Sent
<1>3. OneName
  <2>1. \A f \in File : part[f] = Nil /\ dest[f] \in {Nil, Old}
    BY DEF Init
  <2>2. \A c \in Copy : \A k \in DOMAIN Tree[c] : <<c, Tree[c][k]>> \in Inode /\ Tree[c][k] \in File
    BY EntriesHold DEF Entries, Inode
  <2> QED BY <2>1, <2>2, EntriesHold DEF OneName
<1>4. OwnPart
  BY DEF Init, OwnPart
<1> QED BY <1>1, <1>2, <1>3, <1>4 DEF Files

LEMMA FilesStep ==
    ASSUME CopiesApart, Files, [Next]_vars
    PROVE  Files' /\ (Quiet \/ \E c \in Copy : Moved(c) \/ Removed(c))
<1> USE DEF Files
<1>1. Typed' /\ Placed' /\ Separate'
  BY TypedStep, PlacedStep, SeparateStep
<1>2. OneName' /\ OwnPart' /\ (Quiet \/ \E c \in Copy : Moved(c) \/ Removed(c))
  BY DiskMoves, WindowStill, Steps
<1> QED BY <1>1, <1>2

LEMMA FilesAlways == ASSUME CopiesApart PROVE Spec => []Files
<1>1. Files /\ [Next]_vars => Files'
  BY FilesStep
<1> QED BY <1>1, FilesInit, PTL DEF Spec

\* The path a move or a removal is at is its copy's alone.
LEMMA AtPath ==
    ASSUME Files, NEW c \in Copy, AtWork(c)
    PROVE  /\ Now(c) \in File /\ copies[c].i \in DOMAIN Tree[c]
           /\ dest \in [File -> Inode \cup {Nil, Old}] /\ blob \in [Inode -> [1..Chunks -> Copy \cup {Nil}]]
           /\ \A d \in Copy \ {c} : InFlight(d) => \A k \in DOMAIN Tree[d] : Tree[d][k] # Now(c)
<1>1. copies[c].i \in DOMAIN Tree[c] /\ InFlight(c)
  BY DEF Files, Placed, AtWork, InFlight
<1> QED BY <1>1, EntriesHold DEF Files, Typed, Separate, Disjoint, Now, Entries

-----------------------------------------------------------------------------
(* A destination is the old file or a new one.                             *)

LEMMA OldOrNewInit == Init => OldOrNew
BY DEF Init, OldOrNew

LEMMA OldOrNewStep ==
    ASSUME NothingRemoved, Files, OldOrNew, Quiet \/ \E c \in Copy : Moved(c) \/ Removed(c)
    PROVE  OldOrNew'
<1>1. CASE Quiet
  BY <1>1 DEF Quiet, OldOrNew, Whole
<1>2. ASSUME NEW c \in Copy, Moved(c) PROVE OldOrNew'
  <2>1. PICK n \in Inode : dest' = [dest EXCEPT ![Now(c)] = n] /\ blob[n] = [k \in 1..Chunks |-> c]
    BY <1>2 DEF Moved
  <2>2. Now(c) \in File /\ dest \in [File -> Inode \cup {Nil, Old}] /\ blob' = blob
    BY <1>2, AtPath DEF Moved
  <2> QED BY <2>1, <2>2 DEF OldOrNew, Whole
<1>3. ASSUME NEW c \in Copy, Removed(c) PROVE OldOrNew'
  <2>1. dest' = [dest EXCEPT ![Now(c)] = Nil] /\ blob' = blob /\ Now(c) \notin There
    BY <1>3 DEF Removed, NothingRemoved
  <2>2. Now(c) \in File /\ dest \in [File -> Inode \cup {Nil, Old}]
    BY <1>3, AtPath DEF Removed, AtWork
  <2> QED BY <2>1, <2>2 DEF OldOrNew, Whole
<1> QED BY <1>1, <1>2, <1>3

\* Copy writes to a part file and moves it into place: as long as two copies are not sent to one
\* path at once, and no old file stands where a far side without posix-rename has to remove it
\* first, whatever is at a destination is the file that was there or one copy's whole file.
THEOREM DestinationsAreWhole ==
    ASSUME CopiesApart, NothingRemoved
    PROVE  Spec => []OldOrNew
<1>1. Files /\ OldOrNew /\ [Next]_vars => OldOrNew'
  BY FilesStep, OldOrNewStep
<1> QED BY <1>1, FilesAlways, OldOrNewInit, PTL DEF Spec

-----------------------------------------------------------------------------
(* A single file asks before it replaces another.                          *)

LEMMA NothingThereInit == Init => NothingThere
BY DEF Init, NothingThere, InFlight

LEMMA NothingThereStep ==
    ASSUME CopiesApart, Files, NothingThere, [Next]_vars
    PROVE  NothingThere'
<1> USE DEF Files
<1>0. \A d \in Copy : Into[d] = Nil => 1 \in DOMAIN Tree[d] /\ DOMAIN Tree[d] = {1} /\ Tree[d][1] \in File
  BY TransferAssumption
<1>00. copies \in [Copy -> Copying] /\ dest \in [File -> Inode \cup {Nil, Old}] /\ Nil \notin Copy
  BY EntriesHold DEF Typed
<1>1. ASSUME \A d \in Copy : InFlight(d)' => /\ InFlight(d) /\ copies'[d].asked = copies[d].asked
                                             /\ copies'[d].i >= copies[d].i,
             \A d \in Copy : copies'[d].i = 1 /\ Into[d] = Nil /\ InFlight(d) =>
                                 dest'[Tree[d][1]] \in {dest[Tree[d][1]], Nil}
      PROVE  NothingThere'
  BY <1>1, Numbers DEF NothingThere
<1>2. ASSUME NEW c \in Copy, Rests(c) \/ Opened(c) \/ Wrote(c) \/ Passes(c), Quiet \/ Moved(c) \/ Removed(c)
      PROVE  NothingThere'
  <2>1. \A d \in Copy : InFlight(d)' => /\ InFlight(d) /\ copies'[d].asked = copies[d].asked
                                        /\ copies'[d].i >= copies[d].i
    BY <1>2, Numbers DEF Rests, Stays, Opened, Wrote, Passes, Turn, InFlight
  <2>2. CASE Quiet
    BY <1>1, <2>1, <2>2 DEF Quiet
  <2>3. CASE Removed(c)
    <3>1. Now(c) \in File /\ dest' = [dest EXCEPT ![Now(c)] = Nil]
      BY <2>3, AtPath DEF Removed, AtWork
    <3> QED BY <1>0, <1>00, <1>1, <2>1, <3>1
  <2>4. CASE Moved(c)
    <3>1. PICK n \in Inode : dest' = [dest EXCEPT ![Now(c)] = n]
      BY <2>4 DEF Moved
    <3>2. \A d \in Copy \ {c} : InFlight(d) => \A k \in DOMAIN Tree[d] : Tree[d][k] # Now(c)
      BY <2>4, AtPath DEF Moved
    <3>3. copies'[c].i # 1
      BY <2>4, Numbers DEF Moved
    <3> QED BY <1>0, <1>00, <1>1, <2>1, <3>1, <3>2, <3>3
  <2> QED BY <1>2, <2>2, <2>3, <2>4
<1>3. ASSUME NEW c \in Copy, CopySelected(c) PROVE NothingThere'
  <2>1. CASE Taken(c)
    BY <1>3, <2>1 DEF CopySelected, NothingThere, InFlight, disk
  <2>2. CASE ~ Taken(c)
    <3>1. Start(c, FALSE) /\ dest' = dest
      BY <1>3, <2>2 DEF CopySelected, disk
    <3> QED BY <2>2, <3>1, StartIs DEF Taken, NothingThere, InFlight
  <2> QED BY <2>1, <2>2
<1>4. ASSUME NEW yes \in BOOLEAN, Answer(yes) PROVE NothingThere'
  <2>1. CASE yes
    <3>1. asking \in Copy /\ Start(asking, TRUE) /\ dest' = dest
      BY <1>4, <2>1 DEF Answer, Typed, disk
    <3> QED BY <3>1, StartIs DEF NothingThere, InFlight
  <2>2. CASE ~ yes
    BY <1>4, <2>2 DEF Answer, NothingThere, InFlight, disk
  <2> QED BY <2>1, <2>2
<1>5. ASSUME Stop \/ \E t \in taken : t.finished /\ Done(t.copy), dest' = dest PROVE NothingThere'
  <2>1. \A t \in taken : t.copy \in Copy
    BY DEF Typed, Message
  <2>2. Told /\ \A d \in Copy : copies'[d].pc \in {copies[d].pc, "over"}
    BY <1>5, <2>1, StopIs, DoneIs
  <2> QED BY <1>1, <1>5, <2>2, Numbers DEF Told, Same, InFlight
<1>6. ASSUME Esc \/ PressQ PROVE NothingThere'
  <2>1. Stop /\ dest' = dest
    BY <1>6, Zenon DEF Esc, PressQ, Leave, disk
  <2> QED BY <1>5, <2>1
<1>7. ASSUME NEW t \in taken, Update(t) PROVE NothingThere'
  BY <1>5, <1>7 DEF Update, Handled, disk, NothingThere, InFlight
<1>8. CASE Quit \/ (\E s \in Session : OpenSFTP(s) \/ SFTPConnected(s) \/ SFTPRefused(s) \/ Drop(s))
           \/ WaitTransfer \/ UNCHANGED vars
  BY <1>8 DEF Quit, OpenSFTP, SFTPConnected, SFTPRefused, Drop, WaitTransfer, vars, disk, NothingThere, InFlight
<1> QED BY <1>2, <1>3, <1>4, <1>6, <1>7, <1>8, Steps, GoroutineMoves, DiskMoves

LEMMA Asked ==
    ASSUME Files, NothingThere, Quiet \/ \E c \in Copy : Moved(c) \/ Removed(c),
           NEW c \in Copy, NEW f \in File, Into[c] = Nil, copies[c].files # copies'[c].files,
           dest[f] # Nil, dest'[f] # dest[f]
    PROVE  copies[c].asked
<1>1. Moved(c)
  BY DEF Quiet, Moved, Removed
<1>2. Now(c) = f /\ InFlight(c) /\ copies[c].i = 1
  <2>1. Now(c) \in File /\ copies[c].i \in DOMAIN Tree[c] /\ dest \in [File -> Inode \cup {Nil, Old}]
    BY <1>1, AtPath DEF Moved
  <2>2. DOMAIN Tree[c] = {1}
    BY TransferAssumption
  <2> QED BY <1>1, <2>1, <2>2 DEF Moved, AtWork, InFlight
<1> QED BY <1>2 DEF NothingThere, Now

\* "Copying onto a name already taken asks first": a single file that did not have to ask when it
\* was started finds nothing at its destination when it arrives, however long it took.
THEOREM SingleFilesAskFirst ==
    ASSUME CopiesApart
    PROVE  Spec => AsksFirst
<1>1. Files /\ NothingThere /\ [Next]_vars => NothingThere'
  BY NothingThereStep
<1>2. Files /\ NothingThere /\ [Next]_vars =>
          \A c \in Copy, f \in File :
            (/\ Into[c] = Nil /\ copies[c].files # copies'[c].files
             /\ dest[f] # Nil /\ dest'[f] # dest[f]) => copies[c].asked
  BY FilesStep, Asked
<1> QED BY <1>1, <1>2, FilesAlways, NothingThereInit, PTL DEF Spec, AsksFirst

-----------------------------------------------------------------------------
(* A count is of the files that have arrived.                              *)

LEMMA PassedInit == Init => Passed
BY EntriesHold DEF Init, Passed, Landed, Inode

\* What a move or a removal does to the files that have landed.
LEMMA Landing ==
    ASSUME Chunks > 0, Files, Passed, NEW c \in Copy, Moved(c) \/ Removed(c)
    PROVE  /\ \A d \in Copy \ {c} : Landed(d)' \subseteq Landed(d)
           /\ Moved(c) => Landed(c)' = Landed(c) \cup {Now(c)} /\ Now(c) \notin Landed(c)
           /\ Removed(c) => Landed(c)' \subseteq Landed(c)
<1>0. /\ Now(c) \in File /\ dest \in [File -> Inode \cup {Nil, Old}] /\ blob' = blob
      /\ copies[c].i \in DOMAIN Tree[c] /\ Nil \notin Inode
  BY AtPath, EntriesHold DEF Moved, Removed, AtWork
<1>1. ASSUME Moved(c)
      PROVE  /\ \A d \in Copy \ {c} : Landed(d)' \subseteq Landed(d)
             /\ Landed(c)' = Landed(c) \cup {Now(c)} /\ Now(c) \notin Landed(c)
  <2>1. PICK n \in Inode : dest' = [dest EXCEPT ![Now(c)] = n] /\ blob[n] = [k \in 1..Chunks |-> c]
    BY <1>1 DEF Moved
  <2>2. \A d \in Copy \ {c} : blob[n] # [k \in 1..Chunks |-> d]
    <3>1. blob[n][1] = c /\ 1 \in 1..Chunks
      BY <2>1, EntriesHold
    <3> QED BY <3>1
  <2>3. \A f \in File : dest'[f] = IF f = Now(c) THEN n ELSE dest[f]
    BY <1>0, <2>1
  <2>4. \A d \in Copy \ {c} : Landed(d)' \subseteq Landed(d)
    BY <1>0, <2>1, <2>2, <2>3 DEF Landed
  <2>5. Landed(c)' \subseteq Landed(c) \cup {Now(c)}
    BY <1>0, <2>3 DEF Landed
  <2>6. Now(c) \in Landed(c)'
    BY <1>0, <2>1, <2>3 DEF Landed
  <2>7. \A f \in Landed(c) : f \in Landed(c)'
    <3>1. ASSUME NEW f \in Landed(c), f # Now(c) PROVE f \in Landed(c)'
      BY <1>0, <2>3, <3>1 DEF Landed
    <3> QED BY <2>6, <3>1
  <2>8. Now(c) \notin Landed(c)
    <3>1. ASSUME Now(c) \in Landed(c) PROVE FALSE
      <4>1. PICK k \in DOMAIN Tree[c] : k < copies[c].i /\ Tree[c][k] = Now(c)
        BY <3>1 DEF Passed
      <4> QED BY <1>0, <4>1, EntriesHold, Numbers DEF Now, Entries, Files
    <3> QED BY <3>1
  <2> QED BY <2>4, <2>5, <2>6, <2>7, <2>8
<1>2. ASSUME Removed(c) PROVE \A d \in Copy : Landed(d)' \subseteq Landed(d)
  <2>1. dest' = [dest EXCEPT ![Now(c)] = Nil]
    BY <1>2 DEF Removed
  <2>2. \A f \in File : dest'[f] = IF f = Now(c) THEN Nil ELSE dest[f]
    BY <1>0, <2>1
  <2> QED BY <1>0, <2>2 DEF Landed
<1> QED BY <1>1, <1>2

LEMMA QuietLanding ==
    ASSUME Quiet, NEW d \in Copy
    PROVE  Landed(d)' = Landed(d)
BY DEF Quiet, Landed

LEMMA PassedStep ==
    ASSUME Chunks > 0, Files, Passed, Files', Quiet \/ \E c \in Copy : Moved(c) \/ Removed(c)
    PROVE  Passed'
<1>0. \A d \in Copy : copies[d].i \in Nat /\ \A k \in DOMAIN Tree[d] : k \in Nat
  BY Numbers, EntriesHold DEF Files, Entries
<1>1. CASE Quiet
  <2>1. \A d \in Copy : Landed(d)' = Landed(d) /\ copies'[d].i >= copies[d].i
    BY <1>1, QuietLanding DEF Quiet
  <2>2. \A d \in Copy : copies'[d].i \in Nat
    BY EntriesHold DEF Files, Typed, Copying
  <2> QED BY <1>0, <2>1, <2>2 DEF Passed
<1>2. ASSUME NEW c \in Copy, Moved(c) PROVE Passed'
  <2>1. copies'[c].i = copies[c].i + 1 /\ \A d \in Copy \ {c} : copies'[d] = copies[d]
    BY <1>2 DEF Moved
  <2>2. copies[c].i \in DOMAIN Tree[c] /\ Tree[c][copies[c].i] = Now(c)
    BY <1>2, AtPath DEF Moved, Now
  <2> QED BY <1>0, <1>2, <2>1, <2>2, Landing DEF Passed
<1>3. ASSUME NEW c \in Copy, Removed(c) PROVE Passed'
  <2>1. \A d \in Copy : Landed(d)' \subseteq Landed(d)
    BY <1>3, Landing
  <2>2. \A d \in Copy : copies'[d].i = copies[d].i
    BY <1>3 DEF Removed
  <2> QED BY <2>1, <2>2 DEF Passed
<1> QED BY <1>1, <1>2, <1>3

LEMMA Counted ==
    ASSUME Chunks > 0, Files, Passed, Quiet \/ \E c \in Copy : Moved(c) \/ Removed(c), NEW d \in Copy
    PROVE  copies'[d].files = copies[d].files + Cardinality(Landed(d)' \ Landed(d))
<1>0. copies[d].files \in Nat
  BY Numbers DEF Files
<1>1. ASSUME copies'[d].files = copies[d].files, Landed(d)' \subseteq Landed(d)
      PROVE  copies'[d].files = copies[d].files + Cardinality(Landed(d)' \ Landed(d))
  <2>1. Landed(d)' \ Landed(d) = {}
    BY <1>1
  <2>2. Cardinality(Landed(d)' \ Landed(d)) = 0
    BY <2>1, FS_EmptySet
  <2> QED BY <1>0, <1>1, <2>2
<1>2. CASE Quiet
  BY <1>1, <1>2, QuietLanding DEF Quiet
<1>3. ASSUME NEW c \in Copy, Moved(c) \/ Removed(c), ~ (c = d /\ Moved(c))
      PROVE  copies'[d].files = copies[d].files + Cardinality(Landed(d)' \ Landed(d))
  BY <1>1, <1>3, Landing DEF Moved, Removed
<1>4. CASE Moved(d)
  <2>1. Landed(d)' \ Landed(d) = {Now(d)} /\ copies'[d].files = copies[d].files + 1
    BY <1>4, Landing DEF Moved
  <2>2. Cardinality(Landed(d)' \ Landed(d)) = 1
    BY <2>1, FS_Singleton
  <2> QED BY <2>1, <2>2
<1> QED BY <1>2, <1>3, <1>4

LEMMA CountedAlways ==
    ASSUME CopiesApart, Chunks > 0
    PROVE  Spec => HonestCount
<1>1. Files /\ Passed /\ [Next]_vars => Passed'
  BY FilesStep, PassedStep
<1>2. Files /\ Passed /\ [Next]_vars =>
          \A c \in Copy : copies'[c].files = copies[c].files + Cardinality(Landed(c)' \ Landed(c))
  BY FilesStep, Counted
<1> QED BY <1>1, <1>2, FilesAlways, PassedInit, PTL DEF Spec, HonestCount

-----------------------------------------------------------------------------
(* The end of a copy is said once.                                         *)

LEMMA SaidInit == Init => Said
BY DEF Init, Said, Sent

LEMMA Words ==
    ASSUME Typed
    PROVE  /\ taken \subseteq Message /\ Sent \subseteq Message
           /\ \A m \in Message : m.copy \in Copy /\ m.finished \in BOOLEAN
<1>1. channel \in Seq(Message) /\ taken \subseteq Message
  BY DEF Typed
<1>2. Sent \subseteq Message
  BY <1>1 DEF Sent
<1> QED BY <1>1, <1>2 DEF Message

\* A finished message is its copy's only one.
LEMMA OnlyOne ==
    ASSUME Typed, Said, NEW m \in Sent \cup taken, NEW n \in Sent \cup taken,
           m.finished, n.finished, m.copy = n.copy
    PROVE  m = n
<1>1. m \in Message /\ n \in Message
  BY Words
<1>2. m.at = n.at
  BY DEF Said
<1>3. m.finished = TRUE /\ n.finished = TRUE
  BY <1>1 DEF Message
<1> QED BY <1>1, <1>2, <1>3 DEF Message

LEMMA Appends ==
    ASSUME Typed, NEW m, channel' = Append(channel, m)
    PROVE  /\ DOMAIN channel' = DOMAIN channel \cup {Len(channel) + 1} /\ Len(channel) + 1 \notin DOMAIN channel
           /\ channel'[Len(channel) + 1] = m /\ \A k \in DOMAIN channel : channel'[k] = channel[k] /\ k < Len(channel) + 1
<1>1. channel \in Seq(Message)
  BY DEF Typed
<1> QED BY <1>1

LEMMA Takings ==
    ASSUME Typed, WaitTransfer
    PROVE  /\ \A k \in DOMAIN channel' : k + 1 \in DOMAIN channel /\ channel'[k] = channel[k + 1] /\ k \in Nat
           /\ 1 \in DOMAIN channel /\ \A k \in DOMAIN channel' : 1 < k + 1
           /\ taken' = taken \cup {channel[1]} /\ channel[1] \in Sent
<1>1. channel \in Seq(Message) /\ channel # <<>> /\ channel' = Tail(channel) /\ taken' = taken \cup {Head(channel)}
  BY DEF Typed, WaitTransfer
<1>2. 1 \in DOMAIN channel /\ Head(channel) = channel[1]
  BY <1>1
<1> QED BY <1>1, <1>2 DEF Sent

LEMMA SaidStep ==
    ASSUME Typed, Placed, Said, [Next]_vars
    PROVE  Said'
<1>0. taken \subseteq Message /\ Sent \subseteq Message /\ \A m \in Message : m.copy \in Copy /\ m.finished \in BOOLEAN
  BY Words
<1>1. ASSUME NEW c \in Copy, Rests(c) \/ Opened(c) \/ Wrote(c) \/ Passes(c), Beside, Sends(c)
      PROVE  Said'
  <2>1. (\A d \in Copy \ {c} : copies'[d] = copies[d]) /\ copies[c].pc # "sent"
    BY <1>1 DEF Rests, Stays, Opened, Wrote, Passes, Turn
  <2>2. \A m \in Sent \cup taken : m.finished => m.copy # c
    BY <2>1 DEF Said
  <2>3. taken' = taken
    BY <1>1 DEF Beside
  <2>4. CASE channel' = channel
    BY <1>0, <2>1, <2>2, <2>3, <2>4 DEF Said, Sent
  <2>5. CASE channel' = Append(channel, Progress(c))
    <3>1. Sent' = Sent \cup {Progress(c)} /\ ~ Progress(c).finished
      BY <2>5, SentOf DEF Progress
    <3>2. \A m \in Sent' \cup taken' : m.finished => copies'[m.copy].pc = "sent" /\ m.at = <<0, 0>>
      BY <1>0, <2>1, <2>2, <2>3, <3>1 DEF Said
    <3>3. \A k, l \in DOMAIN channel' : channel'[k].finished /\ channel'[l].finished
                                        /\ channel'[k].copy = channel'[l].copy => k = l
      BY <2>5, <3>1, Appends DEF Said
    <3> QED BY <2>3, <3>1, <3>2, <3>3 DEF Said
  <2>6. CASE channel' = Append(channel, Finished(c)) /\ copies'[c].pc = "sent"
    <3>1. Sent' = Sent \cup {Finished(c)} /\ Finished(c).copy = c /\ Finished(c).at = <<0, 0>>
      BY <2>6, SentOf DEF Finished
    <3>2. \A m \in Sent' \cup taken' : m.finished => copies'[m.copy].pc = "sent" /\ m.at = <<0, 0>>
      BY <1>0, <2>1, <2>2, <2>3, <2>6, <3>1 DEF Said
    <3>3. \A k, l \in DOMAIN channel' : channel'[k].finished /\ channel'[l].finished
                                        /\ channel'[k].copy = channel'[l].copy => k = l
      <4>1. \A k \in DOMAIN channel : channel[k].finished => channel[k].copy # c
        BY <2>2 DEF Sent
      <4> QED BY <2>6, <3>1, <4>1, Appends DEF Said
    <3> QED BY <2>2, <2>3, <3>1, <3>2, <3>3 DEF Said
  <2> QED BY <1>1, <2>4, <2>5, <2>6 DEF Sends
<1>2. ASSUME \A d \in Copy : copies[d].pc = "sent" => copies'[d].pc = "sent", channel' = channel, taken' = taken
      PROVE  Said'
  BY <1>0, <1>2 DEF Said, Sent
<1>3. ASSUME WaitTransfer PROVE Said'
  <2>1. copies' = copies /\ Sent' \subseteq Sent /\ taken' = taken \cup {channel[1]} /\ channel[1] \in Sent
    BY <1>3, SentOf, Takings DEF WaitTransfer
  <2>2. \A k, l \in DOMAIN channel' : channel'[k].finished /\ channel'[l].finished
                                      /\ channel'[k].copy = channel'[l].copy => k = l
    <3>1. ASSUME NEW k \in DOMAIN channel', NEW l \in DOMAIN channel',
                 channel'[k].finished, channel'[l].finished, channel'[k].copy = channel'[l].copy
          PROVE  k = l
      <4>1. k + 1 = l + 1
        BY <1>3, <3>1, Takings DEF Said
      <4> QED BY <1>3, <3>1, <4>1, Takings
    <3> QED BY <3>1
  <2>3. \A n \in Sent' : n.finished /\ channel[1].finished => channel[1].copy # n.copy
    <3>1. \A k \in DOMAIN channel' : channel'[k].finished /\ channel[1].finished => channel[1].copy # channel'[k].copy
      <4>1. ASSUME NEW k \in DOMAIN channel', channel'[k].finished, channel[1].finished,
                   channel[1].copy = channel'[k].copy
            PROVE  FALSE
        <5>1. 1 = k + 1 /\ 1 < k + 1 /\ k \in Nat
          BY <1>3, <4>1, Takings DEF Said
        <5> QED BY <5>1
      <4> QED BY <4>1
    <3> QED BY <3>1 DEF Sent
  <2> QED BY <2>1, <2>2, <2>3 DEF Said
<1>4. ASSUME NEW t \in taken, t.finished, Done(t.copy), channel' = channel, taken' = taken \ {t}
      PROVE  Said'
  <2>1. t.copy \in Copy /\ \A d \in Copy \ {t.copy} : copies'[d].pc = copies[d].pc
    BY <1>0, <1>4, DoneIs
  <2>2. \A m \in Sent \cup taken' : m.finished => m.copy # t.copy
    <3>1. \A m \in Sent : m.finished => m.copy # t.copy
      BY <1>4 DEF Said
    <3>2. \A m \in taken \ {t} : m.finished => m.copy # t.copy
      BY <1>4, OnlyOne
    <3> QED BY <1>4, <3>1, <3>2
  <2> QED BY <1>0, <1>4, <2>1, <2>2 DEF Said, Sent
<1>5. ASSUME NEW t \in taken, Update(t) PROVE Said'
  <2>1. CASE t.finished
    BY <1>4, <1>5, <2>1 DEF Update, Handled
  <2>2. CASE ~ t.finished
    BY <1>0, <1>5, <2>2 DEF Update, Handled, Said, Sent
  <2> QED BY <2>1, <2>2
<1>6. ASSUME NEW c \in Copy, CopySelected(c) PROVE Said'
  <2>1. CASE Taken(c)
    BY <1>2, <1>6, <2>1 DEF CopySelected, post
  <2>2. CASE ~ Taken(c)
    <3>1. Start(c, FALSE) /\ copies[c].pc = "idle" /\ UNCHANGED post
      BY <1>6, <2>2 DEF CopySelected
    <3> QED BY <1>2, <3>1, StartIs DEF post
  <2> QED BY <2>1, <2>2
<1>7. ASSUME NEW yes \in BOOLEAN, Answer(yes) PROVE Said'
  <2>1. CASE yes
    <3>1. Start(asking, TRUE) /\ asking \in Copy /\ copies[asking].pc = "idle" /\ UNCHANGED post
      BY <1>7, <2>1 DEF Answer, Typed
    <3> QED BY <1>2, <3>1, StartIs DEF post
  <2>2. CASE ~ yes
    BY <1>2, <1>7, <2>2 DEF Answer, post
  <2> QED BY <2>1, <2>2
<1>8. ASSUME Esc \/ PressQ PROVE Said'
  <2>1. Stop /\ UNCHANGED post
    BY <1>8, Zenon DEF Esc, PressQ, Leave
  <2> QED BY <1>2, <2>1, StopIs DEF post
<1>9. CASE Quit \/ (\E s \in Session : OpenSFTP(s) \/ SFTPConnected(s) \/ SFTPRefused(s) \/ Drop(s))
           \/ UNCHANGED vars
  BY <1>2, <1>9 DEF Quit, OpenSFTP, SFTPConnected, SFTPRefused, Drop, vars, post
<1> QED BY <1>1, <1>3, <1>5, <1>6, <1>7, <1>8, <1>9, Steps, GoroutineMoves

-----------------------------------------------------------------------------
(* A part file belongs to somebody.                                        *)

\* c holds f's part file: it is at work on it, or can no longer get at it.
Holds(c, f) ==
    /\ copies[c].pc # "idle" /\ copies[c].i <= Len(Tree[c]) /\ Now(c) = f
    /\ AtWork(c) \/ ~ Reaches(c, f)

LEMMA HeldInit == Init => PartsAreInUse
BY DEF Init, PartsAreInUse

\* Held by a copy that has only been told something, or not that much.
LEMMA HoldsOn ==
    ASSUME Typed, Placed, [Next]_vars, NEW c \in Copy, NEW f \in File, Holds(c, f),
           copies'[c].i = copies[c].i, copies'[c].via = copies[c].via, copies'[c].pc # "idle",
           AtWork(c)' \/ ~ AtWork(c) \/ ~ Reaches(c, f)
    PROVE  Holds(c, f)'
<1>1. Now(c)' = Now(c)
  BY DEF Now
<1>2. ~ Reaches(c, f) => ~ Reaches(c, f)'
  <2>1. copies[c].via \in Session /\ sessions[copies[c].via] \notin {"none", "connecting"}
    BY DEF Placed, Holds
  <2> QED BY <2>1, SessionsGoOn DEF Reaches, Up
<1> QED BY <1>1, <1>2 DEF Holds

LEMMA HeldByGoroutine ==
    ASSUME Typed, Placed, PartsAreInUse, [Next]_vars, NEW c \in Copy,
           \/ Mkdir(c) \/ NoMore(c) \/ ToldBetween(c) \/ Skip(c) \/ OpenFails(c)
           \/ Create(c) \/ Write(c) \/ WriteFails(c) \/ Replace(c) \/ RemoveFirst(c)
           \/ Rename(c) \/ ReplaceFails(c) \/ Clean(c) \/ Report(c)
    PROVE  PartsAreInUse'
<1> SUFFICES ASSUME NEW f \in File, part'[f] # Nil PROVE \E d \in Copy : Holds(d, f)'
  BY DEF PartsAreInUse, Holds, AtWork
<1>0. part \in [File -> Inode \cup {Nil}] /\ copies \in [Copy -> Copying]
  BY DEF Typed
<1>1. \A d \in Copy \ {c} : copies'[d] = copies[d]
  BY Moves DEF Rests, Stays, Opened, Wrote, Passes, Turn
<1>2. \A d \in Copy \ {c} : Holds(d, f) => Holds(d, f)'
  BY <1>1, HoldsOn DEF Holds, AtWork
<1>3. part[f] # Nil => \E d \in Copy : Holds(d, f)
  BY DEF PartsAreInUse, Holds, AtWork
<1>4. CASE Create(c)
  <2>1. copies[c].i \in Nat \ {0} /\ copies[c].i <= Len(Tree[c]) /\ copies[c].pc = "next"
    BY <1>4, Numbers DEF Create, Opens, Takes
  <2>2. Now(c) \in File
    BY <2>1, EntriesHold DEF Entries, Now
  <2>3. copies'[c].pc = "write" /\ copies'[c].i = copies[c].i
    <3>1. PICK n \in Inode : copies' = Writing(c, n)
      BY <1>0, <1>4, <2>2 DEF Create, Inode
    <3> QED BY <1>0, <3>1, WritingTurns DEF Turn
  <2>4. CASE f = Now(c)
    BY <2>1, <2>3, <2>4 DEF Holds, AtWork, Now
  <2>5. CASE f # Now(c)
    <3>1. part[f] # Nil
      BY <1>0, <1>4, <2>5 DEF Create
    <3>2. PICK d \in Copy : Holds(d, f)
      BY <1>3, <3>1
    <3>3. d # c
      BY <2>5, <3>2 DEF Holds
    <3> QED BY <1>2, <3>2, <3>3
  <2> QED BY <2>4, <2>5
<1>5. CASE Replace(c) \/ Rename(c)
  <2>1. f # Now(c) /\ part[f] # Nil
    BY <1>0, <1>5 DEF Replace, Rename, MovePart
  <2>2. PICK d \in Copy : Holds(d, f)
    BY <1>3, <2>1
  <2> QED BY <1>2, <2>1, <2>2 DEF Holds
<1>6. CASE Clean(c)
  <2>1. part[f] # Nil /\ (f = Now(c) => ~ Reaches(c, f))
    BY <1>0, <1>6 DEF Clean
  <2>2. PICK d \in Copy : Holds(d, f)
    BY <1>3, <2>1
  <2>3. Stays(c, "report", copies[c].result)
    BY <1>0, <1>6, AtStays DEF Clean, Places
  <2> QED BY <1>2, <2>1, <2>2, <2>3, HoldsOn DEF Holds, Stays, Turn
<1>7. CASE Write(c) \/ WriteFails(c) \/ RemoveFirst(c) \/ ReplaceFails(c)
  <2>1. part' = part
    BY <1>7 DEF Write, WriteFails, RemoveFirst, ReplaceFails, disk
  <2>2. /\ copies'[c].i = copies[c].i /\ copies'[c].via = copies[c].via
        /\ copies'[c].pc \in {"write", "rename", "clean"}
    <3>1. CASE Write(c)
      BY <1>0, <3>1, WriteTurns DEF Turn
    <3>2. CASE RemoveFirst(c)
      BY <1>0, <3>2, AtStays DEF RemoveFirst, Places, Stays, Turn
    <3>3. CASE WriteFails(c) \/ ReplaceFails(c)
      BY <1>0, <3>3, EndedStays DEF WriteFails, ReplaceFails, Places, Outcomes, Stays, Turn
    <3> QED BY <1>7, <3>1, <3>2, <3>3
  <2>3. PICK d \in Copy : Holds(d, f)
    BY <1>3, <2>1
  <2> QED BY <1>2, <2>2, <2>3, HoldsOn DEF AtWork
<1>8. CASE Mkdir(c) \/ NoMore(c) \/ ToldBetween(c) \/ Skip(c) \/ OpenFails(c) \/ Report(c)
  <2>1. part' = part /\ ~ AtWork(c)
    BY <1>8 DEF Mkdir, NoMore, ToldBetween, Skip, OpenFails, Report, Takes, AtWork, disk
  <2>2. PICK d \in Copy : Holds(d, f)
    BY <1>3, <2>1
  <2>3. CASE d # c
    BY <1>2, <2>2, <2>3
  <2>4. CASE d = c
    <3>1. ~ Up(c)
      BY <2>1, <2>2, <2>4 DEF Holds, Reaches
    <3>2. ~ Skip(c)
      BY <3>1 DEF Skip
    <3>3. Rests(c)
      BY <1>0, <1>8, <3>2, Resting
    <3>4. copies'[c].i = copies[c].i /\ copies'[c].via = copies[c].via /\ copies'[c].pc # "idle"
      BY <3>3 DEF Rests, Stays, Turn
    <3> QED BY <2>1, <2>2, <2>4, <3>4, HoldsOn
  <2> QED BY <2>3, <2>4
<1> QED BY <1>4, <1>5, <1>6, <1>7, <1>8

LEMMA HeldStep ==
    ASSUME Typed, Placed, Said, PartsAreInUse, [Next]_vars
    PROVE  PartsAreInUse'
<1>1. ASSUME UNCHANGED part,
             \A c \in Copy : copies[c].pc # "idle" =>
                 /\ copies'[c].i = copies[c].i /\ copies'[c].via = copies[c].via /\ copies'[c].pc # "idle"
                 /\ AtWork(c) => AtWork(c)'
      PROVE  PartsAreInUse'
  <2> SUFFICES ASSUME NEW f \in File, part'[f] # Nil PROVE \E d \in Copy : Holds(d, f)'
    BY DEF PartsAreInUse, Holds, AtWork
  <2>1. PICK d \in Copy : Holds(d, f)
    BY <1>1 DEF PartsAreInUse, Holds, AtWork
  <2>2. Holds(d, f)'
    BY <1>1, <2>1, HoldsOn DEF Holds
  <2> QED BY <2>2
<1>2. ASSUME NEW c \in Copy, Begins(c), UNCHANGED disk PROVE PartsAreInUse'
  BY <1>1, <1>2 DEF Begins, AtWork, disk
<1>3. ASSUME Stops, UNCHANGED disk PROVE PartsAreInUse'
  BY <1>1, <1>3 DEF Stops, Told, Same, AtWork, disk
<1>4. ASSUME NEW c \in Copy, Overs(c), UNCHANGED disk PROVE PartsAreInUse'
  <2>1. copies[c].pc = "sent"
    BY <1>4 DEF Overs, Said
  <2>2. \A d \in Copy : copies'[d].i = copies[d].i /\ copies'[d].via = copies[d].via
    BY <1>4 DEF Overs, Told, Same
  <2> QED BY <1>1, <1>4, <2>1, <2>2 DEF Overs, AtWork, disk
<1>5. ASSUME UNCHANGED copies, UNCHANGED disk PROVE PartsAreInUse'
  BY <1>1, <1>5 DEF AtWork, disk
<1> QED BY <1>2, <1>3, <1>4, <1>5, HeldByGoroutine, WindowMoves, Steps

\* Whatever copies run at once, and wherever each is stopped, refused or cut off: a part file is
\* at the entry of a copy that has yet to move it or remove it, or at the far end of a connection
\* that copy lost.
THEOREM PartFilesAreInUse == Spec => []PartsAreInUse
<1>1. Init => Typed /\ Placed /\ Said /\ PartsAreInUse
  BY TypedInit, SaidInit, HeldInit DEF Init, Placed, AtWork, Sent
<1>2. Typed /\ Placed /\ Said /\ PartsAreInUse /\ [Next]_vars => (Typed /\ Placed /\ Said /\ PartsAreInUse)'
  BY TypedStep, PlacedStep, SaidStep, HeldStep
<1> QED BY <1>1, <1>2, PTL DEF Spec

-----------------------------------------------------------------------------
(* The stop button.                                                        *)

LEMMA AloneInit == Init => Alone
BY DEF Init, Alone, InFlight

LEMMA AloneStep ==
    ASSUME Typed, Placed, Said, Alone, [Next]_vars
    PROVE  Alone'
<1>0. copies \in [Copy -> Copying] /\ Nil \notin Copy /\ cancel \in Copy \cup {Nil}
  BY EntriesHold DEF Typed
<1>1. ASSUME NEW c \in Copy, Rests(c) \/ Opened(c) \/ Wrote(c) \/ Passes(c), Beside
      PROVE  Alone'
  <2>1. \A d \in Copy : InFlight(d)' <=> InFlight(d)
    BY <1>1 DEF Rests, Stays, Opened, Wrote, Passes, Turn, InFlight
  <2>2. \A d \in Copy : copies'[d].off = copies[d].off
    BY <1>1 DEF Rests, Stays, Opened, Wrote, Passes, Turn
  <2>3. copies[c].pc \notin {"idle", "over"} /\ copies'[c].pc \notin {"idle", "over"}
        /\ \A d \in Copy \ {c} : copies'[d] = copies[d]
    BY <1>1 DEF Rests, Stays, Opened, Wrote, Passes, Turn
  <2>4. cancel' = cancel /\ wished' = wished /\ met' = met
    BY <1>1 DEF Beside, past
  <2> QED BY <1>0, <2>1, <2>2, <2>3, <2>4 DEF Alone
<1>2. ASSUME NEW c \in Copy, Begins(c) PROVE Alone'
  <2>1. \A d \in Copy : InFlight(d)' <=> InFlight(d) \/ d = c
    BY <1>2 DEF Begins, InFlight
  <2>2. met \subseteq met' /\ (\A d \in Copy : InFlight(d) => d \in met' /\ c \in met')
    BY <1>2 DEF Begins, Together
  <2>3. cancel' = c /\ wished' = wished /\ \A d \in Copy : copies'[d].off = copies[d].off
    BY <1>2 DEF Begins
  <2>4. \A d \in Copy : /\ copies'[d].pc = "idle" => copies[d].pc = "idle" /\ copies'[d].result = copies[d].result
                        /\ copies[d].pc = "over" => copies'[d].pc = "over"
    BY <1>2 DEF Begins, Same
  <2> QED BY <2>1, <2>2, <2>3, <2>4 DEF Alone
<1>3. ASSUME Stops PROVE Alone'
  <2>1. \A d \in Copy : copies'[d].pc = copies[d].pc /\ copies'[d].result = copies[d].result
                        /\ (copies'[d].off <=> copies[d].off \/ d = cancel)
    BY <1>3 DEF Stops, Told, Same
  <2>2. cancel' = Nil /\ met' = met /\ \A d \in Copy : d \in wished' <=> d \in wished \/ d = cancel
    BY <1>0, <1>3 DEF Stops, Stop
  <2>3. \A d \in Copy : InFlight(d)' <=> InFlight(d)
    BY <2>1 DEF InFlight
  <2>4. cancel \in Copy => copies[cancel].pc # "idle"
    BY <1>0 DEF Alone, InFlight
  <2> QED BY <1>0, <2>1, <2>2, <2>3, <2>4 DEF Alone
<1>4. ASSUME NEW c \in Copy, Overs(c) PROVE Alone'
  <2>1. \A d \in Copy : copies'[d].result = copies[d].result /\ (copies'[d].off <=> copies[d].off \/ d = cancel)
    BY <1>4 DEF Overs, Told, Same
  <2>2. copies'[c].pc = "over" /\ \A d \in Copy \ {c} : copies'[d].pc = copies[d].pc
    BY <1>4 DEF Overs
  <2>3. cancel' = Nil /\ met' = met /\ wished' = wished
    BY <1>4 DEF Overs
  <2>4. InFlight(c)
    BY <1>4 DEF Overs, Said, InFlight
  <2>5. \A d \in Copy : InFlight(d)' <=> InFlight(d) /\ d # c
    BY <2>2 DEF InFlight
  <2>6. cancel \in Copy => InFlight(cancel) /\ (cancel \notin met => cancel = c)
    BY <1>0, <2>4 DEF Alone
  <2>7. \A d \in Copy : d # c /\ copies'[d].pc = "idle" => d # cancel
    BY <2>2, <2>6 DEF InFlight
  <2> QED BY <1>0, <2>1, <2>2, <2>3, <2>4, <2>5, <2>6, <2>7 DEF Alone
<1>5. ASSUME UNCHANGED <<copies, cancel, past>> PROVE Alone'
  BY <1>5 DEF Alone, InFlight, past
<1> QED BY <1>1, <1>2, <1>3, <1>4, <1>5, Steps, GoroutineMoves, WindowMoves

LEMMA AloneAlways == Spec => [](Typed /\ Placed /\ Said /\ Alone)
<1>1. Init => Typed /\ Placed /\ Said /\ Alone
  BY TypedInit, SaidInit, AloneInit DEF Init, Placed, AtWork, Sent
<1>2. Typed /\ Placed /\ Said /\ Alone /\ [Next]_vars => (Typed /\ Placed /\ Said /\ Alone)'
  BY TypedStep, PlacedStep, SaidStep, AloneStep
<1> QED BY <1>1, <1>2, PTL DEF Spec

\* "esc stops a copy that is running and leaves the browser when none is": one button for however
\* many copies, and yet it holds the copy that runs alone, and never one whose end has been shown.
THEOREM EscMeansIt == Spec => []EscMeansWhatItSays
<1>1. Alone => EscMeansWhatItSays
  BY DEF Alone, EscMeansWhatItSays, EscStopsTheCopy, EscLeavesWhenIdle, Running, InFlight
<1> QED BY <1>1, AloneAlways, PTL

LEMMA StoppedInit == Init => StoppedWasCalledOff
BY DEF Init, StoppedWasCalledOff

LEMMA StoppedStep ==
    ASSUME Typed, Placed, Alone, StoppedWasCalledOff, [Next]_vars
    PROVE  StoppedWasCalledOff'
<1>1. ASSUME NEW c \in Copy, Rests(c) \/ Opened(c) \/ Wrote(c) \/ Passes(c), Beside
      PROVE  StoppedWasCalledOff'
  <2>1. \A d \in Copy \ {c} : copies'[d] = copies[d]
    BY <1>1 DEF Rests, Stays, Opened, Wrote, Passes, Turn
  <2>2. copies'[c].result = "stopped" =>
            \/ copies[c].result = "stopped"
            \/ copies[c].off /\ copies[c].pc # "over"
    BY <1>1 DEF Rests, Stays, Opened, Wrote, Passes, Turn
  <2>3. wished' = wished /\ met' = met
    BY <1>1 DEF Beside, past
  <2> QED BY <2>1, <2>2, <2>3 DEF StoppedWasCalledOff, Alone
<1>2. ASSUME \A d \in Copy : copies'[d].result = copies[d].result, wished \subseteq wished', met \subseteq met'
      PROVE  StoppedWasCalledOff'
  BY <1>2 DEF StoppedWasCalledOff
<1>3. ASSUME NEW c \in Copy, Begins(c) PROVE StoppedWasCalledOff'
  BY <1>2, <1>3 DEF Begins, Same, Together
<1>4. ASSUME Stops \/ \E c \in Copy : Overs(c) PROVE StoppedWasCalledOff'
  BY <1>2, <1>4 DEF Stops, Stop, Overs, Told, Same
<1>5. ASSUME UNCHANGED <<copies, past>> PROVE StoppedWasCalledOff'
  BY <1>2, <1>5 DEF past
<1> QED BY <1>1, <1>3, <1>4, <1>5, Steps, GoroutineMoves, WindowMoves

LEMMA StoppedAlways == Spec => []StoppedWasCalledOff
<1>1. Typed /\ Placed /\ Alone /\ StoppedWasCalledOff /\ [Next]_vars => StoppedWasCalledOff'
  BY StoppedStep
<1> QED BY <1>1, AloneAlways, StoppedInit, PTL DEF Spec

-----------------------------------------------------------------------------
(* Where the browser was opened once, the words arrive in order.           *)

OpenedOnce == \A s, t \in Session : s = t

LEMMA OneReaderInit == Init => OneReader
BY DEF Init, OneReader

LEMMA OneReaderStep ==
    ASSUME OpenedOnce, Typed, OneReader, [Next]_vars
    PROVE  OneReader'
<1>0. readers \in Nat /\ sessions \in [Session -> {"none", "connecting", "open", "dead", "closed"}]
  BY DEF Typed
<1>1. ASSUME UNCHANGED <<readers, taken>>,
             \A s \in Session : sessions'[s] \in {"none", "connecting"} => sessions[s] \in {"none", "connecting"}
      PROVE  OneReader'
  BY <1>1 DEF OneReader
<1>2. ASSUME NEW c \in Copy, Beside PROVE OneReader'
  BY <1>1, <1>2 DEF Beside, ui
<1>3. \A s \in Session : sessions'[s] \in {"none", "connecting"} => sessions[s] \in {"none", "connecting"}
  BY <1>0, SessionsGoOn
<1>4. ASSUME NEW s \in Session, SFTPConnected(s) PROVE OneReader'
  <2>1. readers = 0 /\ taken = {} /\ readers' = 1 /\ taken' = {}
    BY <1>4 DEF SFTPConnected, OneReader
  <2>2. \A t \in Session : sessions'[t] = "open"
    BY <1>0, <1>4 DEF SFTPConnected, OpenedOnce
  <2> QED BY <2>1, <2>2 DEF OneReader
<1>5. ASSUME WaitTransfer PROVE OneReader'
  <2>1. readers = 1 /\ taken = {} /\ readers' = 0 /\ taken' = {Head(channel)}
    BY <1>0, <1>5 DEF WaitTransfer, OneReader
  <2>2. \A s \in Session : sessions[s] \notin {"none", "connecting"}
    BY <2>1 DEF OneReader
  <2>3. \A s \in Session : sessions'[s] \notin {"none", "connecting"}
    BY <1>3, <2>2
  <2> QED BY <2>1, <2>3 DEF OneReader
<1>6. ASSUME NEW t \in taken, Update(t) PROVE OneReader'
  <2>1. readers = 0 /\ taken = {t} /\ readers' = 1 /\ taken' = {}
    BY <1>0, <1>6 DEF Update, Handled, OneReader
  <2>2. \A s \in Session : sessions[s] \notin {"none", "connecting"}
    BY <2>1 DEF OneReader
  <2>3. \A s \in Session : sessions'[s] \notin {"none", "connecting"}
    BY <1>3, <2>2
  <2> QED BY <2>1, <2>3 DEF OneReader
<1>7. ASSUME Esc \/ PressQ PROVE OneReader'
  <2>1. UNCHANGED <<readers, taken>>
    BY <1>7, Zenon DEF Esc, PressQ, Leave, post
  <2> QED BY <1>1, <1>3, <2>1
<1>8. CASE (\E c \in Copy : CopySelected(c)) \/ (\E yes \in BOOLEAN : Answer(yes)) \/ Quit
           \/ (\E s \in Session : OpenSFTP(s) \/ SFTPRefused(s) \/ Drop(s)) \/ UNCHANGED vars
  <2>1. UNCHANGED <<readers, taken>>
    BY <1>8 DEF CopySelected, Answer, Quit, OpenSFTP, SFTPRefused, Drop, vars, post
  <2> QED BY <1>1, <1>3, <2>1
<1> QED BY <1>2, <1>4, <1>5, <1>6, <1>7, <1>8, Steps, GoroutineMoves

LEMMA InOrderInit == Init => InOrder
BY DEF Init, InOrder, Sent

LEMMA InOrderStep ==
    ASSUME Typed, Placed, Said, OneReader, InOrder, [Next]_vars
    PROVE  InOrder'
<1>0. taken \subseteq Message /\ Sent \subseteq Message /\ \A m \in Message : m.copy \in Copy /\ m.finished \in BOOLEAN
  BY Words
<1>1. ASSUME NEW c \in Copy, Rests(c) \/ Opened(c) \/ Wrote(c) \/ Passes(c), Beside, Sends(c)
      PROVE  InOrder'
  <2>1. (\A d \in Copy \ {c} : copies'[d] = copies[d]) /\ copies[c].pc # "sent"
        /\ copies'[c].pc \notin {"idle", "over"}
    BY <1>1 DEF Rests, Stays, Opened, Wrote, Passes, Turn
  <2>2. taken' = taken
    BY <1>1 DEF Beside
  <2>3. \A m \in Sent \cup taken : m.finished => m.copy # c
    BY <2>1 DEF Said
  <2>4. CASE channel' = channel
    BY <1>0, <2>1, <2>2, <2>4 DEF InOrder, Sent
  <2>5. ASSUME NEW m, m.copy = c, channel' = Append(channel, m) PROVE InOrder'
    <3>1. Sent' = Sent \cup {m}
      BY <2>5, SentOf
    <3>2. \A n \in Sent' \cup taken' : copies'[n.copy].pc \notin {"idle", "over"}
      BY <1>0, <2>1, <2>2, <2>5, <3>1 DEF InOrder
    <3>3. \A k, l \in DOMAIN channel' : k < l /\ channel'[k].copy = channel'[l].copy => ~ channel'[k].finished
      <4>1. \A k \in DOMAIN channel : channel[k].finished => channel[k].copy # c
        BY <2>3 DEF Sent
      <4>2. \A l \in DOMAIN channel : ~ (Len(channel) + 1 < l)
        BY <2>5, Appends DEF Typed
      <4> QED BY <2>5, <4>1, <4>2, Appends DEF InOrder
    <3> QED BY <2>2, <2>3, <2>5, <3>1, <3>2, <3>3 DEF InOrder
  <2> QED BY <1>1, <2>4, <2>5 DEF Sends, Progress, Finished
<1>2. ASSUME \A d \in Copy : copies[d].pc \notin {"idle", "over"} => copies'[d].pc \notin {"idle", "over"},
             channel' = channel, taken' \subseteq taken
      PROVE  InOrder'
  BY <1>0, <1>2 DEF InOrder, Sent
<1>3. ASSUME WaitTransfer PROVE InOrder'
  <2>1. copies' = copies /\ Sent' \subseteq Sent /\ taken' = taken \cup {channel[1]} /\ channel[1] \in Sent
    BY <1>3, SentOf, Takings DEF WaitTransfer
  <2>2. \A k, l \in DOMAIN channel' : k < l /\ channel'[k].copy = channel'[l].copy => ~ channel'[k].finished
    <3>1. ASSUME NEW k \in DOMAIN channel', NEW l \in DOMAIN channel', k < l,
                 channel'[k].copy = channel'[l].copy
          PROVE  ~ channel'[k].finished
      <4>1. k + 1 < l + 1
        BY <1>3, <3>1, Takings
      <4> QED BY <1>3, <3>1, <4>1, Takings DEF InOrder
    <3> QED BY <3>1
  <2>3. \A n \in Sent' : channel[1].finished => channel[1].copy # n.copy
    <3>1. \A k \in DOMAIN channel' : channel[1].finished => channel[1].copy # channel'[k].copy
      BY <1>3, Takings DEF InOrder
    <3> QED BY <3>1 DEF Sent
  <2> QED BY <2>1, <2>2, <2>3 DEF InOrder
<1>4. ASSUME NEW t \in taken, t.finished, Done(t.copy), channel' = channel, taken' = taken \ {t}
      PROVE  InOrder'
  <2>1. t.copy \in Copy /\ \A d \in Copy \ {t.copy} : copies'[d].pc = copies[d].pc
    BY <1>0, <1>4, DoneIs
  <2>2. taken' = {} /\ \A m \in Sent : m.copy # t.copy
    BY <1>4 DEF OneReader, InOrder
  <2> QED BY <1>0, <1>4, <2>1, <2>2 DEF InOrder, Sent
<1>5. ASSUME NEW t \in taken, Update(t) PROVE InOrder'
  BY <1>2, <1>4, <1>5 DEF Update, Handled
<1>6. ASSUME \/ \E s \in Session : OpenSFTP(s) \/ SFTPConnected(s) \/ SFTPRefused(s) \/ Drop(s)
             \/ Quit \/ UNCHANGED vars
      PROVE  UNCHANGED <<copies, channel, taken>>
  BY <1>6 DEF OpenSFTP, SFTPConnected, SFTPRefused, Drop, Quit, vars, post
<1>7. ASSUME \/ \E c \in Copy : CopySelected(c)
             \/ \E yes \in BOOLEAN : Answer(yes)
             \/ Esc \/ PressQ
      PROVE  UNCHANGED post
  BY <1>7, Zenon DEF CopySelected, Answer, Esc, PressQ, Leave
<1>8. ASSUME \/ \E c \in Copy : CopySelected(c)
             \/ \E yes \in BOOLEAN : Answer(yes)
             \/ Esc \/ PressQ
      PROVE  InOrder'
  <2>1. \A d \in Copy : copies[d].pc \notin {"idle", "over"} => copies'[d].pc \notin {"idle", "over"}
    <3>1. \A c \in Copy : ~ Overs(c)
      BY <1>7, <1>8 DEF Overs, post
    <3>2. (\E c \in Copy : Begins(c)) \/ Stops \/ UNCHANGED copies
      BY <1>8, <3>1, WindowMoves, Zenon
    <3>3. ASSUME NEW c \in Copy, Begins(c), NEW d \in Copy
          PROVE  copies[d].pc \notin {"idle", "over"} => copies'[d].pc \notin {"idle", "over"}
      BY <3>3 DEF Begins
    <3>4. Stops => \A d \in Copy : copies'[d].pc = copies[d].pc
      BY DEF Stops
    <3> QED BY <3>2, <3>3, <3>4
  <2> QED BY <1>2, <1>7, <1>8, <2>1 DEF post
<1> QED BY <1>1, <1>2, <1>3, <1>5, <1>6, <1>8, Steps, GoroutineMoves

LEMMA InOrderAlways == ASSUME OpenedOnce PROVE Spec => []InOrder
<1>1. Typed /\ Placed /\ Said /\ OneReader /\ [Next]_vars => OneReader'
  BY OneReaderStep
<1>2. Typed /\ Placed /\ Said /\ OneReader /\ InOrder /\ [Next]_vars => InOrder'
  BY InOrderStep
<1> QED BY <1>1, <1>2, AloneAlways, OneReaderInit, InOrderInit, PTL DEF Spec

\* The last word on a copy is true: it counts the files that arrived and no others, says stopped
\* only of what somebody called off, and nothing older is shown over it.  For copies that are not
\* sent to one path at once, files that are not written in no steps at all, and a browser that was
\* opened once: a second one adds a second reader to the channel, which can overtake the first.
THEOREM TheLastWordIsTrue ==
    ASSUME CopiesApart, OpenedOnce, Chunks > 0
    PROVE  Spec => LastWordIsTrue
<1>1. InOrder => NothingAfterTheEnd
  BY DEF InOrder, NothingAfterTheEnd
<1> QED BY <1>1, CountedAlways, StoppedAlways, InOrderAlways, PTL DEF LastWordIsTrue
=============================================================================
