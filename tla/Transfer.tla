------------------------------- MODULE Transfer -------------------------------
(***************************************************************************)
(* Copying files in the SFTP browser: internal/sftpx/transfer.go (Copy and *)
(* CopyDir), and the part of internal/ui that starts, stops and reports    *)
(* copies (sftp.go, and `copying' and transferMsg in app.go).              *)
(*                                                                         *)
(* Each copy runs on a goroutine of its own.  What it shares with the      *)
(* others is the disk at the far end, the channel it reports on, and the   *)
(* one stop button the window has.  Update runs on one goroutine, so a     *)
(* handler is one step; a copy is cut wherever it calls the file system.   *)
(***************************************************************************)
EXTENDS Naturals, Sequences, FiniteSets

CONSTANTS
    Copy,       \* the copies the user asks for, one press of `c' each
    File,       \* destination paths
    Dir,        \* destination directories
    Remote,     \* the destinations on the far side, reached by a session
    Session,    \* the times `s' is pressed
    Tree,       \* Tree[c]: the entries c moves, in the order of the listing
    Into,       \* Into[c]: the directory c fills; Nil for a single file
    Linked,     \* entries that are links to directories: no bytes to move
    Refused,    \* destination paths the far side will not let anyone create
    There,      \* destination paths that hold a file to begin with
    Chunks,     \* pieces io.Copy moves a file in
    ChanCap,    \* room in the transfers channel: 32 in the code
    Overlap,    \* when the user starts a copy while another is under way
    Posix,      \* the far side has posix-rename@openssh.com
    Drops,      \* the connection may break by itself
    Old,        \* a file that was there before anything was copied
    Nil

ASSUME TransferAssumption ==
    /\ Remote \subseteq File \cup Dir /\ Linked \subseteq File
    /\ Refused \subseteq File /\ There \subseteq File
    /\ Tree \in [Copy -> Seq(File)] /\ Into \in [Copy -> Dir \cup {Nil}]
    /\ \A c \in Copy : Into[c] = Nil => Len(Tree[c]) = 1
    /\ \A c \in Copy : \A k, l \in DOMAIN Tree[c] : Tree[c][k] = Tree[c][l] => k = l
    /\ Chunks \in Nat /\ ChanCap \in Nat \ {0}
    /\ Overlap \in {"never", "apart", "any"}
    /\ Posix \in BOOLEAN /\ Drops \in BOOLEAN
    /\ Nil \notin Copy \cup Session \cup {Old} /\ (Copy \X File) \cap {Nil, Old} = {}

VARIABLES
    copies,     \* what each copy is doing
    dest,       \* the file at each destination path: an inode, Old or Nil
    part,       \* the file at each path with PartialSuffix: an inode or Nil
    blob,       \* the bytes of each inode: who wrote each chunk
    dirs,       \* directories that exist at the destination
    sessions,   \* the ssh child behind each session
    sess,       \* m.sftpSess
    mode,       \* m.mode, and "quit" once the program has ended
    asking,     \* the copy the confirmation on screen would start
    cancel,     \* m.copying.cancel: the copy it calls off
    channel,    \* m.transfers
    readers,    \* waitTransfer commands waiting on the channel
    taken,      \* messages a waitTransfer has in hand, on their way to Update
    wished,     \* HISTORY: copies somebody called off
    met         \* HISTORY: copies that were under way while another was

disk == <<dest, part, blob, dirs>>
ui   == <<sessions, sess, mode, asking>>
post == <<channel, readers, taken>>
past == <<wished, met>>
vars == <<copies, disk, ui, cancel, post, past>>

Inode   == Copy \X File
Empty   == [k \in 1..Chunks |-> Nil]
Outcomes == {"going", "worked", "stopped", "broken"}

\* transferMsg, as far as anything below tells two of them apart.
Progress(c)   == [copy |-> c, finished |-> FALSE,
                  at |-> <<copies[c].i, copies[c].at + 1>>]
Finished(c)   == [copy |-> c, finished |-> TRUE, at |-> <<0, 0>>]

Now(c)     == Tree[c][copies[c].i]          \* the entry c is at
Whole(i)   == \E c \in Copy : blob[i] = [k \in 1..Chunks |-> c]
Landed(c)  == {f \in File : dest[f] \in Inode /\ blob[dest[f]] = [k \in 1..Chunks |-> c]}

Running(c)  == copies[c].pc \notin {"idle", "sent", "over"}
InFlight(c) == copies[c].pc \notin {"idle", "over"}

\* The far side answers only while the session the copy was started on is up.
Up(c)          == sessions[copies[c].via] = "open"
Reaches(c, f)  == f \in Remote => Up(c)

(***************************************************************************)
(* copier and dirCopier: the goroutine.                                    *)
(***************************************************************************)
\* A mistake: every error taken for a copy called off.
OutcomeAnyError(why) == IF why = "worked" THEN "worked" ELSE "stopped"

\* errors.Is(err, context.Canceled): told apart from an error.
Outcome(why) == why

At(c, pc) == [copies EXCEPT ![c].pc = pc]
EndedBy(c, why, pc) == [copies EXCEPT ![c].pc = pc, ![c].result = Outcome(why)]

\* copyTree makes the directory it is about to fill, or finds it there.
Mkdir(c) ==
    /\ copies[c].pc = "mkdir"
    /\ copies' = IF Up(c) THEN At(c, "next") ELSE EndedBy(c, "broken", "report")
    /\ dirs' = IF Reaches(c, Into[c]) THEN dirs \cup {Into[c]} ELSE dirs
    /\ UNCHANGED <<dest, part, blob, ui, cancel, post, past>>

\* Between the files: all of them moved, or told to stop.
NoMore(c) ==
    /\ copies[c].pc = "next"
    /\ copies[c].i > Len(Tree[c])
    /\ copies' = EndedBy(c, "worked", "report")
    /\ UNCHANGED <<disk, ui, cancel, post, past>>

ToldBetween(c) ==
    /\ copies[c].pc = "next"
    /\ copies[c].i <= Len(Tree[c])
    /\ copies[c].off
    /\ copies' = EndedBy(c, "stopped", "report")
    /\ UNCHANGED <<disk, ui, cancel, post, past>>

Takes(c) ==
    /\ copies[c].pc = "next"
    /\ copies[c].i <= Len(Tree[c])
    /\ ~copies[c].off

\* A mistake: a link to a directory counted as a file.
SkipAsFile(c) ==
    /\ Takes(c) /\ Up(c) /\ Now(c) \in Linked
    /\ copies' = [copies EXCEPT ![c].i = @ + 1, ![c].files = @ + 1]
    /\ UNCHANGED <<disk, ui, cancel, post, past>>

\* ErrIsDirectory: a link to a directory is stepped over and counted apart.
Skip(c) ==
    /\ Takes(c) /\ Up(c) /\ Now(c) \in Linked
    /\ copies' = [copies EXCEPT ![c].i = @ + 1, ![c].skipped = @ + 1]
    /\ UNCHANGED <<disk, ui, cancel, post, past>>

\* The source or the part file could not be opened: nothing to take back.
OpenFails(c) ==
    /\ Takes(c)
    /\ ~Up(c) \/ Now(c) \in Refused \ Linked
    /\ copies' = EndedBy(c, "broken", "report")
    /\ UNCHANGED <<disk, ui, cancel, post, past>>

Opens(c) == Takes(c) /\ Up(c) /\ Now(c) \notin Refused \cup Linked
Writing(c, i) == [copies EXCEPT ![c].pc = "write", ![c].at = 0, ![c].inode = i]

\* A mistake: writing straight to the destination, as Copy once did.
CreateInPlace(c) ==
    /\ Opens(c)
    /\ LET i == <<c, Now(c)>> IN
           /\ dest' = [dest EXCEPT ![Now(c)] = i]
           /\ part' = [part EXCEPT ![Now(c)] = i]
           /\ blob' = [blob EXCEPT ![i] = Empty]
           /\ copies' = Writing(c, i)
    /\ UNCHANGED <<dirs, ui, cancel, post, past>>

\* Create truncates the part file somebody else may have open.
Create(c) ==
    /\ Opens(c)
    /\ LET i == IF part[Now(c)] = Nil THEN <<c, Now(c)>> ELSE part[Now(c)] IN
           /\ part' = [part EXCEPT ![Now(c)] = i]
           /\ blob' = [blob EXCEPT ![i] = Empty]
           /\ copies' = Writing(c, i)
    /\ UNCHANGED <<dest, dirs, ui, cancel, post, past>>

Sending(c) == copies[c].pc = "write" /\ copies[c].at < Chunks

\* progressWriter.Write: one chunk, and a report of it if the channel has room
\* and it is time for one.
Write(c) ==
    /\ Sending(c) /\ ~copies[c].off /\ Up(c)
    /\ blob' = [blob EXCEPT ![copies[c].inode][copies[c].at + 1] = c]
    /\ copies' = [copies EXCEPT ![c].at = @ + 1]
    /\ \/ UNCHANGED channel
       \/ Len(channel) < ChanCap /\ channel' = Append(channel, Progress(c))
    /\ UNCHANGED <<dest, part, dirs, ui, cancel, readers, taken, past>>

\* Told to stop: the write is refused.  A connection that is gone fails the
\* read, write or close that is waiting on it, told or not.
WriteFails(c) ==
    /\ copies[c].pc = "write"
    /\ \/ Sending(c) /\ copies[c].off /\ copies' = EndedBy(c, "stopped", "clean")
       \/ ~Up(c) /\ copies' = EndedBy(c, "broken", "clean")
    /\ UNCHANGED <<disk, ui, cancel, post, past>>

Written(c) == copies[c].pc = "write" /\ copies[c].at = Chunks
\* A mistake, and what is done: counting the file that has arrived.
ArrivedUncounted(c) == [copies EXCEPT ![c].pc = "next", ![c].i = @ + 1]
Arrived(c) == [copies EXCEPT ![c].pc = "next", ![c].i = @ + 1, ![c].files = @ + 1]

MovePart(c) ==
    /\ dest' = [dest EXCEPT ![Now(c)] = part[Now(c)]]
    /\ part' = [part EXCEPT ![Now(c)] = Nil]
    /\ copies' = Arrived(c)
    /\ UNCHANGED <<blob, dirs>>

\* Replace, where one call does it.
Replace(c) ==
    /\ Written(c) /\ Reaches(c, Now(c))
    /\ part[Now(c)] # Nil
    /\ Now(c) \in Remote => Posix
    /\ MovePart(c)
    /\ UNCHANGED <<ui, cancel, post, past>>

\* Session.Replace, when posix-rename is refused: remove, then rename.
RemoveFirst(c) ==
    /\ Written(c) /\ Now(c) \in Remote /\ Up(c)
    /\ part[Now(c)] = Nil \/ ~Posix
    /\ dest' = [dest EXCEPT ![Now(c)] = Nil]
    /\ copies' = At(c, "rename")
    /\ UNCHANGED <<part, blob, dirs, ui, cancel, post, past>>

Rename(c) ==
    /\ copies[c].pc = "rename" /\ Up(c)
    /\ part[Now(c)] # Nil /\ dest[Now(c)] = Nil
    /\ MovePart(c)
    /\ UNCHANGED <<ui, cancel, post, past>>

ReplaceFails(c) ==
    /\ \/ Written(c) /\ ~Reaches(c, Now(c))
       \/ Written(c) /\ Now(c) \notin Remote /\ part[Now(c)] = Nil
       \/ copies[c].pc = "rename" /\ (~Up(c) \/ part[Now(c)] = Nil \/ dest[Now(c)] # Nil)
    /\ copies' = EndedBy(c, "broken", "clean")
    /\ UNCHANGED <<disk, ui, cancel, post, past>>

\* A mistake: the part file left behind.
CleanNothing(c) ==
    /\ copies[c].pc = "clean"
    /\ copies' = At(c, "report")
    /\ UNCHANGED <<disk, ui, cancel, post, past>>

\* Whatever went wrong, the part file is removed: if it can still be reached.
Clean(c) ==
    /\ copies[c].pc = "clean"
    /\ part' = IF Reaches(c, Now(c)) THEN [part EXCEPT ![Now(c)] = Nil] ELSE part
    /\ copies' = At(c, "report")
    /\ UNCHANGED <<dest, blob, dirs, ui, cancel, post, past>>

\* ch <- done: blocks while the channel is full.
Report(c) ==
    /\ copies[c].pc = "report"
    /\ Len(channel) < ChanCap
    /\ channel' = Append(channel, Finished(c))
    /\ copies' = At(c, "sent")
    /\ UNCHANGED <<disk, ui, cancel, readers, taken, past>>

Goroutine(c) ==
    /\ mode # "quit"
    /\ \/ Mkdir(c) \/ NoMore(c) \/ ToldBetween(c) \/ Skip(c) \/ OpenFails(c)
       \/ Create(c) \/ Write(c) \/ WriteFails(c)
       \/ Replace(c) \/ RemoveFirst(c) \/ Rename(c) \/ ReplaceFails(c)
       \/ Clean(c) \/ Report(c)

(***************************************************************************)
(* The window: Update and the key handlers of the browser.                 *)
(***************************************************************************)
\* A mistake: the way to stop it not kept.
BeginUnheld(c) == cancel' = cancel

\* copying.begin: whatever cancel was there before is written over.
Begin(c) == cancel' = c

\* The copies the user is taken to start while others run: none at all until
\* the last one has been reported, none to a path another is going to, or any.
Allowed(c) ==
    CASE Overlap = "never" -> \A d \in Copy : ~InFlight(d)
      [] Overlap = "apart" -> \A d \in Copy : InFlight(d) =>
             \A k \in DOMAIN Tree[c], l \in DOMAIN Tree[d] : Tree[c][k] # Tree[d][l]
      [] Overlap = "any" -> TRUE

\* A mistake: nothing taken to be there; and what is looked for.
TakenNever(c) == FALSE
Taken(c) == IF Into[c] = Nil THEN dest[Tree[c][1]] # Nil ELSE Into[c] \in dirs

Together(c) == LET others == {d \in Copy : InFlight(d)} IN
               met' = met \cup others \cup IF others = {} THEN {} ELSE {c}

Start(c, asked) ==
    /\ Together(c)
    /\ copies' = [copies EXCEPT ![c].pc = IF Into[c] = Nil THEN "next" ELSE "mkdir",
                                ![c].via = sess, ![c].asked = asked]
    /\ Begin(c)

\* `c': a name already taken on the other side is asked about.
CopySelected(c) ==
    /\ mode = "sftp" /\ copies[c].pc = "idle" /\ Allowed(c)
    /\ IF Taken(c)
       THEN mode' = "confirm" /\ asking' = c /\ UNCHANGED <<copies, cancel, met>>
       ELSE Start(c, FALSE) /\ UNCHANGED <<mode, asking>>
    /\ UNCHANGED <<disk, sessions, sess, post, wished>>

Answer(yes) ==
    /\ mode = "confirm"
    /\ mode' = "sftp" /\ asking' = Nil
    /\ IF yes THEN Start(asking, TRUE) ELSE UNCHANGED <<copies, cancel, met>>
    /\ UNCHANGED <<disk, sessions, sess, post, wished>>

\* copying.stop and copying.done both cancel the copy that is held; only the
\* first is somebody calling it off.
Cancelled == IF cancel = Nil THEN copies ELSE [copies EXCEPT ![cancel].off = TRUE]
Stop == copies' = Cancelled /\ wished' = wished \cup ({cancel} \ {Nil}) /\ cancel' = Nil /\ UNCHANGED met
Closed == IF sess = Nil THEN sessions ELSE [sessions EXCEPT ![sess] = "closed"]

\* closeSFTP.
Leave ==
    /\ Stop
    /\ sessions' = Closed /\ sess' = Nil
    /\ mode' = "browse"
    /\ UNCHANGED <<disk, asking, post>>

Esc ==
    /\ mode = "sftp"
    /\ IF cancel # Nil
       THEN Stop /\ UNCHANGED <<disk, ui, post>>
       ELSE Leave

PressQ == mode = "sftp" /\ Leave

\* ctrl+c in the browser, `q' outside it; then main calls Model.Close.
Quit ==
    /\ mode \in {"browse", "sftp"}
    /\ mode' = "quit" /\ sessions' = Closed
    /\ UNCHANGED <<copies, disk, sess, asking, cancel, post, past>>

OpenSFTP(s) ==
    /\ mode = "browse" /\ sessions[s] = "none"
    /\ sessions' = [sessions EXCEPT ![s] = "connecting"]
    /\ UNCHANGED <<copies, disk, sess, mode, asking, cancel, post, past>>

\* sftpConnected: takes the window over, whatever it was showing.
SFTPConnected(s) ==
    /\ mode # "quit" /\ sessions[s] = "connecting"
    /\ sessions' = [sessions EXCEPT ![s] = "open"]
    /\ sess' = s /\ mode' = "sftp" /\ asking' = Nil
    /\ readers' = readers + 1
    /\ UNCHANGED <<copies, disk, cancel, channel, taken, past>>

SFTPRefused(s) ==
    /\ mode # "quit" /\ sessions[s] = "connecting"
    /\ sessions' = [sessions EXCEPT ![s] = "closed"]
    /\ UNCHANGED <<copies, disk, sess, mode, asking, cancel, post, past>>

\* waitTransfer: one command takes one message.
WaitTransfer ==
    /\ mode # "quit" /\ readers > 0 /\ channel # <<>>
    /\ taken' = taken \cup {Head(channel)}
    /\ channel' = Tail(channel)
    /\ readers' = readers - 1
    /\ UNCHANGED <<copies, disk, ui, cancel, past>>

\* A mistake: the copy that has ended kept as the one to stop.
DoneKeeps(c) == copies' = [copies EXCEPT ![c].pc = "over"] /\ cancel' = cancel

\* copying.done: forgets the transfer that has ended, whichever is held.
Done(c) ==
    /\ copies' = [Cancelled EXCEPT ![c].pc = "over"]
    /\ cancel' = Nil

Handled(t) ==
    /\ mode # "quit" /\ t \in taken
    /\ taken' = taken \ {t}
    /\ IF t.finished THEN Done(t.copy) ELSE UNCHANGED <<copies, cancel>>
    /\ UNCHANGED <<disk, ui, channel, past>>

\* Mistakes: waitTransfer not called again, or called twice.
UpdateOnce(t)    == Handled(t) /\ UNCHANGED readers
UpdateTwice(t)   == Handled(t) /\ readers' = readers + 2

\* Update, on a transferMsg: whatever it says, waitTransfer is called again.
Update(t)        == Handled(t) /\ readers' = readers + 1

\* The network, or the far side, ends a session.
Drop(s) ==
    /\ Drops /\ mode # "quit" /\ sessions[s] = "open"
    /\ sessions' = [sessions EXCEPT ![s] = "dead"]
    /\ UNCHANGED <<copies, disk, sess, mode, asking, cancel, post, past>>

Init ==
    /\ copies = [c \in Copy |->
            [pc |-> "idle", i |-> 1, at |-> 0, inode |-> Nil, via |-> Nil, off |-> FALSE,
             asked |-> FALSE, result |-> "going", files |-> 0, skipped |-> 0]]
    /\ dest = [f \in File |-> IF f \in There THEN Old ELSE Nil]
    /\ part = [f \in File |-> Nil]
    /\ blob = [i \in Inode |-> Empty]
    /\ dirs = {}
    /\ sessions = [s \in Session |-> "none"]
    /\ sess = Nil /\ mode = "browse" /\ asking = Nil /\ cancel = Nil
    /\ channel = <<>> /\ readers = 0 /\ taken = {} /\ wished = {} /\ met = {}

Keys ==
    \/ \E c \in Copy : CopySelected(c)
    \/ \E yes \in BOOLEAN : Answer(yes)
    \/ Esc \/ PressQ \/ Quit
    \/ \E s \in Session : OpenSFTP(s)

Next ==
    \/ \E c \in Copy : Goroutine(c)
    \/ Keys
    \/ \E s \in Session : SFTPConnected(s) \/ SFTPRefused(s) \/ Drop(s)
    \/ WaitTransfer
    \/ \E t \in taken : Update(t)

\* What the runtime owes: a goroutine that can go on does (a call over the
\* network ends, well or badly), and so does the window's own loop.
Fairness ==
    /\ \A c \in Copy : WF_vars(Goroutine(c))
    /\ WF_vars(WaitTransfer)
    /\ WF_vars(\E t \in taken : Update(t))

Spec == Init /\ [][Next]_vars /\ Fairness

-----------------------------------------------------------------------------
(***************************************************************************)
(* Properties.                                                             *)
(***************************************************************************)

\* Every variable holds what the code could have in it, and there is never more
\* than one waitTransfer about for each time the browser was opened.
TypeOK ==
    /\ copies \in [Copy -> [pc : {"idle", "mkdir", "next", "write", "rename", "clean",
                                  "report", "sent", "over"},
                            i : Nat \ {0}, at : 0..Chunks, inode : Inode \cup {Nil},
                            via : Session \cup {Nil}, off : BOOLEAN, asked : BOOLEAN,
                            result : Outcomes, files : Nat, skipped : Nat]]
    /\ dest \in [File -> Inode \cup {Nil, Old}]
    /\ part \in [File -> Inode \cup {Nil}]
    /\ blob \in [Inode -> [1..Chunks -> Copy \cup {Nil}]]
    /\ dirs \subseteq Dir
    /\ sessions \in [Session -> {"none", "connecting", "open", "dead", "closed"}]
    /\ sess \in Session \cup {Nil} /\ asking \in Copy \cup {Nil}
    /\ cancel \in Copy \cup {Nil} /\ wished \subseteq Copy /\ met \subseteq Copy
    /\ mode \in {"browse", "sftp", "confirm", "quit"}
    /\ Len(channel) <= ChanCap
    /\ readers + Cardinality(taken) <= Cardinality(Session)

\* "the destination is only ever the old file or the new one": whatever is seen
\* at a destination path is what was there or the whole of one copy's file.
OldOrNew ==
    \A f \in File :
        \/ dest[f] = Old /\ f \in There
        \/ dest[f] = Nil /\ f \notin There
        \/ dest[f] \in Inode /\ Whole(dest[f])

\* What a copy says it moved is what it moved: a file is counted in the step that
\* puts it at its destination, whole, and a link to a directory never is.
HonestCount ==
    [][\A c \in Copy :
            copies'[c].files = copies[c].files + Cardinality(Landed(c)' \ Landed(c))]_vars

\* A copy reported as stopped is one somebody called off; a copy that broke is
\* not passed off as one.  Of copies that ran at once the button holds only one.
StoppedWasCalledOff ==
    \A c \in Copy \ met : copies[c].result = "stopped" => c \in wished

\* "esc stops a copy that is running": while the browser is open, the key is
\* bound to a copy that is running and has not been called off, if it runs alone.
EscStopsTheCopy ==
    \A c \in Copy \ met : mode = "sftp" /\ Running(c) /\ c \notin wished => cancel = c

\* "and leaves the browser when none is": the stop button never holds a copy
\* whose end has been reported, or esc would swallow a press for it.
EscLeavesWhenIdle == cancel # Nil => InFlight(cancel)

\* A part file belongs to a copy that is still at work on it: one that ended,
\* however it ended, took its part file with it, and leaves it only at the far
\* end of a connection that is no longer there.
PartsAreInUse ==
    \A f \in File :
        part[f] # Nil => \E c \in Copy :
            /\ copies[c].pc # "idle" /\ copies[c].i <= Len(Tree[c]) /\ Now(c) = f
            /\ copies[c].pc \in {"write", "rename", "clean"} \/ ~Reaches(c, f)

\* "the part file is removed": wherever it was going, a file that was called
\* off leaves none.
StoppedLeavesNoPart ==
    \A c \in Copy :
        copies[c].result = "stopped" /\ copies[c].pc \in {"report", "sent", "over"}
            => \A f \in File : part[f] # <<c, f>>

\* "a copy that is told says "stopped" instead of reporting whatever the broken
\* pipe looked like": a copy called off while it was running never ends broken.
CalledOffIsNotAFailure ==
    \A c \in Copy : c \in wished => copies[c].result # "broken"

\* "Copying onto a name already taken asks first": a single file never replaces
\* another without having asked.
AsksFirst ==
    [][\A c \in Copy, f \in File :
            (/\ Into[c] = Nil /\ copies[c].files # copies'[c].files
             /\ dest[f] # Nil /\ dest'[f] # dest[f])
                 => copies[c].asked]_vars

\* Once the end of a copy has been shown, no older report of it is shown over it.
NothingAfterTheEnd ==
    \A t \in taken : t.finished \/ copies[t.copy].pc # "over"

\* Every session that is up can still be closed: m.sftpSess is the only way to.
SessionsAreReleased ==
    \A s \in Session : sessions[s] = "open" => sess = s

\* Every copy that was started is reported in the end, unless the program ends.
EveryCopyIsReported ==
    \A c \in Copy : InFlight(c) ~> (copies[c].pc = "over" \/ mode = "quit")


\* The stop button is what the browser says of it: esc stops the copy that runs
\* alone, and is never held by one that has been reported.
EscMeansWhatItSays == EscStopsTheCopy /\ EscLeavesWhenIdle

\* The last word on a copy is true: stopped only if it was called off, counting
\* the files that arrived and no others, and nothing older shown over it.
LastWordIsTrue == HonestCount /\ [](StoppedWasCalledOff /\ NothingAfterTheEnd)
=============================================================================
