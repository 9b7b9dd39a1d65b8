--------------------------------- MODULE Typing ---------------------------------
(***************************************************************************)
(* What is typed, pasted, dragged and scrolled over the session in the     *)
(* main pane: internal/ui/session.go's keys and prefix, and the view of    *)
(* internal/term's pane.go, find.go, wheel.go and select.go.  A session in *)
(* tmux is scrolled, searched and selected from by putting tmux in copy    *)
(* mode, where a key is a command and not input.  The pane remembers how   *)
(* far back it put the view, and does not ask for every key.               *)
(*                                                                         *)
(* How panes are opened, watched and closed is in Pane; here one host's    *)
(* session is left and come back to.  A command of tmux takes effect       *)
(* behind the keys sent before it.  The specification is TypingSpec: what  *)
(* is proved of the two is proved in one module.                           *)
(***************************************************************************)
EXTENDS Integers

CONSTANTS
    MaxBack,   \* lines of history a session may have
    Scanty,    \* a session may have none
    Shared     \* another window may show the session too, and move its view

ASSUME TypingAssumption == MaxBack \in Nat \ {0} /\ {Scanty, Shared} \subseteq BOOLEAN

VARIABLES
    hasTmux,      \* whether sessions are in tmux
    running,      \* the session: there,
    copy,         \* in copy mode,
    pos,          \* with the view so far back
    back,         \* of so many lines,
    program,      \* and what runs in it
    shown,        \* m.attached # nil,
    alive,        \* and it has not ended
    focus,        \* m.focus
    finds,        \* m.mode = modeFind
    prefixArmed, scrollArmed,
    tmuxOffset,   \* p.tmuxOffset; without tmux, p.scroll
    finding,      \* p.finding
    press,        \* p.press
    coming,       \* tmux has copied, and its word of that is on the way
    called,       \* HISTORY: the last key was the prefix
    unseen,       \* HISTORY: copy mode was entered, or the view moved, where the pane cannot know of it
    went          \* HISTORY: what became of the input of this step

server == <<copy, pos>>
remote == <<hasTmux, running, back, program>>
keys   == <<focus, finds, prefixArmed, scrollArmed, called>>
view   == <<tmuxOffset, finding, press, coming>>
typingVars == <<hasTmux, running, copy, pos, back, program, shown, alive, focus, finds, prefixArmed, scrollArmed,
            tmuxOffset, finding, press, coming, called, unseen, went>>

Lines == IF Scanty THEN 0..MaxBack ELSE 1..MaxBack
Least(a, b) == IF a < b THEN a ELSE b
Most(a, b)  == IF a > b THEN a ELSE b

\* The session answers tmux's commands, and takes the mouse.
InTmux == hasTmux /\ running /\ alive
View(c, p) == copy' = c /\ pos' = p
Live == View(FALSE, 0)

-----------------------------------------------------------------------------
(* The view.                                                               *)

\* A mistake: a search that moved nothing not counted as one.
OffsetOnly == tmuxOffset > 0 \/ press = "dragged"
\* Whether copy mode is on, as far as the pane knows.
Scrolled == tmuxOffset > 0 \/ finding \/ press = "dragged"

ScrollToBottom ==
    /\ tmuxOffset' = 0 /\ finding' = FALSE
    /\ press' = IF hasTmux THEN press ELSE "no"
    /\ IF InTmux /\ Scrolled THEN Live /\ unseen' = FALSE ELSE UNCHANGED <<server, unseen>>

\* A mistake: the offset worked out and not asked for.
Reckoned(asked, n) == Most(tmuxOffset + n, 0)
\* recordTmuxScroll: what tmux says after a scroll.
Recorded(asked, n) == asked

\* tmuxCopyScroll: copy-mode -e, and so many lines; down to the bottom leaves it.
Scroll(n) ==
    LET to == Most(Least(pos + n, back), 0)
    IN  /\ IF ~ InTmux THEN UNCHANGED <<server, unseen>>
           ELSE /\ View(n > 0 \/ to > 0, to)
                /\ unseen' = (n > 0 /\ to = 0 /\ ~ finding)
        /\ tmuxOffset' = IF InTmux THEN Recorded(to, n)
                         ELSE IF hasTmux THEN 0 ELSE Most(Least(tmuxOffset + n, back), 0)
        /\ press' = IF hasTmux THEN press ELSE "no"
        /\ UNCHANGED <<finding, coming>>

\* A search that found nothing leaves copy mode on, and the pane leaves it.
PutBack == Live /\ unseen' = FALSE /\ tmuxOffset' = 0 /\ finding' = FALSE

\* Find and FindAgain: findTmux, and findHere where there is no tmux.
Find(again) ==
    /\ UNCHANGED <<press, coming>>
    /\ \/ ~ again /\ InTmux /\ PutBack
       \/ /\ InTmux /\ \E p \in IF again THEN pos..back ELSE 0..back :
                           View(TRUE, p) /\ tmuxOffset' = p
          /\ finding' = TRUE /\ unseen' = FALSE
       \/ /\ ~ InTmux /\ UNCHANGED <<server, finding, unseen>>
          /\ \E p \in IF hasTmux THEN {tmuxOffset} ELSE {tmuxOffset} \cup 0..back : tmuxOffset' = p

\* SendKey, SendText: to the bottom, and into the pty; copy mode takes what it is given.
Send == ScrollToBottom /\ UNCHANGED coming /\ went' = IF copy' THEN "copy" ELSE "shell"

-----------------------------------------------------------------------------
(* Keys.                                                                   *)

\* A key gets to the session: the pane has it, or the prefix has been pressed.
Heard == shown /\ ~ finds /\ (focus = "session" \/ prefixArmed)
\* The pane takes it as typed.
TakesKeys == shown /\ ~ finds /\ focus = "session" /\ ~ prefixArmed

Disarm == prefixArmed' = FALSE /\ scrollArmed' = FALSE /\ called' = FALSE
Arm    == prefixArmed' = TRUE /\ scrollArmed' = TRUE /\ called' = FALSE
Stays  == UNCHANGED <<remote, shown, alive>>
SameView == UNCHANGED <<server, view, unseen>>

\* sessionCommand, the prefix itself: armed, and pressed twice typed.
Prefix ==
    /\ shown /\ ~ finds /\ Stays /\ UNCHANGED <<focus, finds>>
    /\ IF ~ prefixArmed
       THEN prefixArmed' = TRUE /\ called' = TRUE /\ went' = "none" /\ SameView /\ UNCHANGED scrollArmed
       ELSE Disarm /\ IF focus = "session" THEN Send ELSE went' = "none" /\ SameView

\* A mistake: asked after it has been reset.
FromScrollReset == FALSE
\* Whether the prefix was pressed or re-armed by a scroll.
FromScroll == scrollArmed

\* Any key that is no command: typed, taken for a mistaken command, or kept from an ended session.
Letter ==
    /\ Heard /\ Stays /\ Disarm /\ UNCHANGED <<focus, finds>>
    /\ IF focus = "session" /\ (IF prefixArmed THEN FromScroll ELSE alive) THEN Send
       ELSE went' = "dropped" /\ SameView

\* handlePaste: whatever the mode.
Paste ==
    /\ shown /\ alive /\ focus = "session"
    /\ Send /\ Stays /\ UNCHANGED keys

\* ctrl+\ w and ctrl+\ G.
ToTheList == shown /\ ~ finds /\ prefixArmed /\ Disarm /\ ScrollToBottom /\ went' = "none" /\ Stays
             /\ focus' = "hosts" /\ UNCHANGED <<finds, coming>>
ToTheBottom == shown /\ ~ finds /\ prefixArmed /\ Disarm /\ ScrollToBottom /\ went' = "none" /\ Stays
               /\ UNCHANGED <<focus, finds, coming>>

\* ctrl+\ k and j, a page, which is a line here.
ScrollKey(n) ==
    /\ shown /\ ~ finds /\ prefixArmed
    /\ Scroll(n) /\ Arm /\ went' = "none" /\ Stays /\ UNCHANGED <<focus, finds>>

\* ctrl+\ /, and what is typed into the box it opens.
openFind == shown /\ ~ finds /\ prefixArmed /\ Disarm /\ finds' = TRUE /\ went' = "none" /\ Stays
            /\ SameView /\ UNCHANGED focus
LeaveFind == finds /\ finds' = FALSE /\ went' = "none" /\ Stays /\ SameView
             /\ UNCHANGED <<focus, prefixArmed, scrollArmed, called>>
runFind(again) == shown /\ finds /\ finds' = FALSE /\ Find(again) /\ went' = "none" /\ Stays
                  /\ UNCHANGED <<focus, prefixArmed, scrollArmed, called>>

\* ctrl+\ d; esc or enter at a session that has ended: detachSession.
Detach ==
    /\ shown /\ ~ finds /\ (prefixArmed \/ (focus = "session" /\ ~ alive))
    /\ shown' = FALSE /\ focus' = "hosts" /\ Disarm
    /\ tmuxOffset' = 0 /\ finding' = FALSE /\ press' = "no" /\ coming' = FALSE /\ went' = "none"
    /\ running' = (running /\ hasTmux) /\ unseen' = FALSE
    /\ UNCHANGED <<hasTmux, back, program, server, alive, finds>>

\* t: attachHost, and Open, which asks tmux where a session that is there has its view.
Attach ==
    /\ ~ shown /\ shown' = TRUE /\ alive' = TRUE /\ running' = TRUE
    /\ focus' = "session" /\ prefixArmed' = FALSE /\ called' = FALSE
    /\ IF running THEN UNCHANGED <<server, back, program>>
       ELSE Live /\ back' \in Lines /\ program' = "shell"
    /\ tmuxOffset' = pos' /\ finding' = FALSE /\ press' = "no" /\ coming' = FALSE
    /\ unseen' = (copy' /\ pos' = 0) /\ went' = "none"
    /\ UNCHANGED <<hasTmux, finds, scrollArmed>>

\* tab and 3, and a click on a panel.
Focus(f) == shown /\ ~ finds /\ focus # f /\ focus' = f /\ went' = "none" /\ Stays /\ SameView
            /\ UNCHANGED <<finds, prefixArmed, scrollArmed, called>>

-----------------------------------------------------------------------------
(* The mouse.                                                              *)

Still == UNCHANGED <<remote, shown, alive, finds, prefixArmed, scrollArmed, called>>

\* A program that asked for the mouse has it, unless tmux is in copy mode.
TakesMouse == program = "mouse" /\ ~ copy

Press == /\ shown /\ ~ finds /\ press = "no" /\ press' = "down" /\ focus' = "session" /\ went' = "none" /\ Still
         /\ UNCHANGED <<server, tmuxOffset, finding, coming, unseen>>

\* handleMouseMotion: tmux goes into copy mode, and scrolls when the drag reaches the edge.
Drag ==
    /\ shown /\ press # "no" /\ press' = "dragged" /\ went' = "none" /\ Still
    /\ \/ InTmux /\ ~ TakesMouse /\ \E p \in pos..back : View(TRUE, p)
       \/ ~ (InTmux /\ ~ TakesMouse) /\ UNCHANGED server
    /\ UNCHANGED <<focus, tmuxOffset, finding, coming, unseen>>

\* tmux copies what a drag covered, and leaves copy mode.
Release ==
    /\ shown /\ press # "no" /\ press' = "no" /\ went' = "none" /\ Still
    /\ IF InTmux /\ press = "dragged" /\ copy THEN Live /\ coming' = TRUE /\ unseen' = FALSE
       ELSE UNCHANGED <<server, coming, unseen>>
    /\ UNCHANGED <<focus, tmuxOffset, finding>>

\* A mistake: the view not put back to live by a copy.
StillBack == tmuxOffset
CopyIsLive == 0
\* tmuxCopied, within copyWindow of the button, and TakeCopy.
Copied ==
    /\ shown /\ coming /\ coming' = FALSE /\ tmuxOffset' = CopyIsLive /\ went' = "none" /\ Still
    /\ unseen' = (unseen \/ copy) /\ UNCHANGED <<server, focus, finding, press>>

\* wheelGoes: a view scrolled back, or in copy mode, is the history's.
ToHistory ==
    \/ ~ alive \/ tmuxOffset > 0 \/ program = "shell"
    \/ hasTmux /\ (copy \/ ~ running)

Wheel(n) ==
    /\ shown /\ ~ finds /\ Still /\ UNCHANGED focus
    /\ IF ToHistory THEN Scroll(n) /\ went' = "none"
       ELSE went' = (IF copy THEN "copy" ELSE "shell") /\ SameView

-----------------------------------------------------------------------------
(* What the session does, and other windows do to it.                      *)

Untouched == UNCHANGED <<keys, view>>

Output == /\ running /\ back < MaxBack /\ back' = back + 1 /\ went' = "none"
          /\ UNCHANGED <<hasTmux, running, program, shown, alive, server, unseen>> /\ Untouched
Runs(p) == /\ running /\ program # p /\ program' = p /\ went' = "none"
           /\ UNCHANGED <<hasTmux, running, back, shown, alive, server, unseen>> /\ Untouched
SessionExits == /\ running /\ running' = FALSE /\ alive' = FALSE /\ Live /\ unseen' = FALSE /\ went' = "none"
               /\ UNCHANGED <<hasTmux, back, program, shown>> /\ Untouched

OtherMoves == /\ Shared /\ hasTmux /\ running /\ (Live \/ \E p \in 0..back : View(TRUE, p))
              /\ unseen' = shown /\ went' = "none"
              /\ UNCHANGED <<remote, shown, alive>> /\ Untouched

TypingInit ==
    /\ hasTmux \in BOOLEAN /\ running = FALSE /\ copy = FALSE /\ pos = 0 /\ back \in Lines /\ program = "shell"
    /\ shown = FALSE /\ alive = FALSE /\ focus = "hosts" /\ finds = FALSE
    /\ prefixArmed = FALSE /\ scrollArmed = FALSE /\ tmuxOffset = 0 /\ finding = FALSE /\ press = "no"
    /\ coming = FALSE /\ called = FALSE /\ unseen = FALSE /\ went = "none"

TypingNext ==
    \/ Prefix \/ Letter \/ Paste \/ ToTheList \/ ToTheBottom \/ openFind \/ LeaveFind \/ Detach \/ Attach
    \/ \E n \in {-1, 1} : ScrollKey(n) \/ Wheel(n)
    \/ \E again \in BOOLEAN : runFind(again)
    \/ \E f \in {"hosts", "session"} : Focus(f)
    \/ Press \/ Drag \/ Release \/ Copied
    \/ Output \/ \E p \in {"shell", "full", "mouse"} : Runs(p)
    \/ SessionExits \/ OtherMoves

TypingSpec == TypingInit /\ [][TypingNext]_typingVars

-----------------------------------------------------------------------------
(* What must hold.                                                         *)

TypingTypes ==
    /\ {hasTmux, running, copy, shown, alive, finds, prefixArmed, scrollArmed, finding, coming, called, unseen}
           \subseteq BOOLEAN
    /\ pos \in 0..back /\ back \in 0..MaxBack /\ program \in {"shell", "full", "mouse"}
    /\ focus \in {"hosts", "session"} /\ (focus = "session" => shown)
    /\ tmuxOffset \in 0..MaxBack /\ press \in {"no", "down", "dragged"}
    /\ went \in {"none", "shell", "copy", "dropped"}

\* pane.go:393: no input goes to copy mode for a command, whatever was scrolled, searched or
\* dragged before it: only where copy mode came on without the pane having a way to know.
ReachesTheShell == went' = "copy" => unseen

\* pane.go:86: what the pane remembers of tmux's view is where the view is, and copy mode is never
\* on unless the pane would leave it before the next key.
RemembersTheView ==
    (shown /\ InTmux /\ ~ unseen) =>
        /\ copy => Scrolled
        /\ press # "dragged" /\ ~ coming => tmuxOffset = pos

\* session.go:284, 335: what is typed after a look back is typed, and what follows a prefix that
\* was pressed never is; so a key is dropped if it was a command, or the session cannot take it.
TypedAsMeant ==
    [][Letter => (went' = "dropped" <=> called \/ focus = "hosts" \/ ~ (prefixArmed \/ alive))]_typingVars

\* The same as ReachesTheShell with nothing excused, and not so.
AllInputReachesTheShell == went # "copy"

\* select.go:147: a copy leaves the view live.  Not so of a view scrolled back again before the word
\* of the copy has come.
CopiedIsLive == [][Copied => pos = 0]_typingVars

\* session.go:370: the keyboard is on the search box while it is open.  Not so of a paste.
BoxTakesTheInput == [][finds => went' = "none"]_typingVars

\* Where the view is, is known, and so no input goes to copy mode for a command.
KnowsTheView == [][RemembersTheView' /\ ReachesTheShell]_typingVars
================================================================================
