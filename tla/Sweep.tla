-------------------------------- MODULE Sweep --------------------------------
(***************************************************************************)
(* What the interface promises of a probe of a group: one sweep at a time, *)
(* one word about each of its hosts, and a tally of exactly those words.   *)
(* Probe is the implementation.                                            *)
(***************************************************************************)
EXTENDS Naturals

CONSTANTS Host, Groups, State

VARIABLES
    sweeping,   \* a sweep is under way
    left,       \* the hosts of it that have not been heard of
    tally,      \* how many hosts of it were found in each state
    marks       \* the last word about every host

vars == <<sweeping, left, tally, marks>>

NoTally == [s \in State |-> 0]

Init == sweeping = FALSE /\ left = {} /\ tally = NoTally /\ marks = [h \in Host |-> "unknown"]

Begin(hosts) ==
    /\ ~sweeping
    /\ sweeping' = TRUE /\ left' = hosts /\ tally' = NoTally
    /\ UNCHANGED marks

Tell(h, s) ==
    /\ h \in left
    /\ left' = left \ {h}
    /\ tally' = [tally EXCEPT ![s] = @ + 1]
    /\ marks' = [marks EXCEPT ![h] = s]
    /\ UNCHANGED sweeping

End ==
    /\ sweeping /\ left = {}
    /\ sweeping' = FALSE
    /\ UNCHANGED <<left, tally, marks>>

Word == \E h \in Host, s \in State : Tell(h, s)

Next == (\E hosts \in Groups : Begin(hosts)) \/ Word \/ End

Spec == Init /\ [][Next]_vars /\ WF_vars(Word \/ End)
==============================================================================
