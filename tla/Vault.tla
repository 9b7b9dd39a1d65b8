-------------------------------- MODULE Vault --------------------------------
(***************************************************************************)
(* What a credential is to whoever uses it: one thing, a kind and for one  *)
(* kind a password, saved and deleted at once.  Credential is the          *)
(* implementation, over a database and a keychain.                         *)
(***************************************************************************)
CONSTANTS Cred, Kind, Password, Nil

VARIABLES
    vault,  \* each credential that is kept
    used,   \* the ids that have been given out
    torn    \* the credentials for which all this no longer holds

Entry == [kind : Kind, password : Password \cup {Nil}]

Init == vault = [c \in Cred |-> Nil] /\ used = {} /\ torn = {}

Kept(c) == IF vault[c] = Nil THEN Nil ELSE vault[c].password

\* A credential is kept under an id never used before, or is there to be edited.
Ours(c) == UNCHANGED torn /\ used' = used \cup {c} /\ (c \in used => vault[c] # Nil)

\* A password is what was typed, or what there was when nothing is typed.
Save(c, k, p) ==
    /\ Ours(c)
    /\ k = "password" /\ p = Nil => Kept(c) # Nil
    /\ vault' = [vault EXCEPT ![c] =
           [kind |-> k, password |-> IF k # "password" THEN Nil ELSE IF p = Nil THEN Kept(c) ELSE p]]

\* The keychain would not take it.
SaveWithout(c) ==
    /\ Ours(c)
    /\ vault' = [vault EXCEPT ![c] = [kind |-> "password", password |-> Kept(c)]]

Delete(c) == vault' = [vault EXCEPT ![c] = Nil] /\ UNCHANGED <<used, torn>>

\* Its two halves come apart, and from then on anything may be the case.
Tear(c) ==
    /\ torn' = torn \cup {c}
    /\ \A d \in Cred \ {c} : vault'[d] = vault[d]
    /\ used' \in {used, used \cup {c}}

Next == \E c \in Cred : \/ Delete(c) \/ SaveWithout(c) \/ Tear(c)
                        \/ \E k \in Kind, p \in Password \cup {Nil} : Save(c, k, p)

Spec == Init /\ [][Next]_<<vault, used, torn>>
==============================================================================
