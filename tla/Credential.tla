------------------------------ MODULE Credential ------------------------------
(***************************************************************************)
(* Credentials: the record in the database (internal/store), the password  *)
(* in the operating system's keychain (internal/secret), and the form, the *)
(* list and the question of internal/ui/credential.go that keep the two    *)
(* together.  Each call of the keychain runs a program and may fail, and   *)
(* nothing spans both systems.  Vault is what they are to look like.       *)
(*                                                                         *)
(* Names and their uniqueness are in Store.  "key" stands for both kinds   *)
(* that keep no password.                                                  *)
(***************************************************************************)
CONSTANTS
    Window,       \* the windows that are open
    Cred,         \* ids
    Password,     \* what may be typed
    GetFails,     \* the keychain may refuse to be read,
    SetFails,     \* or written,
    DeleteFails,  \* or to give up an item
    Imports,      \* an import changes records meanwhile
    Kills,        \* a window may be killed at any point
    Nil

Kind == {"key", "password"}

ASSUME CredentialAssumption ==
    /\ {GetFails, SetFails, DeleteFails, Imports, Kills} \subseteq BOOLEAN
    /\ Nil \notin Password /\ Nil \notin Cred /\ Nil \notin Window /\ Nil \notin Kind
    /\ Nil \notin [kind : Kind \cup {Nil}, password : Password \cup {Nil}]

VARIABLES
    cred,       \* the store: the kind of each credential that is there
    used,       \* ids given out
    keychain,   \* the password filed under each id
    list,       \* m.d.creds
    form,       \* m.form: what is typed into the credential form
    confirm,    \* m.confirm: the credential to delete
    pc,         \* how far a window is with a save or a delete
    told,       \* what the status line says of it
    was,        \* HISTORY: the entry under each id before the save or delete under way
    torn        \* HISTORY: ids whose record and password something has pulled apart

disk   == <<cred, used, keychain>>
screen == <<list, form, confirm, told>>
ghost  == <<was, torn>>
vars   == <<disk, screen, pc, ghost>>

\* What a form says; a kind may be typed half way.
Form == [id : Cred \cup {Nil}, kind : Kind \cup {"passw"}, pw : Password \cup {Nil}]
Step == [at : {"idle", "put", "set", "erase", "forget"}, id : Cred \cup {Nil}]
Idle == [at |-> "idle", id |-> Nil]

\* The entry under an id, in both systems at once; what is in only one of them counts too.
Entry(c) == IF cred[c] = Nil /\ keychain[c] = Nil THEN Nil
            ELSE [kind |-> cred[c], password |-> keychain[c]]
Remember(c) == was' = [was EXCEPT ![c] = Entry(c)]
Forget(w)   == was' = [c \in Cred |-> IF c = pc[w].id THEN Nil ELSE was[c]]

\* Something happens to an id while another window is in the middle of changing it.
Crossed(w, c) == IF \E v \in Window \ {w} : pc[v].at # "idle" /\ pc[v].id = c THEN {c} ELSE {}
Tears(ids) == torn' = torn \cup ids

Goes(w, at, c) == pc' = [pc EXCEPT ![w] = [at |-> at, id |-> c]]
\* Done with it: back to the list, read again.
Back(w, what) ==
    /\ form' = [form EXCEPT ![w] = Nil] /\ confirm' = [confirm EXCEPT ![w] = Nil]
    /\ list' = [list EXCEPT ![w] = cred'] /\ told' = [told EXCEPT ![w] = what]
    /\ Goes(w, "idle", Nil)

-----------------------------------------------------------------------------
(* The form.                                                               *)

\* openCredentialForm, of a new credential or one of the list, and what is then typed into it.
OpenForm(w) ==
    /\ pc[w].at = "idle" /\ form[w] = Nil /\ confirm[w] = Nil
    /\ \E f \in Form : /\ f.id # Nil => list[w][f.id] # Nil
                       /\ f.kind # "password" => f.pw = Nil
                       /\ form' = [form EXCEPT ![w] = f]
    /\ told' = [told EXCEPT ![w] = ""]
    /\ UNCHANGED <<disk, list, confirm, pc, ghost>>

\* hasPassword: whether the keychain, asked now, has one.
HasPassword(c) ==
    {c # Nil /\ keychain[c] # Nil} \cup (IF GetFails THEN {FALSE} ELSE {})

\* A mistake: a kind taken as it is typed.
AnyKind(w) == TRUE
\* Credential.Valid, of the kind.
Valid(w) == form[w].kind \in Kind

\* A mistake: nothing typed taken for "as it was" whatever there was.
PresumesOne(w, has) == TRUE
\* Nothing typed and nothing stored cannot log in.
CanLogIn(w, has) == form[w].kind = "password" => form[w].pw # Nil \/ has

\* saveCredentialForm, up to the store.
Submit(w) ==
    /\ pc[w].at = "idle" /\ form[w] # Nil
    /\ \E has \in HasPassword(form[w].id) :
           IF Valid(w) /\ CanLogIn(w, has) THEN Goes(w, "put", form[w].id)
           ELSE UNCHANGED pc
    /\ UNCHANGED <<disk, screen, ghost>>

\* A mistake: the old password left when the kind has changed.
NoErase(w) == IF form[w].kind = "password" /\ form[w].pw # Nil THEN "set" ELSE "idle"
\* What is left to do in the keychain.
Then(w) == IF form[w].kind # "password" THEN "erase" ELSE IF form[w].pw # Nil THEN "set" ELSE "idle"

\* store.PutCredential: a new id, or a record that is still there.
PutCredential(w) ==
    /\ pc[w].at = "put"
    /\ \E c \in IF form[w].id = Nil THEN Cred \ used ELSE {form[w].id} :
           IF form[w].id # Nil /\ cred[c] = Nil
           THEN Goes(w, "idle", Nil) /\ UNCHANGED <<disk, screen, ghost>>
           ELSE /\ cred' = [cred EXCEPT ![c] = form[w].kind] /\ used' = used \cup {c}
                /\ Remember(c) /\ Tears(Crossed(w, c)) /\ UNCHANGED keychain
                /\ IF Then(w) = "idle"
                   THEN /\ form' = [form EXCEPT ![w] = Nil] /\ list' = [list EXCEPT ![w] = cred']
                        /\ told' = [told EXCEPT ![w] = "saved"] /\ Goes(w, "idle", Nil) /\ UNCHANGED confirm
                   ELSE Goes(w, Then(w), c) /\ UNCHANGED screen

\* A mistake: what the keychain says of a write not looked at.
Unasked(ok) == "saved"
Outcome(ok) == IF ok THEN "saved" ELSE "refused"

\* secrets.Set.
Set(w) ==
    /\ pc[w].at = "set"
    /\ \E ok \in {TRUE} \cup (IF SetFails THEN {FALSE} ELSE {}) :
           /\ keychain' = IF ok THEN [keychain EXCEPT ![pc[w].id] = form[w].pw] ELSE keychain
           /\ UNCHANGED <<cred, used>> /\ Forget(w) /\ Tears(Crossed(w, pc[w].id))
           /\ Back(w, Outcome(ok))

\* secrets.Delete: what it returns is not looked at.
Erase(w) ==
    /\ pc[w].at \in {"erase", "forget"}
    /\ \E ok \in {TRUE} \cup (IF DeleteFails THEN {FALSE} ELSE {}) :
           /\ keychain' = IF ok THEN [keychain EXCEPT ![pc[w].id] = Nil] ELSE keychain
           /\ Tears(Crossed(w, pc[w].id) \cup IF ok THEN {} ELSE {pc[w].id})
    /\ UNCHANGED <<cred, used>> /\ Forget(w)
    /\ Back(w, IF pc[w].at = "erase" THEN "saved" ELSE "")

-----------------------------------------------------------------------------
(* Deleting one, and what happens to the records from elsewhere.           *)

AskDelete(w) ==
    /\ pc[w].at = "idle" /\ form[w] = Nil /\ confirm[w] = Nil
    /\ \E c \in Cred : list[w][c] # Nil /\ confirm' = [confirm EXCEPT ![w] = c]
    /\ told' = [told EXCEPT ![w] = ""]
    /\ UNCHANGED <<disk, list, form, pc, ghost>>

Cancel(w) ==
    /\ pc[w].at = "idle" /\ (form[w] # Nil \/ confirm[w] # Nil)
    /\ form' = [form EXCEPT ![w] = Nil] /\ confirm' = [confirm EXCEPT ![w] = Nil]
    /\ UNCHANGED <<disk, list, pc, told, ghost>>

\* A mistake: the password left when the record is deleted.
ForgetsNothing == "idle"
\* What follows the record.
AfterTheRecord == "forget"

\* The confirmation's run: the record first, so that a keychain that refuses leaves nothing to remove.
Delete(w) ==
    /\ pc[w].at = "idle" /\ confirm[w] # Nil
    /\ cred' = [cred EXCEPT ![confirm[w]] = Nil]
    /\ Remember(confirm[w]) /\ Tears(Crossed(w, confirm[w])) /\ Goes(w, AfterTheRecord, confirm[w])
    /\ UNCHANGED <<used, keychain, screen>>

\* omassh import, in a terminal of its own: PutAll writes records and knows no keychain.
Import ==
    /\ Imports
    /\ \E c \in Cred, k \in Kind :
           /\ c \notin used \/ cred[c] # Nil
           /\ cred' = [cred EXCEPT ![c] = k] /\ used' = used \cup {c}
           /\ Tears(Crossed(Nil, c) \cup IF k # "password" /\ keychain[c] # Nil THEN {c} ELSE {})
    /\ UNCHANGED <<keychain, screen, pc, was>>

\* The window is killed in the middle, and opened again.
Kill(w) ==
    /\ Kills /\ pc[w].at # "idle"
    /\ Tears(IF pc[w].at \in {"erase", "forget"} THEN {pc[w].id} ELSE {})
    /\ UNCHANGED disk /\ IF pc[w].at = "put" THEN UNCHANGED was ELSE Forget(w)
    /\ Back(w, "")

Init ==
    /\ cred = [c \in Cred |-> Nil] /\ keychain = [c \in Cred |-> Nil] /\ used = {}
    /\ list = [w \in Window |-> cred] /\ told = [w \in Window |-> ""]
    /\ form = [w \in Window |-> Nil] /\ confirm = [w \in Window |-> Nil]
    /\ pc = [w \in Window |-> Idle] /\ was = [c \in Cred |-> Nil] /\ torn = {}

Next ==
    \/ Import
    \/ \E w \in Window :
           \/ OpenForm(w) \/ Submit(w) \/ PutCredential(w) \/ Set(w) \/ Erase(w)
           \/ AskDelete(w) \/ Cancel(w) \/ Delete(w) \/ Kill(w)

Spec == Init /\ [][Next]_vars

-----------------------------------------------------------------------------
(* What must hold.                                                         *)

TypeOK ==
    /\ cred \in [Cred -> Kind \cup {Nil}] /\ keychain \in [Cred -> Password \cup {Nil}] /\ used \subseteq Cred
    /\ list \in [Window -> [Cred -> Kind \cup {Nil}]] /\ form \in [Window -> Form \cup {Nil}]
    /\ confirm \in [Window -> Cred \cup {Nil}] /\ pc \in [Window -> Step]
    /\ told \in [Window -> {"", "saved", "refused"}]

\* credential.go:247: a password credential said to be saved is one that can log in.
SavedCanLogIn ==
    \A w \in Window :
        told'[w] = "saved" /\ told[w] # "saved" /\ form[w].kind = "password"
            => LET c == IF pc[w].at = "put" THEN form[w].id ELSE pc[w].id IN
                   c \in torn' \/ (c # Nil /\ keychain'[c] # Nil)

\* credential.go:300: a secret in the keychain is some credential's, so that nothing is left there
\* that nothing on this machine can reach or account for: only a keychain that will not give an
\* item up, an import, a kill or a second window on the same credential leaves one.
NoSecretIsLeft ==
    (\A w \in Window : pc[w].at = "idle")
        => \A c \in Cred : keychain[c] # Nil => cred[c] = "password" \/ c \in torn

\* The same with nothing excused: what the comment says, and not so.
NoSecretIsEverLeft ==
    (\A w \in Window : pc[w].at = "idle") => \A c \in Cred : keychain[c] # Nil => cred[c] = "password"

\* The ids some window is in the middle of changing.
Changing == {pc[w].id : w \in {v \in Window : pc[v].at \in {"set", "erase", "forget"}}}

Abstract == INSTANCE Vault WITH
    vault <- [c \in Cred |-> IF c \in Changing THEN was[c] ELSE Entry(c)],
    used  <- used \ {pc[w].id : w \in {v \in Window : /\ pc[v].at \in {"set", "erase"} /\ form[v].id = Nil
                                                      /\ pc[v].id \notin torn}}

\* A save or a delete is one step, whatever the keychain refuses to read or write and wherever a
\* save is killed, for every credential that is not torn.
IsAVault == Abstract!Spec


\* A record and its secret agree: what is said to be saved can log in, and no secret is left
\* that no record accounts for.
SecretsMatchRecords == [][SavedCanLogIn /\ NoSecretIsLeft']_vars
==============================================================================
